---------------------------- MODULE CreateForms ----------------------------
(***************************************************************************)
(* The dialogs of both consoles in which something new is made, as data.   *)
(* Every one is the same machine, CreateDialog: fields, perhaps for a      *)
(* provider chosen first, and a POST.  What differs is                     *)
(*   Clears   the events at which the fields are emptied                   *)
(*   Submit   what guards the POST and what its answer does                *)
(*   Button   what disables the button while it runs                       *)
(***************************************************************************)
EXTENDS SettingsPages

\* The POST: `chooses` says whether it is for a provider chosen first, `needs`
\* whether it wants its fields filled, `frees` the answers after which the
\* dialog's own flag is cleared, `ofLast` whether only the last request of the
\* mutation is heard, `shows` whether the answer is shown in the dialog (it is
\* closed otherwise), `forgets` the events at which a request under way is
\* forgotten.
Post(chooses, needs, ofLast, shows) ==
    [chooses |-> chooses, needs |-> needs, frees |-> {}, ofLast |-> ofLast,
     shows |-> shows, forgets |-> {}]
Freed(post, answers) == [post EXCEPT !.frees = answers]

-----------------------------------------------------------------------------
(* An API key: shown once, until the dialog is closed.                     *)

ApiKeysClears == {"close"}
ApiKeysSubmit == Post(FALSE, TRUE, TRUE, TRUE)
ApiKeysButton == Guard({FALSE})

-----------------------------------------------------------------------------
(* Skills: of the workspace, and for every organization.                   *)

OwnSkillsClears == {"close", "done"}
OwnSkillsSubmit == Post(FALSE, TRUE, TRUE, FALSE)
OwnSkillsButton == Guard({FALSE})

AdminSkillsClears == {"done"}
AdminSkillsSubmit == Freed(Post(FALSE, TRUE, FALSE, FALSE), Answers)
AdminSkillsButton == "own"

-----------------------------------------------------------------------------
(* A workspace: what is thrown leaves the flag up.                         *)

WorkspaceClears == {"close", "done"}
WorkspaceSubmit == Freed(Post(FALSE, TRUE, FALSE, FALSE), Resolved)
WorkspaceButton == "own"

-----------------------------------------------------------------------------
(* An integration of the platform: a provider, then its credentials.       *)

\* The credentials; the meta field is not emptied when another is chosen.
IntegrationsClears == {"open", "choose"}

\* Mutated: opening the dialog clears the flag along with the fields.
IntegrationsFreshSubmit ==
    [Freed(Post(TRUE, FALSE, FALSE, FALSE), Answers) EXCEPT !.forgets = {"open"}]

IntegrationsSubmit == Freed(Post(TRUE, FALSE, FALSE, FALSE), Answers)
IntegrationsButton == "own"

-----------------------------------------------------------------------------
(* A public template: dismissing the dialog resets the mutation, its       *)
(* Cancel button does not.                                                 *)

TemplatesClears == {"done"}
TemplatesSubmit == [Post(FALSE, FALSE, FALSE, FALSE) EXCEPT !.forgets = {"dismiss"}]
TemplatesButton == "act"

-----------------------------------------------------------------------------
(* An LLM key: a provider, then the key.                                   *)

\* Mutated: choosing a provider leaves the key that was typed.
LlmKeysKeep == {"close", "done"}

LlmKeysClears == {"choose", "close", "done"}
LlmKeysSubmit == Post(TRUE, TRUE, TRUE, FALSE)
LlmKeysButton == Guard({FALSE})
=============================================================================
