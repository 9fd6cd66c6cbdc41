----------------------------- MODULE AdminPages -----------------------------
(***************************************************************************)
(* The list pages of the admin console (apps/admin/app/dashboard), as      *)
(* data.  Every page is the same machine, ListPage: a table of rows, a     *)
(* menu on each, requests to the API, and a refetch.  What differs is      *)
(*   Query   the rows a tab asks the API for                               *)
(*   Menu    the items a row offers in the state it is shown in, and how   *)
(*           an item is confirmed                                          *)
(*   Calls   what a request does to the row, what is disabled while it     *)
(*           runs, when its dialog closes, and when the list is refetched  *)
(*   Form    what the edit dialog sends                                    *)
(*   Dialogs how the dialogs the menu opens close                          *)
(* The state of a row is the set of flags it carries.                      *)
(***************************************************************************)

(* Vocabulary                                                              *)

Always      == [needs |-> {}, bars |-> {}]
With(f)    == [needs |-> {f}, bars |-> {}]
Without(f) == [needs |-> {}, bars |-> {f}]

\* A menu item: shown when `when` holds of the row; `ask` says whether it
\* sends at once ("no") or opens a dialog, and how that one closes: at the
\* click of its button ("click"), after the answer ("stays"), or when the form
\* in it is saved ("form").
Item(act, when, ask) == [act |-> act, when |-> when, ask |-> ask]

\* A request: the flags it sets and clears on the row, or its removal; `flag`
\* is what guards it: the id of the row it runs on ("row"), the mutation's
\* isPending ("act"), or nothing ("none"); `settle` the answers after which
\* its handler goes on to `closes` (the dialogs it closes) and to clear the
\* guard, `refresh` those after which the list is refetched; `patches` whether
\* the row is filtered out of the cached list instead; `ofLast` what only the
\* last request of a mutation does, the callbacks given to mutate being those
\* of the last call.
Answers  == {"ok", "refused", "lost"}
Resolved == {"ok", "refused"}

Call(sets, clears, flag, closes, settle, refresh) ==
    [sets |-> sets, clears |-> clears, removes |-> FALSE, flag |-> flag,
     closes |-> closes, settle |-> settle, refresh |-> refresh,
     patches |-> FALSE, ofLast |-> {}]

Removal(flag, closes, settle, refresh) ==
    [Call({}, {}, flag, closes, settle, refresh) EXCEPT !.removes = TRUE]

\* An edit dialog: whether the PUT carries the row's state along with its
\* text, whether opening it forgets a save under way, and whether the menu
\* that opens it is disabled with the row.
FormOf(carries, forgets, locked) ==
    [carries |-> carries, forgets |-> forgets, locked |-> locked]

-----------------------------------------------------------------------------
(* Users                                                                   *)

UsersQuery == [all |-> Always, confirmed |-> With("confirmed"),
               unconfirmed |-> Without("confirmed"), banned |-> With("banned")]

UsersDialogs == [edit |-> "form", ban |-> "stays", delete |-> "click"]

UsersMenu ==
    {Item("edit", Always, UsersDialogs.edit), Item("confirm", Without("confirmed"), "no"),
     Item("unban", With("banned"), "no"), Item("ban", Without("banned"), UsersDialogs.ban),
     Item("delete", Always, UsersDialogs.delete)}

UsersCalls ==
    [ban     |-> Call({"banned"}, {}, "row", {"ban"}, Answers, Resolved),
     unban   |-> Call({}, {"banned"}, "row", {}, Answers, Resolved),
     confirm |-> Call({"confirmed"}, {}, "row", {}, Answers, Resolved),
     delete  |-> Removal("row", {"delete"}, Answers, Resolved)]

UsersForm == FormOf(FALSE, FALSE, TRUE)

-----------------------------------------------------------------------------
(* Organizations                                                           *)

OrgsQuery == [all |-> Always, active |-> Without("inactive"), inactive |-> With("inactive")]

OrgsDialogs == [edit |-> "form", delete |-> "click"]

OrgsMenu ==
    {Item("edit", Always, OrgsDialogs.edit), Item("deactivate", Without("inactive"), "no"),
     Item("activate", With("inactive"), "no"), Item("delete", Always, OrgsDialogs.delete)}

OrgsCalls ==
    [activate   |-> Call({}, {"inactive"}, "row", {}, Answers, Resolved),
     deactivate |-> Call({"inactive"}, {}, "row", {}, Answers, Resolved),
     delete     |-> Removal("row", {"delete"}, Answers, Resolved)]

OrgsForm == FormOf(TRUE, FALSE, TRUE)

-----------------------------------------------------------------------------
(* Agents: the confirm dialog is one for both actions.                     *)

AgentsQuery == [all |-> Always, active |-> Without("archived"), archived |-> With("archived")]

AgentsDialogs == [edit |-> "form", archive |-> "click", delete |-> "click"]

AgentsMenu ==
    {Item("edit", Always, AgentsDialogs.edit), Item("delete", Always, AgentsDialogs.delete),
     Item("archive", Without("archived"), AgentsDialogs.archive)}

AgentsCalls ==
    [archive |-> Call({"archived"}, {}, "none", {"archive", "delete"}, Resolved, Resolved),
     delete  |-> Removal("none", {"archive", "delete"}, Resolved, Resolved)]

AgentsForm == FormOf(TRUE, FALSE, FALSE)

-----------------------------------------------------------------------------
(* Skills                                                                  *)

SkillsQuery == [all |-> Always, draft |-> With("draft"), published |-> With("published"),
                archived |-> With("archived")]

SkillsDialogs == [edit |-> "form", delete |-> "click"]

SkillsMenu ==
    {Item("edit", Always, SkillsDialogs.edit), Item("delete", Always, SkillsDialogs.delete)}

SkillsCalls == [delete |-> Removal("none", {"delete"}, Resolved, Resolved)]

SkillsForm == FormOf(TRUE, FALSE, FALSE)

-----------------------------------------------------------------------------
(* Sandbox templates: openEditDialog resets the update mutation, so the    *)
(* Save button forgets a PUT that is still under way.                      *)

TemplatesQuery == [all |-> Always, ready |-> With("ready"), pending |-> With("pending"),
                   building |-> With("building"), failed |-> With("failed")]

TemplatesDialogs == [edit |-> "form", delete |-> "click"]

TemplatesMenu ==
    {Item("edit", Always, TemplatesDialogs.edit), Item("delete", Always, TemplatesDialogs.delete)}

TemplatesCalls == [delete |-> Removal("act", {"delete"}, {"ok"}, {"ok"})]

TemplatesForm == FormOf(FALSE, TRUE, FALSE)

-----------------------------------------------------------------------------
(* Platform integrations                                                   *)

IntegrationsQuery == [all |-> Always]

IntegrationsDialogs == [edit |-> "form"]

IntegrationsMenu ==
    {Item("edit", Always, IntegrationsDialogs.edit), Item("delete", Always, "click")}

IntegrationsCalls == [delete |-> Removal("row", {}, Answers, Resolved)]

IntegrationsForm == FormOf(FALSE, FALSE, FALSE)

-----------------------------------------------------------------------------
(* Sandboxes                                                               *)

SandboxesQuery == [all |-> Always, running |-> With("running"), stopped |-> With("stopped"),
                   error |-> With("error")]

SandboxesDialogs == [stop |-> "click", delete |-> "click"]

SandboxesMenu == {Item("stop", With("running"), SandboxesDialogs.stop),
                  Item("delete", Always, SandboxesDialogs.delete)}

SandboxesCalls ==
    [stop   |-> Call({"stopped"}, {"running"}, "none", {"stop", "delete"}, Resolved, Resolved),
     delete |-> Removal("none", {"stop", "delete"}, Resolved, Resolved)]

-----------------------------------------------------------------------------
(* Credentials, API keys and proxy tokens can only be revoked here, and    *)
(* conversations ended.                                                    *)

RevokedOrNot == [all |-> Always, active |-> Without("revoked"), revoked |-> With("revoked")]

CredentialsQuery == RevokedOrNot
ApiKeysQuery     == RevokedOrNot
TokensQuery      == RevokedOrNot

CredentialsMenu == {Item("revoke", Without("revoked"), "click")}
ApiKeysMenu     == {Item("revoke", Without("revoked"), "click")}
TokensMenu      == {Item("revoke", Without("revoked"), "click")}

CredentialsCalls == [revoke |-> Call({"revoked"}, {}, "row", {}, Answers, Resolved)]

ApiKeysCalls == [revoke |-> Call({"revoked"}, {}, "row", {}, Answers, Resolved)]

TokensCalls == [revoke |-> Call({"revoked"}, {}, "row", {}, Answers, Resolved)]

ConversationsQuery == [all |-> Always, active |-> With("active"), ended |-> With("ended"),
                       error |-> With("error")]

ConversationsDialogs == [end |-> "click"]

ConversationsMenu == {Item("end", With("active"), ConversationsDialogs.end)}

ConversationsCalls == [end |-> Call({"ended"}, {"active"}, "none", {"end"}, Resolved, Resolved)]

-----------------------------------------------------------------------------
(* Custom domains and workspace storage: a dialog in each row, and nothing *)
(* that says a request is under way.                                       *)

DomainsQuery == [all |-> Always, verified |-> With("verified"), unverified |-> Without("verified")]

DomainsMenu == {Item("delete", Always, "click")}

DomainsCalls == [delete |-> Removal("none", {}, Resolved, Resolved)]

StorageQuery == [all |-> Always]

StorageMenu == {Item("delete", Always, "click")}

StorageCalls == [delete |-> Removal("none", {}, Resolved, Resolved)]
=============================================================================
