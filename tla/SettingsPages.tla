--------------------------- MODULE SettingsPages ---------------------------
(***************************************************************************)
(* The lists of the web console (apps/web/app/w), in the vocabulary of     *)
(* AdminPages.  Their requests are confirmed in ConfirmDialog, which stays *)
(* open until the answer and may want a word typed.                        *)
(***************************************************************************)
EXTENDS AdminPages

\* Button spreads its props after its own disabled={loading || ...}: a caller
\* that passes `disabled`, as ConfirmDialog does, overrides what loading says.
\* given is the disabled prop while a request runs, {} when there is none.
Disabled(loading, given) == IF given = {} THEN loading ELSE TRUE \in given

\* The guard of a request whose button shows `loading` and is given `disabled`.
Guard(given) == IF Disabled(TRUE, given) THEN "act" ELSE "none"

\* ConfirmDialog: its button does not close it, and is given
\* disabled={!isConfirmEnabled}, which a request under way does not change.
ConfirmCloses == "stays"
ConfirmButton == {FALSE}

\* A call whose callbacks are given to mutate.
OfLast(call) == [call EXCEPT !.ofLast = {"close", "refresh"}]
\* One whose refetch is the hook's own, and only the rest given to mutate.
ClosesOfLast(call) == [call EXCEPT !.ofLast = {"close"}]
Patching(call) == [OfLast(call) EXCEPT !.patches = TRUE]

-----------------------------------------------------------------------------
(* A key that is revoked or deleted is filtered out of the cached list;    *)
(* nothing is refetched.                                                   *)

KeysQuery == [all |-> Always]

\* The menus' "Deactivate" does nothing.
ApiKeyActions == {Item("delete", Always, ConfirmCloses)}

KeysMenu == ApiKeyActions

KeysCalls == [delete |-> Patching(Removal(Guard(ConfirmButton), {"delete"}, Answers, {}))]

CredentialActions == {Item("delete", Always, ConfirmCloses)}

LlmKeysMenu == CredentialActions

LlmKeysCalls == [delete |-> Patching(Removal(Guard(ConfirmButton), {"delete"}, Answers, {}))]

-----------------------------------------------------------------------------
(* Skills of the workspace: archived, published, taken back.               *)

SkillActions == {Item("archive", Always, ConfirmCloses), Item("publish", Without("public"), ConfirmCloses),
                 Item("unpublish", With("public"), ConfirmCloses)}

OwnSkillsMenu == SkillActions

OwnSkillsCalls ==
    [archive   |-> OfLast(Removal(Guard(ConfirmButton), {"archive"}, Answers, {"ok"})),
     publish   |-> OfLast(Call({"public"}, {}, Guard(ConfirmButton), {"publish"},
                               Answers, {"ok"})),
     unpublish |-> OfLast(Call({}, {"public"}, Guard(ConfirmButton), {"unpublish"},
                               Answers, {"ok"}))]

-----------------------------------------------------------------------------
(* Sandbox templates of the workspace: the Build buttons show the one      *)
(* mutation's loading and are given disabled={build_status === "building"}.*)

OwnTemplatesMenu == {Item("build", [needs |-> {}, bars |-> {"ready", "building"}], "no"),
                     Item("delete", Always, ConfirmCloses)}

OwnTemplatesCalls ==
    [build  |-> Call({"building"}, {"failed"}, Guard({FALSE}), {}, Answers, {"ok"}),
     delete |-> ClosesOfLast(Removal(Guard(ConfirmButton), {"delete"}, Answers, {"ok"}))]

-----------------------------------------------------------------------------
(* Connections and agents                                                  *)

ConnectionActions == {Item("delete", Always, ConfirmCloses)}

ConnectionsMenu == ConnectionActions \cup {Item("configured", With("unconfigured"), "stays")}

Disconnect == OfLast(Removal(Guard(ConfirmButton), {"delete"}, Answers, {"ok"}))

\* The dialog of a webhook is not ConfirmDialog: its button is given disabled={loading}.
WebhookConfigDialog == Guard({TRUE})

\* It closes only when the call succeeds.
ConnectionsCalls ==
    [delete     |-> Disconnect,
     configured |-> OfLast(Call({}, {"unconfigured"}, WebhookConfigDialog, {"configured"},
                                {"ok"}, {"ok"}))]

AgentTableMenu == {Item("delete", Always, ConfirmCloses)}

AgentTableCalls ==
    [delete |-> OfLast(Removal(Guard(ConfirmButton), {"delete"}, Answers, {"ok"}))]
=============================================================================
