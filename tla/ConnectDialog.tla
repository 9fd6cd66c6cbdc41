--------------------------- MODULE ConnectDialog ---------------------------
(***************************************************************************)
(* The connections page: a list of suggestions while nothing is connected, *)
(* the dialog in which an integration is chosen and perhaps a form filled  *)
(* in, and the connecting itself: a session, a popup of the provider, and  *)
(* a POST that saves the connection.  The page is a branch on whether      *)
(* anything is connected, and each branch mounts a dialog of its own.      *)
(***************************************************************************)
EXTENDS Naturals, FiniteSets

CONSTANTS
    Integrations, NoOne,
    Plain,          \* those that need no form
    MaxConnects

ASSUME ConnectAssumption == Plain \subseteq Integrations /\ MaxConnects \in Nat

Attempt == 1 .. MaxConnects

VARIABLES
    saved,      \* the integrations the API holds a connection of
    listed,     \* those of the page's list
    marked,     \* those the dialog marks as connected, by a list it reads itself
    fetching,   \* whether the list is being read again
    addOpen, preSelected,
    selected,   \* selectedIntegration, of the dialog that is mounted
    typed,      \* the integration the form's secret was typed for, or NoOne
    connecting, \* connectingId
    heard,      \* the attempt whose onSuccess, given to mutate, is still heard
    step,       \* "unsent", "session", "popup", "save", "done", "failed", "over"
    of,         \* the integration of an attempt
    secret,     \* the integration its secret was typed for
    attempts

dialogState == <<addOpen, preSelected, selected, typed>>
attemptVars == <<connecting, heard, step, of, secret, attempts>>
listVars == <<saved, listed, marked, fetching>>
connectVars == <<listVars, dialogState, attemptVars>>

ConnectTypeOK ==
    /\ saved \subseteq Integrations /\ listed \subseteq Integrations /\ marked \subseteq Integrations
    /\ fetching \in {"idle", "sent"}
    /\ addOpen \in BOOLEAN
    /\ {preSelected, selected, typed, connecting} \subseteq Integrations \cup {NoOne}
    /\ heard \in Attempt \cup {NoOne}
    /\ step \in [Attempt -> {"unsent", "session", "popup", "save", "done", "failed", "over"}]
    /\ of \in [Attempt -> Integrations \cup {NoOne}]
    /\ secret \in [Attempt -> Integrations \cup {NoOne}]
    /\ attempts \in 0 .. MaxConnects

ConnectAtRest ==
    /\ saved = {} /\ listed = {} /\ marked = {} /\ fetching = "idle"
    /\ addOpen = FALSE /\ preSelected = NoOne /\ selected = NoOne /\ typed = NoOne
    /\ connecting = NoOne /\ heard = NoOne
    /\ step = [a \in Attempt |-> "unsent"]
    /\ of = [a \in Attempt |-> NoOne] /\ secret = [a \in Attempt |-> NoOne]
    /\ attempts = 0

needsForm(i) == i \notin Plain

Empty == listed = {}

-----------------------------------------------------------------------------
(* useConnectIntegration                                                   *)

\* connect: onMutate marks the integration before anything is sent.
Connect(i, typedFor) ==
    /\ attempts < MaxConnects
    /\ LET a == attempts + 1
       IN  /\ step' = [step EXCEPT ![a] = "session"]
           /\ of' = [of EXCEPT ![a] = i]
           /\ secret' = [secret EXCEPT ![a] = typedFor]
           /\ heard' = a
           /\ attempts' = a
    /\ connecting' = i
    /\ UNCHANGED listVars

\* The session is made, the popup comes back, the connection is saved: each may
\* fail, and the popup may be closed.  The API saves a connection of an
\* integration that has one already.
Advance(a) ==
    /\ step[a] \in {"session", "popup", "save"}
    /\ \/ /\ step' = [step EXCEPT ![a] = CASE @ = "session" -> "popup"
                                           [] @ = "popup"   -> "save"
                                           [] @ = "save"    -> "done"]
          /\ saved' = IF step[a] = "save" THEN saved \cup {of[a]} ELSE saved
       \/ /\ step' = [step EXCEPT ![a] = "failed"]
          /\ saved' \in {saved, IF step[a] = "save" THEN saved \cup {of[a]} ELSE saved}
    /\ UNCHANGED <<listed, marked, fetching, dialogState, connecting, heard, of, secret, attempts>>

\* Mutated: connectingId is cleared when the connection is saved, not when the
\* attempt is settled.
SettleIfSaved(a) ==
    /\ step[a] \in {"done", "failed"}
    /\ step' = [step EXCEPT ![a] = "over"]
    /\ of' = [of EXCEPT ![a] = NoOne] /\ secret' = [secret EXCEPT ![a] = NoOne]
    /\ connecting' = IF step[a] = "done" THEN NoOne ELSE connecting
    /\ fetching' = IF step[a] = "done" THEN "sent" ELSE fetching
    /\ heard' = IF heard = a THEN NoOne ELSE heard
    /\ IF step[a] = "done" /\ heard = a
       THEN addOpen' = FALSE /\ preSelected' = NoOne /\ typed' = NoOne
       ELSE UNCHANGED <<addOpen, preSelected, typed>>
    /\ UNCHANGED <<saved, listed, marked, selected, attempts>>

\* onSuccess and onSettled of the hook, then the page's own onSuccess, which
\* closes the dialog but leaves the integration selected in it.
Settle(a) ==
    /\ step[a] \in {"done", "failed"}
    /\ step' = [step EXCEPT ![a] = "over"]
    /\ of' = [of EXCEPT ![a] = NoOne] /\ secret' = [secret EXCEPT ![a] = NoOne]
    /\ connecting' = NoOne
    /\ fetching' = IF step[a] = "done" THEN "sent" ELSE fetching
    /\ heard' = IF heard = a THEN NoOne ELSE heard
    /\ IF step[a] = "done" /\ heard = a
       THEN addOpen' = FALSE /\ preSelected' = NoOne /\ typed' = NoOne
       ELSE UNCHANGED <<addOpen, preSelected, typed>>
    /\ UNCHANGED <<saved, listed, marked, selected, attempts>>

-----------------------------------------------------------------------------
(* ConnectionsEmpty                                                        *)

\* A suggestion that needs no form.
ConnectSuggested(i) ==
    /\ Empty /\ ~addOpen /\ connecting = NoOne /\ ~needsForm(i)
    /\ Connect(i, NoOne)
    /\ UNCHANGED dialogState

\* handleShowFormFor
ShowFormFor(i) ==
    /\ Empty /\ ~addOpen /\ connecting = NoOne /\ needsForm(i)
    /\ preSelected' = i /\ addOpen' = TRUE
    /\ UNCHANGED <<listVars, selected, typed, attemptVars>>

ShowAll ==
    /\ ~addOpen
    /\ addOpen' = TRUE
    /\ UNCHANGED <<listVars, preSelected, selected, typed, attemptVars>>

-----------------------------------------------------------------------------
(* AddConnectionDialog                                                     *)

\* The effect that opens the form of what was chosen on the page.
PreSelect ==
    /\ preSelected # NoOne /\ selected = NoOne
    /\ selected' = preSelected
    /\ UNCHANGED <<listVars, addOpen, preSelected, typed, attemptVars>>

\* isDisabled
Enabled(i) == i \notin marked /\ connecting = NoOne

\* handleIntegrationClick; the list is shown once the effect has run.
Click(i) ==
    /\ addOpen /\ selected = NoOne /\ preSelected = NoOne /\ Enabled(i)
    /\ IF needsForm(i)
       THEN /\ selected' = i
            /\ UNCHANGED <<listVars, addOpen, preSelected, typed, attemptVars>>
       ELSE Connect(i, NoOne) /\ UNCHANGED dialogState

\* handleBack: the form is unmounted.
BackToList ==
    /\ addOpen /\ selected # NoOne
    /\ selected' = NoOne /\ preSelected' = NoOne /\ typed' = NoOne
    /\ UNCHANGED <<listVars, addOpen, attemptVars>>

\* handleOpenChange
Dismiss ==
    /\ addOpen
    /\ addOpen' = FALSE /\ selected' = NoOne /\ preSelected' = NoOne /\ typed' = NoOne
    /\ UNCHANGED <<listVars, attemptVars>>

-----------------------------------------------------------------------------
(* CredentialsForm                                                         *)

\* All its fields, until isValid holds; a form without fields counts as filled in.
FillIn ==
    /\ addOpen /\ selected # NoOne /\ typed = NoOne
    /\ typed' = selected
    /\ UNCHANGED <<listVars, addOpen, preSelected, selected, attemptVars>>

\* handleFormSubmit; the button is disabled while this integration connects.
SubmitForm ==
    /\ addOpen /\ selected # NoOne /\ typed # NoOne /\ connecting # selected
    /\ Connect(selected, typed)
    /\ UNCHANGED dialogState

-----------------------------------------------------------------------------
(* The lists are read again, or the answer is an error.                    *)

\* The dialog's own, read while it is open.
Marked ==
    /\ addOpen
    /\ marked' = saved
    /\ UNCHANGED <<saved, listed, fetching, dialogState, attemptVars>>

\* The page's.  When it stops being empty the page mounts its other branch, and
\* with it another dialog.
Refetched ==
    /\ fetching = "sent"
    /\ fetching' = "idle"
    /\ listed' \in {listed, saved}
    /\ IF Empty /\ listed' # {}
       THEN selected' = NoOne /\ typed' = NoOne
       ELSE UNCHANGED <<selected, typed>>
    /\ UNCHANGED <<saved, marked, addOpen, preSelected, attemptVars>>

ConnectNext ==
    \/ \E a \in Attempt : Advance(a) \/ Settle(a)
    \/ \E i \in Integrations : ConnectSuggested(i) \/ ShowFormFor(i) \/ Click(i)
    \/ ShowAll \/ PreSelect \/ BackToList \/ Dismiss \/ FillIn \/ SubmitForm
    \/ Marked \/ Refetched

-----------------------------------------------------------------------------
(* Properties                                                              *)

UnderWay(a) == step[a] \in {"session", "popup", "save", "done", "failed"}

\* What the page shows as connecting, and disables everything for, is the last
\* thing that was started and is still under way, however it ends; and the
\* secret an attempt carries was typed for its integration, although the dialog
\* is closed, opened and mounted anew meanwhile.
ConnectingIsReal ==
    /\ connecting # NoOne => attempts # 0 /\ UnderWay(attempts) /\ of[attempts] = connecting
    /\ \A a \in Attempt : UnderWay(a) => secret[a] \in {NoOne, of[a]}
=============================================================================
