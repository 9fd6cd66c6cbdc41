-------------------------- MODULE IntegrationPicker --------------------------
(***************************************************************************)
(* Which connections an agent may use, and which of their actions: the     *)
(* selection behind the wizard's "Connect integrations" step and behind    *)
(* the edit panel's "Manage integrations" dialog.  A list of connections   *)
(* opens the actions of one of them; opening it also selects it.  What a   *)
(* connection without an entry in selectedActions has is the empty set.    *)
(***************************************************************************)
EXTENDS AgentParts

CONSTANTS Connections, Actions

VARIABLES
    chosen,     \* selectedIntegrations
    actions,    \* selectedActions
    detail      \* detailConnectionId

pickerVars == <<chosen, actions, detail>>

NoActions == [c \in Connections |-> {}]

PickerTypeOK ==
    /\ chosen \subseteq Connections
    /\ actions \in [Connections -> SUBSET Actions]
    /\ detail \in Connections \cup {None}

EmptyPicker == chosen = {} /\ actions = NoActions /\ detail = None

ClearPicker == chosen' = {} /\ actions' = NoActions /\ detail' = None

\* A bug to catch: removing a connection keeps the actions picked for it.
RemoveKeepsActions(c) == chosen' = chosen \ {c} /\ UNCHANGED actions

\* The half of toggleIntegration that takes a connection out.
Remove(c) == chosen' = chosen \ {c} /\ actions' = [actions EXCEPT ![c] = {}]

OpenDetail(c) ==
    /\ detail = None
    /\ chosen' = chosen \cup {c} /\ detail' = c
    /\ UNCHANGED actions

CloseDetail == detail # None /\ detail' = None /\ UNCHANGED <<chosen, actions>>

RemoveIntegration == detail # None /\ Remove(detail) /\ detail' = None

ToggleAction(a) ==
    /\ detail # None
    /\ actions' = [actions EXCEPT ![detail] = IF a \in @ THEN @ \ {a} ELSE @ \cup {a}]
    /\ UNCHANGED <<chosen, detail>>

\* "Select all" takes every action, unless every action is taken already.
ToggleAll ==
    /\ detail # None
    /\ actions' = [actions EXCEPT ![detail] = IF @ = Actions THEN {} ELSE Actions]
    /\ UNCHANGED <<chosen, detail>>

\* The view of one connection's actions.
ActionDetailView ==
    \/ \E a \in Actions : ToggleAction(a)
    \/ ToggleAll
    \/ CloseDetail
    \/ RemoveIntegration

(***************************************************************************)
(* No action is granted through a connection that is not selected: neither *)
(* the body of a POST nor that of a PUT can name one, whatever the order   *)
(* of opening, toggling and removing.                                      *)
(***************************************************************************)
NoStrayActions == \A c \in Connections : actions[c] # {} => c \in chosen
=============================================================================
