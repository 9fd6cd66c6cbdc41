----------------------------- MODULE EditDialogs -----------------------------
(***************************************************************************)
(* The two dialogs of the edit panel in which an agent's connections and   *)
(* triggers are changed.  What they confirm goes to the panel's form; its  *)
(* Save sends the form as it is.  The agent may be read again while the    *)
(* panel is open: the form is then filled anew, and the dialog over it     *)
(* stays.  What the API holds is any agent it accepts.                     *)
(***************************************************************************)
EXTENDS TriggerFlow

VARIABLES
    panelOpen,  \* whether the edit panel is open
    given,      \* the form's integrations: the connections the agent has, with their actions
    dialog,     \* "none", "integrations", "triggers"
    editing     \* editingIndex, 0 for a trigger being added

dialogVars == <<panelOpen, given, dialog, editing>>

Integrations == UNION {[C -> SUBSET Actions] : C \in SUBSET Connections}

EditTypeOK ==
    /\ panelOpen \in BOOLEAN
    /\ given \in Integrations
    /\ dialog \in {"none", "integrations", "triggers"}
    /\ editing \in 0 .. MaxTriggers

NoIntegrations == [c \in {} |-> {}]

EditInit == panelOpen = FALSE /\ given = NoIntegrations /\ dialog = "none" /\ editing = 0

\* parseAgentIntegrations and parseAgentTriggers, of an agent with one trigger or none.
FillForm == given' \in Integrations /\ \E n \in {0, 1} : triggers' \in [1 .. n -> Trigger]

ShowPanel ==
    /\ ~panelOpen /\ panelOpen' = TRUE /\ FillForm
    /\ UNCHANGED <<pickerVars, flowVars, dialog, editing>>

HidePanel ==
    /\ panelOpen /\ dialog = "none"
    /\ panelOpen' = FALSE /\ given' = NoIntegrations /\ triggers' = <<>>
    /\ UNCHANGED <<pickerVars, flowVars, dialog, editing>>

\* The effect that fills the manage dialog: when it opens, and when the form's integrations change.
Seed(g) ==
    /\ chosen' = DOMAIN g /\ detail' = None
    /\ actions' = [c \in Connections |-> IF c \in DOMAIN g THEN g[c] ELSE {}]

\* The effect that fills the form runs again for an agent read again.
AgentReadAgain ==
    /\ panelOpen /\ FillForm
    /\ IF dialog = "integrations" THEN Seed(given') ELSE UNCHANGED pickerVars
    /\ UNCHANGED <<flowVars, panelOpen, dialog, editing>>

\* The cross of a connection in the panel; its triggers stay.
RemoveFromPanel ==
    /\ panelOpen /\ dialog = "none"
    /\ \E c \in DOMAIN given : given' = [x \in DOMAIN given \ {c} |-> given[x]]
    /\ UNCHANGED <<pickerVars, flowVars, triggers, panelOpen, dialog, editing>>

-----------------------------------------------------------------------------
(* ManageIntegrationsDialog                                                *)

OpenManage ==
    /\ panelOpen /\ dialog = "none"
    /\ dialog' = "integrations" /\ Seed(given)
    /\ UNCHANGED <<flowVars, triggers, panelOpen, given, editing>>

\* The dialog has its own copies of the wizard's functions.
OpenActions == \E c \in Connections : OpenDetail(c)

ToggleActions == ToggleAll \/ \E a \in Actions : ToggleAction(a)

LeaveActions == CloseDetail \/ RemoveIntegration

ManageIntegrationsDialog ==
    /\ dialog = "integrations"
    /\ OpenActions \/ ToggleActions \/ LeaveActions
    /\ UNCHANGED <<flowVars, triggers, dialogVars>>

\* Saved, or closed without saving.  What the dialog held is filled again when it opens.
LeaveManage ==
    /\ dialog = "integrations"
    /\ \/ detail = None /\ given' = [c \in chosen |-> actions[c]]
       \/ UNCHANGED given
    /\ dialog' = "none" /\ ClearPicker
    /\ UNCHANGED <<flowVars, triggers, panelOpen, editing>>

-----------------------------------------------------------------------------
(* EditTriggersDialog                                                      *)

OpenTriggers ==
    /\ panelOpen /\ dialog = "none" /\ dialog' = "triggers"
    /\ UNCHANGED <<pickerVars, flowVars, triggers, panelOpen, given, editing>>

ResetFlowState(v) ==
    /\ view' = v /\ picked' = None /\ events' = NoEvents /\ configuring' = None /\ editing' = 0
    /\ rows' = <<>> /\ custom' = 0

HandleAddClick == view = "home" /\ ResetFlowState("connections") /\ UNCHANGED triggers

\* Every event of the trigger starts with the trigger's filter.
HandleEditClick(i) ==
    /\ view = "home" /\ NavigateTo("triggers")
    /\ editing' = i /\ picked' = triggers[i].connection /\ configuring' = None
    /\ events' = [e \in triggers[i].keys |-> triggers[i].filter]
    /\ UNCHANGED triggers

TriggerListView ==
    \/ HandleAddClick
    \/ \E i \in DOMAIN triggers :
        \/ HandleEditClick(i)
        \/ view = "home" /\ RemoveTrigger(i) /\ UNCHANGED <<flowVars, editing>>

\* A trigger being edited has one filter for all its events.
ConfirmForAll ==
    /\ view = "conditions" /\ configuring # None
    /\ events' = [e \in DOMAIN events |-> ConfirmedFilter]
    /\ view' = "triggers" /\ configuring' = None /\ rows' = <<>> /\ custom' = 0
    /\ UNCHANGED <<picked, triggers>>

ConfirmConditions == IF editing # 0 THEN ConfirmForAll ELSE HandleConfirmConditions

BackFromTriggers ==
    /\ view = "triggers" /\ UNCHANGED triggers
    /\ \/ editing # 0 /\ ResetFlowState("home")
       \/ editing = 0 /\ NavigateTo("connections") /\ UNCHANGED <<picked, events, configuring, editing>>

\* The one trigger an edited trigger becomes: its filter is that of the first event that has one.
EditedTrigger ==
    LET filters == {events[e] : e \in DOMAIN events} \ {None}
    IN  {TriggerOf(DOMAIN events, f) : f \in IF filters = {} THEN {None} ELSE filters}

\* updateTrigger: past the end of the list, which may have shrunk, the trigger is added.
UpdateTrigger(i, t) ==
    triggers' = IF i \in DOMAIN triggers THEN [triggers EXCEPT ![i] = t] ELSE Append(triggers, t)

ConfirmSelection ==
    /\ view = "triggers" /\ picked # None /\ DOMAIN events # {}
    /\ \/ /\ editing # 0
          /\ \E t \in EditedTrigger : UpdateTrigger(editing, t)
       \/ /\ editing = 0
          /\ \E s \in Listed(SplitTriggers) :
                Len(triggers) + Len(s) <= MaxTriggers /\ triggers' = triggers \o s
    /\ ResetFlowState("home")

\* Its own copies of the wizard's.
SelectEvents == HandlePickConnection(DOMAIN given) \/ TriggerPickerView

EditTriggersDialog ==
    /\ dialog = "triggers"
    /\ \/ TriggerListView \/ BackFromTriggers \/ ConfirmSelection
       \/ view = "connections" /\ ResetFlowState("home") /\ UNCHANGED triggers
       \/ /\ \/ SelectEvents
             \/ ConditionBuilderView \/ ConfirmConditions \/ BackFromConditions
          /\ UNCHANGED editing
    /\ UNCHANGED <<pickerVars, panelOpen, given, dialog>>

CloseTriggers ==
    /\ dialog = "triggers" /\ dialog' = "none"
    /\ ResetFlowState("home")
    /\ UNCHANGED <<pickerVars, triggers, panelOpen, given>>

EditNext ==
    \/ ShowPanel \/ HidePanel \/ AgentReadAgain \/ RemoveFromPanel
    \/ OpenManage \/ ManageIntegrationsDialog \/ LeaveManage
    \/ OpenTriggers \/ EditTriggersDialog \/ CloseTriggers

-----------------------------------------------------------------------------

=============================================================================
