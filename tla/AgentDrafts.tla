----------------------------- MODULE AgentDrafts -----------------------------
(***************************************************************************)
(* The agents page: the wizard in which an agent is drafted, and the edit  *)
(* panel with its dialogs.  Each covers the page, so one of them is open   *)
(* at a time, and both keep a selection of connections, a trigger flow and *)
(* a list of triggers.  A request of a closed wizard may be answered while *)
(* the panel is open.                                                      *)
(***************************************************************************)
EXTENDS AgentWizard, EditDialogs

draftsVars == <<wizardVars, dialogVars>>

DraftsTypeOK == WizardTypeOK /\ EditTypeOK

DraftsInit == WizardInit /\ EditInit

DraftsNext ==
    \/ /\ ~panelOpen /\ WizardNext
       /\ UNCHANGED dialogVars
    \/ /\ step = "closed" /\ EditNext
       /\ UNCHANGED <<step, formVars, listVars, keyVars, callVars>>
    \/ /\ panelOpen
       /\ AgentCreated \/ AgentRefused \/ \E k \in Keys : KeyAdded(k) \/ KeyRefused(k)
       /\ UNCHANGED dialogVars

DraftsSpec == DraftsInit /\ [][DraftsNext]_draftsVars

-----------------------------------------------------------------------------
(***************************************************************************)
(* "Events with filters get their own trigger each": in the wizard, no     *)
(* event is filtered by what was set for another one.  An edited trigger   *)
(* keeps one filter for all its events.                                    *)
(***************************************************************************)
FilterHasOneEvent ==
    ~panelOpen => \A i \in DOMAIN triggers :
        triggers[i].filter # None => Cardinality(triggers[i].keys) = 1
=============================================================================
