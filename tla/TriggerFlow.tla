----------------------------- MODULE TriggerFlow -----------------------------
(***************************************************************************)
(* Configuring the webhook triggers of an agent: pick a connection, pick   *)
(* its events, give an event filters, confirm.  The wizard's trigger step  *)
(* and the edit panel's dialog both do this, over their own list of        *)
(* triggers.  A filter is None or the paths of its conditions; operators,  *)
(* values and the all/any mode are data nothing here tells apart.          *)
(***************************************************************************)
EXTENDS Naturals, Sequences, FiniteSets, IntegrationPicker

CONSTANTS
    Events,
    Paths,          \* the paths a condition can test
    MaxRows,        \* conditions in the builder
    MaxTriggers     \* triggers an agent is given

VARIABLES
    view,           \* "home", "connections", "triggers", "conditions"
    picked,         \* selectedConnection
    events,         \* selectedEvents: the events picked, and their filters
    configuring,    \* configuringEventKey
    rows,           \* the builder's conditions: a path, or "" while none is chosen
    custom,         \* customPathIndex: the row typed by hand, 0 for none
    triggers

flowVars == <<view, picked, events, configuring, rows, custom>>

Filter == UNION {[1 .. n -> Paths] : n \in 1 .. MaxRows}

NoEvents == [e \in {} |-> None]

Trigger ==
    [connection : Connections, keys : SUBSET Events \ {{}}, filter : Filter \cup {None}]

TriggerFlowTypeOK ==
    /\ view \in {"home", "connections", "triggers", "conditions"}
    /\ picked \in Connections \cup {None}
    /\ events \in UNION {[E -> Filter \cup {None}] : E \in SUBSET Events}
    /\ configuring \in Events \cup {None}
    /\ rows \in Seq(Paths \cup {""}) /\ Len(rows) <= MaxRows
    /\ custom \in 0 .. MaxRows
    /\ triggers \in Seq(Trigger) /\ Len(triggers) <= MaxTriggers

NoBuilder == rows = <<>> /\ custom = 0

FlowAtRest == view = "home" /\ picked = None /\ events = NoEvents /\ configuring = None /\ NoBuilder

\* The flow as it is when its component is mounted, and after resetFlowState.
FlowReset ==
    /\ view' = "home" /\ picked' = None /\ events' = NoEvents /\ configuring' = None
    /\ rows' = <<>> /\ custom' = 0

NavigateTo(v) == view' = v /\ UNCHANGED <<rows, custom>>

\* The picker offers the connections the agent was given.
HandlePickConnection(offered) ==
    /\ view = "connections"
    /\ \E c \in offered : picked' = c
    /\ events' = NoEvents /\ NavigateTo("triggers")
    /\ UNCHANGED <<configuring, triggers>>

\* A card adds its event; the cross of a picked event takes it out.
ToggleEvent(e) ==
    /\ view = "triggers" /\ e \notin DOMAIN events
    /\ events' = [x \in DOMAIN events \cup {e} |-> IF x = e THEN None ELSE events[x]]
    /\ UNCHANGED <<view, picked, configuring, rows, custom, triggers>>

RemoveEvent(e) ==
    /\ view = "triggers" /\ e \in DOMAIN events
    /\ events' = [x \in DOMAIN events \ {e} |-> events[x]]
    /\ UNCHANGED <<view, picked, configuring, rows, custom, triggers>>

\* The builder opens with the filter the event has.
HandleOpenConditions(e) ==
    /\ view = "triggers" /\ e \in DOMAIN events
    /\ view' = "conditions" /\ configuring' = e
    /\ rows' = (IF events[e] = None THEN <<>> ELSE events[e]) /\ custom' = 0
    /\ UNCHANGED <<picked, events, triggers>>

TriggerPickerView ==
    \E e \in Events : ToggleEvent(e) \/ RemoveEvent(e) \/ HandleOpenConditions(e)

-----------------------------------------------------------------------------
(* The condition builder                                                   *)

InBuilder == view = "conditions" /\ UNCHANGED <<view, picked, events, configuring, triggers>>

AddCondition ==
    /\ InBuilder /\ Len(rows) < MaxRows
    /\ rows' = Append(rows, "") /\ UNCHANGED custom

\* The row typed by hand is forgotten when it is the one removed, and only then.
RemoveCondition(i) ==
    /\ InBuilder
    /\ rows' = [j \in 1 .. Len(rows) - 1 |-> IF j < i THEN rows[j] ELSE rows[j + 1]]
    /\ custom' = IF custom = i THEN 0 ELSE custom

\* "Custom path..." empties the path and opens an input in its place.
HandlePathSelect(i) ==
    /\ InBuilder /\ custom # i
    /\ \/ rows' = [rows EXCEPT ![i] = ""] /\ custom' = i
       \/ \E p \in Paths : rows' = [rows EXCEPT ![i] = p] /\ custom' = 0

TypePath(i) ==
    /\ InBuilder /\ custom = i
    /\ \E p \in Paths \cup {""} : rows' = [rows EXCEPT ![i] = p]
    /\ UNCHANGED custom

ConditionBuilderView ==
    \/ AddCondition
    \/ \E i \in DOMAIN rows : RemoveCondition(i) \/ HandlePathSelect(i) \/ TypePath(i)

\* What the builder confirms: the rows that have a path, or no filter at all.
ConfirmedFilter ==
    LET valid == SelectSeq(rows, LAMBDA p : p # "")
    IN  IF valid = <<>> THEN None ELSE valid

\* Only the event being configured takes the filter.
HandleConfirmConditions ==
    /\ view = "conditions" /\ configuring # None
    /\ events' = [e \in DOMAIN events |-> IF e = configuring THEN ConfirmedFilter ELSE events[e]]
    /\ view' = "triggers" /\ configuring' = None /\ rows' = <<>> /\ custom' = 0
    /\ UNCHANGED <<picked, triggers>>

BackFromConditions ==
    /\ view = "conditions"
    /\ view' = "triggers" /\ configuring' = None /\ rows' = <<>> /\ custom' = 0
    /\ UNCHANGED <<picked, events, triggers>>

-----------------------------------------------------------------------------
(* From the events picked to triggers                                      *)

TriggerOf(keys, filter) == [connection |-> picked, keys |-> keys, filter |-> filter]

Unfiltered == {e \in DOMAIN events : events[e] = None}

\* A bug to catch: one trigger for all the events, with the filter of one of them.
OneTriggerForAll ==
    {TriggerOf(DOMAIN events,
               IF Unfiltered = DOMAIN events THEN None
               ELSE events[CHOOSE e \in DOMAIN events : events[e] # None])}

\* Events without a filter share one trigger; an event with one has its own.
SplitTriggers ==
    (IF Unfiltered = {} THEN {} ELSE {TriggerOf(Unfiltered, None)})
        \cup {TriggerOf({e}, events[e]) : e \in DOMAIN events \ Unfiltered}

\* The ways to write a set as a list: the order of the events picked is not kept.
Listed(S) == {s \in [1 .. Cardinality(S) -> S] : \A x \in S : \E i \in DOMAIN s : s[i] = x}

RemoveTrigger(i) ==
    triggers' = [j \in 1 .. Len(triggers) - 1 |-> IF j < i THEN triggers[j] ELSE triggers[j + 1]]
=============================================================================
