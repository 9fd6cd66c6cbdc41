---------------------------- MODULE EventJournal ----------------------------
(***************************************************************************)
(* What the event path promises about Postgres, without Redis, flushers or *)
(* accumulators: events are received one after the other, and each INSERT  *)
(* stores received events none of which an earlier INSERT has stored.      *)
(* EventFlusher implements it.                                             *)
(***************************************************************************)
EXTENDS Naturals, Sequences

VARIABLES
  received,  \* how many events have been received
  writes     \* the set of event numbers of each INSERT, in order

vars == <<received, writes>>

Written == UNION {writes[k] : k \in DOMAIN writes}

Init == received = 0 /\ writes = <<>>

\* The webhook handler takes the next event and may store it itself.
Receive ==
  /\ received' = received + 1
  /\ \/ writes' = writes
     \/ writes' = Append(writes, {received + 1})

Write ==
  /\ \E S \in SUBSET (1 .. received) :
       S \cap Written = {} /\ writes' = Append(writes, S)
  /\ UNCHANGED received

Next == Receive \/ Write

Spec == Init /\ [][Next]_vars

=============================================================================
