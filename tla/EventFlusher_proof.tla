------------------------- MODULE EventFlusher_proof -------------------------
(***************************************************************************)
(* Proofs about EventFlusher, for any number of flushers, any event        *)
(* sequences, any sizes and any number of failures.                        *)
(***************************************************************************)
EXTENDS EventFlusher, SequenceTheorems, TLAPS

(***************************************************************************)
(* The inductive invariant behind AtMostOnce.  An entry is in one of three *)
(* places: unread, in the batch of one flusher, or behind; only the first  *)
(* two can be inserted, and neither holds an event that has a row.         *)
(***************************************************************************)

\* Entries hold the events in the order they were received.
LogOrdered ==
  /\ \A i \in 1 .. Len(log) : log[i] \in 1 .. sent
  /\ \A i, j \in 1 .. Len(log) : i < j => log[i] < log[j]

RowsReceived == \A k \in DOMAIN inserts : inserts[k].events \subseteq 1 .. sent

\* A batch was read before, belongs to one flusher, and is empty outside
\* flushStream.
BatchesPrivate ==
  /\ \A f \in Flushers :
       /\ batch[f] \cap Unread = {}
       /\ left[f] \subseteq batch[f]
       /\ pc[f] \in {"idle", "create", "read"} => batch[f] = {}
       /\ pc[f] \in {"ack", "drop"} => left[f] = {}
  /\ \A f, g \in Flushers : f # g => batch[f] \cap batch[g] = {}

HasRow(n) == \E k \in DOMAIN inserts : n \in inserts[k].events

NotYetStored ==
  /\ \A i \in Unread : ~HasRow(log[i])
  /\ \A f \in Flushers :
       /\ pc[f] \in {"lookup", "messages"} => \A i \in batch[f] : ~HasRow(log[i])
       /\ \A i \in left[f] : ~HasRow(log[i])

IInv ==
  /\ LogOrdered
  /\ RowsReceived
  /\ BatchesPrivate
  /\ NotYetStored
  /\ AtMostOnce

-----------------------------------------------------------------------------
(***************************************************************************)
(* Type correctness.                                                       *)
(***************************************************************************)

\* The script is a sequence of events.
LEMMA ScriptIsSeq ==
  ASSUME TypeOK PROVE script \in Seq(Event) /\ Len(script) \in Nat
BY ConstantsAssumption, LenProperties DEF TypeOK

\* Init establishes the types.
LEMMA InitType == Init => TypeOK
<1> SUFFICES ASSUME Init PROVE TypeOK
  OBVIOUS
<1>1. log \in Seq(Nat) /\ Len(log) = 0
  BY DEF Init
<1>2. inserts \in Seq([events : SUBSET Nat, recovered : SUBSET RecoveredRow])
  BY DEF Init
<1>3. Nothing \in [Messages -> Seq(Nat)]
  BY DEF Nothing
<1>4. script \in Scripts /\ Len(script) \in Nat
  BY ConstantsAssumption, LenProperties DEF Init
<1>5. active \in BOOLEAN
  BY DEF Init
<1> QED
  BY <1>1, <1>2, <1>3, <1>4, <1>5, ConstantsAssumption DEF Init, TypeOK, NoGroup, Phases

\* The bound on failures is kept.
LEMMA FaultType ==
  ASSUME TypeOK, NEW kind, Fault(kind) \/ NoFault PROVE faults' \in 0 .. MaxFaults
BY ConstantsAssumption DEF TypeOK, Fault, NoFault

\* What one INSERT appends to the statements committed has their type.
LEMMA TypeInsert ==
  ASSUME TypeOK, NEW f \in Flushers, NEW S \in SUBSET left[f], NEW M \in SUBSET syn[f],
         Insert(Numbers(S), Recovered(f, M))
  PROVE inserts' \in Seq([events : SUBSET Nat, recovered : SUBSET RecoveredRow])
<1> DEFINE Row == [events : SUBSET Nat, recovered : SUBSET RecoveredRow]
<1>1. Numbers(S) \subseteq Nat
  <2>1. S \subseteq 1 .. Len(log)
    BY DEF TypeOK
  <2>2. \A i \in S : log[i] \in Nat
    BY <2>1, ElementOfSeq DEF TypeOK
  <2> QED
    BY <2>2 DEF Numbers
<1>2. Recovered(f, M) \subseteq RecoveredRow
  BY DEF TypeOK, Recovered, RecoveredRow
<1>3. [events |-> Numbers(S), recovered |-> Recovered(f, M)] \in Row
  BY <1>1, <1>2
<1>4. inserts \in Seq(Row)
  BY DEF TypeOK
<1>5. Append(inserts, [events |-> Numbers(S), recovered |-> Recovered(f, M)]) \in Seq(Row)
  BY <1>3, <1>4, AppendProperties
<1> QED
  BY <1>4, <1>5 DEF Insert

\* XAdd keeps the types.
LEMMA TypeXAdd ==
  ASSUME TypeOK, XAdd PROVE TypeOK'
<1>1. /\ sent' \in 0 .. Len(script) /\ tracking' \in 0 .. MaxHandlers /\ sent + 1 \in Nat
      /\ script' = script
  BY ConstantsAssumption, ScriptIsSeq, LenProperties DEF TypeOK, XAdd, MayReceive
<1>2. log' \in Seq(Nat) /\ Len(log') = Len(log) + 1 /\ Len(log) \in Nat
  BY <1>1, AppendProperties, LenProperties DEF TypeOK, XAdd
<1>3. 0 .. Len(log) \subseteq 0 .. Len(log') /\ 1 .. Len(log) \subseteq 1 .. Len(log')
  BY <1>2
<1> QED
  BY <1>1, <1>2, <1>3 DEF TypeOK, XAdd, flusher, cleaner

\* TrackActive keeps the types.
LEMMA TypeTrackActive ==
  ASSUME TypeOK, TrackActive PROVE TypeOK'
<1>1. active' \in BOOLEAN
  BY DEF TypeOK, TrackActive
<1>2. faults' \in 0 .. MaxFaults
  BY FaultType DEF TrackActive
<1>3. tracking' \in 0 .. MaxHandlers
  BY ConstantsAssumption DEF TypeOK, TrackActive
<1>4. UNCHANGED <<script, sent, stream, acc, inserts, flusher, cleaner>>
  BY DEF TrackActive
<1> QED
  BY <1>1, <1>2, <1>3, <1>4 DEF TypeOK, stream, flusher, cleaner

\* PublishFails keeps the types.
LEMMA TypePublishFails ==
  ASSUME TypeOK, PublishFails PROVE TypeOK'
<1> DEFINE Row == [events : SUBSET Nat, recovered : SUBSET RecoveredRow]
<1>1. /\ sent' \in 0 .. Len(script)
      /\ sent + 1 \in Nat
  BY ScriptIsSeq DEF TypeOK, PublishFails, MayReceive
<1>2. log' \in Seq(Nat) /\ Len(log') \in Nat /\ Len(log) \in Nat /\ Len(log) =< Len(log')
  <2>1. log \in Seq(Nat) /\ Len(log) \in Nat
    BY LenProperties DEF TypeOK
  <2>2. Append(log, sent + 1) \in Seq(Nat) /\ Len(Append(log, sent + 1)) = Len(log) + 1
    BY <1>1, <2>1, AppendProperties
  <2>3. log' = log \/ log' = Append(log, sent + 1)
    BY DEF PublishFails
  <2>4. CASE log' = log
    BY <2>1, <2>4
  <2>5. CASE log' = Append(log, sent + 1)
    BY <2>1, <2>2, <2>5
  <2> QED
    BY <2>3, <2>4, <2>5
<1>3. inserts' \in Seq(Row)
  <2>1. [events |-> DirectRow(sent + 1), recovered |-> {}] \in Row
    BY <1>1 DEF DirectRow
  <2> QED
    BY <2>1, AppendProperties DEF TypeOK, PublishFails, Insert
<1>4. faults' \in 0 .. MaxFaults
  BY FaultType DEF PublishFails
<1>5. /\ script' = script /\ tracking' = tracking /\ low' = low /\ group' = group
      /\ pel' = pel /\ active' = active /\ acc' = acc /\ pc' = pc /\ batch' = batch
      /\ left' = left /\ found' = found /\ syn' = syn /\ cutoff' = cutoff /\ sweep' = sweep
  BY DEF PublishFails, flusher, cleaner
<1>6. 1 .. Len(log) \subseteq 1 .. Len(log') /\ 0 .. Len(log) \subseteq 0 .. Len(log')
  BY <1>2
<1> QED
  BY <1>1, <1>2, <1>3, <1>4, <1>5, <1>6 DEF TypeOK

\* FlushAll keeps the types.
LEMMA TypeFlushAll ==
  ASSUME TypeOK, NEW f \in Flushers, FlushAll(f) PROVE TypeOK'
BY ConstantsAssumption, ScriptIsSeq, AppendProperties, LenProperties
   DEF TypeOK, NoGroup, Phases, handler, stream, flusher, cleaner, FlushAll, Goto

\* ProcessPending keeps the types.
LEMMA TypeProcessPending ==
  ASSUME TypeOK, NEW f \in Flushers, ProcessPending(f) PROVE TypeOK'
BY ConstantsAssumption, ScriptIsSeq, AppendProperties, LenProperties
   DEF TypeOK, NoGroup, Phases, handler, stream, flusher, cleaner, ProcessPending, EnsuredGroup

\* CreateGroup keeps the types.
LEMMA TypeCreateGroup ==
  ASSUME TypeOK, NEW f \in Flushers, CreateGroup(f) PROVE TypeOK'
BY ConstantsAssumption, ScriptIsSeq, AppendProperties, LenProperties
   DEF TypeOK, NoGroup, Phases, handler, stream, flusher, cleaner, CreateGroup, Goto, EnsuredGroup

\* ReadNew keeps the types.
LEMMA TypeReadNew ==
  ASSUME TypeOK, NEW f \in Flushers, ReadNew(f) PROVE TypeOK'
<1> DEFINE Entries == 1 .. Len(log)
<1>1. CASE group = NoGroup \/ Unread = {}
  <2>1. Return(f) /\ UNCHANGED <<group, pel>>
    BY <1>1 DEF ReadNew
  <2> QED
    BY <2>1 DEF TypeOK, ReadNew, Return, Nothing, Phases, handler, cleaner
<1>2. CASE ~(group = NoGroup \/ Unread = {})
  <2>1. FirstUnread \in Nat /\ FirstUnread >= 1 /\ FirstUnread =< Len(log)
    BY <1>2, LenProperties DEF TypeOK, FirstUnread, Unread, Larger, NoGroup
  <2>2. LastOfBatch \in 1 .. Len(log)
    BY <2>1, ConstantsAssumption, LenProperties DEF TypeOK, LastOfBatch, Smaller
  <2>3. NextBatch \subseteq Entries
    BY <2>1, <2>2, LenProperties DEF TypeOK, NextBatch
  <2>4. /\ group' = LastOfBatch
        /\ pel' = [pel EXCEPT ![f] = @ \cup NextBatch]
        /\ batch' = [batch EXCEPT ![f] = NextBatch]
        /\ left' = [left EXCEPT ![f] = NextBatch]
        /\ pc' = [pc EXCEPT ![f] = "lookup"]
        /\ UNCHANGED <<found, syn>>
    BY <1>2 DEF ReadNew
  <2>5. pel' \in [Flushers -> SUBSET Entries]
    <3>1. pel \in [Flushers -> SUBSET Entries]
      BY DEF TypeOK
    <3>2. pel[f] \cup NextBatch \in SUBSET Entries
      BY <3>1, <2>3
    <3> HIDE DEF Entries
    <3> QED
      BY <3>1, <3>2, <2>4
  <2>6. batch' \in [Flushers -> SUBSET Entries] /\ left' \in [Flushers -> SUBSET Entries]
    BY <2>3, <2>4 DEF TypeOK
  <2>7. group' \in {NoGroup} \cup 0 .. Len(log)
    BY <2>2, <2>4, LenProperties DEF TypeOK
  <2>8. pc' \in [Flushers -> Phases]
    BY <2>4 DEF TypeOK, Phases
  <2>9. UNCHANGED <<handler, log, low, active, acc, inserts, cleaner, faults>>
    BY DEF ReadNew
  <2> QED
    BY <2>4, <2>5, <2>6, <2>7, <2>8, <2>9 DEF TypeOK, handler, cleaner
<1> QED
  BY <1>1, <1>2

\* FindConversation keeps the types.
LEMMA TypeFindConversation ==
  ASSUME TypeOK, NEW f \in Flushers, FindConversation(f) PROVE TypeOK'
BY ConstantsAssumption, ScriptIsSeq, AppendProperties, LenProperties
   DEF TypeOK, NoGroup, Phases, handler, stream, flusher, cleaner, FindConversation, Goto

\* ConversationNotFound keeps the types.
LEMMA TypeConversationNotFound ==
  ASSUME TypeOK, NEW f \in Flushers, ConversationNotFound(f) PROVE TypeOK'
BY ConstantsAssumption, ScriptIsSeq, AppendProperties, LenProperties
   DEF TypeOK, NoGroup, Phases, handler, stream, flusher, cleaner, ConversationNotFound, Return, Nothing, Fault

\* HandleMessage keeps the types.
LEMMA TypeHandleMessage ==
  ASSUME TypeOK, NEW f \in Flushers, HandleMessage(f) PROVE TypeOK'
<1>1. faults' \in 0 .. MaxFaults
  BY FaultType DEF HandleMessage
<1>2. PICK i \in left[f] :
        /\ acc' = Accumulated(i) \/ acc' = acc
        /\ \/ left' = [left EXCEPT ![f] = Rows(batch[f])]
           \/ left' = [left EXCEPT ![f] = @ \ {i}]
  BY DEF HandleMessage
<1>3. acc' \in [Messages -> Seq(Nat)]
  <2>1. log[i] \in Nat
    BY <1>2, ElementOfSeq DEF TypeOK
  <2>2. \A m \in Messages : Append(acc[m], log[i]) \in Seq(Nat)
    BY <2>1, AppendProperties DEF TypeOK
  <2>3. ASSUME NEW m, NEW s \in Seq(Nat) PROVE [acc EXCEPT ![m] = s] \in [Messages -> Seq(Nat)]
    BY <2>3 DEF TypeOK
  <2>4. <<>> \in Seq(Nat)
    OBVIOUS
  <2>5. ASSUME NEW m PROVE [acc EXCEPT ![m] = <<>>] \in [Messages -> Seq(Nat)]
    BY <2>3, <2>4
  <2>6. ASSUME NEW m PROVE [acc EXCEPT ![m] = Append(@, log[i])] \in [Messages -> Seq(Nat)]
    BY <2>2 DEF TypeOK
  <2>7. Accumulated(i) \in [Messages -> Seq(Nat)]
    BY <2>5, <2>6 DEF TypeOK, Accumulated, Dropped
  <2> QED
    BY <1>2, <2>7 DEF TypeOK
<1>4. left' \in [Flushers -> SUBSET (1 .. Len(log))]
  <2>1. left \in [Flushers -> SUBSET (1 .. Len(log))] /\ batch[f] \in SUBSET (1 .. Len(log))
    BY DEF TypeOK
  <2>2. Rows(batch[f]) \in SUBSET (1 .. Len(log)) /\ left[f] \ {i} \in SUBSET (1 .. Len(log))
    BY <2>1 DEF Rows
  <2> QED
    BY <1>2, <2>1, <2>2
<1>5. pc' \in [Flushers -> Phases]
  BY DEF TypeOK, HandleMessage, Phases
<1> QED
  BY <1>1, <1>3, <1>4, <1>5 DEF TypeOK, HandleMessage, handler, stream, cleaner

\* PeekChunks keeps the types.
LEMMA TypePeekChunks ==
  ASSUME TypeOK, NEW f \in Flushers, PeekChunks(f) PROVE TypeOK'
<1>1. faults' \in 0 .. MaxFaults
  BY FaultType DEF PeekChunks
<1>2. found' \in [Flushers -> [Messages -> Seq(Nat)]] /\ syn' \in [Flushers -> SUBSET Messages]
  BY DEF TypeOK, PeekChunks
<1>3. pc' \in [Flushers -> Phases]
  BY DEF TypeOK, PeekChunks, Goto, Phases
<1> QED
  BY <1>1, <1>2, <1>3 DEF TypeOK, PeekChunks, handler, stream, cleaner

\* CreateInBatches keeps the types.
LEMMA TypeCreateInBatches ==
  ASSUME TypeOK, NEW f \in Flushers, CreateInBatches(f) PROVE TypeOK'
<1> DEFINE Row == [events : SUBSET Nat, recovered : SUBSET RecoveredRow]
<1>1. PICK S \in SUBSET left[f], M \in SUBSET syn[f] :
        /\ Insert(Numbers(S), Recovered(f, M))
        /\ left' = [left EXCEPT ![f] = @ \ S]
        /\ syn' = [syn EXCEPT ![f] = Peeked(f)] \/ syn' = [syn EXCEPT ![f] = @ \ M]
  BY DEF CreateInBatches
<1>2. inserts' \in Seq(Row)
  BY <1>1, TypeInsert
<1>3. left' \in [Flushers -> SUBSET (1 .. Len(log))]
  BY <1>1 DEF TypeOK
<1>4. syn' \in [Flushers -> SUBSET Messages]
  <2>1. syn \in [Flushers -> SUBSET Messages]
    BY DEF TypeOK
  <2>2. Peeked(f) \in SUBSET Messages /\ syn[f] \ M \in SUBSET Messages
    BY <2>1 DEF Peeked
  <2> QED
    BY <1>1, <2>1, <2>2
<1>5. pc' \in [Flushers -> Phases]
  BY DEF TypeOK, CreateInBatches, Phases
<1> QED
  BY <1>2, <1>3, <1>4, <1>5 DEF TypeOK, CreateInBatches, handler, stream, cleaner

\* InsertFails keeps the types.
LEMMA TypeInsertFails ==
  ASSUME TypeOK, NEW f \in Flushers, InsertFails(f) PROVE TypeOK'
<1> DEFINE Row == [events : SUBSET Nat, recovered : SUBSET RecoveredRow]
<1>1. PICK S \in SUBSET left[f], M \in SUBSET syn[f] :
        Insert(Numbers(S), Recovered(f, M)) \/ Insert({}, {})
  BY DEF InsertFails
<1>2. inserts' \in Seq(Row)
  <2>1. CASE Insert(Numbers(S), Recovered(f, M))
    BY <1>1, <2>1, TypeInsert
  <2>2. CASE Insert({}, {})
    BY <2>2 DEF TypeOK, Insert
  <2> QED
    BY <1>1, <2>1, <2>2
<1>3. faults' \in 0 .. MaxFaults
  BY FaultType DEF InsertFails
<1> QED
  BY <1>2, <1>3 DEF TypeOK, InsertFails, ReturnUnacknowledged, Return, Nothing, Phases, handler, cleaner

\* Ack keeps the types.
LEMMA TypeAck ==
  ASSUME TypeOK, NEW f \in Flushers, Ack(f) PROVE TypeOK'
<1>1. faults' \in 0 .. MaxFaults
  BY FaultType DEF Ack
<1>2. pel' \in [Flushers -> SUBSET (1 .. Len(log))]
  BY DEF TypeOK, Ack
<1>3. pc' \in [Flushers -> Phases]
  BY DEF TypeOK, Ack, Goto, Phases
<1> QED
  BY <1>1, <1>2, <1>3 DEF TypeOK, Ack, handler, cleaner

\* DropChunk keeps the types.
LEMMA TypeDropChunk ==
  ASSUME TypeOK, NEW f \in Flushers, DropChunk(f) PROVE TypeOK'
<1>1. faults' \in 0 .. MaxFaults
  BY FaultType DEF DropChunk
<1>2. PICK m \in syn[f] :
        (acc' = Dropped(m) \/ acc' = acc) /\ syn' = [syn EXCEPT ![f] = @ \ {m}]
  BY DEF DropChunk
<1>3. acc' \in [Messages -> Seq(Nat)]
  <2>1. acc \in [Messages -> Seq(Nat)]
    BY DEF TypeOK
  <2>2. <<>> \in Seq(Nat)
    OBVIOUS
  <2>3. ASSUME NEW s \in Seq(Nat) PROVE [acc EXCEPT ![m] = s] \in [Messages -> Seq(Nat)]
    BY <2>1
  <2>4. Dropped(m) \in [Messages -> Seq(Nat)]
    BY <2>2, <2>3 DEF Dropped
  <2> QED
    BY <1>2, <2>1, <2>4
<1>4. syn' \in [Flushers -> SUBSET Messages]
  BY <1>2 DEF TypeOK
<1> QED
  BY <1>1, <1>3, <1>4 DEF TypeOK, DropChunk, handler, stream, cleaner

\* Trim keeps the types.
LEMMA TypeTrim ==
  ASSUME TypeOK, NEW f \in Flushers, Trim(f) PROVE TypeOK'
<1>1. low \in Nat /\ Len(log) \in Nat /\ low =< Len(log) /\ TrimMaxLen \in Nat
  BY ConstantsAssumption, LenProperties DEF TypeOK
<1>2. low' \in 0 .. Len(log)
  BY <1>1 DEF Trim
<1>3. UNCHANGED <<handler, log, group, pel, active, acc, inserts, cleaner, faults>>
  BY DEF Trim
<1>4. /\ pc' \in [Flushers -> Phases]
      /\ batch' \in [Flushers -> SUBSET (1 .. Len(log))]
      /\ left' \in [Flushers -> SUBSET (1 .. Len(log))]
      /\ found' \in [Flushers -> [Messages -> Seq(Nat)]]
      /\ syn' \in [Flushers -> SUBSET Messages]
  BY DEF TypeOK, Phases, Trim, Return, Nothing
<1> QED
  BY <1>2, <1>3, <1>4 DEF TypeOK, handler, cleaner

\* Crash keeps the types.
LEMMA TypeCrash ==
  ASSUME TypeOK, NEW f \in Flushers, Crash(f) PROVE TypeOK'
BY ConstantsAssumption, ScriptIsSeq, AppendProperties, LenProperties
   DEF TypeOK, NoGroup, Phases, handler, stream, flusher, cleaner, Crash, Return, Nothing, Fault

\* AccumulatorExpires keeps the types.
LEMMA TypeAccumulatorExpires ==
  ASSUME TypeOK, NEW m \in Messages, AccumulatorExpires(m) PROVE TypeOK'
BY ConstantsAssumption, ScriptIsSeq, AppendProperties, LenProperties
   DEF TypeOK, NoGroup, Phases, handler, stream, flusher, cleaner, AccumulatorExpires, Fault

\* TimePasses keeps the types.
LEMMA TypeTimePasses ==
  ASSUME TypeOK, TimePasses PROVE TypeOK'
BY ConstantsAssumption, ScriptIsSeq, AppendProperties, LenProperties
   DEF TypeOK, NoGroup, Phases, handler, stream, flusher, cleaner, TimePasses, Fault

\* CleanIdle keeps the types.
LEMMA TypeCleanIdle ==
  ASSUME TypeOK, CleanIdle PROVE TypeOK'
BY ConstantsAssumption, ScriptIsSeq, AppendProperties, LenProperties
   DEF TypeOK, NoGroup, Phases, handler, stream, flusher, cleaner, CleanIdle, Fault, NoFault

\* DeleteStream keeps the types.
LEMMA TypeDeleteStream ==
  ASSUME TypeOK, DeleteStream PROVE TypeOK'
BY ConstantsAssumption, ScriptIsSeq, AppendProperties, LenProperties
   DEF TypeOK, NoGroup, Phases, handler, stream, flusher, cleaner, DeleteStream

\* Untrack keeps the types.
LEMMA TypeUntrack ==
  ASSUME TypeOK, Untrack PROVE TypeOK'
BY ConstantsAssumption, ScriptIsSeq, AppendProperties, LenProperties
   DEF TypeOK, NoGroup, Phases, handler, stream, flusher, cleaner, Untrack

-----------------------------------------------------------------------------
\* Every step of the webhook handler, of a flusher, of Cleanup and every failure
\* keeps the types.
LEMMA TypeNext == TypeOK /\ [Next]_vars => TypeOK'
<1> SUFFICES ASSUME TypeOK, [Next]_vars PROVE TypeOK'
  OBVIOUS
<1>1. CASE Publish
  BY <1>1, TypeXAdd, TypeTrackActive, TypePublishFails DEF Publish
<1>2. ASSUME NEW f \in Flushers, FlushStep(f) PROVE TypeOK'
  BY <1>2, TypeFlushAll, TypeCreateGroup, TypeReadNew, TypeFindConversation, TypeHandleMessage,
     TypePeekChunks, TypeCreateInBatches, TypeAck, TypeDropChunk, TypeTrim DEF FlushStep
<1>3. ASSUME NEW f \in Flushers,
             ProcessPending(f) \/ ConversationNotFound(f) \/ InsertFails(f) \/ Crash(f)
      PROVE  TypeOK'
  BY <1>3, TypeProcessPending, TypeConversationNotFound, TypeInsertFails, TypeCrash
<1>4. ASSUME NEW m \in Messages, AccumulatorExpires(m) PROVE TypeOK'
  BY <1>4, TypeAccumulatorExpires
<1>5. CASE TimePasses
  BY <1>5, TypeTimePasses
<1>6. CASE Cleanup
  BY <1>6, TypeCleanIdle, TypeDeleteStream, TypeUntrack DEF Cleanup
<1>7. CASE UNCHANGED vars
  BY <1>7 DEF TypeOK, vars, handler, stream, flusher, cleaner
<1> QED
  BY <1>1, <1>2, <1>3, <1>4, <1>5, <1>6, <1>7 DEF Next

\* Handlers, flushers and Cleanup keep every variable in its type, however their
\* calls interleave and whatever fails.
THEOREM TypeCorrect == Spec => []TypeOK
<1>1. Init => TypeOK
  BY InitType
<1>2. TypeOK /\ [Next]_vars => TypeOK'
  BY TypeNext
<1> QED
  BY <1>1, <1>2, PTL DEF Spec

-----------------------------------------------------------------------------
(***************************************************************************)
(* At most one row for each event.                                         *)
(***************************************************************************)

\* The rows and the order of inserts after one INSERT of the events in N.
LEMMA InsertEffect ==
  ASSUME TypeOK, NEW N \in SUBSET Nat, NEW R, Insert(N, R)
  PROVE  /\ \A n : HasRow(n)' <=> HasRow(n) \/ n \in N
         /\ AtMostOnce /\ (\A n \in N : ~HasRow(n)) => AtMostOnce'
<1> DEFINE new == [events |-> N, recovered |-> R]
<1>1. CASE inserts' = inserts
  <2>1. N = {} \/ inserts = Append(inserts, new)
    BY <1>1 DEF Insert
  <2>2. inserts # Append(inserts, new)
    BY AppendProperties, LenProperties DEF TypeOK
  <2> QED
    BY <1>1, <2>1, <2>2 DEF HasRow, AtMostOnce
<1>2. CASE inserts' = Append(inserts, new)
  <2>1. inserts \in Seq([events : SUBSET Nat, recovered : SUBSET RecoveredRow])
    BY DEF TypeOK
  <2>2. /\ DOMAIN inserts = 1 .. Len(inserts) /\ Len(inserts) \in Nat
        /\ DOMAIN inserts' = 1 .. (Len(inserts) + 1)
        /\ \A k \in DOMAIN inserts : inserts'[k] = inserts[k]
        /\ inserts'[Len(inserts) + 1] = new
    BY <1>2, <2>1, AppendProperties, LenProperties
  <2>3. \A k \in DOMAIN inserts' : k \in DOMAIN inserts \/ k = Len(inserts) + 1
    BY <2>2
  <2>4. \A n : HasRow(n)' <=> HasRow(n) \/ n \in N
    BY <2>2, <2>3 DEF HasRow
  <2>5. ASSUME AtMostOnce, \A n \in N : ~HasRow(n) PROVE AtMostOnce'
    <3>1. \A k \in DOMAIN inserts : inserts[k].events \cap N = {}
      BY <2>5 DEF HasRow
    <3> QED
      BY <2>2, <2>3, <2>5, <3>1 DEF AtMostOnce
  <2> QED
    BY <2>4, <2>5
<1> QED
  BY <1>1, <1>2 DEF Insert

\* Two entries hold different events.
LEMMA Injective ==
  ASSUME TypeOK, LogOrdered, NEW i \in 1 .. Len(log), NEW j \in 1 .. Len(log), i # j
  PROVE  log[i] # log[j]
<1>1. log[i] \in Nat /\ log[j] \in Nat /\ i \in Nat /\ j \in Nat
  <2>1. log \in Seq(Nat)
    BY DEF TypeOK
  <2> QED
    BY <2>1, LenProperties, ElementOfSeq
<1>2. i < j \/ j < i
  BY <1>1
<1> QED
  BY <1>1, <1>2 DEF LogOrdered

\* The unread entries are in the stream.
LEMMA UnreadInLog ==
  ASSUME TypeOK
  PROVE  /\ FirstUnread \in Nat /\ FirstUnread >= 1 /\ FirstUnread =< Len(log) + 1
         /\ Len(log) \in Nat
         /\ Unread \subseteq 1 .. Len(log)
<1>1. low \in Nat /\ Len(log) \in Nat /\ low =< Len(log)
  BY LenProperties DEF TypeOK
<1>2. group = -1 \/ group \in 0 .. Len(log)
  BY DEF TypeOK, NoGroup
<1> QED
  BY <1>1, <1>2 DEF FirstUnread, Unread, Larger

\* A step that neither receives nor inserts, and only shrinks batches and the
\* unread entries.
Quiet ==
  /\ UNCHANGED <<log, sent, inserts>>
  /\ Unread' \subseteq Unread
  /\ \A f \in Flushers :
       /\ batch'[f] \subseteq batch[f]
       /\ left'[f] \subseteq batch'[f]
       /\ pc'[f] \in {"idle", "create", "read"} => batch'[f] = {}
       /\ pc'[f] \in {"ack", "drop"} => left'[f] = {}
       /\ pc'[f] \in {"lookup", "messages"} => pc[f] \in {"lookup", "messages"}
       /\ left'[f] \subseteq left[f] \/ pc[f] = "messages"

\* Such a step keeps the invariant.
LEMMA QuietStep ==
  ASSUME IInv, Quiet PROVE IInv'
<1>1. LogOrdered' /\ RowsReceived' /\ AtMostOnce'
  BY DEF IInv, LogOrdered, RowsReceived, AtMostOnce, Quiet
<1>2. \A n : HasRow(n)' <=> HasRow(n)
  BY DEF HasRow, Quiet
<1>3. BatchesPrivate'
  BY DEF IInv, BatchesPrivate, Quiet
<1>4. NotYetStored'
  BY <1>2 DEF IInv, NotYetStored, BatchesPrivate, Quiet
<1> QED
  BY <1>1, <1>3, <1>4 DEF IInv

\* Init establishes the invariant.
LEMMA InitInvariant == Init => IInv
<1> SUFFICES ASSUME Init PROVE IInv
  OBVIOUS
<1>1. log = <<>> /\ inserts = <<>> /\ DOMAIN inserts = {} /\ Len(log) = 0
  BY DEF Init
<1>2. Unread = {}
  BY <1>1 DEF Init, Unread, FirstUnread, Larger, NoGroup
<1>3. 1 .. Len(log) = {}
  BY <1>1
<1> QED
  BY <1>1, <1>2, <1>3
     DEF Init, IInv, LogOrdered, RowsReceived, BatchesPrivate, NotYetStored, HasRow, AtMostOnce

\* A received event is at the end of the stream and has no row.
LEMMA InvXAdd ==
  ASSUME TypeOK, IInv, XAdd PROVE IInv'
<1>1. sent \in Nat /\ sent' = sent + 1
  BY ScriptIsSeq DEF TypeOK, XAdd
<1>2. /\ log \in Seq(Nat) /\ Len(log) \in Nat
      /\ log' = Append(log, sent + 1)
      /\ Len(log') = Len(log) + 1
      /\ \A i \in 1 .. Len(log) : log'[i] = log[i]
      /\ log'[Len(log) + 1] = sent + 1
  BY <1>1, AppendProperties, LenProperties DEF TypeOK, XAdd
<1>3. UNCHANGED <<low, group, inserts, pc, batch, left>>
  BY DEF XAdd, flusher
<1>4. LogOrdered'
  BY <1>1, <1>2 DEF IInv, LogOrdered
<1>5. RowsReceived'
  BY <1>1, <1>3 DEF IInv, RowsReceived
<1>6. AtMostOnce' /\ \A n : HasRow(n)' <=> HasRow(n)
  BY <1>3 DEF IInv, AtMostOnce, HasRow
<1>7. ~HasRow(sent + 1)
  BY <1>1 DEF IInv, RowsReceived, HasRow
<1>8. FirstUnread' = FirstUnread
  BY <1>3 DEF FirstUnread
<1>9. Unread' = Unread \cup {Len(log) + 1}
  BY <1>2, <1>8, UnreadInLog DEF Unread
<1>10. \A f \in Flushers : batch[f] \subseteq 1 .. Len(log) /\ left[f] \subseteq 1 .. Len(log)
  BY DEF TypeOK
<1>11. BatchesPrivate'
  <2>1. \A f \in Flushers : Len(log) + 1 \notin batch[f]
    BY <1>2, <1>10
  <2> QED
    BY <1>3, <1>9, <2>1 DEF IInv, BatchesPrivate
<1>12. NotYetStored'
  <2>1. \A i \in Unread' : ~HasRow(log'[i])
    BY <1>2, <1>7, <1>9, UnreadInLog DEF IInv, NotYetStored
  <2> QED
    BY <1>2, <1>3, <1>6, <1>10, <2>1 DEF IInv, NotYetStored
<1> QED
  BY <1>4, <1>5, <1>6, <1>11, <1>12 DEF IInv

\* The row the handler writes is the first one of the event, because the event is
\* not in the stream.
LEMMA InvPublishFails ==
  ASSUME "ambiguous" \notin Faults, TypeOK, IInv, PublishFails PROVE IInv'
<1>1. sent \in Nat /\ sent' = sent + 1
  BY ScriptIsSeq DEF TypeOK, PublishFails
<1>2. UNCHANGED <<log, low, group, pc, batch, left>>
  BY DEF PublishFails, Fault, flusher
<1>3. DirectRow(sent + 1) \subseteq {sent + 1} /\ DirectRow(sent + 1) \in SUBSET Nat
  BY <1>1 DEF DirectRow
<1>4. ~HasRow(sent + 1)
  BY <1>1 DEF IInv, RowsReceived, HasRow
<1>5. Insert(DirectRow(sent + 1), {})
  BY DEF PublishFails
<1>6. /\ \A n : HasRow(n)' <=> HasRow(n) \/ n \in DirectRow(sent + 1)
      /\ AtMostOnce'
  BY <1>3, <1>4, <1>5, InsertEffect DEF IInv
<1>7. LogOrdered'
  BY <1>1, <1>2 DEF IInv, LogOrdered
<1>8. RowsReceived'
  BY <1>1, <1>3, <1>6 DEF IInv, RowsReceived, HasRow
<1>9. Unread' = Unread
  BY <1>2 DEF Unread, FirstUnread
<1>10. BatchesPrivate'
  BY <1>2, <1>9 DEF IInv, BatchesPrivate
<1>11. \A i \in 1 .. Len(log) : HasRow(log[i])' => HasRow(log[i])
  BY <1>1, <1>2, <1>3, <1>6 DEF IInv, LogOrdered
<1>12. NotYetStored'
  <2>1. /\ Unread \subseteq 1 .. Len(log)
        /\ \A f \in Flushers : batch[f] \subseteq 1 .. Len(log) /\ left[f] \subseteq 1 .. Len(log)
    BY UnreadInLog DEF TypeOK
  <2> QED
    BY <1>2, <1>9, <1>11, <2>1 DEF IInv, NotYetStored
<1> QED
  BY <1>6, <1>7, <1>8, <1>10, <1>12 DEF IInv

\* A batch is taken from the unread entries, and they from it.
LEMMA InvReadNew ==
  ASSUME TypeOK, NEW f \in Flushers, IInv, ReadNew(f) PROVE IInv'
<1>0. UNCHANGED <<log, sent, low, inserts>>
  BY DEF ReadNew, handler
<1>1. CASE group = NoGroup \/ Unread = {}
  <2>1. Return(f) /\ UNCHANGED group
    BY <1>1 DEF ReadNew
  <2>2. Unread' = Unread
    BY <1>0, <2>1 DEF Unread, FirstUnread
  <2> QED
    BY <1>0, <2>1, <2>2, QuietStep DEF Quiet, Return, TypeOK, IInv, BatchesPrivate
<1>2. CASE ~(group = NoGroup \/ Unread = {})
  <2>1. /\ group' = LastOfBatch
        /\ batch' = [batch EXCEPT ![f] = NextBatch]
        /\ left' = [left EXCEPT ![f] = NextBatch]
        /\ pc' = [pc EXCEPT ![f] = "lookup"]
    BY <1>2 DEF ReadNew
  <2>2. FirstUnread \in Nat /\ FirstUnread >= 1 /\ FirstUnread =< Len(log) /\ Len(log) \in Nat
    BY <1>2, UnreadInLog DEF Unread
  <2>3. LastOfBatch \in FirstUnread .. Len(log)
    BY <2>2, ConstantsAssumption DEF LastOfBatch, Smaller
  <2>4. low \in Nat /\ low < FirstUnread
    BY <1>2, LenProperties DEF TypeOK, FirstUnread, Larger, NoGroup
  <2>5. FirstUnread' = LastOfBatch + 1
    BY <1>0, <2>1, <2>2, <2>3, <2>4 DEF FirstUnread, Larger
  <2>6. Unread' = (LastOfBatch + 1) .. Len(log)
    BY <1>0, <2>5 DEF Unread
  <2>7. NextBatch \subseteq Unread /\ Unread' \subseteq Unread /\ NextBatch \cap Unread' = {}
    <3>1. Unread = FirstUnread .. Len(log) /\ NextBatch = FirstUnread .. LastOfBatch
      BY DEF Unread, NextBatch
    <3> QED
      BY <2>2, <2>3, <2>6, <3>1
  <2>8. LogOrdered' /\ RowsReceived' /\ AtMostOnce' /\ \A n : HasRow(n)' <=> HasRow(n)
    BY <1>0 DEF IInv, LogOrdered, RowsReceived, AtMostOnce, HasRow
  <2>9. /\ batch'[f] = NextBatch /\ left'[f] = NextBatch /\ pc'[f] = "lookup"
        /\ \A g \in Flushers \ {f} :
             batch'[g] = batch[g] /\ left'[g] = left[g] /\ pc'[g] = pc[g]
    BY <2>1 DEF TypeOK
  <2>10. BatchesPrivate'
    BY <2>7, <2>9 DEF IInv, BatchesPrivate
  <2>11. NotYetStored'
    BY <1>0, <2>7, <2>8, <2>9 DEF IInv, NotYetStored
  <2> QED
    BY <2>8, <2>10, <2>11 DEF IInv
<1> QED
  BY <1>1, <1>2

\* What an INSERT of entries the flusher has still to insert does to the rows.
LEMMA InvRows ==
  ASSUME TypeOK, NEW f \in Flushers, NEW S \in SUBSET left[f], NEW R, IInv,
         Insert(Numbers(S), R), UNCHANGED <<log, sent>>
  PROVE  /\ LogOrdered' /\ RowsReceived' /\ AtMostOnce'
         /\ \A i \in (1 .. Len(log)) \ S : HasRow(log[i])' => HasRow(log[i])
<1>1. S \subseteq 1 .. Len(log) /\ left[f] \subseteq 1 .. Len(log)
  BY DEF TypeOK
<1>2. Numbers(S) \subseteq 1 .. sent
  BY <1>1 DEF Numbers, IInv, LogOrdered
<1>3. Numbers(S) \in SUBSET Nat
  BY <1>2, ScriptIsSeq DEF TypeOK
<1>4. \A n \in Numbers(S) : ~HasRow(n)
  BY DEF Numbers, IInv, NotYetStored
<1>5. /\ \A n : HasRow(n)' <=> HasRow(n) \/ n \in Numbers(S)
      /\ AtMostOnce'
  BY <1>3, <1>4, InsertEffect DEF IInv
<1>6. LogOrdered'
  BY DEF IInv, LogOrdered
<1>7. RowsReceived'
  BY <1>2, <1>5 DEF IInv, RowsReceived, HasRow
<1>8. ASSUME NEW i \in (1 .. Len(log)) \ S PROVE log[i] \notin Numbers(S)
  BY <1>1, Injective DEF IInv, Numbers
<1> QED
  BY <1>5, <1>6, <1>7, <1>8

\* The events of one INSERT are in no other batch and not unread.
LEMMA InvCreateInBatches ==
  ASSUME TypeOK, NEW f \in Flushers, IInv, CreateInBatches(f) PROVE IInv'
<1>1. PICK S \in SUBSET left[f], M \in SUBSET syn[f] :
        /\ Insert(Numbers(S), Recovered(f, M))
        /\ left' = [left EXCEPT ![f] = @ \ S]
        /\ \/ pc' = [pc EXCEPT ![f] = "ack"] /\ left[f] = S
           \/ pc' = pc
  BY DEF CreateInBatches
<1>2. UNCHANGED <<log, sent, low, group, batch>> /\ pc[f] = "insert"
  BY DEF CreateInBatches, handler, stream
<1>3. /\ LogOrdered' /\ RowsReceived' /\ AtMostOnce'
      /\ \A i \in (1 .. Len(log)) \ S : HasRow(log[i])' => HasRow(log[i])
  BY <1>1, <1>2, InvRows
<1>4. Unread' = Unread
  BY <1>2 DEF Unread, FirstUnread
<1>5. /\ left'[f] = left[f] \ S
      /\ pc'[f] \in {"insert", "ack"} /\ (pc'[f] = "ack" => left'[f] = {})
      /\ \A g \in Flushers \ {f} : left'[g] = left[g] /\ pc'[g] = pc[g]
  BY <1>1, <1>2 DEF TypeOK
<1>6. BatchesPrivate'
  BY <1>2, <1>4, <1>5 DEF IInv, BatchesPrivate
<1>7. S \subseteq batch[f]
  BY DEF IInv, BatchesPrivate
<1>8. /\ Unread \subseteq 1 .. Len(log)
      /\ \A g \in Flushers : batch[g] \subseteq 1 .. Len(log) /\ left[g] \subseteq batch[g]
  BY UnreadInLog DEF TypeOK, IInv, BatchesPrivate
<1>9. Unread \cap S = {} /\ \A g \in Flushers \ {f} : batch[g] \cap S = {}
  BY <1>7 DEF IInv, BatchesPrivate
<1>10. \A i \in Unread' : ~HasRow(log[i])'
  BY <1>3, <1>4, <1>8, <1>9 DEF IInv, NotYetStored
<1>11. \A g \in Flushers : \A i \in left'[g] : ~HasRow(log[i])'
  BY <1>3, <1>5, <1>8, <1>9 DEF IInv, NotYetStored
<1>12. \A g \in Flushers :
         pc'[g] \in {"lookup", "messages"} => \A i \in batch'[g] : ~HasRow(log[i])'
  BY <1>2, <1>3, <1>5, <1>8, <1>9 DEF IInv, NotYetStored
<1>13. NotYetStored'
  BY <1>2, <1>10, <1>11, <1>12 DEF NotYetStored, HasRow
<1> QED
  BY <1>3, <1>6, <1>13 DEF IInv

\* A failed INSERT, committed or not, ends the flush and empties its batch.
LEMMA InvInsertFails ==
  ASSUME TypeOK, NEW f \in Flushers, IInv, InsertFails(f) PROVE IInv'
<1>1. PICK S \in SUBSET left[f] : \E R : Insert(Numbers(S), R)
  <2>1. Numbers({}) = {} /\ {} \in SUBSET left[f]
    BY DEF Numbers
  <2>2. PICK S \in SUBSET left[f], M \in SUBSET syn[f] :
          Insert(Numbers(S), Recovered(f, M)) \/ Insert({}, {})
    BY DEF InsertFails
  <2> QED
    BY <2>1, <2>2
<1>2. UNCHANGED <<log, sent, low, group>> /\ Return(f)
  BY DEF InsertFails, ReturnUnacknowledged, handler
<1>3. /\ LogOrdered' /\ RowsReceived' /\ AtMostOnce'
      /\ \A i \in (1 .. Len(log)) \ S : HasRow(log[i])' => HasRow(log[i])
  BY <1>1, <1>2, InvRows
<1>4. Unread' = Unread
  BY <1>2 DEF Unread, FirstUnread
<1>5. /\ batch'[f] = {} /\ left'[f] = {} /\ pc'[f] = "idle"
      /\ \A g \in Flushers \ {f} :
           batch'[g] = batch[g] /\ left'[g] = left[g] /\ pc'[g] = pc[g]
  BY <1>2 DEF TypeOK, Return
<1>6. BatchesPrivate'
  BY <1>4, <1>5 DEF IInv, BatchesPrivate
<1>7. S \subseteq batch[f]
  BY DEF IInv, BatchesPrivate
<1>8. /\ Unread \subseteq 1 .. Len(log)
      /\ \A g \in Flushers : batch[g] \subseteq 1 .. Len(log) /\ left[g] \subseteq batch[g]
  BY UnreadInLog DEF TypeOK, IInv, BatchesPrivate
<1>9. Unread \cap S = {} /\ \A g \in Flushers \ {f} : batch[g] \cap S = {}
  BY <1>7 DEF IInv, BatchesPrivate
<1>10. \A i \in Unread' : ~HasRow(log[i])'
  BY <1>3, <1>4, <1>8, <1>9 DEF IInv, NotYetStored
<1>11. \A g \in Flushers :
         /\ \A i \in left'[g] : ~HasRow(log[i])'
         /\ pc'[g] \in {"lookup", "messages"} => \A i \in batch'[g] : ~HasRow(log[i])'
  BY <1>3, <1>5, <1>8, <1>9 DEF IInv, NotYetStored
<1>12. NotYetStored'
  BY <1>2, <1>10, <1>11 DEF NotYetStored, HasRow
<1> QED
  BY <1>3, <1>6, <1>12 DEF IInv

\* Raising one of two numbers does not lower the larger: a later trim leaves a
\* later first unread entry.
LEMMA LargerMonotone ==
  ASSUME NEW a \in Int, NEW b \in Int, NEW g \in Int, b >= a
  PROVE  /\ Larger(a, g) \in Int /\ Larger(b, g) \in Int
         /\ Larger(b, g) >= Larger(a, g)
BY DEF Larger

\* A flusher's step that inserts nothing and reads nothing.
LEMMA QuietFlusher ==
  ASSUME TypeOK, NEW f \in Flushers, IInv,
         \/ FlushAll(f) \/ ProcessPending(f) \/ CreateGroup(f) \/ FindConversation(f)
         \/ ConversationNotFound(f) \/ HandleMessage(f) \/ PeekChunks(f) \/ Ack(f)
         \/ DropChunk(f) \/ Trim(f) \/ Crash(f)
  PROVE  Quiet
<1>1. low \in Nat /\ Len(log) \in Nat /\ low =< Len(log)
  BY LenProperties DEF TypeOK
<1>2. ASSUME group' = EnsuredGroup, low' = low, log' = log PROVE Unread' = Unread
  BY <1>1, <1>2 DEF TypeOK, EnsuredGroup, NoGroup, Unread, FirstUnread, Larger
<1>3. ASSUME UNCHANGED <<log, low, group>> PROVE Unread' = Unread
  BY <1>3 DEF Unread, FirstUnread
<1>4. ASSUME Return(f), UNCHANGED <<log, sent, inserts>>, Unread' \subseteq Unread PROVE Quiet
  BY <1>4 DEF Quiet, TypeOK, Return, IInv, BatchesPrivate
<1>5. CASE FlushAll(f)
  BY <1>3, <1>5 DEF Quiet, FlushAll, Goto, TypeOK, IInv, BatchesPrivate, handler, stream
<1>6. CASE ProcessPending(f)
  BY <1>2, <1>6 DEF Quiet, ProcessPending, TypeOK, IInv, BatchesPrivate, handler
<1>7. CASE CreateGroup(f)
  BY <1>2, <1>7 DEF Quiet, CreateGroup, Goto, TypeOK, IInv, BatchesPrivate, handler
<1>8. CASE FindConversation(f)
  BY <1>3, <1>8 DEF Quiet, FindConversation, Goto, TypeOK, IInv, BatchesPrivate, handler, stream
<1>9. CASE ConversationNotFound(f)
  BY <1>3, <1>4, <1>9 DEF ConversationNotFound, handler
<1>10. CASE HandleMessage(f)
  <2>1. /\ pc[f] = "messages" /\ UNCHANGED <<log, low, group, sent, inserts, batch>>
    BY <1>10 DEF HandleMessage, handler, stream
  <2>2. PICK i \in left[f] :
          \/ /\ left' = [left EXCEPT ![f] = Rows(batch[f])]
             /\ pc' = [pc EXCEPT ![f] = "peek"] \/ pc' = [pc EXCEPT ![f] = "insert"]
          \/ left' = [left EXCEPT ![f] = @ \ {i}] /\ pc' = pc
    BY <1>10 DEF HandleMessage
  <2>3. /\ left'[f] \subseteq batch[f] /\ pc'[f] \in {"messages", "peek", "insert"}
        /\ \A g \in Flushers \ {f} : left'[g] = left[g] /\ pc'[g] = pc[g]
    BY <2>1, <2>2 DEF TypeOK, IInv, BatchesPrivate, Rows
  <2> QED
    BY <1>3, <2>1, <2>3 DEF Quiet, IInv, BatchesPrivate
<1>11. CASE PeekChunks(f)
  BY <1>3, <1>11 DEF Quiet, PeekChunks, Goto, TypeOK, IInv, BatchesPrivate, handler, stream
<1>12. CASE Ack(f)
  BY <1>3, <1>12 DEF Quiet, Ack, Goto, TypeOK, IInv, BatchesPrivate, handler
<1>13. CASE DropChunk(f)
  BY <1>3, <1>13 DEF Quiet, DropChunk, TypeOK, IInv, BatchesPrivate, handler, stream
<1>14. CASE Trim(f)
  <2>1. /\ Return(f) /\ UNCHANGED <<log, sent, inserts, group>>
        /\ low' \in Int /\ low' >= low
    BY <1>1, <1>14, ConstantsAssumption DEF Trim, handler
  <2>2. Unread' \subseteq Unread
    <3>1. group \in Int
      BY <1>1 DEF TypeOK, NoGroup
    <3>2. FirstUnread' \in Int /\ FirstUnread \in Int /\ FirstUnread' >= FirstUnread
      <4>1. FirstUnread = 1 + Larger(low, group) /\ FirstUnread' = 1 + Larger(low', group)
        BY <2>1 DEF FirstUnread
      <4>2. /\ Larger(low, group) \in Int /\ Larger(low', group) \in Int
            /\ Larger(low', group) >= Larger(low, group)
        <5>1. low \in Int /\ low' \in Int /\ low' >= low
          BY <1>1, <2>1
        <5> QED
          BY <3>1, <5>1, LargerMonotone
      <4> QED
        BY <4>1, <4>2
    <3>3. Unread = FirstUnread .. Len(log) /\ Unread' = FirstUnread' .. Len(log)
      BY <2>1 DEF Unread
    <3> QED
      BY <1>1, <3>2, <3>3
  <2> QED
    BY <1>4, <2>1, <2>2
<1>15. CASE Crash(f)
  BY <1>3, <1>4, <1>15 DEF Crash, handler, stream
<1> QED
  BY <1>5, <1>6, <1>7, <1>8, <1>9, <1>10, <1>11, <1>12, <1>13, <1>14, <1>15

\* Steps that no flusher takes and that add nothing to the stream.
LEMMA QuietRest ==
  ASSUME TypeOK, IInv,
         \/ TrackActive \/ TimePasses \/ Cleanup \/ UNCHANGED vars
         \/ \E m \in Messages : AccumulatorExpires(m)
  PROVE  Quiet
<1>1. UNCHANGED <<log, sent, inserts, batch, left, pc>>
  BY DEF TrackActive, TimePasses, Cleanup, CleanIdle, DeleteStream, Untrack, AccumulatorExpires,
         vars, handler, stream, flusher
<1>2. Unread' \subseteq Unread
  <2>1. CASE DeleteStream
    <3>1. low' = Len(log) /\ log' = log /\ group' = -1 /\ Len(log) \in Nat
      BY <2>1, LenProperties DEF DeleteStream, NoGroup, TypeOK
    <3>2. FirstUnread' = Len(log) + 1
      BY <3>1 DEF FirstUnread, Larger
    <3>3. Unread' = (Len(log) + 1) .. Len(log)
      BY <3>1, <3>2 DEF Unread
    <3> QED
      BY <3>1, <3>3
  <2>2. CASE ~DeleteStream
    <3>1. UNCHANGED <<log, low, group>>
      BY <2>2 DEF TrackActive, TimePasses, Cleanup, CleanIdle, Untrack, AccumulatorExpires,
                  vars, stream
    <3> QED
      BY <3>1 DEF Unread, FirstUnread
  <2> QED
    BY <2>1, <2>2
<1> QED
  BY <1>1, <1>2 DEF Quiet, IInv, BatchesPrivate

\* Every step keeps the invariant.
LEMMA InvNext ==
  ASSUME "ambiguous" \notin Faults PROVE TypeOK /\ IInv /\ [Next]_vars => IInv'
<1> SUFFICES ASSUME TypeOK, IInv, [Next]_vars PROVE IInv'
  OBVIOUS
<1>1. CASE Publish
  BY <1>1, InvXAdd, InvPublishFails, QuietRest, QuietStep DEF Publish
<1>2. ASSUME NEW f \in Flushers, FlushStep(f) PROVE IInv'
  BY <1>2, InvReadNew, InvCreateInBatches, QuietFlusher, QuietStep DEF FlushStep
<1>3. ASSUME NEW f \in Flushers,
             ProcessPending(f) \/ ConversationNotFound(f) \/ InsertFails(f) \/ Crash(f)
      PROVE  IInv'
  BY <1>3, InvInsertFails, QuietFlusher, QuietStep
<1>4. ASSUME NEW m \in Messages, AccumulatorExpires(m) PROVE IInv'
  BY <1>4, QuietRest, QuietStep
<1>5. CASE TimePasses \/ Cleanup \/ UNCHANGED vars
  BY <1>5, QuietRest, QuietStep
<1> QED
  BY <1>1, <1>2, <1>3, <1>4, <1>5 DEF Next

\* As long as no XADD takes effect without its reply, no event is stored twice:
\* not by two flushers, not after a crash, not after a failed INSERT, and not by
\* the handler's fallback.
THEOREM StoredOnce ==
  ASSUME "ambiguous" \notin Faults PROVE Spec => []AtMostOnce
<1>1. Init => TypeOK /\ IInv
  BY InitType, InitInvariant
<1>2. TypeOK /\ IInv /\ [Next]_vars => (TypeOK /\ IInv)'
  BY TypeNext, InvNext
<1>3. IInv => AtMostOnce
  BY DEF IInv
<1> QED
  BY <1>1, <1>2, <1>3, PTL DEF Spec

-----------------------------------------------------------------------------
(***************************************************************************)
(* EventFlusher implements EventJournal.                                   *)
(***************************************************************************)
writes == [k \in DOMAIN inserts |-> inserts[k].events]

\* One INSERT writes one set of events to the journal, or nothing.
LEMMA WritesAfterInsert ==
  ASSUME TypeOK, NEW N, NEW R, Insert(N, R)
  PROVE  writes' = writes \/ writes' = Append(writes, N)
<1> DEFINE new == [events |-> N, recovered |-> R]
<1>1. inserts \in Seq([events : SUBSET Nat, recovered : SUBSET RecoveredRow])
  BY DEF TypeOK
<1>2. CASE inserts' = inserts
  BY <1>2 DEF writes
<1>3. CASE inserts' = Append(inserts, new)
  <2> DEFINE n == Len(inserts)
             Any == [events : SUBSET Nat, recovered : SUBSET RecoveredRow] \cup {new}
             Sets == (SUBSET Nat) \cup {N}
  <2>1. n \in Nat /\ DOMAIN inserts = 1 .. n /\ inserts = [k \in 1 .. n |-> inserts[k]]
    BY <1>1, LenProperties
  <2>2. \A k \in 1 .. n : inserts[k] \in [events : SUBSET Nat, recovered : SUBSET RecoveredRow]
    BY <1>1, <2>1, ElementOfSeq
  <2>3. inserts \in Seq(Any)
    <3>1. \A k \in 1 .. n : inserts[k] \in Any
      BY <2>2
    <3> HIDE DEF Any
    <3> QED
      BY <2>1, <3>1
  <2>4. /\ DOMAIN inserts' = 1 .. (n + 1) /\ inserts'[n + 1] = new
        /\ \A k \in 1 .. n : inserts'[k] = inserts[k]
    <3>1. new \in Any
      OBVIOUS
    <3> HIDE DEF Any, new
    <3> QED
      BY <1>3, <2>1, <2>3, <3>1, AppendProperties, LenProperties
  <2>5. writes = [k \in 1 .. n |-> inserts[k].events]
    BY <2>1 DEF writes
  <2>6. writes \in Seq(Sets) /\ Len(writes) = n
    <3>1. \A k \in 1 .. n : inserts[k].events \in Sets
      BY <2>2
    <3> HIDE DEF Sets
    <3>2. writes \in Seq(Sets)
      BY <2>1, <2>5, <3>1
    <3> QED
      BY <2>1, <2>5, <3>2, LenProperties
  <2>7. /\ Append(writes, N) \in Seq(Sets) /\ Len(Append(writes, N)) = n + 1
        /\ Append(writes, N)[n + 1] = N
        /\ \A k \in 1 .. n : Append(writes, N)[k] = writes[k]
    <3>1. N \in Sets
      OBVIOUS
    <3> HIDE DEF Sets
    <3> QED
      BY <2>1, <2>6, <3>1, AppendProperties
  <2>8. writes' = [k \in 1 .. (n + 1) |-> Append(writes, N)[k]]
    BY <2>1, <2>4, <2>5, <2>7 DEF writes
  <2>9. Append(writes, N) = [k \in 1 .. (n + 1) |-> Append(writes, N)[k]]
    BY <2>7, LenProperties
  <2> QED
    BY <2>8, <2>9
<1> QED
  BY <1>2, <1>3 DEF Insert

\* What is written to the journal is what has a row.
LEMMA WrittenIsHasRow == \A n : n \in Journal!Written <=> HasRow(n)
BY DEF Journal!Written, HasRow

\* A step of the event path is a step of the journal, or none.
LEMMA JournalStep ==
  ASSUME "ambiguous" \notin Faults, TypeOK, IInv, [Next]_vars
  PROVE  [Journal!Next]_(Journal!vars)
<1>1. sent \in Nat
  BY ScriptIsSeq DEF TypeOK
<1>2. ASSUME UNCHANGED <<sent, inserts>> PROVE UNCHANGED Journal!vars
  BY <1>2 DEF Journal!vars
<1>3. ASSUME NEW f \in Flushers, NEW S \in SUBSET left[f], NEW R, Insert(Numbers(S), R),
             sent' = sent
      PROVE  Journal!Write \/ UNCHANGED Journal!vars
  <2>1. S \subseteq 1 .. Len(log)
    BY DEF TypeOK
  <2>2. Numbers(S) \in SUBSET (1 .. sent)
    BY <2>1 DEF Numbers, IInv, LogOrdered
  <2>3. Numbers(S) \cap Journal!Written = {}
    BY WrittenIsHasRow DEF Numbers, IInv, NotYetStored
  <2>4. writes' = writes \/ writes' = Append(writes, Numbers(S))
    BY <1>3, WritesAfterInsert
  <2> QED
    BY <1>3, <2>2, <2>3, <2>4 DEF Journal!Write, Journal!vars, writes
<1>4. CASE XAdd
  BY <1>4 DEF XAdd, Journal!Next, Journal!Receive
<1>5. CASE PublishFails
  <2>1. sent' = sent + 1 /\ Insert(DirectRow(sent + 1), {})
    BY <1>5 DEF PublishFails
  <2>2. CASE DirectRow(sent + 1) = {}
    BY <2>1, <2>2 DEF Insert, Journal!Next, Journal!Receive
  <2>3. CASE DirectRow(sent + 1) = {sent + 1}
    <3>1. writes' = writes \/ writes' = Append(writes, {sent + 1})
      BY <2>1, <2>3, WritesAfterInsert
    <3> QED
      BY <2>1, <3>1 DEF Journal!Next, Journal!Receive, writes
  <2> QED
    BY <2>2, <2>3 DEF DirectRow
<1>6. ASSUME NEW f \in Flushers, CreateInBatches(f) PROVE Journal!Write \/ UNCHANGED Journal!vars
  <2>1. sent' = sent
    BY <1>6 DEF CreateInBatches, handler
  <2> QED
    BY <1>3, <1>6, <2>1 DEF CreateInBatches
<1>7. ASSUME NEW f \in Flushers, InsertFails(f) PROVE Journal!Write \/ UNCHANGED Journal!vars
  <2>1. sent' = sent
    BY <1>7 DEF InsertFails, handler
  <2>2. Numbers({}) = {} /\ {} \in SUBSET left[f]
    BY DEF Numbers
  <2>3. PICK S \in SUBSET left[f] : \E R : Insert(Numbers(S), R)
    <3>1. PICK S \in SUBSET left[f], M \in SUBSET syn[f] :
            Insert(Numbers(S), Recovered(f, M)) \/ Insert({}, {})
      BY <1>7 DEF InsertFails
    <3> QED
      BY <2>2, <3>1
  <2> QED
    BY <1>3, <2>1, <2>3
<1>8. CASE TrackActive \/ TimePasses \/ Cleanup \/ UNCHANGED vars
           \/ \E m \in Messages : AccumulatorExpires(m)
  BY <1>2, <1>8 DEF TrackActive, TimePasses, Cleanup, CleanIdle, DeleteStream, Untrack,
                    AccumulatorExpires, vars, handler
<1>9. ASSUME NEW f \in Flushers,
             \/ FlushAll(f) \/ ProcessPending(f) \/ CreateGroup(f) \/ ReadNew(f)
             \/ FindConversation(f) \/ ConversationNotFound(f) \/ HandleMessage(f)
             \/ PeekChunks(f) \/ Ack(f) \/ DropChunk(f) \/ Trim(f) \/ Crash(f)
      PROVE  UNCHANGED Journal!vars
  BY <1>2, <1>9 DEF FlushAll, ProcessPending, CreateGroup, ReadNew, FindConversation,
       ConversationNotFound, HandleMessage, PeekChunks, Ack, DropChunk, Trim, Crash, handler
<1> QED
  BY <1>4, <1>5, <1>6, <1>7, <1>8, <1>9 DEF Next, Publish, FlushStep, Journal!Next

\* Seen from Postgres, handlers, flushers and Cleanup are a journal that receives
\* events and stores each of them at most once.
THEOREM JournalImplemented ==
  ASSUME "ambiguous" \notin Faults PROVE Spec => ImplementsJournal
<1>1. Init => TypeOK /\ IInv /\ Journal!Init
  <2>1. Init => Journal!Init
    BY DEF Init, Journal!Init
  <2> QED
    BY <2>1, InitType, InitInvariant
<1>2. TypeOK /\ IInv /\ [Next]_vars => (TypeOK /\ IInv)' /\ [Journal!Next]_(Journal!vars)
  BY TypeNext, InvNext, JournalStep
<1> QED
  BY <1>1, <1>2, PTL DEF Spec, ImplementsJournal, Journal!Spec

-----------------------------------------------------------------------------
(***************************************************************************)
(* Nothing is acknowledged before it is stored.                            *)
(***************************************************************************)

\* Of the batch, everything that gets a row has it, but for what is left to
\* insert; after the last INSERT nothing is left.
BatchStored ==
  \A f \in Flushers :
    pc[f] \in {"peek", "insert", "ack"} =>
      \A i \in batch[f] :
        \/ HasRow(log[i])
        \/ ~Stored(EventAt(i))
        \/ i \in left[f] /\ pc[f] # "ack"

\* A step that takes no row away and leaves the stream's old entries as they are
\* keeps it for every flusher it does not move.
LEMMA BatchStoredKept ==
  ASSUME TypeOK, BatchStored, NEW g \in Flushers,
         batch'[g] \subseteq batch[g], left'[g] = left[g] \/ batch'[g] = {},
         pc'[g] = pc[g] \/ pc'[g] \notin {"insert", "peek", "ack"}
                 \/ (pc[g] = "peek" /\ pc'[g] = "insert"),
         script' = script,
         \A i \in 1 .. Len(log) : log'[i] = log[i],
         \A n : HasRow(n) => HasRow(n)'
  PROVE  pc'[g] \in {"peek", "insert", "ack"} =>
           \A i \in batch'[g] :
             \/ HasRow(log[i])'
             \/ ~Stored(EventAt(i))'
             \/ i \in left'[g] /\ pc'[g] # "ack"
<1>1. batch[g] \subseteq 1 .. Len(log)
  BY DEF TypeOK
<1>2. \A i \in batch[g] : /\ HasRow(log[i]) => HasRow(log[i])'
                          /\ Stored(EventAt(i))' => Stored(EventAt(i))
  BY <1>1 DEF HasRow, Stored, EventAt
<1> QED
  BY <1>2 DEF BatchStored

\* Every step keeps it: the rows of a batch are chosen when its last message is
\* handled, an INSERT takes from what is left what it stores, and the flusher goes
\* on to acknowledge only when nothing is left.
LEMMA BatchStoredNext ==
  TypeOK /\ BatchStored /\ [Next]_vars => BatchStored'
<1> SUFFICES ASSUME TypeOK, BatchStored, [Next]_vars PROVE BatchStored'
  OBVIOUS
<1> DEFINE Kept(g) == /\ batch'[g] \subseteq batch[g]
                      /\ left'[g] = left[g] \/ batch'[g] = {}
                      /\ \/ pc'[g] = pc[g] \/ pc'[g] \notin {"insert", "peek", "ack"}
                         \/ pc[g] = "peek" /\ pc'[g] = "insert"
<1> DEFINE Entries == /\ script' = script
                      /\ \A i \in 1 .. Len(log) : log'[i] = log[i]
<1> DEFINE Grows == \A n : HasRow(n) => HasRow(n)'
<1>1. ASSUME Entries, Grows, \A g \in Flushers : Kept(g) PROVE BatchStored'
  BY <1>1, BatchStoredKept DEF BatchStored
<1>2. ASSUME inserts' = inserts PROVE Grows
  BY <1>2 DEF HasRow
<1>3. ASSUME NEW N \in SUBSET Nat, NEW R, Insert(N, R) PROVE Grows
  BY <1>3, InsertEffect
<1>4. ASSUME UNCHANGED <<script, log>> PROVE Entries
  BY <1>4
<1>5. ASSUME NEW f \in Flushers, Return(f) PROVE \A g \in Flushers : Kept(g)
  BY <1>5 DEF TypeOK, Return
<1>6. ASSUME UNCHANGED flusher PROVE \A g \in Flushers : Kept(g)
  BY <1>6 DEF flusher
<1>7. ASSUME NEW f \in Flushers, NEW S \in SUBSET left[f]
      PROVE  Numbers(S) \in SUBSET Nat
  <2>1. \A i \in S : log[i] \in Nat
    BY ElementOfSeq DEF TypeOK
  <2> QED
    BY <2>1 DEF Numbers
<1> HIDE DEF Kept, Entries, Grows
<1>8. CASE Publish
  <2>1. UNCHANGED <<script, flusher>>
    BY <1>8 DEF Publish, XAdd, TrackActive, PublishFails
  <2>2. sent + 1 \in Nat
    BY ScriptIsSeq DEF TypeOK
  <2>3. Entries
    <3>1. log \in Seq(Nat) /\ \A i \in 1 .. Len(log) : Append(log, sent + 1)[i] = log[i]
      BY <2>2, AppendProperties DEF TypeOK
    <3>2. log' = log \/ log' = Append(log, sent + 1)
      BY <1>8 DEF Publish, XAdd, TrackActive, PublishFails, stream
    <3> QED
      BY <2>1, <3>1, <3>2 DEF Entries
  <2>4. Grows
    <3>1. DirectRow(sent + 1) \in SUBSET Nat
      BY <2>2 DEF DirectRow
    <3>2. inserts' = inserts \/ Insert(DirectRow(sent + 1), {})
      BY <1>8 DEF Publish, XAdd, TrackActive, PublishFails
    <3> QED
      BY <1>2, <1>3, <3>1, <3>2
  <2> QED
    BY <1>1, <1>6, <2>1, <2>3, <2>4
<1>9. CASE TimePasses \/ Cleanup \/ UNCHANGED vars \/ \E m \in Messages : AccumulatorExpires(m)
  <2>1. UNCHANGED <<script, log, inserts, flusher>>
    BY <1>9 DEF TimePasses, Cleanup, CleanIdle, DeleteStream, Untrack, AccumulatorExpires, vars,
                handler, stream
  <2> QED
    BY <1>1, <1>2, <1>4, <1>6, <2>1
<1>10. ASSUME NEW f \in Flushers,
              \/ FlushAll(f) \/ ProcessPending(f) \/ CreateGroup(f) \/ ReadNew(f)
              \/ FindConversation(f) \/ ConversationNotFound(f) \/ PeekChunks(f)
              \/ DropChunk(f) \/ Trim(f) \/ Crash(f)
       PROVE  BatchStored'
  <2>1. UNCHANGED <<script, log, inserts>>
    BY <1>10 DEF FlushAll, ProcessPending, CreateGroup, ReadNew, FindConversation,
                 ConversationNotFound, PeekChunks, DropChunk, Trim, Crash, handler, stream
  <2>2. CASE Return(f)
    BY <1>1, <1>2, <1>4, <1>5, <2>1, <2>2
  <2>3. CASE ReadNew(f) /\ ~Return(f)
    <3>1. /\ pc' = [pc EXCEPT ![f] = "lookup"]
          /\ batch' = [batch EXCEPT ![f] = NextBatch] /\ left' = [left EXCEPT ![f] = NextBatch]
      BY <2>3 DEF ReadNew
    <3>2. \A g \in Flushers \ {f} : Kept(g) /\ pc'[f] = "lookup"
      BY <3>1 DEF Kept, TypeOK
    <3>3. Entries /\ Grows
      BY <1>2, <1>4, <2>1
    <3> QED
      BY <3>1, <3>2, <3>3, BatchStoredKept DEF BatchStored, Kept, Entries, Grows, TypeOK
  <2>4. CASE \/ FlushAll(f) \/ ProcessPending(f) \/ CreateGroup(f)
             \/ FindConversation(f) \/ PeekChunks(f) \/ DropChunk(f)
    <3>1. \A g \in Flushers : Kept(g)
      BY <2>4 DEF Kept, TypeOK, FlushAll, ProcessPending, CreateGroup, FindConversation,
                  PeekChunks, DropChunk, Goto
    <3> QED
      BY <1>1, <1>2, <1>4, <2>1, <3>1
  <2> QED
    BY <1>10, <2>2, <2>3, <2>4 DEF ConversationNotFound, Trim, Crash
<1>11. ASSUME NEW f \in Flushers, InsertFails(f) PROVE BatchStored'
  <2>1. UNCHANGED <<script, log>> /\ Return(f)
    BY <1>11 DEF InsertFails, ReturnUnacknowledged, handler
  <2>2. Grows
    <3>1. PICK S \in SUBSET left[f], M \in SUBSET syn[f] :
            Insert(Numbers(S), Recovered(f, M)) \/ Insert({}, {})
      BY <1>11 DEF InsertFails
    <3>2. {} \in SUBSET Nat
      OBVIOUS
    <3> QED
      BY <1>3, <1>7, <3>1, <3>2
  <2> QED
    BY <1>1, <1>4, <1>5, <2>1, <2>2
<1>12. ASSUME NEW f \in Flushers, Ack(f) PROVE BatchStored'
  <2>1. UNCHANGED <<script, log, inserts, batch, left>> /\ pc' = [pc EXCEPT ![f] = "drop"]
    BY <1>12 DEF Ack, Goto, handler
  <2>2. \A g \in Flushers : Kept(g)
    BY <2>1 DEF Kept, TypeOK
  <2> QED
    BY <1>1, <1>2, <1>4, <2>1, <2>2
<1>13. ASSUME NEW f \in Flushers, HandleMessage(f) PROVE BatchStored'
  <2>1. UNCHANGED <<script, log, inserts, batch>> /\ pc[f] = "messages"
    BY <1>13 DEF HandleMessage, handler, stream
  <2>2. PICK i \in left[f] :
          \/ /\ left' = [left EXCEPT ![f] = Rows(batch[f])]
             /\ pc' = [pc EXCEPT ![f] = "peek"] \/ pc' = [pc EXCEPT ![f] = "insert"]
          \/ left' = [left EXCEPT ![f] = @ \ {i}] /\ pc' = pc
    BY <1>13 DEF HandleMessage
  <2>3. \A g \in Flushers \ {f} : Kept(g)
    BY <2>1, <2>2 DEF Kept, TypeOK
  <2>4. \/ pc'[f] = "messages"
        \/ pc'[f] \in {"peek", "insert"} /\ left'[f] = Rows(batch[f])
    BY <2>1, <2>2 DEF TypeOK
  <2>5. \A j \in batch[f] : ~Stored(EventAt(j))' \/ j \in Rows(batch[f])
    BY <2>1 DEF Rows, Stored, EventAt
  <2>6. Entries /\ Grows
    BY <1>2, <1>4, <2>1
  <2>7. ASSUME NEW g \in Flushers \ {f}, pc'[g] \in {"peek", "insert", "ack"}
        PROVE  \A i_1 \in batch'[g] :
                 \/ HasRow(log[i_1])'
                 \/ ~Stored(EventAt(i_1))'
                 \/ i_1 \in left'[g] /\ pc'[g] # "ack"
    BY <2>3, <2>6, <2>7, BatchStoredKept DEF Kept, Entries, Grows
  <2> QED
    BY <2>1, <2>4, <2>5, <2>7 DEF BatchStored
<1>14. ASSUME NEW f \in Flushers, CreateInBatches(f) PROVE BatchStored'
  <2>1. UNCHANGED <<script, log, batch>> /\ pc[f] = "insert"
    BY <1>14 DEF CreateInBatches, handler, stream
  <2>2. PICK S \in SUBSET left[f], M \in SUBSET syn[f] :
          /\ Insert(Numbers(S), Recovered(f, M))
          /\ left' = [left EXCEPT ![f] = @ \ S]
          /\ \/ pc' = [pc EXCEPT ![f] = "ack"] /\ left[f] = S
             \/ pc' = pc
    BY <1>14 DEF CreateInBatches
  <2>3. Numbers(S) \in SUBSET Nat
    BY <1>7, <2>2
  <2>4. \A n : HasRow(n)' <=> HasRow(n) \/ n \in Numbers(S)
    BY <2>2, <2>3, InsertEffect
  <2>5. Entries /\ Grows
    BY <1>4, <2>1, <2>4 DEF Grows
  <2>6. \A g \in Flushers \ {f} : Kept(g)
    BY <2>1, <2>2 DEF Kept, TypeOK
  <2>7. left'[f] = left[f] \ S /\ (pc'[f] = "insert" \/ (pc'[f] = "ack" /\ left[f] = S))
    <3>1. left'[f] = left[f] \ S
      BY <2>2 DEF TypeOK
    <3>2. pc'[f] = "insert" \/ (pc'[f] = "ack" /\ left[f] = S)
      BY <2>1, <2>2 DEF TypeOK
    <3> QED
      BY <3>1, <3>2
  <2>8. \A i \in batch[f] : HasRow(log[i]) \/ ~Stored(EventAt(i)) \/ i \in left[f]
    BY <2>1 DEF BatchStored
  <2>9. \A i \in S : log[i] \in Numbers(S)
    BY DEF Numbers
  <2>10. \A i \in batch[f] : \/ HasRow(log[i])' \/ ~Stored(EventAt(i))'
                             \/ i \in left'[f] /\ pc'[f] # "ack"
    <3>1. \A i : HasRow(log[i])' <=> HasRow(log[i]) \/ log[i] \in Numbers(S)
      BY <2>1, <2>4 DEF HasRow
    <3>2. \A i : Stored(EventAt(i))' <=> Stored(EventAt(i))
      BY <2>1 DEF Stored, EventAt
    <3> QED
      BY <2>7, <2>8, <2>9, <3>1, <3>2
  <2>11. ASSUME NEW g \in Flushers \ {f}, pc'[g] \in {"peek", "insert", "ack"}
         PROVE  \A i \in batch'[g] :
                  \/ HasRow(log[i])'
                  \/ ~Stored(EventAt(i))'
                  \/ i \in left'[g] /\ pc'[g] # "ack"
    BY <2>5, <2>6, <2>11, BatchStoredKept DEF Kept, Entries, Grows
  <2> QED
    BY <2>1, <2>10, <2>11 DEF BatchStored
<1> QED
  BY <1>8, <1>9, <1>10, <1>11, <1>12, <1>13, <1>14 DEF Next, FlushStep

\* An entry leaves a pending list only when the batch it is in has been stored,
\* its conversation could not be looked up, or the stream is deleted.
LEMMA AckStep ==
  ASSUME TypeOK, BatchStored, [Next]_vars, NEW f \in Flushers, NEW i \in pel[f] \ pel'[f]
  PROVE  \/ log[i] \in Persisted
         \/ ~Stored(EventAt(i))
         \/ pc[f] = "lookup"
         \/ group' = NoGroup
<1>1. pel' # pel
  OBVIOUS
<1>2. ASSUME NEW g \in Flushers, pel' = [pel EXCEPT ![g] = @ \ batch[g]]
      PROVE  g = f /\ i \in batch[g]
  BY <1>2 DEF TypeOK
<1>3. ASSUME NEW g \in Flushers, ReadNew(g) PROVE FALSE
  <2>1. pel' = pel \/ pel' = [pel EXCEPT ![g] = @ \cup NextBatch]
    BY <1>3 DEF ReadNew
  <2> QED
    BY <1>1, <2>1 DEF TypeOK
<1>4. ASSUME NEW g \in Flushers, ConversationNotFound(g) PROVE pc[f] = "lookup"
  BY <1>2, <1>4 DEF ConversationNotFound
<1>5. ASSUME NEW g \in Flushers, Ack(g) PROVE log[i] \in Persisted \/ ~Stored(EventAt(i))
  <2>1. pc[g] = "ack" /\ pel' = [pel EXCEPT ![g] = @ \ batch[g]]
    BY <1>1, <1>5 DEF Ack, Goto
  <2>2. g = f /\ i \in batch[f]
    BY <1>2, <2>1
  <2>3. HasRow(log[i]) \/ ~Stored(EventAt(i))
    BY <2>1, <2>2 DEF BatchStored
  <2> QED
    BY <2>3 DEF HasRow, Persisted
<1>6. CASE DeleteStream
  BY <1>6 DEF DeleteStream
<1>7. CASE Publish \/ TimePasses \/ CleanIdle \/ Untrack \/ UNCHANGED vars
           \/ \E m \in Messages : AccumulatorExpires(m)
  BY <1>1, <1>7 DEF Publish, XAdd, TrackActive, PublishFails, TimePasses, CleanIdle, Untrack,
                    AccumulatorExpires, vars, stream
<1>8. ASSUME NEW g \in Flushers,
             \/ FlushAll(g) \/ ProcessPending(g) \/ CreateGroup(g) \/ FindConversation(g)
             \/ HandleMessage(g) \/ PeekChunks(g) \/ CreateInBatches(g) \/ InsertFails(g)
             \/ DropChunk(g) \/ Trim(g) \/ Crash(g)
      PROVE  FALSE
  BY <1>1, <1>8 DEF FlushAll, ProcessPending, CreateGroup, FindConversation, HandleMessage,
       PeekChunks, CreateInBatches, InsertFails, ReturnUnacknowledged, DropChunk, Trim, Crash, stream
<1> QED
  BY <1>3, <1>4, <1>5, <1>6, <1>7, <1>8 DEF Next, FlushStep, Cleanup

\* A flusher acknowledges an event that gets a row only after the row is in
\* Postgres, whatever INSERT fails or commits without its reply, unless the
\* conversation could not be looked up.
THEOREM AcknowledgedAfterStored == Spec => AckAfterInsert
<1>1. Init => TypeOK /\ BatchStored
  <2>1. Init => BatchStored
    BY DEF Init, BatchStored
  <2> QED
    BY <2>1, InitType
<1>2. TypeOK /\ BatchStored /\ [Next]_vars => (TypeOK /\ BatchStored)'
  BY TypeNext, BatchStoredNext
<1>3. TypeOK /\ BatchStored /\ [Next]_vars =>
        [\A f \in Flushers : \A i \in pel[f] \ pel'[f] :
           \/ log[i] \in Persisted
           \/ ~Stored(EventAt(i))
           \/ pc[f] = "lookup"
           \/ group' = NoGroup]_vars
  BY AckStep
<1> QED
  BY <1>1, <1>2, <1>3, PTL DEF Spec, AckAfterInsert

-----------------------------------------------------------------------------
(***************************************************************************)
(* One instance and one turn.                                              *)
(***************************************************************************)
OneFlusher == \A f, g \in Flushers : f = g

Completes(e, m) == e = [type |-> "response_completed", mid |-> m]
Chunks(e, m) == e = [type |-> "response_chunk", mid |-> m]
Ends(e, m) == e.type = "terminal" \/ Completes(e, m)

\* Nothing of a message comes after its completion or the end of the turn.
SingleTurn ==
  \A s \in Scripts, m \in Messages : \A i, j \in DOMAIN s :
    i < j /\ Ends(s[i], m) => ~Completes(s[j], m) /\ ~Chunks(s[j], m)

\* Redis takes every event.
NoPublishFault == "publish" \notin Faults /\ "ambiguous" \notin Faults

\* Every row is of an event before n.
RowsBefore(n) == \A a \in Nat : HasRow(a) => a < n

\* A batch is before what is unread, and rows are before what has none yet.
OrderInv ==
  /\ \A i \in Unread : RowsBefore(log[i])
  /\ \A f \in Flushers :
       /\ \A i \in batch[f], j \in Unread : i < j
       /\ \A i \in left[f] : RowsBefore(log[i])
       /\ pc[f] \in {"lookup", "messages"} => \A i \in batch[f] : RowsBefore(log[i])

\* Where a flusher is in its batch: messages are handled in order, and chunks are
\* found and rows made of them only when the batch ends a turn.
PhaseOf(f) ==
  /\ left[f] \subseteq batch[f]
  /\ pc[f] \in {"idle", "create", "read"} => batch[f] = {}
  /\ pc[f] = "lookup" => left[f] = batch[f]
  /\ pc[f] = "messages" => \A i \in left[f], j \in batch[f] \ left[f] : j < i
  /\ pc[f] \notin {"insert", "ack", "drop"} => Peeked(f) = {}
  /\ pc[f] = "peek" \/ Peeked(f) # {} => HasTerminal(batch[f])
  /\ syn[f] \subseteq Peeked(f)
  /\ pc[f] = "ack" => syn[f] = Peeked(f)
PhaseInv == \A f \in Flushers : PhaseOf(f)

\* The entries of its batch a flusher has handled.
Seen(f) == IF pc[f] \in {"lookup", "messages"} THEN batch[f] \ left[f] ELSE batch[f]

\* The completion of a message has a row, or will have one unless something fails.
Completed(m) ==
  \/ \E n \in Nat : HasRow(n) /\ Completes(script[n], m)
  \/ \E f \in Flushers : \E i \in Seen(f) : Completes(EventAt(i), m)

\* A terminal event was handled, and nothing of the turn is still to come.
TurnOver ==
  \E t \in 1 .. sent :
    /\ script[t].type = "terminal"
    /\ \A i \in Unread : t < log[i]
    /\ \A f \in Flushers :
         pc[f] \in {"lookup", "messages"} => \A i \in batch[f] : t < log[i]

\* A completed message has no accumulator and no recovered row, and rows are
\* recovered when the turn is over.
EndedInv ==
  /\ \A m \in Messages : Completed(m) =>
       /\ acc[m] = <<>> /\ RowsOfMessage(m) = {}
       /\ \A f \in Flushers : m \notin Peeked(f)
  /\ RecoveredRows # {} => TurnOver

\* A turn is no longer than what a trim leaves, and the first entry.
ShortTurn == \A s \in Scripts : Len(s) =< TrimMaxLen + 1

\* The events handled, and the accumulators that hold them.
Past == {j \in 1 .. group : \A f \in Flushers :
           pc[f] \in {"lookup", "messages"} => j \notin left[f]}
InOrder(s) == \A i, j \in DOMAIN s : i < j => s[i] < s[j]
Members(s) == {s[i] : i \in DOMAIN s}
Whole(s, m) == Members(s) = ChunksOf(m) /\ InOrder(s)

\* As long as nothing fails no entry is lost.
KeptInv ==
  /\ cutoff = 0 /\ sweep = "idle"
  /\ Len(log) = sent /\ \A i \in 1 .. Len(log) : log[i] = i
  /\ sent = 0 => ~active /\ tracking = 0
  /\ low = 0 \/ low =< group
  /\ sent > 0 => low < sent
  /\ \A f \in Flushers :
       /\ batch[f] \subseteq 1 .. group
       /\ pc[f] \notin {"idle", "create", "read"} => group >= 1
       /\ pc[f] \in {"lookup", "messages"} =>
            \A i \in left[f] : \A j \in (1 .. group) \ left[f] : j < i

AccInv ==
  \A m \in Messages :
    \/ InOrder(acc[m]) /\ Members(acc[m]) = ChunksOf(m) \cap Past
    \/ acc[m] = <<>> /\ \E e \in Past : Ends(script[e], m)

FoundInv ==
  /\ \A f \in Flushers : \A m \in Peeked(f) : Whole(found[f][m], m)
  /\ \A r \in RecoveredRows : Whole(r.content, r.mid)

OnceInv ==
  \A m \in Messages : RowsOfMessage(m) # {} =>
    /\ \E e \in Past : script[e].type = "terminal"
    /\ \A f \in Flushers :
         /\ pc[f] = "insert" => m \notin syn[f]
         /\ \/ acc[m] = <<>>
            \/ pc[f] = "insert" /\ m \in Peeked(f)
            \/ pc[f] \in {"ack", "drop"} /\ m \in syn[f]


-----------------------------------------------------------------------------
(* Where a flusher is in its batch                                          *)

\* What a step leaves of a flusher.
Same(g) ==
  /\ pc'[g] = pc[g] /\ batch'[g] = batch[g] /\ left'[g] = left[g]
  /\ found'[g] = found[g] /\ syn'[g] = syn[g]
Entries ==
  script' = script /\ \A i \in 1 .. Len(log) : log'[i] = log[i]

LEMMA PhaseStays ==
  ASSUME TypeOK, NEW g \in Flushers, PhaseOf(g), Same(g), Entries
  PROVE  PhaseOf(g)'
<1>1. batch[g] \subseteq 1 .. Len(log)
  BY DEF TypeOK
<1>2. HasTerminal(batch[g]) => HasTerminal(batch[g])'
  BY <1>1 DEF HasTerminal, EventAt, Entries, Same
<1>3. Peeked(g)' = Peeked(g)
  BY DEF Peeked, Same
<1> QED
  BY <1>2, <1>3 DEF PhaseOf, Same

\* Leaving flushStream.
LEMMA PhaseReturn ==
  ASSUME TypeOK, NEW f \in Flushers, Return(f)
  PROVE  /\ PhaseOf(f)' /\ batch'[f] = {} /\ left'[f] = {} /\ syn'[f] = {}
         /\ pc'[f] = "idle" /\ Peeked(f)' = {} /\ found'[f] = Nothing
         /\ \A g \in Flushers \ {f} : Same(g)
<1>1. /\ batch'[f] = {} /\ left'[f] = {} /\ syn'[f] = {} /\ pc'[f] = "idle"
      /\ found'[f] = Nothing
      /\ \A g \in Flushers \ {f} : Same(g)
  BY DEF Return, TypeOK, Same
<1>2. Peeked(f)' = {}
  BY <1>1 DEF Peeked, Nothing
<1> QED
  BY <1>1, <1>2 DEF PhaseOf

\* The steps of the handler, of Cleanup and of time.
Outside ==
  \/ Publish \/ TimePasses \/ Cleanup \/ UNCHANGED vars
  \/ \E m \in Messages : AccumulatorExpires(m)

LEMMA OutsideStep ==
  ASSUME TypeOK, Outside
  PROVE  Entries /\ \A g \in Flushers : Same(g)
<1>1. sent + 1 \in Nat
  BY ScriptIsSeq DEF TypeOK
<1>2. UNCHANGED <<script, flusher>>
  BY DEF Outside, Publish, XAdd, TrackActive, PublishFails, TimePasses, Cleanup, CleanIdle,
         DeleteStream, Untrack, AccumulatorExpires, vars, handler
<1>3. log' = log \/ log' = Append(log, sent + 1)
  BY DEF Outside, Publish, XAdd, TrackActive, PublishFails, TimePasses, Cleanup, CleanIdle,
         DeleteStream, Untrack, AccumulatorExpires, vars, stream
<1>4. \A i \in 1 .. Len(log) : Append(log, sent + 1)[i] = log[i]
  BY <1>1, AppendProperties DEF TypeOK
<1> QED
  BY <1>2, <1>3, <1>4 DEF Entries, Same, flusher

\* A flusher's own steps leave the stream's entries and the other flushers alone.
FlusherStep(f) ==
  \/ FlushStep(f) \/ ProcessPending(f) \/ ConversationNotFound(f) \/ InsertFails(f) \/ Crash(f)

LEMMA FlusherStepLeaves ==
  ASSUME TypeOK, NEW f \in Flushers, FlusherStep(f)
  PROVE  /\ UNCHANGED <<script, sent, tracking, log, active, cutoff, sweep>>
         /\ \A g \in Flushers \ {f} : Same(g)
<1>1. UNCHANGED <<script, sent, tracking, log, active, cutoff, sweep>>
  BY DEF FlusherStep, FlushStep, FlushAll, ProcessPending, CreateGroup, ReadNew, FindConversation,
         ConversationNotFound, HandleMessage, PeekChunks, CreateInBatches, InsertFails, Ack,
         DropChunk, Trim, Crash, handler, stream, cleaner
<1> SUFFICES ASSUME NEW g \in Flushers \ {f} PROVE Same(g)
  BY <1>1
<1>2. CASE Return(f)
  BY <1>2, PhaseReturn
<1>3. CASE FlushAll(f) \/ ProcessPending(f) \/ CreateGroup(f) \/ FindConversation(f) \/ Ack(f)
  BY <1>3 DEF FlushAll, ProcessPending, CreateGroup, FindConversation, Ack, Goto, TypeOK, Same
<1>4. CASE ReadNew(f) /\ ~Return(f)
  BY <1>4 DEF ReadNew, TypeOK, Same
<1>5. CASE HandleMessage(f)
  BY <1>5 DEF HandleMessage, TypeOK, Same
<1>6. CASE PeekChunks(f) \/ DropChunk(f)
  BY <1>6 DEF PeekChunks, DropChunk, Goto, TypeOK, Same
<1>7. CASE CreateInBatches(f)
  BY <1>7 DEF CreateInBatches, TypeOK, Same
<1> QED
  BY <1>1, <1>2, <1>3, <1>4, <1>5, <1>6, <1>7
     DEF FlusherStep, FlushStep, ConversationNotFound, InsertFails, ReturnUnacknowledged, Trim, Crash

\* What handling a message does to the flusher's place in the batch.
LEMMA HandlePlace ==
  ASSUME TypeOK, PhaseInv, NEW f \in Flushers, HandleMessage(f)
  PROVE  \E i \in left[f] :
           /\ \A j \in left[f] : i =< j
           /\ \A j \in batch[f] \ left[f] : j < i
           /\ acc' = Accumulated(i) \/ (acc' = acc /\ Fault("redis"))
           /\ pc[f] = "messages" /\ batch'[f] = batch[f]
           /\ found'[f] = found[f] /\ syn'[f] = syn[f]
           /\ \/ /\ left[f] = {i} /\ left'[f] = Rows(batch[f])
                 /\ pc'[f] = IF HasTerminal(batch[f]) THEN "peek" ELSE "insert"
              \/ /\ left[f] # {i} /\ left'[f] = left[f] \ {i}
                 /\ pc'[f] = "messages"
<1>1. pc[f] = "messages" /\ batch'[f] = batch[f] /\ found'[f] = found[f] /\ syn'[f] = syn[f]
  BY DEF HandleMessage
<1>2. PICK i \in left[f] :
        /\ \A j \in left[f] : i =< j
        /\ acc' = Accumulated(i) \/ (acc' = acc /\ Fault("redis"))
        /\ IF left[f] = {i}
           THEN /\ left' = [left EXCEPT ![f] = Rows(batch[f])]
                /\ pc' = [pc EXCEPT ![f] = IF HasTerminal(batch[f]) THEN "peek" ELSE "insert"]
           ELSE left' = [left EXCEPT ![f] = @ \ {i}] /\ UNCHANGED pc
  BY DEF HandleMessage
<1>3. \A j \in batch[f] \ left[f] : j < i
  BY <1>1, <1>2 DEF PhaseInv, PhaseOf
<1>4. \/ /\ left[f] = {i} /\ left'[f] = Rows(batch[f])
         /\ pc'[f] = IF HasTerminal(batch[f]) THEN "peek" ELSE "insert"
      \/ /\ left[f] # {i} /\ left'[f] = left[f] \ {i}
         /\ pc'[f] = "messages"
  BY <1>1, <1>2 DEF TypeOK
<1> QED
  BY <1>1, <1>2, <1>3, <1>4

\* What inserting does to it.
LEMMA InsertPlace ==
  ASSUME TypeOK, NEW f \in Flushers, CreateInBatches(f)
  PROVE  \E S \in SUBSET left[f], M \in SUBSET syn[f] :
           /\ NextSlice(f, S, M) /\ Insert(Numbers(S), Recovered(f, M))
           /\ pc[f] = "insert" /\ batch'[f] = batch[f] /\ found'[f] = found[f]
           /\ left'[f] = left[f] \ S
           /\ \/ /\ left[f] = S /\ syn[f] = M
                 /\ syn'[f] = Peeked(f) /\ pc'[f] = "ack"
              \/ syn'[f] = syn[f] \ M /\ pc'[f] = "insert"
<1>1. pc[f] = "insert" /\ batch'[f] = batch[f] /\ found'[f] = found[f]
  BY DEF CreateInBatches
<1>2. PICK S \in SUBSET left[f], M \in SUBSET syn[f] :
        /\ NextSlice(f, S, M)
        /\ Insert(Numbers(S), Recovered(f, M))
        /\ left' = [left EXCEPT ![f] = @ \ S]
        /\ IF left[f] = S /\ syn[f] = M
           THEN /\ syn' = [syn EXCEPT ![f] = Peeked(f)]
                /\ pc' = [pc EXCEPT ![f] = "ack"]
           ELSE syn' = [syn EXCEPT ![f] = @ \ M] /\ UNCHANGED pc
  BY DEF CreateInBatches
<1>3. left'[f] = left[f] \ S
  BY <1>2 DEF TypeOK
<1>4. \/ /\ left[f] = S /\ syn[f] = M
         /\ syn'[f] = Peeked(f) /\ pc'[f] = "ack"
      \/ syn'[f] = syn[f] \ M /\ pc'[f] = "insert"
  BY <1>1, <1>2 DEF TypeOK
<1> QED
  BY <1>1, <1>2, <1>3, <1>4

LEMMA PhaseNext == TypeOK /\ PhaseInv /\ [Next]_vars => PhaseInv'
<1> SUFFICES ASSUME TypeOK, PhaseInv, [Next]_vars PROVE PhaseInv'
  OBVIOUS
<1>1. CASE Outside
  BY <1>1, OutsideStep, PhaseStays DEF PhaseInv
<1>2. ASSUME NEW f \in Flushers, FlusherStep(f) PROVE PhaseInv'
  <2>1. Entries /\ log' = log /\ script' = script /\ \A g \in Flushers \ {f} : Same(g)
    BY <1>2, FlusherStepLeaves DEF Entries
  <2>2. \A g \in Flushers \ {f} : PhaseOf(g)'
    BY <2>1, PhaseStays DEF PhaseInv
  <2>3. PhaseOf(f)
    BY DEF PhaseInv
  <2>4. \A S : HasTerminal(S)' <=> HasTerminal(S)
    BY <2>1 DEF HasTerminal, EventAt
  <2>5. PhaseOf(f)'
    <3>1. CASE Return(f)
      BY <3>1, PhaseReturn
    <3>2. CASE FlushAll(f) \/ ProcessPending(f) \/ CreateGroup(f) \/ FindConversation(f)
      <4>1. /\ batch'[f] = batch[f] /\ left'[f] = left[f] /\ found'[f] = found[f]
            /\ syn'[f] = syn[f]
        BY <3>2 DEF FlushAll, ProcessPending, CreateGroup, FindConversation
      <4>2. \/ pc[f] \in {"idle", "create"} /\ pc'[f] \in {"idle", "create", "read"}
            \/ pc[f] = "lookup" /\ pc'[f] = "messages"
        BY <3>2 DEF FlushAll, ProcessPending, CreateGroup, FindConversation, Goto, TypeOK
      <4>3. Peeked(f)' = Peeked(f)
        BY <4>1 DEF Peeked
      <4> QED
        BY <2>3, <2>4, <4>1, <4>2, <4>3 DEF PhaseOf
    <3>3. CASE ReadNew(f) /\ ~Return(f)
      <4>1. /\ batch'[f] = NextBatch /\ left'[f] = NextBatch /\ pc'[f] = "lookup"
            /\ found'[f] = found[f] /\ syn'[f] = syn[f] /\ pc[f] = "read"
        BY <3>3 DEF ReadNew, TypeOK
      <4>2. Peeked(f)' = Peeked(f)
        BY <4>1 DEF Peeked
      <4> QED
        BY <2>3, <4>1, <4>2 DEF PhaseOf
    <3>4. CASE HandleMessage(f)
      <4>1. PICK i \in left[f] :
              /\ \A j \in left[f] : i =< j
              /\ \A j \in batch[f] \ left[f] : j < i
              /\ pc[f] = "messages" /\ batch'[f] = batch[f]
              /\ found'[f] = found[f] /\ syn'[f] = syn[f]
              /\ \/ /\ left[f] = {i} /\ left'[f] = Rows(batch[f])
                    /\ pc'[f] = IF HasTerminal(batch[f]) THEN "peek" ELSE "insert"
                 \/ /\ left[f] # {i} /\ left'[f] = left[f] \ {i}
                    /\ pc'[f] = "messages"
        BY <3>4, HandlePlace
      <4>2. Peeked(f)' = Peeked(f) /\ Peeked(f) = {} /\ syn[f] = {}
        BY <2>3, <4>1 DEF Peeked, PhaseOf
      <4>3. Rows(batch[f]) \subseteq batch[f]
        BY DEF Rows
      <4>4. CASE pc'[f] = "messages"
        <5>1. left'[f] = left[f] \ {i}
          BY <4>1, <4>4
        <5>2. left'[f] \subseteq Nat /\ i \in Nat /\ \A j \in left'[f] : i < j
          BY <4>1, <5>1 DEF TypeOK
        <5>3. \A x \in left'[f], j \in batch'[f] \ left'[f] : j < x
          <6> SUFFICES ASSUME NEW x \in left'[f], NEW j \in batch'[f] \ left'[f] PROVE j < x
            OBVIOUS
          <6>1. x \in left[f] /\ (j = i \/ j \in batch[f] \ left[f])
            BY <4>1, <5>1
          <6> QED
            BY <2>3, <4>1, <5>2, <6>1 DEF PhaseOf
        <5> QED
          BY <2>3, <4>1, <4>2, <4>4, <5>1, <5>3 DEF PhaseOf
      <4>5. CASE pc'[f] \in {"peek", "insert"}
        BY <2>4, <4>1, <4>2, <4>3, <4>5 DEF PhaseOf
      <4> QED
        BY <4>1, <4>4, <4>5
    <3>5. CASE PeekChunks(f)
      <4>1. /\ pc[f] = "peek" /\ pc'[f] = "insert" /\ batch'[f] = batch[f] /\ left'[f] = left[f]
        BY <3>5 DEF PeekChunks, Goto, TypeOK
      <4>2. syn'[f] \subseteq Peeked(f)'
        <5>1. \/ found'[f] = acc /\ syn'[f] = {m \in Messages : acc[m] # <<>>}
              \/ found'[f] = found[f] /\ syn'[f] = syn[f]
          BY <3>5 DEF PeekChunks, TypeOK
        <5> QED
          BY <2>3, <5>1 DEF Peeked, PhaseOf
      <4> QED
        BY <2>3, <2>4, <4>1, <4>2 DEF PhaseOf
    <3>6. CASE CreateInBatches(f)
      <4>1. PICK S \in SUBSET left[f], M \in SUBSET syn[f] :
              /\ pc[f] = "insert" /\ batch'[f] = batch[f] /\ found'[f] = found[f]
              /\ left'[f] = left[f] \ S
              /\ \/ syn'[f] = Peeked(f) /\ pc'[f] = "ack"
                 \/ syn'[f] = syn[f] \ M /\ pc'[f] = "insert"
        BY <3>6, InsertPlace
      <4>2. Peeked(f)' = Peeked(f)
        BY <4>1 DEF Peeked
      <4> QED
        BY <2>3, <2>4, <4>1, <4>2 DEF PhaseOf
    <3>7. CASE Ack(f) \/ DropChunk(f)
      <4>1. /\ batch'[f] = batch[f] /\ left'[f] = left[f] /\ found'[f] = found[f]
            /\ syn'[f] \subseteq syn[f]
        BY <3>7 DEF Ack, DropChunk, TypeOK
      <4>2. pc[f] \in {"ack", "drop"} /\ pc'[f] = "drop"
        BY <3>7 DEF Ack, DropChunk, Goto, TypeOK
      <4>3. Peeked(f)' = Peeked(f)
        BY <4>1 DEF Peeked
      <4> QED
        BY <2>3, <2>4, <4>1, <4>2, <4>3 DEF PhaseOf
    <3> QED
      BY <1>2, <3>1, <3>2, <3>3, <3>4, <3>5, <3>6, <3>7
         DEF FlusherStep, FlushStep, ConversationNotFound, InsertFails, ReturnUnacknowledged,
             Trim, Crash
  <2> QED
    BY <2>2, <2>5 DEF PhaseInv
<1> QED
  BY <1>1, <1>2 DEF Next, Outside, FlusherStep

-----------------------------------------------------------------------------
(* Rows are inserted in the order of the stream                             *)

\* One INSERT adds its events, behind all the others.
LEMMA InsertAfter ==
  ASSUME TypeOK, NEW N \in SUBSET Nat, NEW R, Insert(N, R)
  PROVE  /\ \A n : HasRow(n)' <=> HasRow(n) \/ n \in N
         /\ InsertedInOrder /\ (\A n \in N : RowsBefore(n)) => InsertedInOrder'
<1> DEFINE new == [events |-> N, recovered |-> R]
<1>1. \A n : HasRow(n)' <=> HasRow(n) \/ n \in N
  BY InsertEffect
<1>2. CASE inserts' = inserts
  BY <1>1, <1>2 DEF InsertedInOrder
<1>3. CASE inserts' = Append(inserts, new)
  <2>1. inserts \in Seq([events : SUBSET Nat, recovered : SUBSET RecoveredRow])
    BY DEF TypeOK
  <2>2. /\ DOMAIN inserts = 1 .. Len(inserts) /\ Len(inserts) \in Nat
        /\ DOMAIN inserts' = 1 .. (Len(inserts) + 1)
        /\ \A k \in DOMAIN inserts : inserts'[k] = inserts[k]
        /\ inserts'[Len(inserts) + 1] = new
    BY <1>3, <2>1, AppendProperties, LenProperties
  <2>3. \A k \in DOMAIN inserts : inserts[k].events \subseteq Nat
    <3> SUFFICES ASSUME NEW k \in DOMAIN inserts PROVE inserts[k].events \subseteq Nat
      OBVIOUS
    <3>1. inserts[k] \in [events : SUBSET Nat, recovered : SUBSET RecoveredRow]
      BY <2>1, <2>2, ElementOfSeq
    <3> QED
      BY <3>1
  <2>4. ASSUME InsertedInOrder, \A n \in N : RowsBefore(n),
               NEW j \in DOMAIN inserts', NEW k \in DOMAIN inserts', j < k,
               NEW a \in inserts'[j].events, NEW b \in inserts'[k].events
        PROVE  a < b
    <3>1. j \in DOMAIN inserts
      BY <2>2, <2>4
    <3>2. a \in Nat /\ HasRow(a)
      BY <2>2, <2>3, <2>4, <3>1 DEF HasRow
    <3>3. CASE k \in DOMAIN inserts
      BY <2>2, <2>4, <3>1, <3>3 DEF InsertedInOrder
    <3>4. CASE k = Len(inserts) + 1
      BY <2>2, <2>4, <3>2, <3>4 DEF RowsBefore
    <3> QED
      BY <2>2, <3>3, <3>4
  <2> QED
    BY <1>1, <2>4 DEF InsertedInOrder
<1> QED
  BY <1>2, <1>3 DEF Insert

\* A batch is the first of the unread entries.
LEMMA TakesFirst ==
  ASSUME TypeOK, NEW f \in Flushers, ReadNew(f)
  PROVE  \/ /\ Return(f) /\ UNCHANGED <<log, sent, inserts, low, group>> /\ Unread' = Unread
            /\ group = NoGroup \/ Unread = {}
         \/ /\ UNCHANGED <<log, sent, inserts, low>> /\ pc[f] = "read" /\ group # NoGroup
            /\ group' = LastOfBatch /\ NextBatch = FirstUnread .. group'
            /\ group' \in FirstUnread .. Len(log) /\ FirstUnread \in Nat /\ FirstUnread >= 1
            /\ NextBatch \subseteq Unread /\ Unread' \subseteq Unread
            /\ \A i \in NextBatch, j \in Unread' : i < j
            /\ batch'[f] = NextBatch /\ left'[f] = NextBatch /\ pc'[f] = "lookup"
            /\ \A g \in Flushers \ {f} : Same(g)
<1>0. UNCHANGED <<log, sent, low, inserts>>
  BY DEF ReadNew, handler
<1>1. CASE group = NoGroup \/ Unread = {}
  BY <1>0, <1>1 DEF ReadNew, Unread, FirstUnread
<1>2. CASE ~(group = NoGroup \/ Unread = {})
  <2>1. /\ group' = LastOfBatch /\ pc[f] = "read"
        /\ batch'[f] = NextBatch /\ left'[f] = NextBatch /\ pc'[f] = "lookup"
        /\ \A g \in Flushers \ {f} : Same(g)
    BY <1>2 DEF ReadNew, TypeOK, Same
  <2>2. FirstUnread \in Nat /\ FirstUnread >= 1 /\ FirstUnread =< Len(log) /\ Len(log) \in Nat
    BY <1>2, UnreadInLog DEF Unread
  <2>3. LastOfBatch \in FirstUnread .. Len(log)
    BY <2>2, ConstantsAssumption DEF LastOfBatch, Smaller
  <2>4. low \in Nat /\ low < FirstUnread
    BY <1>2, LenProperties DEF TypeOK, FirstUnread, Larger, NoGroup
  <2>5. FirstUnread' = LastOfBatch + 1
    BY <1>0, <2>1, <2>2, <2>3, <2>4 DEF FirstUnread, Larger
  <2>6. Unread' = (LastOfBatch + 1) .. Len(log)
    BY <1>0, <2>5 DEF Unread
  <2>7. Unread = FirstUnread .. Len(log) /\ NextBatch = FirstUnread .. LastOfBatch
    BY DEF Unread, NextBatch
  <2>8. NextBatch \subseteq Unread /\ Unread' \subseteq Unread
        /\ \A i \in NextBatch, j \in Unread' : i < j
    BY <2>2, <2>3, <2>6, <2>7
  <2> QED
    BY <1>0, <1>2, <2>1, <2>2, <2>3, <2>7, <2>8
<1> QED
  BY <1>1, <1>2

LEMMA OrderQuiet ==
  ASSUME TypeOK, IInv, OrderInv, InsertedInOrder, Quiet
  PROVE  OrderInv' /\ InsertedInOrder'
<1>1. InsertedInOrder' /\ \A n : RowsBefore(n)' <=> RowsBefore(n)
  BY DEF InsertedInOrder, RowsBefore, HasRow, Quiet
<1>2. \A f \in Flushers : left[f] \subseteq batch[f]
  BY DEF IInv, BatchesPrivate
<1>3. log' = log
  BY DEF Quiet
<1>4. ASSUME NEW f \in Flushers
      PROVE  /\ \A i \in batch'[f], j \in Unread' : i < j
             /\ \A i \in left'[f] : RowsBefore(log[i])
             /\ pc'[f] \in {"lookup", "messages"} => \A i \in batch'[f] : RowsBefore(log[i])
  BY <1>2 DEF OrderInv, Quiet
<1>5. \A i \in Unread' : RowsBefore(log[i])
  BY DEF OrderInv, Quiet
<1> QED
  BY <1>1, <1>3, <1>4, <1>5 DEF OrderInv, RowsBefore, HasRow

\* The rows of a slice are before those of the rest of the batch, and of what is
\* unread.
LEMMA SliceOrder ==
  ASSUME TypeOK, IInv, OrderInv, InsertedInOrder, NEW f \in Flushers,
         NEW S \in SUBSET left[f], \A i \in S : \A j \in left[f] \ S : i < j,
         NEW R, Insert(Numbers(S), R), log' = log, UNCHANGED <<low, group>>
  PROVE  /\ InsertedInOrder' /\ Unread' = Unread
         /\ \A i \in Unread : RowsBefore(log[i])'
         /\ \A i \in left[f] \ S : RowsBefore(log[i])'
<1>1. left[f] \subseteq batch[f] /\ batch[f] \subseteq 1 .. Len(log) /\ Unread \subseteq 1 .. Len(log)
  BY UnreadInLog DEF TypeOK, IInv, BatchesPrivate
<1>2. \A i \in 1 .. Len(log) : log[i] \in Nat
  BY ElementOfSeq DEF TypeOK
<1>3. Numbers(S) \in SUBSET Nat
  BY <1>1, <1>2 DEF Numbers
<1>4. \A n \in Numbers(S) : RowsBefore(n)
  BY DEF Numbers, OrderInv
<1>5. InsertedInOrder' /\ \A n : HasRow(n)' <=> HasRow(n) \/ n \in Numbers(S)
  BY <1>3, <1>4, InsertAfter
<1>6. ASSUME NEW j \in 1 .. Len(log), RowsBefore(log[j]), \A i \in S : i < j
      PROVE  RowsBefore(log[j])'
  <2>1. \A i \in S : log[i] < log[j]
    BY <1>1, <1>6 DEF IInv, LogOrdered
  <2>2. \A n \in Numbers(S) : n < log[j]
    BY <2>1 DEF Numbers
  <2> QED
    BY <1>5, <1>6, <2>2 DEF RowsBefore, HasRow
<1>7. Unread' = Unread
  BY DEF Unread, FirstUnread
<1>8. \A i \in S, j \in Unread : i < j
  BY <1>1 DEF OrderInv
<1> QED
  BY <1>1, <1>5, <1>6, <1>7, <1>8 DEF OrderInv

LEMMA OrderNext ==
  ASSUME OneFlusher, NoPublishFault, TypeOK, IInv, OrderInv, InsertedInOrder, [Next]_vars
  PROVE  OrderInv' /\ InsertedInOrder'
<1>1. CASE XAdd
  <2>1. sent \in Nat /\ UNCHANGED <<low, group, inserts, pc, batch, left>>
    BY <1>1, ScriptIsSeq DEF TypeOK, XAdd, flusher
  <2>2. /\ Len(log) \in Nat /\ Len(log') = Len(log) + 1 /\ log'[Len(log) + 1] = sent + 1
        /\ \A i \in 1 .. Len(log) : log'[i] = log[i]
    BY <1>1, <2>1, AppendProperties, LenProperties DEF TypeOK, XAdd
  <2>3. Unread' = Unread \cup {Len(log) + 1} /\ Unread \subseteq 1 .. Len(log)
    BY <2>1, <2>2, UnreadInLog DEF Unread, FirstUnread
  <2>4. InsertedInOrder' /\ \A n : HasRow(n)' <=> HasRow(n)
    BY <2>1 DEF InsertedInOrder, HasRow
  <2>5. RowsBefore(sent + 1)
    BY <2>1 DEF RowsBefore, HasRow, IInv, RowsReceived
  <2>6. \A f \in Flushers : batch[f] \subseteq 1 .. Len(log) /\ left[f] \subseteq 1 .. Len(log)
    BY DEF TypeOK
  <2>7. \A i \in 1 .. Len(log) : RowsBefore(log[i]) => RowsBefore(log[i])'
    BY <2>1, <2>2 DEF RowsBefore, HasRow
  <2>8. ASSUME NEW i \in {Len(log) + 1} PROVE RowsBefore(log[i])'
    BY <2>1, <2>2, <2>5 DEF RowsBefore, HasRow
  <2>9. \A i \in Unread' : RowsBefore(log[i])'
    BY <2>2, <2>3, <2>7, <2>8 DEF OrderInv
  <2>10. ASSUME NEW f \in Flushers
         PROVE  /\ \A i \in batch'[f], j \in Unread' : i < j
                /\ \A i \in left'[f] : RowsBefore(log[i])'
                /\ pc'[f] \in {"lookup", "messages"} => \A i \in batch'[f] : RowsBefore(log[i])'
    BY <2>1, <2>2, <2>3, <2>6, <2>7 DEF OrderInv
  <2> QED
    BY <2>4, <2>9, <2>10 DEF OrderInv
<1>2. CASE PublishFails
  BY <1>2 DEF PublishFails, Fault, NoPublishFault
<1>3. CASE TrackActive \/ TimePasses \/ Cleanup \/ UNCHANGED vars
           \/ \E m \in Messages : AccumulatorExpires(m)
  BY <1>3, QuietRest, OrderQuiet
<1>4. ASSUME NEW f \in Flushers, ReadNew(f) PROVE OrderInv' /\ InsertedInOrder'
  <2>1. CASE Return(f) /\ UNCHANGED <<log, sent, inserts, low, group>> /\ Unread' = Unread
    <3>1. Quiet
      BY <2>1 DEF Quiet, TypeOK, Return, IInv, BatchesPrivate
    <3> QED
      BY <3>1, OrderQuiet
  <2>2. CASE /\ UNCHANGED <<log, sent, inserts>> /\ NextBatch \subseteq Unread
             /\ Unread' \subseteq Unread /\ \A i \in NextBatch, j \in Unread' : i < j
             /\ batch'[f] = NextBatch /\ left'[f] = NextBatch
    <3>1. InsertedInOrder' /\ \A n : RowsBefore(n)' <=> RowsBefore(n)
      BY <2>2 DEF InsertedInOrder, RowsBefore, HasRow
    <3>2. \A i \in Unread : RowsBefore(log[i])'
      BY <2>2 DEF OrderInv, RowsBefore, HasRow
    <3>3. Flushers = {f}
      BY DEF OneFlusher
    <3> QED
      BY <2>2, <3>1, <3>2, <3>3 DEF OrderInv
  <2> QED
    BY <1>4, <2>1, <2>2, TakesFirst
<1>5. ASSUME NEW f \in Flushers, CreateInBatches(f) PROVE OrderInv' /\ InsertedInOrder'
  <2>1. PICK S \in SUBSET left[f], M \in SUBSET syn[f] :
          /\ NextSlice(f, S, M) /\ Insert(Numbers(S), Recovered(f, M))
          /\ batch'[f] = batch[f] /\ left'[f] = left[f] \ S /\ pc'[f] \in {"insert", "ack"}
    BY <1>5, InsertPlace
  <2>2. UNCHANGED <<log, low, group>>
    BY <1>5 DEF CreateInBatches, stream
  <2>3. /\ InsertedInOrder' /\ Unread' = Unread
        /\ \A i \in Unread : RowsBefore(log[i])'
        /\ \A i \in left[f] \ S : RowsBefore(log[i])'
    BY <2>1, <2>2, SliceOrder DEF NextSlice
  <2>4. Flushers = {f}
    BY DEF OneFlusher
  <2> QED
    BY <2>1, <2>3, <2>4 DEF OrderInv
<1>6. ASSUME NEW f \in Flushers, InsertFails(f) PROVE OrderInv' /\ InsertedInOrder'
  <2>1. UNCHANGED <<log, low, group>> /\ Return(f)
    BY <1>6 DEF InsertFails, ReturnUnacknowledged
  <2>2. batch'[f] = {} /\ left'[f] = {}
    BY <2>1, PhaseReturn
  <2>3. PICK S \in SUBSET left[f] :
          (\A i \in S : \A j \in left[f] \ S : i < j) /\ \E R : Insert(Numbers(S), R)
    <3>1. PICK S \in SUBSET left[f], M \in SUBSET syn[f] :
            NextSlice(f, S, M) /\ (Insert(Numbers(S), Recovered(f, M)) \/ Insert({}, {}))
      BY <1>6 DEF InsertFails
    <3>2. Numbers({}) = {} /\ {} \in SUBSET left[f]
      BY DEF Numbers
    <3> QED
      BY <3>1, <3>2 DEF NextSlice
  <2>4. InsertedInOrder' /\ Unread' = Unread /\ \A i \in Unread : RowsBefore(log[i])'
    BY <2>1, <2>3, SliceOrder
  <2>5. Flushers = {f}
    BY DEF OneFlusher
  <2> QED
    BY <2>2, <2>4, <2>5 DEF OrderInv
<1>7. ASSUME NEW f \in Flushers,
             \/ FlushAll(f) \/ ProcessPending(f) \/ CreateGroup(f) \/ FindConversation(f)
             \/ ConversationNotFound(f) \/ HandleMessage(f) \/ PeekChunks(f) \/ Ack(f)
             \/ DropChunk(f) \/ Trim(f) \/ Crash(f)
      PROVE  OrderInv' /\ InsertedInOrder'
  BY <1>7, QuietFlusher, OrderQuiet
<1> QED
  BY <1>1, <1>2, <1>3, <1>4, <1>5, <1>6, <1>7 DEF Next, Publish, FlushStep

LEMMA InitOrder == Init => OrderInv /\ InsertedInOrder
<1> SUFFICES ASSUME Init PROVE OrderInv /\ InsertedInOrder
  OBVIOUS
<1>1. log = <<>> /\ inserts = <<>> /\ DOMAIN inserts = {} /\ Len(log) = 0
  BY DEF Init
<1>2. Unread = {}
  BY <1>1 DEF Init, Unread, FirstUnread, Larger, NoGroup
<1> QED
  BY <1>1, <1>2 DEF Init, OrderInv, InsertedInOrder

\* With one instance and a Redis that takes every event, rows are inserted in the
\* order of the stream, whatever the batches, the INSERTs, and what else fails.
THEOREM StoredInOrder ==
  ASSUME OneFlusher, NoPublishFault PROVE Spec => []InsertedInOrder
<1>1. Init => TypeOK /\ IInv /\ OrderInv /\ InsertedInOrder
  BY InitType, InitInvariant, InitOrder
<1>2. TypeOK /\ IInv /\ OrderInv /\ InsertedInOrder /\ [Next]_vars
        => (TypeOK /\ IInv /\ OrderInv /\ InsertedInOrder)'
  BY TypeNext, InvNext, OrderNext DEF NoPublishFault
<1> QED
  BY <1>1, <1>2, PTL DEF Spec

-----------------------------------------------------------------------------
(* A completed message is not recovered                                     *)

\* What a handled message does to an accumulator.
LEMMA AccumulatedIs ==
  ASSUME TypeOK, NEW i \in 1 .. Len(log), log[i] \in DOMAIN script, NEW m \in Messages
  PROVE  \/ Chunks(EventAt(i), m) /\ Accumulated(i)[m] = Append(acc[m], log[i])
         \/ Completes(EventAt(i), m) /\ Accumulated(i)[m] = <<>>
         \/ /\ ~Chunks(EventAt(i), m) /\ ~Completes(EventAt(i), m)
            /\ Accumulated(i)[m] = acc[m]
<1>1. EventAt(i) \in Event
  BY ScriptIsSeq, ElementOfSeq DEF EventAt
<1>2. m # NoMessage /\ acc \in [Messages -> Seq(Nat)]
  BY ConstantsAssumption DEF TypeOK
<1>3. Chunks(EventAt(i), m) <=> EventAt(i).type = "response_chunk" /\ EventAt(i).mid = m
  BY <1>1 DEF Chunks, Event
<1>4. Completes(EventAt(i), m) <=> EventAt(i).type = "response_completed" /\ EventAt(i).mid = m
  BY <1>1 DEF Completes, Event
<1> QED
  BY <1>2, <1>3, <1>4 DEF Accumulated, Dropped

\* The rows that one INSERT recovers.
LEMMA RecoveredAfter ==
  ASSUME TypeOK, NEW N, NEW R, Insert(N, R)
  PROVE  RecoveredRows' = RecoveredRows \cup R
<1> DEFINE new == [events |-> N, recovered |-> R]
<1>1. CASE inserts' = inserts /\ R = {}
  BY <1>1 DEF RecoveredRows
<1>2. CASE inserts' = Append(inserts, new)
  <2>1. inserts \in Seq([events : SUBSET Nat, recovered : SUBSET RecoveredRow])
    BY DEF TypeOK
  <2>2. /\ DOMAIN inserts = 1 .. Len(inserts) /\ Len(inserts) \in Nat
        /\ DOMAIN inserts' = 1 .. (Len(inserts) + 1)
        /\ \A k \in DOMAIN inserts : inserts'[k] = inserts[k]
        /\ inserts'[Len(inserts) + 1] = new
    BY <1>2, <2>1, AppendProperties, LenProperties
  <2>3. \A k : k \in DOMAIN inserts' <=> k \in DOMAIN inserts \/ k = Len(inserts) + 1
    BY <2>2
  <2>4. \A r : r \in RecoveredRows' <=> \E k \in DOMAIN inserts' : r \in inserts'[k].recovered
    BY DEF RecoveredRows
  <2>5. \A r : r \in RecoveredRows <=> \E k \in DOMAIN inserts : r \in inserts[k].recovered
    BY DEF RecoveredRows
  <2>6. inserts'[Len(inserts) + 1].recovered = R
    BY <2>2
  <2> HIDE DEF new
  <2>7. \A r : r \in RecoveredRows' <=> r \in RecoveredRows \/ r \in R
    BY <2>2, <2>3, <2>4, <2>5, <2>6
  <2> QED
    BY <2>7
<1> QED
  BY <1>1, <1>2 DEF Insert

\* No more messages are completed: rows are only of entries that were handled.
LEMMA CompletedStays ==
  ASSUME TypeOK, Entries,
         \A n \in Nat : HasRow(n)' => \/ HasRow(n)
                                      \/ \E f \in Flushers : \E i \in Seen(f) : n = log[i],
         \A f \in Flushers : Seen(f)' \subseteq Seen(f)
  PROVE  \A m : Completed(m)' => Completed(m)
<1>1. \A f \in Flushers : Seen(f) \subseteq 1 .. Len(log)
  BY DEF TypeOK, Seen
<1> SUFFICES ASSUME NEW m, Completed(m)' PROVE Completed(m)
  OBVIOUS
<1>2. CASE \E n \in Nat : HasRow(n)' /\ Completes(script'[n], m)
  BY <1>2 DEF Completed, Completes, Entries, EventAt
<1>3. CASE \E f \in Flushers : \E i \in Seen(f)' : Completes(EventAt(i)', m)
  BY <1>1, <1>3 DEF Completed, Completes, Entries, EventAt
<1> QED
  BY <1>2, <1>3 DEF Completed, Completes

\* A step that completes no message, and whose accumulators and rows come from
\* those there were.
LEMMA EndedKept ==
  ASSUME EndedInv, \A m \in Messages : Completed(m)' => Completed(m),
         \A m \in Messages : acc[m] = <<>> => acc'[m] = <<>>,
         \A f \in Flushers : \A m \in Peeked(f)' : m \in Peeked(f) \/ acc[m] # <<>>,
         \A r \in RecoveredRows' : r \in RecoveredRows \/ \E f \in Flushers : r.mid \in Peeked(f),
         RecoveredRows' # {} => TurnOver'
  PROVE  EndedInv'
<1>1. ASSUME NEW m \in Messages, Completed(m)'
      PROVE  /\ acc'[m] = <<>> /\ RowsOfMessage(m)' = {}
             /\ \A f \in Flushers : m \notin Peeked(f)'
  <2>1. acc[m] = <<>> /\ RowsOfMessage(m) = {} /\ \A f \in Flushers : m \notin Peeked(f)
    BY <1>1 DEF EndedInv
  <2> QED
    BY <2>1 DEF RowsOfMessage
<1> QED
  BY <1>1 DEF EndedInv

\* What is over stays over.
LEMMA OverQuiet ==
  ASSUME TypeOK, TurnOver, Quiet, script' = script PROVE TurnOver'
<1>1. PICK t \in 1 .. sent :
        /\ script[t].type = "terminal"
        /\ \A i \in Unread : t < log[i]
        /\ \A f \in Flushers :
             pc[f] \in {"lookup", "messages"} => \A i \in batch[f] : t < log[i]
  BY DEF TurnOver
<1>2. UNCHANGED <<sent, log, script>>
  BY DEF Quiet
<1>3. \A i \in Unread' : t < log'[i]
  BY <1>1, <1>2 DEF Quiet
<1>4. \A f \in Flushers :
        pc'[f] \in {"lookup", "messages"} => \A i \in batch'[f] : t < log'[i]
  BY <1>1, <1>2 DEF Quiet
<1> QED
  BY <1>1, <1>2, <1>3, <1>4 DEF TurnOver

\* A batch that ends the turn is before what is unread.
LEMMA OverAtEnd ==
  ASSUME TypeOK, IInv, OrderInv, NEW f \in Flushers, OneFlusher, HasTerminal(batch[f]),
         UNCHANGED <<sent, script, log, low, group>>, pc'[f] \notin {"lookup", "messages"}
  PROVE  TurnOver'
<1>1. PICK i \in batch[f] : EventAt(i).type = "terminal"
  BY DEF HasTerminal
<1>2. i \in 1 .. Len(log) /\ Unread \subseteq 1 .. Len(log)
  BY UnreadInLog DEF TypeOK
<1>3. log[i] \in 1 .. sent /\ script[log[i]].type = "terminal"
  BY <1>1, <1>2 DEF IInv, LogOrdered, EventAt
<1>4. \A j \in Unread : log[i] < log[j]
  BY <1>2 DEF OrderInv, IInv, LogOrdered
<1>5. Unread' = Unread
  BY DEF Unread, FirstUnread
<1>6. \A g \in Flushers : pc'[g] \notin {"lookup", "messages"}
  BY DEF OneFlusher
<1> QED
  BY <1>3, <1>4, <1>5, <1>6 DEF TurnOver

LEMMA ReceivedInScript ==
  ASSUME TypeOK PROVE 1 .. sent \subseteq DOMAIN script
BY ScriptIsSeq, LenProperties DEF TypeOK

\* A message is handled: of a completed message no chunk comes, and when rows were
\* recovered no completion.
LEMMA EndedHandle ==
  ASSUME OneFlusher, SingleTurn, "redis" \notin Faults, TypeOK, IInv, PhaseInv, OrderInv,
         EndedInv, NEW f \in Flushers, HandleMessage(f)
  PROVE  EndedInv'
<1>1. PICK i \in left[f] :
        /\ \A j \in batch[f] \ left[f] : j < i
        /\ acc' = Accumulated(i) \/ (acc' = acc /\ Fault("redis"))
        /\ pc[f] = "messages" /\ batch'[f] = batch[f]
        /\ found'[f] = found[f] /\ syn'[f] = syn[f]
        /\ \/ /\ left[f] = {i} /\ left'[f] = Rows(batch[f])
              /\ pc'[f] = IF HasTerminal(batch[f]) THEN "peek" ELSE "insert"
           \/ /\ left[f] # {i} /\ left'[f] = left[f] \ {i}
              /\ pc'[f] = "messages"
  BY HandlePlace
<1>2. acc' = Accumulated(i)
  BY <1>1 DEF Fault
<1>3. UNCHANGED <<script, sent, log, low, group, inserts>>
  BY DEF HandleMessage, handler, stream
<1>4. left[f] \subseteq batch[f] /\ batch[f] \subseteq 1 .. Len(log) /\ Peeked(f) = {}
  BY <1>1 DEF TypeOK, PhaseInv, PhaseOf
<1>5. i \in 1 .. Len(log) /\ log[i] \in 1 .. sent /\ log[i] \in DOMAIN script
      /\ EventAt(i) = script[log[i]]
  BY <1>4, ReceivedInScript DEF IInv, LogOrdered, EventAt
<1>6. script \in Scripts
  BY DEF TypeOK
<1>7. Seen(f) = batch[f] \ left[f] /\ Seen(f)' = Seen(f) \cup {i}
  BY <1>1, <1>4 DEF Seen
<1>8. Flushers = {f}
  BY DEF OneFlusher
<1>9. ASSUME NEW m \in Messages, Completed(m) PROVE ~Chunks(EventAt(i), m)
  <2>1. PICK n \in 1 .. sent : Completes(script[n], m) /\ n < log[i]
    <3>1. CASE \E n \in Nat : HasRow(n) /\ Completes(script[n], m)
      BY <1>1, <3>1 DEF OrderInv, RowsBefore, IInv, RowsReceived, HasRow
    <3>2. CASE \E j \in Seen(f) : Completes(EventAt(j), m)
      BY <1>1, <1>4, <1>5, <1>7, <3>2 DEF IInv, LogOrdered, EventAt
    <3> QED
      BY <1>8, <1>9, <3>1, <3>2 DEF Completed
  <2> QED
    BY <1>5, <1>6, <2>1, ReceivedInScript DEF SingleTurn, Ends
<1>10. ASSUME NEW m \in Messages, Completes(EventAt(i), m) PROVE RecoveredRows = {}
  <2> SUFFICES ASSUME RecoveredRows # {} PROVE FALSE
    OBVIOUS
  <2>1. PICK t \in 1 .. sent : script[t].type = "terminal" /\ t < log[i]
    BY <1>1, <1>4 DEF EndedInv, TurnOver
  <2> QED
    BY <1>5, <1>6, <1>10, <2>1, ReceivedInScript DEF SingleTurn, Ends
<1>11. ASSUME NEW m \in Messages, Completed(m)' PROVE Completed(m) \/ Completes(EventAt(i), m)
  <2>1. CASE \E n \in Nat : HasRow(n)' /\ Completes(script'[n], m)
    BY <1>3, <2>1 DEF Completed, HasRow, Completes
  <2>2. CASE \E j \in Seen(f)' : Completes(EventAt(j)', m)
    BY <1>3, <1>7, <2>2 DEF Completed, Completes, EventAt
  <2> QED
    BY <1>8, <1>11, <2>1, <2>2 DEF Completed, Completes
<1>12. RecoveredRows' = RecoveredRows /\ Peeked(f)' = {}
       /\ \A m : RowsOfMessage(m)' = RowsOfMessage(m)
  BY <1>1, <1>3, <1>4 DEF RecoveredRows, RowsOfMessage, Peeked
<1>13. ASSUME NEW m \in Messages, Completed(m)'
       PROVE  acc'[m] = <<>> /\ RowsOfMessage(m)' = {} /\ \A g \in Flushers : m \notin Peeked(g)'
  <2>1. CASE Completed(m)
    <3>1. acc[m] = <<>> /\ RowsOfMessage(m) = {}
      BY <2>1 DEF EndedInv
    <3>2. ~Chunks(EventAt(i), m)
      BY <1>9, <2>1
    <3> QED
      BY <1>2, <1>5, <1>8, <1>12, <3>1, <3>2, AccumulatedIs
  <2>2. CASE Completes(EventAt(i), m)
    <3>1. RowsOfMessage(m) = {}
      BY <1>10, <2>2 DEF RowsOfMessage
    <3>2. ~Chunks(EventAt(i), m)
      BY <2>2 DEF Chunks, Completes
    <3> QED
      BY <1>2, <1>5, <1>8, <1>12, <2>2, <3>1, <3>2, AccumulatedIs
  <2> QED
    BY <1>11, <1>13, <2>1, <2>2
<1>14. RecoveredRows' # {} => TurnOver'
  <2>1. Quiet /\ script' = script
    BY <1>3, QuietFlusher
  <2> QED
    BY <1>12, <2>1, OverQuiet DEF EndedInv
<1> QED
  BY <1>13, <1>14 DEF EndedInv

\* A step that inserts nothing and completes no message.
LEMMA EndedQuiet ==
  ASSUME TypeOK, EndedInv, Quiet, Entries,
         \A f \in Flushers : Seen(f)' \subseteq Seen(f),
         \A m \in Messages : acc[m] = <<>> => acc'[m] = <<>>,
         \A f \in Flushers : \A m \in Peeked(f)' : m \in Peeked(f) \/ acc[m] # <<>>
  PROVE  EndedInv'
<1>1. \A n \in Nat : HasRow(n)' => HasRow(n)
  BY DEF Quiet, HasRow
<1>2. \A m \in Messages : Completed(m)' => Completed(m)
  BY <1>1, CompletedStays
<1>3. RecoveredRows' = RecoveredRows
  BY DEF Quiet, RecoveredRows
<1>4. RecoveredRows' # {} => TurnOver'
  BY <1>3, OverQuiet DEF EndedInv, Entries
<1> QED
  BY <1>2, <1>3, <1>4, EndedKept

\* Rows are inserted and recovered from the batch that ends the turn.
LEMMA EndedInsert ==
  ASSUME OneFlusher, TypeOK, IInv, PhaseInv, OrderInv, EndedInv, NEW f \in Flushers,
         pc[f] = "insert", pc'[f] \notin {"lookup", "messages"},
         UNCHANGED <<script, sent, log, low, group, acc>>,
         NEW S \in SUBSET left[f], NEW M \in SUBSET syn[f], Insert(Numbers(S), Recovered(f, M)),
         batch'[f] \subseteq batch[f], Peeked(f)' \subseteq Peeked(f)
  PROVE  EndedInv'
<1>1. /\ left[f] \subseteq batch[f] /\ syn[f] \subseteq Peeked(f)
      /\ Peeked(f) # {} => HasTerminal(batch[f])
  BY DEF PhaseInv, PhaseOf
<1>2. Flushers = {f}
  BY DEF OneFlusher
<1>3. Seen(f)' \subseteq Seen(f) /\ Seen(f) = batch[f]
  BY DEF Seen
<1>4. \A n : HasRow(n)' => HasRow(n) \/ \E i \in Seen(f) : n = log[i]
  <2>1. Numbers(S) \in SUBSET Nat
    <3>1. S \subseteq 1 .. Len(log)
      BY DEF TypeOK
    <3>2. \A i \in S : log[i] \in Nat
      BY <3>1, ElementOfSeq DEF TypeOK
    <3> QED
      BY <3>2 DEF Numbers
  <2>2. \A n : HasRow(n)' <=> HasRow(n) \/ n \in Numbers(S)
    BY <2>1, InsertEffect
  <2> QED
    BY <1>1, <1>3, <2>2 DEF Numbers
<1>5. \A m \in Messages : Completed(m)' => Completed(m)
  BY <1>2, <1>3, <1>4, CompletedStays DEF Entries
<1>6. RecoveredRows' = RecoveredRows \cup Recovered(f, M)
  BY RecoveredAfter
<1>7. \A r \in Recovered(f, M) : r.mid \in Peeked(f)
  BY <1>1 DEF Recovered
<1>8. RecoveredRows' # {} => TurnOver'
  <2>1. CASE RecoveredRows # {}
    <3>1. PICK t \in 1 .. sent : script[t].type = "terminal" /\ \A i \in Unread : t < log[i]
      BY <2>1 DEF EndedInv, TurnOver
    <3>2. Unread' = Unread
      BY DEF Unread, FirstUnread
    <3> QED
      BY <1>2, <3>1, <3>2 DEF TurnOver
  <2>2. CASE Recovered(f, M) # {}
    BY <1>1, <1>7, <2>2, OverAtEnd
  <2> QED
    BY <1>6, <2>1, <2>2
<1> QED
  BY <1>2, <1>5, <1>6, <1>7, <1>8, EndedKept

LEMMA EndedNext ==
  ASSUME OneFlusher, SingleTurn, NoPublishFault, "redis" \notin Faults,
         TypeOK, IInv, PhaseInv, OrderInv, EndedInv, [Next]_vars
  PROVE  EndedInv'
<1>1. CASE XAdd
  <2>1. Entries /\ \A g \in Flushers : Same(g)
    BY <1>1, OutsideStep DEF Outside, Publish
  <2>2. UNCHANGED <<acc, inserts, low, group, script>> /\ sent' = sent + 1 /\ sent \in Nat
    BY <1>1, ScriptIsSeq DEF XAdd, TypeOK
  <2>3. /\ \A g \in Flushers : Seen(g)' \subseteq Seen(g) /\ Peeked(g)' = Peeked(g)
        /\ \A n : HasRow(n)' => HasRow(n)
        /\ RecoveredRows' = RecoveredRows
    BY <2>1, <2>2 DEF Same, Seen, Peeked, HasRow, RecoveredRows
  <2>4. \A m \in Messages : Completed(m)' => Completed(m)
    BY <2>1, <2>3, CompletedStays
  <2>5. TurnOver => TurnOver'
    <3> SUFFICES ASSUME TurnOver PROVE TurnOver'
      OBVIOUS
    <3>1. PICK t \in 1 .. sent :
            /\ script[t].type = "terminal"
            /\ \A i \in Unread : t < log[i]
            /\ \A f \in Flushers :
                 pc[f] \in {"lookup", "messages"} => \A i \in batch[f] : t < log[i]
      BY DEF TurnOver
    <3>2. /\ Len(log) \in Nat /\ Len(log') = Len(log) + 1 /\ log'[Len(log) + 1] = sent + 1
      BY <1>1, <2>2, AppendProperties, LenProperties DEF TypeOK, XAdd
    <3>3. Unread' = Unread \cup {Len(log) + 1} /\ Unread \subseteq 1 .. Len(log)
      BY <2>2, <3>2, UnreadInLog DEF Unread, FirstUnread
    <3>4. \A i \in Unread : t < log'[i]
      BY <2>1, <3>1, <3>3 DEF Entries
    <3>5. t < log'[Len(log) + 1]
      BY <2>2, <3>2
    <3>6. \A i \in Unread' : t < log'[i]
      BY <3>3, <3>4, <3>5
    <3>7. \A f \in Flushers : batch[f] \subseteq 1 .. Len(log)
      BY DEF TypeOK
    <3>8. \A f \in Flushers :
            pc'[f] \in {"lookup", "messages"} => \A i \in batch'[f] : t < log'[i]
      BY <2>1, <3>1, <3>7 DEF Same, Entries
    <3>9. t \in 1 .. sent' /\ script' = script
      BY <2>2
    <3> QED
      BY <3>1, <3>6, <3>8, <3>9 DEF TurnOver
  <2>6. RecoveredRows' # {} => TurnOver'
    BY <2>3, <2>5 DEF EndedInv
  <2> QED
    BY <2>2, <2>3, <2>4, <2>6, EndedKept
<1>2. CASE PublishFails
  BY <1>2 DEF PublishFails, Fault, NoPublishFault
<1>3. CASE TrackActive \/ TimePasses \/ Cleanup \/ UNCHANGED vars
           \/ \E m \in Messages : AccumulatorExpires(m)
  <2>1. Quiet
    BY <1>3, QuietRest
  <2>2. Entries /\ \A g \in Flushers : Same(g)
    BY <1>3, OutsideStep DEF Outside, Publish
  <2>3. \A g \in Flushers : Seen(g)' \subseteq Seen(g) /\ Peeked(g)' = Peeked(g)
    BY <2>2 DEF Same, Seen, Peeked
  <2>4. \A m \in Messages : acc[m] = <<>> => acc'[m] = <<>>
    <3>1. CASE acc' = acc
      BY <3>1
    <3>2. CASE \E m \in Messages : AccumulatorExpires(m)
      BY <3>2 DEF AccumulatorExpires, TypeOK
    <3>3. acc' = acc \/ \E m \in Messages : AccumulatorExpires(m)
      BY <1>3 DEF TrackActive, TimePasses, Cleanup, CleanIdle, DeleteStream, Untrack, vars
    <3> QED
      BY <3>1, <3>2, <3>3
  <2> QED
    BY <2>1, <2>2, <2>3, <2>4, EndedQuiet
<1>4. ASSUME NEW f \in Flushers, FlusherStep(f) PROVE EndedInv'
  <2>1. Entries /\ Flushers = {f}
    BY <1>4, FlusherStepLeaves DEF Entries, OneFlusher
  <2>2. PhaseOf(f)
    BY DEF PhaseInv
  <2>3. ASSUME Return(f), Quiet, acc' = acc PROVE EndedInv'
    <3>1. batch'[f] = {} /\ Peeked(f)' = {}
      BY <2>3, PhaseReturn
    <3>2. Seen(f)' = {}
      BY <3>1 DEF Seen
    <3> QED
      BY <2>1, <2>3, <3>1, <3>2, EndedQuiet
  <2>4. CASE ConversationNotFound(f) \/ Trim(f) \/ Crash(f)
    <3>1. Quiet
      BY <2>4, QuietFlusher
    <3> QED
      BY <2>3, <2>4, <3>1 DEF ConversationNotFound, Trim, Crash
  <2>5. CASE FlushAll(f) \/ ProcessPending(f) \/ CreateGroup(f) \/ FindConversation(f)
             \/ PeekChunks(f) \/ Ack(f) \/ DropChunk(f)
    <3>1. Quiet
      BY <2>5, QuietFlusher
    <3>2. batch'[f] = batch[f] /\ left'[f] = left[f]
      BY <2>5 DEF FlushAll, ProcessPending, CreateGroup, FindConversation, PeekChunks, Ack,
                  DropChunk
    <3>3. pc[f] \in {"lookup", "messages"} <=> pc'[f] \in {"lookup", "messages"}
      BY <2>5 DEF FlushAll, ProcessPending, CreateGroup, FindConversation, PeekChunks, Ack,
                  DropChunk, Goto, TypeOK
    <3>4. Seen(f)' \subseteq Seen(f)
      BY <3>2, <3>3 DEF Seen
    <3>5. \A m \in Messages : acc[m] = <<>> => acc'[m] = <<>>
      BY <2>5 DEF FlushAll, ProcessPending, CreateGroup, FindConversation, PeekChunks, Ack,
                  DropChunk, Dropped, TypeOK
    <3>6. found'[f] = found[f] \/ found'[f] = acc
      BY <2>5 DEF FlushAll, ProcessPending, CreateGroup, FindConversation, PeekChunks, Ack,
                  DropChunk, TypeOK
    <3>7. \A m \in Peeked(f)' : m \in Peeked(f) \/ acc[m] # <<>>
      BY <3>6 DEF Peeked
    <3> QED
      BY <2>1, <3>1, <3>4, <3>5, <3>7, EndedQuiet
  <2>6. CASE ReadNew(f)
    <3>0. acc' = acc
      BY <2>6 DEF ReadNew
    <3>1. CASE Return(f) /\ UNCHANGED <<log, sent, inserts, low, group>> /\ Unread' = Unread
      <4>1. Quiet
        BY <3>1 DEF Quiet, TypeOK, Return, IInv, BatchesPrivate
      <4> QED
        BY <2>3, <3>0, <3>1, <4>1
    <3>2. CASE /\ UNCHANGED <<log, sent, inserts>> /\ NextBatch \subseteq Unread
               /\ Unread' \subseteq Unread /\ pc[f] = "read" /\ pc'[f] = "lookup"
               /\ batch'[f] = NextBatch /\ left'[f] = NextBatch
      <4>1. ~Return(f)
        BY <3>2, PhaseReturn
      <4>2. found'[f] = found[f]
        BY <2>6, <4>1 DEF ReadNew
      <4>3. Seen(f)' = {} /\ Peeked(f)' = Peeked(f) /\ RecoveredRows' = RecoveredRows
            /\ \A n : HasRow(n)' <=> HasRow(n)
        BY <3>2, <4>2 DEF Seen, Peeked, RecoveredRows, HasRow
      <4>4. \A m \in Messages : Completed(m)' => Completed(m)
        BY <2>1, <4>3, CompletedStays
      <4>5. TurnOver => TurnOver'
        <5>1. ASSUME NEW t \in 1 .. sent, script[t].type = "terminal",
                     \A i \in Unread : t < log[i]
              PROVE  TurnOver'
          BY <2>1, <3>2, <5>1 DEF TurnOver, Entries
        <5> QED
          BY <5>1 DEF TurnOver
      <4>6. RecoveredRows' # {} => TurnOver'
        BY <4>3, <4>5 DEF EndedInv
      <4> QED
        BY <2>1, <3>0, <4>3, <4>4, <4>6, EndedKept
    <3> QED
      BY <2>6, <3>1, <3>2, TakesFirst
  <2>7. CASE HandleMessage(f)
    BY <2>7, EndedHandle
  <2>8. CASE CreateInBatches(f)
    <3>1. UNCHANGED <<script, sent, log, low, group, acc>>
      BY <2>8 DEF CreateInBatches, handler, stream
    <3>2. PICK S \in SUBSET left[f], M \in SUBSET syn[f] :
            /\ Insert(Numbers(S), Recovered(f, M)) /\ pc[f] = "insert"
            /\ batch'[f] = batch[f] /\ found'[f] = found[f] /\ pc'[f] \in {"insert", "ack"}
      BY <2>8, InsertPlace
    <3>3. Peeked(f)' = Peeked(f)
      BY <3>2 DEF Peeked
    <3> QED
      BY <3>1, <3>2, <3>3, EndedInsert
  <2>9. CASE InsertFails(f)
    <3>1. UNCHANGED <<script, sent, log, low, group, acc>> /\ Return(f) /\ pc[f] = "insert"
      BY <2>9 DEF InsertFails, ReturnUnacknowledged, handler
    <3>2. batch'[f] = {} /\ Peeked(f)' = {} /\ pc'[f] = "idle"
      BY <3>1, PhaseReturn
    <3>3. PICK S \in SUBSET left[f], M \in SUBSET syn[f] :
            Insert(Numbers(S), Recovered(f, M)) \/ Insert({}, {})
      BY <2>9 DEF InsertFails
    <3>4. Numbers({}) = {} /\ Recovered(f, {}) = {}
      BY DEF Numbers, Recovered
    <3>5. \E T \in SUBSET left[f], L \in SUBSET syn[f] : Insert(Numbers(T), Recovered(f, L))
      BY <3>3, <3>4
    <3> QED
      BY <3>1, <3>2, <3>5, EndedInsert
  <2> QED
    BY <1>4, <2>4, <2>5, <2>6, <2>7, <2>8, <2>9 DEF FlusherStep, FlushStep
<1> QED
  BY <1>1, <1>2, <1>3, <1>4 DEF Next, Publish, FlusherStep

LEMMA InitEnded == Init => PhaseInv /\ EndedInv
<1> SUFFICES ASSUME Init PROVE PhaseInv /\ EndedInv
  OBVIOUS
<1>1. \A f \in Flushers : Peeked(f) = {} /\ Seen(f) = {}
  BY DEF Init, Peeked, Nothing, Seen
<1>2. DOMAIN inserts = {}
  BY DEF Init
<1>3. RecoveredRows = {}
  BY <1>2 DEF RecoveredRows
<1>4. \A m : ~Completed(m)
  BY <1>1, <1>2 DEF Completed, HasRow
<1>5. PhaseInv
  BY <1>1 DEF Init, PhaseInv, PhaseOf
<1> QED
  BY <1>3, <1>4, <1>5 DEF EndedInv

\* With one instance, one turn and Redis calls that take effect, no message has both
\* its real completion and a synthesized one, whatever crashes, expires or fails in
\* Postgres.
THEOREM CompletedNotRecovered ==
  ASSUME OneFlusher, SingleTurn, NoPublishFault, "redis" \notin Faults
  PROVE  Spec => []NoSpuriousRecovery
<1> DEFINE Inv == TypeOK /\ IInv /\ PhaseInv /\ OrderInv /\ InsertedInOrder /\ EndedInv
<1>1. Init => Inv
  BY InitType, InitInvariant, InitOrder, InitEnded
<1>2. Inv /\ [Next]_vars => Inv'
  BY TypeNext, InvNext, PhaseNext, OrderNext, EndedNext DEF NoPublishFault
<1>3. Inv => NoSpuriousRecovery
  <2> SUFFICES ASSUME TypeOK, IInv, EndedInv, NEW m \in Messages, CompletedRow(m)
               PROVE  RowsOfMessage(m) = {}
    BY DEF NoSpuriousRecovery
  <2>1. PICK n \in Persisted : script[n] = [type |-> "response_completed", mid |-> m]
    BY DEF CompletedRow
  <2>2. HasRow(n) /\ n \in Nat
    <3>1. PICK k \in DOMAIN inserts : n \in inserts[k].events
      BY DEF Persisted
    <3>2. n \in 1 .. sent
      BY <3>1 DEF IInv, RowsReceived
    <3> QED
      BY <3>1, <3>2 DEF HasRow
  <2>3. Completed(m)
    BY <2>1, <2>2 DEF Completed, Completes
  <2> QED
    BY <2>3 DEF EndedInv
<1> QED
  BY <1>1, <1>2, <1>3, PTL DEF Spec

-----------------------------------------------------------------------------
(* As long as nothing fails, a recovered row is whole and there is one      *)

\* A healthy state follows a healthy one, by a step in which nothing failed.
LEMMA HealthyStep ==
  ASSUME TypeOK, [Next]_vars, Healthy'
  PROVE  Healthy /\ \A kind : ~Fault(kind)
<1>1. faults \in Nat
  BY ConstantsAssumption DEF TypeOK
<1>2. \A kind : ~Fault(kind)
  BY <1>1 DEF Fault, Healthy
<1>3. CASE Publish \/ TimePasses \/ Cleanup \/ UNCHANGED vars
           \/ \E m \in Messages : AccumulatorExpires(m)
  BY <1>2, <1>3 DEF Publish, XAdd, TrackActive, PublishFails, TimePasses, Cleanup, CleanIdle,
       DeleteStream, Untrack, AccumulatorExpires, vars, NoFault, Healthy
<1>4. ASSUME NEW f \in Flushers, FlusherStep(f) PROVE Healthy
  <2>1. ~ConversationNotFound(f) /\ ~InsertFails(f) /\ ~Crash(f)
    BY <1>2 DEF ConversationNotFound, InsertFails, Crash
  <2>2. CASE FlushAll(f) \/ ProcessPending(f) \/ CreateGroup(f) \/ FindConversation(f)
             \/ ReadNew(f) \/ CreateInBatches(f) \/ Trim(f)
    BY <2>2 DEF FlushAll, ProcessPending, CreateGroup, FindConversation, ReadNew, CreateInBatches,
         Trim, Healthy
  <2>3. CASE HandleMessage(f)
    BY <1>2, <2>3 DEF HandleMessage, NoFault, Healthy
  <2>4. CASE PeekChunks(f) \/ Ack(f) \/ DropChunk(f)
    BY <1>2, <2>4 DEF PeekChunks, Ack, DropChunk, NoFault, Healthy
  <2> QED
    BY <1>4, <2>1, <2>2, <2>3, <2>4 DEF FlusherStep, FlushStep
<1> QED
  BY <1>2, <1>3, <1>4 DEF Next, FlusherStep

\* The steps there are when nothing fails: no sweep finds the stream idle.
Working(f) ==
  \/ FlushAll(f) \/ ProcessPending(f) \/ CreateGroup(f) \/ ReadNew(f) \/ FindConversation(f)
  \/ HandleMessage(f) \/ PeekChunks(f) \/ CreateInBatches(f) \/ Ack(f) \/ DropChunk(f) \/ Trim(f)

LEMMA HealthySteps ==
  ASSUME TypeOK, KeptInv, [Next]_vars, \A kind : ~Fault(kind)
  PROVE  XAdd \/ TrackActive \/ UNCHANGED vars \/ \E f \in Flushers : Working(f)
<1>1. ~PublishFails /\ ~TimePasses /\ \A m \in Messages : ~AccumulatorExpires(m)
  BY DEF PublishFails, TimePasses, AccumulatorExpires
<1>2. ~CleanIdle
  <2> SUFFICES ASSUME CleanIdle PROVE FALSE
    OBVIOUS
  <2>1. active /\ IsIdle
    BY DEF CleanIdle
  <2>2. sent \in Nat /\ sent # 0 /\ Len(log) = sent /\ low \in Nat /\ low < sent /\ cutoff = 0
    BY <2>1, ScriptIsSeq DEF KeptInv, TypeOK
  <2>3. sent \in Stream
    BY <2>2 DEF Stream
  <2> QED
    BY <2>1, <2>2, <2>3 DEF IsIdle
<1>3. ~Cleanup
  BY <1>2 DEF Cleanup, DeleteStream, Untrack, KeptInv
<1>4. \A f \in Flushers : ~ConversationNotFound(f) /\ ~InsertFails(f) /\ ~Crash(f)
  BY DEF ConversationNotFound, InsertFails, Crash
<1> QED
  BY <1>1, <1>3, <1>4 DEF Next, Publish, FlushStep, Working

LEMMA KeptNext ==
  ASSUME OneFlusher, ShortTurn, TypeOK, PhaseInv, KeptInv, [Next]_vars, \A kind : ~Fault(kind)
  PROVE  KeptInv'
<1>0. /\ sent \in Nat /\ Len(log) \in Nat /\ Len(log) = sent /\ low \in Nat /\ low =< sent
      /\ \A f \in Flushers : batch[f] \subseteq 1 .. group
  BY ScriptIsSeq DEF TypeOK, KeptInv
<1>1. CASE XAdd
  <2>1. Len(log') = sent' /\ sent' = sent + 1 /\ \A i \in 1 .. Len(log') : log'[i] = i
    BY <1>0, <1>1, AppendProperties DEF XAdd, KeptInv, TypeOK
  <2>2. UNCHANGED <<low, group, cleaner, flusher>>
    BY <1>1 DEF XAdd
  <2> QED
    BY <1>0, <2>1, <2>2 DEF KeptInv, cleaner, flusher
<1>2. CASE TrackActive
  <2>1. UNCHANGED <<sent, stream, flusher, cleaner>> /\ sent # 0
    BY <1>2 DEF TrackActive, KeptInv, TypeOK
  <2> QED
    BY <2>1 DEF KeptInv, stream, flusher, cleaner
<1>3. CASE UNCHANGED vars
  BY <1>3 DEF KeptInv, vars, handler, stream, flusher, cleaner
<1>4. ASSUME NEW f \in Flushers, Working(f) PROVE KeptInv'
  <2>1. UNCHANGED <<script, sent, tracking, log, active, cutoff, sweep>> /\ Flushers = {f}
    BY <1>4, FlusherStepLeaves DEF OneFlusher, Working, FlusherStep, FlushStep
  <2>2. PhaseOf(f)
    BY DEF PhaseInv
  <2>3. SUFFICES /\ low' = 0 \/ low' =< group'
                 /\ sent > 0 => low' < sent
                 /\ batch'[f] \subseteq 1 .. group'
                 /\ pc'[f] \notin {"idle", "create", "read"} => group' >= 1
                 /\ pc'[f] \in {"lookup", "messages"} =>
                      \A i \in left'[f] : \A j \in (1 .. group') \ left'[f] : j < i
    BY <2>1 DEF KeptInv
  <2>4. CASE FlushAll(f) \/ ProcessPending(f) \/ CreateGroup(f)
    <3>1. /\ low' = low /\ batch' = batch /\ (group' = group \/ group' = EnsuredGroup)
          /\ pc'[f] \in {"idle", "create", "read"} /\ batch[f] = {}
      BY <2>2, <2>4 DEF FlushAll, ProcessPending, CreateGroup, stream, Goto, TypeOK, PhaseOf
    <3> QED
      BY <1>0, <3>1 DEF KeptInv, EnsuredGroup, NoGroup
  <2>5. CASE ReadNew(f)
    <3>1. CASE Return(f) /\ UNCHANGED <<low, group>>
      BY <3>1, PhaseReturn DEF KeptInv
    <3>2. CASE /\ low' = low /\ group' = LastOfBatch /\ NextBatch = FirstUnread .. group'
               /\ group' \in FirstUnread .. Len(log) /\ FirstUnread \in Nat /\ FirstUnread >= 1
               /\ batch'[f] = NextBatch /\ left'[f] = NextBatch
      <4>1. low < FirstUnread
        BY <1>0 DEF FirstUnread, Larger, TypeOK, NoGroup
      <4> QED
        BY <1>0, <3>2, <4>1 DEF KeptInv
    <3> QED
      BY <2>5, <3>1, <3>2, TakesFirst
  <2>6. CASE FindConversation(f)
    BY <2>6 DEF FindConversation, stream, Goto, TypeOK, KeptInv
  <2>7. CASE HandleMessage(f)
    <3>1. PICK i \in left[f] :
            /\ \A j \in left[f] : i =< j
            /\ pc[f] = "messages" /\ batch'[f] = batch[f]
            /\ \/ pc'[f] \in {"peek", "insert"}
               \/ left'[f] = left[f] \ {i} /\ pc'[f] = "messages"
      BY <2>7, HandlePlace
    <3>2. UNCHANGED <<low, group>>
      BY <2>7 DEF HandleMessage, stream
    <3>3. ASSUME left'[f] = left[f] \ {i}, NEW k \in left'[f], NEW j \in (1 .. group) \ left'[f]
          PROVE  j < k
      <4>1. k \in left[f] /\ k # i /\ (j = i \/ j \in (1 .. group) \ left[f])
        BY <3>3
      <4>2. i =< k /\ i \in Nat /\ k \in Nat
        BY <3>1, <4>1 DEF TypeOK
      <4> QED
        BY <3>1, <4>1, <4>2 DEF KeptInv
    <3>4. group \in Int
      BY DEF TypeOK, NoGroup
    <3> QED
      BY <3>1, <3>2, <3>3, <3>4 DEF KeptInv
  <2>8. CASE PeekChunks(f) \/ CreateInBatches(f) \/ Ack(f) \/ DropChunk(f)
    <3>1. UNCHANGED <<low, group>> /\ batch'[f] = batch[f]
      BY <2>8 DEF PeekChunks, CreateInBatches, Ack, DropChunk, stream
    <3>2. /\ pc[f] \notin {"idle", "create", "read"}
          /\ pc'[f] \notin {"lookup", "messages"}
      BY <2>8 DEF PeekChunks, CreateInBatches, Ack, DropChunk, Goto, TypeOK
    <3> QED
      BY <3>1, <3>2 DEF KeptInv
  <2>9. CASE Trim(f)
    <3>1. Return(f) /\ group' = group /\ pc[f] = "drop" /\ group >= 1
      BY <2>9 DEF Trim, KeptInv
    <3>2. sent =< TrimMaxLen + 1
      BY <1>0, ScriptIsSeq, ConstantsAssumption DEF ShortTurn, TypeOK
    <3>3. low' = low \/ low' \in low .. (sent - TrimMaxLen)
      BY <1>0, <2>9 DEF Trim
    <3>4. TrimMaxLen \in Nat /\ TrimMaxLen >= 1 /\ group \in Int
      BY ConstantsAssumption DEF TypeOK, NoGroup
    <3>5. (low' = 0 \/ low' =< group') /\ (sent > 0 => low' < sent)
      <4>1. CASE low' = low
        BY <3>1, <4>1 DEF KeptInv
      <4>2. CASE low' \in low .. (sent - TrimMaxLen)
        <5>1. low' \in Int /\ low' =< sent - TrimMaxLen
          BY <4>2, <3>4, <1>0
        <5>2. low' =< 1 /\ low' < sent
          BY <5>1, <3>2, <3>4, <1>0
        <5> QED
          BY <3>1, <3>4, <5>1, <5>2
      <4> QED
        BY <3>3, <4>1, <4>2
    <3> QED
      BY <3>1, <3>5, PhaseReturn
  <2> QED
    BY <1>4, <2>4, <2>5, <2>6, <2>7, <2>8, <2>9 DEF Working
<1> QED
  BY <1>1, <1>2, <1>3, <1>4, HealthySteps

\* A message is recovered by one INSERT.
OneInsert ==
  \A j, k \in DOMAIN inserts :
    \A r \in inserts[j].recovered, s \in inserts[k].recovered : r.mid = s.mid => j = k

\* What is to be kept besides KeptInv as long as nothing fails.
SoundInv == AccInv /\ FoundInv /\ OnceInv /\ OneInsert

\* Steps that handle, find, insert and drop nothing.
LEMMA SoundSteady ==
  ASSUME OneFlusher, TypeOK, SoundInv, UNCHANGED <<script, acc, inserts>>, Past' = Past,
         \A f \in Flushers :
           /\ Peeked(f)' \subseteq Peeked(f)
           /\ \A m \in Peeked(f)' : found'[f][m] = found[f][m]
           /\ pc[f] = "insert" <=> pc'[f] = "insert"
           /\ pc[f] = "insert" => syn'[f] = syn[f] /\ Peeked(f)' = Peeked(f)
           /\ pc[f] \in {"ack", "drop"} =>
                syn[f] = {} \/ (pc'[f] \in {"ack", "drop"} /\ syn'[f] = syn[f])
  PROVE  SoundInv'
<1>1. /\ \A m : ChunksOf(m)' = ChunksOf(m) /\ RowsOfMessage(m)' = RowsOfMessage(m)
      /\ RecoveredRows' = RecoveredRows
  BY DEF ChunksOf, RowsOfMessage, RecoveredRows
<1>2. \A s, m : Whole(s, m)' <=> Whole(s, m)
  BY <1>1 DEF Whole
<1>3. AccInv'
  BY <1>1 DEF SoundInv, AccInv
<1>4. FoundInv'
  BY <1>1, <1>2 DEF SoundInv, FoundInv
<1>5. OnceInv'
  BY <1>1 DEF SoundInv, OnceInv
<1>6. OneInsert'
  BY DEF SoundInv, OneInsert
<1> QED
  BY <1>3, <1>4, <1>5, <1>6 DEF SoundInv

\* Past is what a flusher that is not in the loop has been given.
LEMMA PastIs ==
  ASSUME OneFlusher, NEW f \in Flushers
  PROVE  /\ pc[f] \notin {"lookup", "messages"} => Past = 1 .. group
         /\ pc[f] \in {"lookup", "messages"} => Past = (1 .. group) \ left[f]
<1>1. Flushers = {f}
  BY DEF OneFlusher
<1> QED
  BY <1>1 DEF Past

\* Of a message, nothing comes after the end of the turn.
LEMMA AllBefore ==
  ASSUME SingleTurn, TypeOK, NEW m \in Messages, NEW e \in DOMAIN script, Ends(script[e], m),
         NEW n \in DOMAIN script, Completes(script[n], m) \/ Chunks(script[n], m)
  PROVE  n =< e
<1>1. script \in Scripts
  BY DEF TypeOK
<1>2. DOMAIN script = 1 .. Len(script)
  BY ScriptIsSeq, LenProperties
<1>3. e \in Nat /\ n \in Nat
  BY <1>2, ScriptIsSeq
<1>4. CASE e < n
  BY <1>1, <1>4 DEF SingleTurn
<1> QED
  BY <1>3, <1>4

\* Event numbers are positions.
LEMMA PastInScript ==
  ASSUME TypeOK, KeptInv
  PROVE  Past \subseteq 1 .. Len(log) /\ 1 .. Len(log) \subseteq DOMAIN script
<1>1. group \in Int /\ group =< Len(log) /\ Len(log) \in Nat
  BY LenProperties DEF TypeOK, NoGroup
<1>2. Past \subseteq 1 .. group
  BY DEF Past
<1>3. 1 .. Len(log) \subseteq DOMAIN script
  BY ReceivedInScript DEF KeptInv
<1> QED
  BY <1>1, <1>2, <1>3

LEMMA InOrderAppend ==
  ASSUME NEW s \in Seq(Nat), NEW n \in Nat, InOrder(s), \A x \in Members(s) : x < n
  PROVE  InOrder(Append(s, n)) /\ Members(Append(s, n)) = Members(s) \cup {n}
<1> DEFINE t == Append(s, n)
<1>1. /\ Len(s) \in Nat /\ DOMAIN s = 1 .. Len(s) /\ DOMAIN t = 1 .. (Len(s) + 1)
      /\ \A i \in DOMAIN s : t[i] = s[i]
      /\ t[Len(s) + 1] = n
  BY AppendProperties, LenProperties
<1>2. \A i : i \in DOMAIN t <=> i \in DOMAIN s \/ i = Len(s) + 1
  BY <1>1
<1>3. \A i \in DOMAIN s : i \in Nat /\ i < Len(s) + 1 /\ s[i] \in Members(s)
  BY <1>1 DEF Members
<1> HIDE DEF t
<1>4. Members(t) = Members(s) \cup {n}
  BY <1>1, <1>2 DEF Members
<1>5. InOrder(t)
  <2> SUFFICES ASSUME NEW i \in DOMAIN t, NEW j \in DOMAIN t, i < j PROVE t[i] < t[j]
    BY DEF InOrder
  <2>1. i \in DOMAIN s
    BY <1>1
  <2>2. CASE j \in DOMAIN s
    BY <1>1, <2>1, <2>2 DEF InOrder
  <2>3. CASE j = Len(s) + 1
    BY <1>1, <1>3, <2>1, <2>3
  <2> QED
    BY <1>2, <2>2, <2>3
<1> QED
  BY <1>4, <1>5 DEF t

\* A handled chunk joins its accumulator, a completion empties it.
LEMMA SoundHandle ==
  ASSUME OneFlusher, SingleTurn, TypeOK, PhaseInv, KeptInv, SoundInv, NEW f \in Flushers,
         HandleMessage(f), \A kind : ~Fault(kind)
  PROVE  SoundInv'
<1>1. PICK i \in left[f] :
        /\ acc' = Accumulated(i)
        /\ pc[f] = "messages" /\ found'[f] = found[f] /\ syn'[f] = syn[f]
        /\ \/ left[f] = {i} /\ pc'[f] \in {"peek", "insert"}
           \/ left'[f] = left[f] \ {i} /\ pc'[f] = "messages"
  BY HandlePlace
<1>2. UNCHANGED <<script, log, group, inserts>>
  BY DEF HandleMessage, handler, stream
<1>3. /\ left[f] \subseteq 1 .. group /\ Peeked(f) = {} /\ syn[f] = {}
      /\ \A j \in (1 .. group) \ left[f] : j < i
  BY <1>1 DEF KeptInv, PhaseInv, PhaseOf
<1>4. Past = (1 .. group) \ left[f]
  BY <1>1, PastIs
<1>5. Past' = Past \cup {i} /\ \A j \in Past : j < i
  <2>1. CASE left[f] = {i} /\ pc'[f] \in {"peek", "insert"}
    <3>1. Past' = 1 .. group
      BY <1>2, <2>1 DEF OneFlusher, Past
    <3> QED
      BY <1>3, <1>4, <2>1, <3>1
  <2>2. CASE left'[f] = left[f] \ {i} /\ pc'[f] = "messages"
    <3>1. Past' = (1 .. group) \ left'[f]
      BY <1>2, <2>2 DEF OneFlusher, Past
    <3> QED
      BY <1>3, <1>4, <2>2, <3>1
  <2> QED
    BY <1>1, <2>1, <2>2
<1>6. i \in 1 .. Len(log) /\ log[i] = i /\ i \in DOMAIN script /\ EventAt(i) = script[i] /\ i \in Nat
  <2>1. i \in 1 .. Len(log)
    BY DEF TypeOK
  <2> QED
    BY <2>1, PastInScript DEF KeptInv, EventAt
<1>7. \A m : ChunksOf(m)' = ChunksOf(m) /\ RowsOfMessage(m)' = RowsOfMessage(m)
  BY <1>2 DEF ChunksOf, RowsOfMessage, RecoveredRows
<1>8. ASSUME NEW m \in Messages, NEW e \in Past, Ends(script[e], m)
      PROVE  ~Completes(script[i], m) /\ ~Chunks(script[i], m)
  <2>1. e \in DOMAIN script /\ e < i /\ e \in Nat
    BY <1>5, <1>6, PastInScript
  <2> QED
    BY <1>6, <1>8, <2>1, AllBefore
<1>9. ASSUME NEW m \in Messages
      PROVE  \/ InOrder(acc'[m]) /\ Members(acc'[m]) = ChunksOf(m) \cap Past'
             \/ acc'[m] = <<>> /\ \E e \in Past' : Ends(script[e], m)
  <2>1. CASE acc[m] = <<>> /\ \E e \in Past : Ends(script[e], m)
    <3>1. ~Completes(script[i], m) /\ ~Chunks(script[i], m)
      BY <1>8, <2>1
    <3>2. acc'[m] = <<>>
      BY <1>1, <1>6, <2>1, <3>1, AccumulatedIs
    <3> QED
      BY <1>5, <2>1, <3>2
  <2>2. CASE InOrder(acc[m]) /\ Members(acc[m]) = ChunksOf(m) \cap Past
    <3>1. CASE Chunks(script[i], m) /\ acc'[m] = Append(acc[m], i)
      <4>1. i \in ChunksOf(m)
        BY <1>6, <3>1 DEF Chunks, ChunksOf
      <4>2. acc[m] \in Seq(Nat)
        BY DEF TypeOK
      <4>3. \A x \in Members(acc[m]) : x < i
        BY <1>5, <2>2
      <4>4. InOrder(acc'[m]) /\ Members(acc'[m]) = Members(acc[m]) \cup {i}
        BY <1>6, <2>2, <3>1, <4>2, <4>3, InOrderAppend
      <4> QED
        BY <1>5, <2>2, <4>1, <4>4
    <3>2. CASE Completes(script[i], m) /\ acc'[m] = <<>>
      BY <1>5, <3>2 DEF Ends
    <3>3. CASE ~Chunks(script[i], m) /\ acc'[m] = acc[m]
      <4>1. i \notin ChunksOf(m)
        BY <3>3 DEF Chunks, ChunksOf
      <4> QED
        BY <1>5, <2>2, <3>3, <4>1
    <3> QED
      BY <1>1, <1>6, <3>1, <3>2, <3>3, AccumulatedIs
  <2> QED
    BY <2>1, <2>2 DEF SoundInv, AccInv
<1>10. AccInv'
  BY <1>2, <1>7, <1>9 DEF AccInv
<1>11. FoundInv'
  <2>1. Peeked(f)' = {} /\ RecoveredRows' = RecoveredRows
    BY <1>1, <1>2, <1>3 DEF Peeked, RecoveredRows
  <2>2. \A s, m : Whole(s, m)' <=> Whole(s, m)
    BY <1>7 DEF Whole
  <2> QED
    BY <2>1, <2>2 DEF SoundInv, FoundInv, OneFlusher
<1>12. OnceInv'
  <2> SUFFICES ASSUME NEW m \in Messages, RowsOfMessage(m) # {}
               PROVE  /\ \E e \in Past' : script[e].type = "terminal"
                      /\ syn'[f] = {} /\ acc'[m] = <<>>
    BY <1>2, <1>7 DEF OnceInv, OneFlusher
  <2>1. PICK e \in Past : script[e].type = "terminal"
    BY DEF SoundInv, OnceInv
  <2>2. acc[m] = <<>>
    BY <1>1 DEF SoundInv, OnceInv
  <2>3. ~Completes(script[i], m) /\ ~Chunks(script[i], m)
    BY <1>8, <2>1 DEF Ends
  <2>4. acc'[m] = <<>>
    BY <1>1, <1>6, <2>2, <2>3, AccumulatedIs
  <2> QED
    BY <1>1, <1>3, <1>5, <2>1, <2>4
<1>13. OneInsert'
  BY <1>2 DEF SoundInv, OneInsert
<1> QED
  BY <1>10, <1>11, <1>12, <1>13 DEF SoundInv

\* A batch that ends the turn has all its messages' chunks behind it.
LEMMA EndInPast ==
  ASSUME OneFlusher, TypeOK, KeptInv, NEW f \in Flushers, HasTerminal(batch[f]),
         pc[f] \notin {"lookup", "messages"}
  PROVE  \E e \in Past : e \in DOMAIN script /\ script[e].type = "terminal"
<1>1. PICK e \in batch[f] : EventAt(e).type = "terminal"
  BY DEF HasTerminal
<1>2. batch[f] \subseteq 1 .. group /\ Past = 1 .. group /\ batch[f] \subseteq 1 .. Len(log)
  BY PastIs DEF KeptInv, TypeOK
<1> QED
  BY <1>1, <1>2, PastInScript DEF KeptInv, EventAt

\* What is found is whole, and of no message that was recovered.
LEMMA SoundPeek ==
  ASSUME OneFlusher, SingleTurn, TypeOK, PhaseInv, KeptInv, SoundInv, NEW f \in Flushers,
         PeekChunks(f), \A kind : ~Fault(kind)
  PROVE  SoundInv'
<1>1. /\ pc[f] = "peek" /\ pc'[f] = "insert" /\ found'[f] = acc
      /\ syn'[f] = {m \in Messages : acc[m] # <<>>}
  BY DEF PeekChunks, Goto, TypeOK
<1>2. UNCHANGED <<script, acc, inserts, group>>
  BY DEF PeekChunks, handler, stream
<1>3. /\ \A m : ChunksOf(m)' = ChunksOf(m) /\ RowsOfMessage(m)' = RowsOfMessage(m)
      /\ RecoveredRows' = RecoveredRows
  BY <1>2 DEF ChunksOf, RowsOfMessage, RecoveredRows
<1>4. Past = 1 .. group /\ Past' = Past
  BY <1>1, <1>2 DEF Past, OneFlusher
<1>5. PICK e \in Past : e \in DOMAIN script /\ script[e].type = "terminal"
  BY <1>1, EndInPast DEF PhaseInv, PhaseOf
<1>6. \A m : ChunksOf(m) \subseteq DOMAIN script /\ DOMAIN script \subseteq Nat
             /\ \A n \in ChunksOf(m) : Chunks(script[n], m) /\ n >= 1
  BY ScriptIsSeq, LenProperties DEF ChunksOf, Chunks
<1>7. ASSUME NEW m \in Messages PROVE ChunksOf(m) \subseteq Past
  <2> SUFFICES ASSUME NEW n \in ChunksOf(m) PROVE n \in Past
    OBVIOUS
  <2>1. n =< e
    BY <1>5, <1>6, AllBefore DEF Ends
  <2>2. group \in Int
    BY DEF TypeOK, NoGroup
  <2> QED
    BY <1>4, <1>5, <1>6, <2>1, <2>2
<1>8. \A m \in Messages : acc[m] # <<>> => Whole(acc[m], m)
  BY <1>7 DEF SoundInv, AccInv, Whole
<1>9. Peeked(f)' = {m \in Messages : acc[m] # <<>>}
  BY <1>1 DEF Peeked
<1>10. AccInv'
  BY <1>2, <1>3, <1>4 DEF SoundInv, AccInv
<1>11. FoundInv'
  <2>1. \A s, m : Whole(s, m)' <=> Whole(s, m)
    BY <1>3 DEF Whole
  <2> QED
    BY <1>1, <1>3, <1>8, <1>9, <2>1 DEF SoundInv, FoundInv, OneFlusher
<1>12. OnceInv'
  <2> SUFFICES ASSUME NEW m \in Messages, RowsOfMessage(m) # {}
               PROVE  acc[m] = <<>>
    BY <1>1, <1>2, <1>3, <1>4, <1>5 DEF OnceInv, OneFlusher
  <2> QED
    BY <1>1 DEF SoundInv, OnceInv
<1>13. OneInsert'
  BY <1>2 DEF SoundInv, OneInsert
<1> QED
  BY <1>10, <1>11, <1>12, <1>13 DEF SoundInv

\* Recovered rows are those of the found accumulators, each inserted once.
LEMMA SoundInsert ==
  ASSUME OneFlusher, TypeOK, PhaseInv, KeptInv, SoundInv, NEW f \in Flushers, CreateInBatches(f)
  PROVE  SoundInv'
<1>1. PICK S \in SUBSET left[f], M \in SUBSET syn[f] :
        /\ Insert(Numbers(S), Recovered(f, M))
        /\ pc[f] = "insert" /\ found'[f] = found[f]
        /\ \/ syn'[f] = Peeked(f) /\ pc'[f] = "ack"
           \/ syn'[f] = syn[f] \ M /\ pc'[f] = "insert"
  BY InsertPlace
<1>2. UNCHANGED <<script, acc, group>> /\ syn[f] \subseteq Peeked(f)
  BY DEF CreateInBatches, handler, stream, PhaseInv, PhaseOf
<1>3. Past' = Past
  BY <1>1, <1>2 DEF Past, OneFlusher
<1>4. Peeked(f)' = Peeked(f)
  BY <1>1 DEF Peeked
<1>5. \A m : ChunksOf(m)' = ChunksOf(m)
  BY <1>2 DEF ChunksOf
<1>6. RecoveredRows' = RecoveredRows \cup Recovered(f, M)
  BY <1>1, RecoveredAfter
<1>7. \A r \in Recovered(f, M) : r.mid \in M /\ r.content = found[f][r.mid]
  BY DEF Recovered
<1>8. AccInv'
  BY <1>2, <1>3, <1>5 DEF SoundInv, AccInv
<1>9. FoundInv'
  <2>1. \A s, m : Whole(s, m)' <=> Whole(s, m)
    BY <1>5 DEF Whole
  <2>2. \A r \in RecoveredRows' : Whole(r.content, r.mid)
    BY <1>2, <1>6, <1>7 DEF SoundInv, FoundInv
  <2> QED
    BY <1>1, <1>4, <2>1, <2>2 DEF SoundInv, FoundInv, OneFlusher
<1>10. OnceInv'
  <2>1. ASSUME NEW m \in Messages, RowsOfMessage(m)' # {}
        PROVE  RowsOfMessage(m) # {} \/ m \in M
    BY <1>6, <1>7, <2>1 DEF RowsOfMessage
  <2>2. ASSUME NEW m \in Messages, RowsOfMessage(m) # {} \/ m \in M
        PROVE  /\ \E e \in Past : script[e].type = "terminal"
               /\ acc[m] = <<>> \/ m \in Peeked(f)
               /\ m \notin syn[f] \ M
    <3>1. CASE RowsOfMessage(m) # {}
      BY <1>1, <3>1 DEF SoundInv, OnceInv
    <3>2. CASE m \in M
      BY <1>1, <1>2, <3>2, EndInPast DEF PhaseInv, PhaseOf
    <3> QED
      BY <2>2, <3>1, <3>2
  <2>3. ASSUME NEW m \in Messages, RowsOfMessage(m)' # {}
        PROVE  /\ \E e \in Past' : script'[e].type = "terminal"
               /\ pc'[f] = "insert" => m \notin syn'[f]
               /\ \/ acc'[m] = <<>>
                  \/ pc'[f] = "insert" /\ m \in Peeked(f)'
                  \/ pc'[f] \in {"ack", "drop"} /\ m \in syn'[f]
    <3>1. /\ \E e \in Past : script[e].type = "terminal"
          /\ acc[m] = <<>> \/ m \in Peeked(f)
          /\ m \notin syn[f] \ M
      BY <2>1, <2>2, <2>3
    <3> QED
      BY <1>1, <1>2, <1>3, <1>4, <3>1
  <2> QED
    BY <2>3 DEF OnceInv, OneFlusher
<1>11. OneInsert'
  <2>1. CASE inserts' = inserts
    BY <2>1 DEF SoundInv, OneInsert
  <2>2. CASE inserts' = Append(inserts, [events |-> Numbers(S), recovered |-> Recovered(f, M)])
    <3>1. /\ DOMAIN inserts = 1 .. Len(inserts) /\ Len(inserts) \in Nat
          /\ DOMAIN inserts' = 1 .. (Len(inserts) + 1)
          /\ \A k \in DOMAIN inserts : inserts'[k] = inserts[k]
          /\ inserts'[Len(inserts) + 1].recovered = Recovered(f, M)
      BY <2>2, AppendProperties, LenProperties DEF TypeOK
    <3>2. ASSUME NEW k \in DOMAIN inserts, NEW r \in inserts[k].recovered,
                 NEW s \in Recovered(f, M)
          PROVE  r.mid # s.mid
      <4>1. r \in RecoveredRows
        BY DEF RecoveredRows
      <4>2. s.mid \in M /\ s.mid \in Messages
        BY <1>7 DEF TypeOK
      <4> QED
        BY <1>1, <4>1, <4>2 DEF SoundInv, OnceInv, RowsOfMessage
    <3>3. \A k : k \in DOMAIN inserts' <=> k \in DOMAIN inserts \/ k = Len(inserts) + 1
      BY <3>1
    <3>4. ASSUME NEW j \in DOMAIN inserts', NEW k \in DOMAIN inserts',
                 NEW r \in inserts'[j].recovered, NEW s \in inserts'[k].recovered, r.mid = s.mid
          PROVE  j = k
      <4>1. CASE j \in DOMAIN inserts /\ k \in DOMAIN inserts
        BY <3>1, <3>4, <4>1 DEF SoundInv, OneInsert
      <4>2. CASE j \in DOMAIN inserts /\ k = Len(inserts) + 1
        BY <3>1, <3>2, <3>4, <4>2
      <4>3. CASE j = Len(inserts) + 1 /\ k \in DOMAIN inserts
        BY <3>1, <3>2, <3>4, <4>3
      <4> QED
        BY <3>3, <4>1, <4>2, <4>3
    <3> QED
      BY <3>4 DEF OneInsert
  <2> QED
    BY <1>1, <2>1, <2>2 DEF Insert
<1> QED
  BY <1>8, <1>9, <1>10, <1>11 DEF SoundInv

\* The accumulator of a recovered message is dropped when the turn is over.
LEMMA SoundDrop ==
  ASSUME OneFlusher, TypeOK, PhaseInv, KeptInv, SoundInv, NEW f \in Flushers, DropChunk(f),
         \A kind : ~Fault(kind)
  PROVE  SoundInv'
<1>1. PICK m0 \in syn[f] : acc' = Dropped(m0) /\ syn' = [syn EXCEPT ![f] = @ \ {m0}]
  BY DEF DropChunk
<1>2. UNCHANGED <<script, inserts, group, pc, left, found>> /\ pc[f] = "drop"
  BY DEF DropChunk, handler, stream
<1>3. /\ \A m : ChunksOf(m)' = ChunksOf(m) /\ RowsOfMessage(m)' = RowsOfMessage(m)
      /\ RecoveredRows' = RecoveredRows /\ Past' = Past /\ Peeked(f)' = Peeked(f)
  BY <1>2 DEF ChunksOf, RowsOfMessage, RecoveredRows, Past, Peeked
<1>4. PICK e \in Past : e \in DOMAIN script /\ script[e].type = "terminal"
  BY <1>1, <1>2, EndInPast DEF PhaseInv, PhaseOf
<1>5. m0 \in Messages /\ acc'[m0] = <<>> /\ \A m \in Messages \ {m0} : acc'[m] = acc[m]
  BY <1>1 DEF Dropped, TypeOK
<1>6. syn'[f] = syn[f] \ {m0}
  BY <1>1 DEF TypeOK
<1>7. AccInv'
  <2> SUFFICES ASSUME NEW m \in Messages
               PROVE  \/ InOrder(acc'[m]) /\ Members(acc'[m]) = ChunksOf(m) \cap Past
                      \/ acc'[m] = <<>> /\ \E d \in Past : Ends(script[d], m)
    BY <1>2, <1>3 DEF AccInv
  <2>1. CASE m = m0
    BY <1>4, <1>5, <2>1 DEF Ends
  <2>2. CASE m # m0
    BY <1>5, <2>2 DEF SoundInv, AccInv
  <2> QED
    BY <2>1, <2>2
<1>8. FoundInv'
  <2>1. \A s, m : Whole(s, m)' <=> Whole(s, m)
    BY <1>3 DEF Whole
  <2> QED
    BY <1>2, <1>3, <2>1 DEF SoundInv, FoundInv, OneFlusher
<1>9. OnceInv'
  BY <1>2, <1>3, <1>5, <1>6 DEF SoundInv, OnceInv, OneFlusher
<1>10. OneInsert'
  BY <1>2 DEF SoundInv, OneInsert
<1> QED
  BY <1>7, <1>8, <1>9, <1>10 DEF SoundInv

LEMMA SoundNext ==
  ASSUME OneFlusher, SingleTurn, TypeOK, PhaseInv, KeptInv, SoundInv, [Next]_vars,
         \A kind : ~Fault(kind)
  PROVE  SoundInv'
<1>1. CASE XAdd \/ TrackActive \/ UNCHANGED vars
  <2>1. /\ UNCHANGED <<script, acc, inserts, group>>
        /\ UNCHANGED flusher
    BY <1>1 DEF XAdd, TrackActive, vars, handler, stream
  <2>2. Past' = Past /\ \A f \in Flushers : Peeked(f)' = Peeked(f)
    BY <2>1 DEF Past, Peeked, flusher
  <2> QED
    BY <2>1, <2>2, SoundSteady DEF flusher
<1>2. ASSUME NEW f \in Flushers, Working(f) PROVE SoundInv'
  <2>1. Flushers = {f} /\ PhaseOf(f) /\ script' = script
    BY <1>2, FlusherStepLeaves DEF OneFlusher, Working, FlusherStep, FlushStep, PhaseInv
  <2>2. CASE FlushAll(f) \/ ProcessPending(f) \/ CreateGroup(f) \/ FindConversation(f) \/ Ack(f)
    <3>1. /\ UNCHANGED <<acc, inserts>> /\ left'[f] = left[f] /\ found'[f] = found[f]
          /\ syn'[f] = syn[f] /\ (group' = group \/ group' = EnsuredGroup)
      BY <2>2 DEF FlushAll, ProcessPending, CreateGroup, FindConversation, Ack, stream
    <3>2. \/ /\ pc[f] \in {"idle", "create"} /\ pc'[f] \in {"idle", "create", "read"}
          \/ pc[f] = "lookup" /\ pc'[f] = "messages"
          \/ pc[f] = "ack" /\ pc'[f] = "drop"
      BY <2>2 DEF FlushAll, ProcessPending, CreateGroup, FindConversation, Ack, Goto, TypeOK
    <3>3. Peeked(f)' = Peeked(f)
      BY <3>1 DEF Peeked
    <3>4. 1 .. group' = 1 .. group
      BY <3>1 DEF EnsuredGroup, NoGroup
    <3>5. Past' = Past
      BY <2>1, <3>1, <3>2, <3>4 DEF Past
    <3> QED
      BY <2>1, <3>1, <3>2, <3>3, <3>5, SoundSteady
  <2>3. CASE Return(f) /\ UNCHANGED <<acc, inserts, group>> /\ pc[f] \in {"read", "drop"}
             /\ (pc[f] = "drop" => syn[f] = {})
    <3>1. pc'[f] = "idle" /\ Peeked(f)' = {} /\ syn'[f] = {}
      BY <2>3, PhaseReturn
    <3>2. Past' = Past
      BY <2>1, <2>3, <3>1 DEF Past
    <3> QED
      BY <2>1, <2>3, <3>1, <3>2, SoundSteady
  <2>4. CASE Trim(f)
    BY <2>3, <2>4 DEF Trim
  <2>5. CASE ReadNew(f)
    <3>0. UNCHANGED <<acc, inserts>> /\ pc[f] = "read"
      BY <2>5 DEF ReadNew
    <3>1. CASE Return(f) /\ group' = group
      BY <2>3, <3>0, <3>1
    <3>2. CASE /\ group # NoGroup /\ NextBatch = FirstUnread .. group'
               /\ group' \in FirstUnread .. Len(log) /\ FirstUnread \in Nat /\ FirstUnread >= 1
               /\ left'[f] = NextBatch /\ pc'[f] = "lookup"
      <4>1. FirstUnread = group + 1 /\ group \in Nat /\ group' \in Nat
        <5>1. group \in Nat /\ low \in Nat /\ (low = 0 \/ low =< group) /\ Len(log) \in Nat
          BY <3>2, LenProperties DEF KeptInv, TypeOK, NoGroup
        <5> QED
          BY <3>2, <5>1 DEF FirstUnread, Larger
      <4>2. Past = 1 .. group
        BY <3>0, PastIs
      <4>3. Past' = (1 .. group') \ left'[f]
        BY <2>1, <3>2 DEF Past
      <4>4. Past' = Past
        BY <3>2, <4>1, <4>2, <4>3
      <4>5. ~Return(f)
        BY <3>2, PhaseReturn
      <4>6. found'[f] = found[f] /\ syn'[f] = syn[f]
        BY <2>5, <4>5 DEF ReadNew
      <4>7. Peeked(f)' = Peeked(f)
        BY <4>6 DEF Peeked
      <4> QED
        BY <2>1, <3>0, <3>2, <4>4, <4>6, <4>7, SoundSteady
    <3> QED
      BY <2>5, <3>1, <3>2, TakesFirst
  <2>6. CASE HandleMessage(f)
    BY <2>6, SoundHandle
  <2>7. CASE PeekChunks(f)
    BY <2>7, SoundPeek
  <2>8. CASE CreateInBatches(f)
    BY <2>8, SoundInsert
  <2>9. CASE DropChunk(f)
    BY <2>9, SoundDrop
  <2> QED
    BY <1>2, <2>2, <2>4, <2>5, <2>6, <2>7, <2>8, <2>9 DEF Working
<1> QED
  BY <1>1, <1>2, HealthySteps

HealthyInv == Healthy => KeptInv /\ SoundInv

LEMMA InitHealthy == Init => HealthyInv
<1> SUFFICES ASSUME Init PROVE KeptInv /\ SoundInv
  BY DEF HealthyInv
<1>1. /\ log = <<>> /\ Len(log) = 0 /\ DOMAIN inserts = {} /\ group = -1 /\ sent = 0
      /\ tracking = 0 /\ active = FALSE /\ low = 0 /\ cutoff = 0 /\ sweep = "idle"
  BY DEF Init, NoGroup
<1>2. \A f \in Flushers : pc[f] = "idle" /\ batch[f] = {} /\ Peeked(f) = {}
  BY DEF Init, Peeked, Nothing
<1>3. KeptInv
  BY <1>1, <1>2 DEF KeptInv
<1>4. Past = {} /\ RecoveredRows = {}
  BY <1>1 DEF Past, RecoveredRows
<1>5. \A m \in Messages : acc[m] = <<>>
  BY DEF Init, Nothing
<1>6. InOrder(<<>>) /\ Members(<<>>) = {}
  BY DEF InOrder, Members
<1>7. AccInv
  BY <1>4, <1>5, <1>6 DEF AccInv
<1>8. FoundInv /\ OnceInv /\ OneInsert
  BY <1>1, <1>2, <1>4 DEF FoundInv, OnceInv, OneInsert, RowsOfMessage
<1> QED
  BY <1>3, <1>7, <1>8 DEF SoundInv

LEMMA HealthyNext ==
  ASSUME OneFlusher, SingleTurn, ShortTurn, TypeOK, PhaseInv, HealthyInv, [Next]_vars
  PROVE  HealthyInv'
<1> SUFFICES ASSUME Healthy' PROVE KeptInv' /\ SoundInv'
  BY DEF HealthyInv
<1>1. Healthy /\ \A kind : ~Fault(kind)
  BY HealthyStep
<1> QED
  BY <1>1, KeptNext, SoundNext DEF HealthyInv

\* The two theorems share their invariant.
LEMMA AlwaysHealthyInv ==
  ASSUME OneFlusher, SingleTurn, ShortTurn PROVE Spec => []HealthyInv
<1>1. Init => TypeOK /\ PhaseInv /\ HealthyInv
  BY InitType, InitEnded, InitHealthy
<1>2. TypeOK /\ PhaseInv /\ HealthyInv /\ [Next]_vars => (TypeOK /\ PhaseInv /\ HealthyInv)'
  BY TypeNext, PhaseNext, HealthyNext
<1> QED
  BY <1>1, <1>2, PTL DEF Spec

\* With one instance and one turn that a trim does not shorten, a synthesized row
\* holds every chunk of its message, once and in order, as long as nothing fails.
THEOREM RecoveredAreWhole ==
  ASSUME OneFlusher, SingleTurn, ShortTurn PROVE Spec => []RecoveredWhole
<1>1. HealthyInv => RecoveredWhole
  BY DEF HealthyInv, SoundInv, FoundInv, Whole, Members, InOrder, RecoveredWhole
<1> QED
  BY <1>1, AlwaysHealthyInv, PTL

\* And no message is recovered by two INSERTs.
THEOREM RecoveredByOne ==
  ASSUME OneFlusher, SingleTurn, ShortTurn PROVE Spec => []RecoveredOnce
<1>1. HealthyInv => RecoveredOnce
  BY DEF HealthyInv, SoundInv, OneInsert, RecoveredOnce
<1> QED
  BY <1>1, AlwaysHealthyInv, PTL

=============================================================================
