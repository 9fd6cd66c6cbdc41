---------------------------- MODULE EventFlusher ----------------------------
(***************************************************************************)
(* The path of one conversation's Bridge events from the webhook handler   *)
(* to Postgres: internal/streaming (EventBus, Flusher, Cleanup) and the    *)
(* part of internal/handler/bridge_webhooks.go that feeds it.              *)
(*                                                                         *)
(* Every API instance runs one flusher.  They share the conversation's     *)
(* Redis stream, its consumer group, the chunk accumulators and Postgres;  *)
(* a flusher's batch lives in its own memory and dies with it.  One action *)
(* is one call to Redis or Postgres, so calls of different instances       *)
(* interleave everywhere they can.                                         *)
(*                                                                         *)
(* Events are numbered in the order Bridge sends them; a stream entry is   *)
(* its position in log, which grows forever: trimming and deleting only    *)
(* move low.  Redis entry ids are increasing, so position stands for id.   *)
(***************************************************************************)
EXTENDS Integers, FiniteSets, Sequences

CONSTANTS
  Flushers,     \* API instances, each the consumer named by its hostname
  Messages,     \* message_ids of assistant messages
  NoMessage,    \* an empty or missing message_id (or an empty delta)
  Scripts,      \* the event sequences Bridge may send
  MaxHandlers,  \* webhook handlers that may be inside Publish at once
  BatchSize,    \* flushBatchSize, 100 in the code
  InsertSize,   \* rows per INSERT of CreateInBatches, 50 in the code
  TrimMaxLen,   \* trimMaxLen, 500 in the code
  Faults,       \* the failures and delays that may happen
  MaxFaults     \* bound: how many of them in one behaviour

EventTypes == {"response_chunk", "response_completed", "terminal",
               "other", "unparsable"}
Event == [type : EventTypes, mid : Messages \cup {NoMessage}]

FaultKinds ==
  {"crash",      \* an instance stops: its memory is lost, its PEL is not
   "lookup",     \* the SELECT of the conversation returns an error
   "insert",     \* an INSERT returns an error, committed or not
   "redis",      \* a Redis call whose error the code ignores has no effect
   "publish",    \* XADD fails and has no effect
   "ambiguous",  \* XADD takes effect and its reply is lost
   "expire",     \* an accumulator's ten minutes run out
   "idle",       \* idleTimeout passes without a new event
   "scan"}       \* Cleanup's XREVRANGE returns an error

ASSUME ConstantsAssumption ==
  /\ NoMessage \notin Messages
  /\ Scripts \subseteq Seq(Event)
  /\ MaxHandlers \in Nat \ {0}
  /\ BatchSize \in Nat \ {0}
  /\ InsertSize \in Nat \ {0}
  /\ TrimMaxLen \in Nat \ {0}
  /\ Faults \subseteq FaultKinds
  /\ MaxFaults \in Nat

VARIABLES
  script,    \* the events Bridge sends in this behaviour
  sent,      \* how many of them the webhook handler has received
  tracking,  \* handlers between XADD and SADD
  log,       \* event number of every entry ever added to the stream
  low,       \* entries up to here are trimmed or deleted
  group,     \* last-delivered-id of db-flusher, NoGroup when there is none
  pel,       \* per consumer, the entries delivered and not acknowledged
  active,    \* is the conversation in "conv:active"
  acc,       \* per message, the chunk events in its accumulator
  inserts,   \* the INSERT statements committed, in order
  pc,        \* per flusher, the next call of flushStream
  batch,     \* entries XREADGROUP returned
  left,      \* of the batch, what the current loop has still to handle
  found,     \* accumulators PeekChunks returned
  syn,       \* messages of found the current loop has still to handle
  cutoff,    \* entries up to here are older than idleTimeout
  sweep,     \* the next call of CleanIdle
  faults     \* how many faults have happened

handler  == <<script, sent, tracking>>
stream   == <<log, low, group, pel>>
flusher  == <<pc, batch, left, found, syn>>
cleaner  == <<cutoff, sweep>>
vars == <<handler, stream, active, acc, inserts, flusher, cleaner, faults>>

Smaller(m, n) == IF m < n THEN m ELSE n
Larger(m, n) == IF m > n THEN m ELSE n

NoGroup == -1
Nothing == [m \in Messages |-> <<>>]

Fault(kind) == kind \in Faults /\ faults < MaxFaults /\ faults' = faults + 1
NoFault == UNCHANGED faults

EventAt(i) == script[log[i]]
Stream == (low + 1) .. Len(log)
\* Mutated: XREADGROUP from 0 instead of >.
FirstOfStream == low + 1
FirstUnread == 1 + Larger(low, group)
Unread == FirstUnread .. Len(log)
Numbers(S) == {log[i] : i \in S}

\* Chunks are accumulated instead of stored, unparsable payloads are skipped.
Stored(event) == event.type \notin {"response_chunk", "unparsable"}
\* Mutated: the loop over the batch stops one message short.
RowsButLast(S) == {i \in S : Stored(EventAt(i)) /\ \E j \in S : j > i}
Rows(S) == {i \in S : Stored(EventAt(i))}
Peeked(f) == {m \in Messages : found[f][m] # <<>>}
Recovered(f, M) == {[mid |-> m, content |-> found[f][m]] : m \in M}

\* One INSERT statement, or none when there is nothing to insert.
Insert(numbers, recovered) ==
  inserts' = IF numbers = {} /\ recovered = {} THEN inserts
             ELSE Append(inserts, [events |-> numbers, recovered |-> recovered])

Persisted == UNION {inserts[k].events : k \in DOMAIN inserts}
RecoveredRows == UNION {inserts[k].recovered : k \in DOMAIN inserts}

Init ==
  /\ script \in Scripts
  /\ sent = 0 /\ tracking = 0
  /\ log = <<>> /\ low = 0 /\ group = NoGroup
  /\ pel = [f \in Flushers |-> {}]
  /\ active = FALSE
  /\ acc = Nothing
  /\ inserts = <<>>
  /\ pc = [f \in Flushers |-> "idle"]
  /\ batch = [f \in Flushers |-> {}]
  /\ left = [f \in Flushers |-> {}]
  /\ found = [f \in Flushers |-> Nothing]
  /\ syn = [f \in Flushers |-> {}]
  /\ cutoff = 0 /\ sweep = "idle"
  /\ faults = 0

-----------------------------------------------------------------------------
(***************************************************************************)
(* The webhook handler: processEvent publishes, and writes the row itself  *)
(* when XADD returns an error.                                             *)
(***************************************************************************)
MayReceive == sent < Len(script) /\ tracking < MaxHandlers

XAdd ==
  /\ MayReceive
  /\ sent' = sent + 1
  /\ log' = Append(log, sent + 1)
  /\ tracking' = tracking + 1
  /\ UNCHANGED <<script, low, group, pel, active, acc, inserts, flusher, cleaner, faults>>

\* The SADD after it; its error is ignored.
TrackActive ==
  /\ tracking > 0
  /\ tracking' = tracking - 1
  /\ \/ active' = TRUE /\ NoFault
     \/ active' = active /\ Fault("redis")
  /\ UNCHANGED <<script, sent, stream, acc, inserts, flusher, cleaner>>

\* writeEventToPostgres skips only chunks.
DirectRow(n) == IF script[n].type = "response_chunk" THEN {} ELSE {n}

PublishFails ==
  /\ MayReceive
  /\ sent' = sent + 1
  /\ \/ log' = log /\ Fault("publish")
     \/ log' = Append(log, sent + 1) /\ Fault("ambiguous")
  /\ Insert(DirectRow(sent + 1), {})
  /\ UNCHANGED <<script, tracking, low, group, pel, active, acc, flusher, cleaner>>

-----------------------------------------------------------------------------
(***************************************************************************)
(* flushStream, one call at a time.                                        *)
(***************************************************************************)
Goto(f, from, to) == pc[f] = from /\ pc' = [pc EXCEPT ![f] = to]

\* Leaving flushStream forgets its locals.
Return(f) ==
  /\ pc' = [pc EXCEPT ![f] = "idle"]
  /\ batch' = [batch EXCEPT ![f] = {}]
  /\ left' = [left EXCEPT ![f] = {}]
  /\ found' = [found EXCEPT ![f] = Nothing]
  /\ syn' = [syn EXCEPT ![f] = {}]

\* Mutated: XGROUP SETID, which moves an existing group back.
GroupFromZero == 0
EnsuredGroup == IF group = NoGroup THEN 0 ELSE group

\* flushAll sees the conversation in SMEMBERS.
FlushAll(f) ==
  /\ active
  /\ Goto(f, "idle", "create")
  /\ UNCHANGED <<handler, stream, active, acc, inserts, batch, left, found, syn, cleaner, faults>>

\* processPending reads this consumer's unacknowledged entries; when there are
\* any it calls flushStream, which reads new ones.
ProcessPending(f) ==
  /\ active /\ pc[f] = "idle"
  /\ group' = EnsuredGroup
  /\ pc' = IF pel[f] # {} THEN [pc EXCEPT ![f] = "create"] ELSE pc
  /\ UNCHANGED <<handler, log, low, pel, active, acc, inserts, batch, left, found, syn, cleaner, faults>>

\* XGROUP CREATE ... 0 MKSTREAM, an error when the group exists.
CreateGroup(f) ==
  /\ Goto(f, "create", "read")
  /\ group' = EnsuredGroup
  /\ UNCHANGED <<handler, log, low, pel, active, acc, inserts, batch, left, found, syn, cleaner, faults>>

LastOfBatch == Smaller(FirstUnread + BatchSize - 1, Len(log))
NextBatch == FirstUnread .. LastOfBatch

\* XREADGROUP > moves the group's cursor and the consumer's PEL together; it
\* fails when Cleanup has deleted the group since CreateGroup.
ReadNew(f) ==
  /\ pc[f] = "read"
  /\ IF group = NoGroup \/ Unread = {}
     THEN Return(f) /\ UNCHANGED <<group, pel>>
     ELSE /\ group' = LastOfBatch
          /\ pel' = [pel EXCEPT ![f] = @ \cup NextBatch]
          /\ batch' = [batch EXCEPT ![f] = NextBatch]
          /\ left' = [left EXCEPT ![f] = NextBatch]
          /\ pc' = [pc EXCEPT ![f] = "lookup"]
          /\ UNCHANGED <<found, syn>>
  /\ UNCHANGED <<handler, log, low, active, acc, inserts, cleaner, faults>>

FindConversation(f) ==
  /\ Goto(f, "lookup", "messages")
  /\ UNCHANGED <<handler, stream, active, acc, inserts, batch, left, found, syn, cleaner, faults>>

\* Any error of the SELECT acknowledges the batch, entry by entry.
ConversationNotFound(f) ==
  /\ pc[f] = "lookup" /\ Fault("lookup")
  /\ pel' = [pel EXCEPT ![f] = @ \ batch[f]]
  /\ Return(f)
  /\ UNCHANGED <<handler, log, low, group, active, acc, inserts, cleaner>>

\* Mutated: the accumulator survives.
NotDropped(m) == acc
Dropped(m) == [acc EXCEPT ![m] = <<>>]

\* Mutated: SET instead of APPEND.
Overwritten(i) ==
  LET e == EventAt(i)
  IN CASE e.mid # NoMessage /\ e.type = "response_chunk" ->
            [acc EXCEPT ![e.mid] = <<log[i]>>]
       [] e.mid # NoMessage /\ e.type = "response_completed" -> Dropped(e.mid)
       [] OTHER -> acc

\* AppendChunk for a chunk, DropChunk for a completion.
Accumulated(i) ==
  LET e == EventAt(i)
  IN CASE e.mid # NoMessage /\ e.type = "response_chunk" ->
            [acc EXCEPT ![e.mid] = Append(@, log[i])]
       [] e.mid # NoMessage /\ e.type = "response_completed" -> Dropped(e.mid)
       [] OTHER -> acc

\* Mutated: only the first message of the batch is looked at.
StartsWithTerminal(S) ==
  \E i \in S : EventAt(i).type = "terminal" /\ \A j \in S : i =< j
HasTerminal(S) == \E i \in S : EventAt(i).type = "terminal"

\* One iteration of the loop over the batch, in stream order.
HandleMessage(f) ==
  /\ pc[f] = "messages"
  /\ \E i \in left[f] :
       /\ \A j \in left[f] : i =< j
       /\ \/ acc' = Accumulated(i) /\ NoFault
          \/ acc' = acc /\ acc # Accumulated(i) /\ Fault("redis")
       /\ IF left[f] = {i}
          THEN /\ left' = [left EXCEPT ![f] = Rows(batch[f])]
               /\ pc' = [pc EXCEPT ![f] = IF HasTerminal(batch[f]) THEN "peek" ELSE "insert"]
          ELSE left' = [left EXCEPT ![f] = @ \ {i}] /\ UNCHANGED pc
  /\ UNCHANGED <<handler, stream, active, inserts, batch, found, syn, cleaner>>

\* PeekChunks and the rows built from it; the SMEMBERS and the GETs are one step.
PeekChunks(f) ==
  /\ Goto(f, "peek", "insert")
  /\ \/ /\ found' = [found EXCEPT ![f] = acc]
        /\ syn' = [syn EXCEPT ![f] = {m \in Messages : acc[m] # <<>>}]
        /\ NoFault
     \/ UNCHANGED <<found, syn>> /\ Fault("redis")
  /\ UNCHANGED <<handler, stream, active, acc, inserts, batch, left, cleaner>>

\* Mutated: rows in no particular order.
AnySlice(f, S, M) ==
  /\ Cardinality(S) = Smaller(InsertSize, Cardinality(left[f]))
  /\ Cardinality(M) = Smaller(InsertSize - Cardinality(S), Cardinality(syn[f]))

\* S and M are the rows of the next INSERT: events in order, then recovered ones.
NextSlice(f, S, M) ==
  /\ \A i \in S : \A j \in left[f] \ S : i < j
  /\ Cardinality(S) = Smaller(InsertSize, Cardinality(left[f]))
  /\ Cardinality(M) = Smaller(InsertSize - Cardinality(S), Cardinality(syn[f]))

\* One INSERT of CreateInBatches.  The connection skips gorm's default
\* transaction, so each INSERT commits by itself.
CreateInBatches(f) ==
  /\ pc[f] = "insert"
  /\ \E S \in SUBSET left[f], M \in SUBSET syn[f] :
       /\ NextSlice(f, S, M)
       /\ Insert(Numbers(S), Recovered(f, M))
       /\ left' = [left EXCEPT ![f] = @ \ S]
       /\ IF left[f] = S /\ syn[f] = M
          THEN /\ syn' = [syn EXCEPT ![f] = Peeked(f)]
               /\ pc' = [pc EXCEPT ![f] = "ack"]
          ELSE syn' = [syn EXCEPT ![f] = @ \ M] /\ UNCHANGED pc
  /\ UNCHANGED <<handler, stream, active, acc, batch, found, cleaner, faults>>

\* Mutated: the batch is acknowledged whether or not it was inserted.
AckAndReturn(f) == pel' = [pel EXCEPT ![f] = @ \ batch[f]] /\ Return(f)

\* An error leaves the batch unacknowledged.
ReturnUnacknowledged(f) == pel' = pel /\ Return(f)

InsertFails(f) ==
  /\ pc[f] = "insert" /\ Fault("insert")
  /\ \E S \in SUBSET left[f], M \in SUBSET syn[f] :
       /\ NextSlice(f, S, M) /\ S \cup M # {}
       /\ \/ Insert(Numbers(S), Recovered(f, M))
          \/ Insert({}, {})
  /\ ReturnUnacknowledged(f)
  /\ UNCHANGED <<handler, log, low, group, active, acc, cleaner>>

\* XACK of the whole batch; then one DropChunk per recovered message.
Ack(f) ==
  /\ Goto(f, "ack", "drop")
  /\ \/ pel' = [pel EXCEPT ![f] = @ \ batch[f]] /\ NoFault
     \/ pel' = pel /\ Fault("redis")
  /\ UNCHANGED <<handler, log, low, group, active, acc, inserts, batch, left, found, syn, cleaner>>

DropChunk(f) ==
  /\ pc[f] = "drop"
  /\ \E m \in syn[f] :
       /\ \/ acc' = Dropped(m) /\ NoFault
          \/ acc' = acc /\ acc[m] # <<>> /\ Fault("redis")
       /\ syn' = [syn EXCEPT ![f] = @ \ {m}]
  /\ UNCHANGED <<handler, stream, active, inserts, pc, batch, left, found, cleaner>>

\* XTRIM MAXLEN ~ removes whole nodes: it keeps at least TrimMaxLen entries and
\* may keep more.
Trim(f) ==
  /\ pc[f] = "drop" /\ syn[f] = {}
  /\ low' \in {low} \cup (low .. (Len(log) - TrimMaxLen))
  /\ Return(f)
  /\ UNCHANGED <<handler, log, group, pel, active, acc, inserts, cleaner, faults>>

\* The instance dies and is started again under the same hostname.
Crash(f) ==
  /\ pc[f] # "idle" /\ Fault("crash")
  /\ Return(f)
  /\ UNCHANGED <<handler, stream, active, acc, inserts, cleaner>>

AccumulatorExpires(m) ==
  /\ acc[m] # <<>> /\ Fault("expire")
  /\ acc' = [acc EXCEPT ![m] = <<>>]
  /\ UNCHANGED <<handler, stream, active, inserts, flusher, cleaner>>

-----------------------------------------------------------------------------
(***************************************************************************)
(* Cleanup: the check, the DEL and the SREM of CleanIdle for this          *)
(* conversation are three steps.                                           *)
(***************************************************************************)
TimePasses ==
  /\ cutoff < Len(log) /\ Fault("idle")
  /\ cutoff' = Len(log)
  /\ UNCHANGED <<handler, stream, active, acc, inserts, flusher, sweep>>

IsIdle == Stream = {} \/ Len(log) =< cutoff

CleanIdle ==
  /\ active /\ sweep = "idle"
  /\ \/ IsIdle /\ NoFault
     \/ ~IsIdle /\ Fault("scan")
  /\ sweep' = "del"
  /\ UNCHANGED <<handler, stream, active, acc, inserts, flusher, cutoff>>

\* DEL removes the entries with their consumer group.
DeleteStream ==
  /\ sweep = "del"
  /\ low' = Len(log)
  /\ group' = NoGroup
  /\ pel' = [f \in Flushers |-> {}]
  /\ sweep' = "srem"
  /\ UNCHANGED <<handler, log, active, acc, inserts, flusher, cutoff, faults>>

Untrack ==
  /\ sweep = "srem"
  /\ active' = FALSE
  /\ sweep' = "idle"
  /\ UNCHANGED <<handler, stream, acc, inserts, flusher, cutoff, faults>>

-----------------------------------------------------------------------------
Publish == XAdd \/ TrackActive \/ PublishFails

FlushStep(f) ==
  \/ FlushAll(f) \/ CreateGroup(f) \/ ReadNew(f) \/ FindConversation(f)
  \/ HandleMessage(f) \/ PeekChunks(f) \/ CreateInBatches(f) \/ Ack(f)
  \/ DropChunk(f) \/ Trim(f)

Cleanup == CleanIdle \/ DeleteStream \/ Untrack

Next ==
  \/ Publish
  \/ \E f \in Flushers :
       FlushStep(f) \/ ProcessPending(f) \/ ConversationNotFound(f)
         \/ InsertFails(f) \/ Crash(f)
  \/ \E m \in Messages : AccumulatorExpires(m)
  \/ TimePasses
  \/ Cleanup

Spec == Init /\ [][Next]_vars

\* A flusher's loop runs on a ticker and selects its second, slower ticker again
\* and again; a handler and a sweep finish what they began; nothing makes Bridge
\* send an event.
FairSpec ==
  /\ Spec
  /\ \A f \in Flushers : WF_vars(FlushStep(f)) /\ SF_vars(ProcessPending(f))
  /\ WF_vars(TrackActive)
  /\ WF_vars(DeleteStream) /\ WF_vars(Untrack)

-----------------------------------------------------------------------------
Phases == {"idle", "create", "read", "lookup", "messages", "peek", "insert",
           "ack", "drop"}
RecoveredRow == [mid : Messages, content : Seq(Nat)]

TypeOK ==
  /\ script \in Scripts
  /\ sent \in 0 .. Len(script)
  /\ tracking \in 0 .. MaxHandlers
  /\ log \in Seq(Nat)
  /\ low \in 0 .. Len(log)
  /\ group \in {NoGroup} \cup 0 .. Len(log)
  /\ pel \in [Flushers -> SUBSET (1 .. Len(log))]
  /\ active \in BOOLEAN
  /\ acc \in [Messages -> Seq(Nat)]
  /\ inserts \in Seq([events : SUBSET Nat, recovered : SUBSET RecoveredRow])
  /\ pc \in [Flushers -> Phases]
  /\ batch \in [Flushers -> SUBSET (1 .. Len(log))]
  /\ left \in [Flushers -> SUBSET (1 .. Len(log))]
  /\ found \in [Flushers -> [Messages -> Seq(Nat)]]
  /\ syn \in [Flushers -> SUBSET Messages]
  /\ cutoff \in 0 .. Len(log)
  /\ sweep \in {"idle", "del", "srem"}
  /\ faults \in 0 .. MaxFaults


-----------------------------------------------------------------------------
(***************************************************************************)
(* What holds of every behaviour, whatever fails.                          *)
(***************************************************************************)

\* No event has two rows: two flushers never insert the same entry and a
\* restarted one does not insert again what it had inserted.  (flusher.go
\* promises "exactly once, even with multiple API instances"; this is the
\* at-most-once half.)
AtMostOnce ==
  \A j, k \in DOMAIN inserts :
    j # k => inserts[j].events \cap inserts[k].events = {}

\* An entry leaves a consumer's pending list only when its row is in Postgres,
\* it has no row, the conversation could not be looked up, or the stream is
\* deleted with its group.
AckAfterInsert ==
  [][\A f \in Flushers : \A i \in pel[f] \ pel'[f] :
        \/ log[i] \in Persisted
        \/ ~Stored(EventAt(i))
        \/ pc[f] = "lookup"
        \/ group' = NoGroup]_vars

\* Seen from Postgres alone the event path is the journal.
Journal == INSTANCE EventJournal WITH
  received <- sent,
  writes <- [k \in DOMAIN inserts |-> inserts[k].events]

ImplementsJournal == Journal!Spec

-----------------------------------------------------------------------------
(***************************************************************************)
(* What holds when one instance runs.                                      *)
(***************************************************************************)
RowsOfMessage(m) == {r \in RecoveredRows : r.mid = m}
CompletedRow(m) ==
  \E n \in Persisted : script[n] = [type |-> "response_completed", mid |-> m]
ChunksOf(m) ==
  {n \in DOMAIN script : script[n] = [type |-> "response_chunk", mid |-> m]}

\* A message never has both its real completion and a synthesized one.
NoSpuriousRecovery ==
  \A m \in Messages : RowsOfMessage(m) # {} => ~CompletedRow(m)

\* Rows are inserted in stream order, whatever the batches.
InsertedInOrder ==
  \A j, k \in DOMAIN inserts :
    j < k => \A a \in inserts[j].events, b \in inserts[k].events : a < b

\* Nothing has failed and no accumulator has expired.
Healthy == faults = 0

\* As long as nothing fails, a synthesized row holds every chunk of its message,
\* once and in order.
RecoveredWhole ==
  Healthy =>
    \A r \in RecoveredRows :
      /\ {r.content[i] : i \in DOMAIN r.content} = ChunksOf(r.mid)
      /\ \A i, j \in DOMAIN r.content : i < j => r.content[i] < r.content[j]

\* As long as nothing fails, a message is recovered by one INSERT only.
RecoveredOnce ==
  Healthy =>
    \A j, k \in DOMAIN inserts :
      \A r \in inserts[j].recovered, s \in inserts[k].recovered : r.mid = s.mid => j = k

-----------------------------------------------------------------------------
(***************************************************************************)
(* Liveness.                                                               *)
(***************************************************************************)
Positions == UNION {DOMAIN s : s \in Scripts}

\* Every event that has a row gets it once Bridge has sent it, though publishing
\* may fail or its reply may be lost.
EventuallyStored ==
  \A n \in Positions : (n =< sent /\ Stored(script[n])) ~> (n \in Persisted)

\* When a turn ends, what the assistant said is kept: every message with chunks
\* gets its real or its synthesized completion, unless something fails.
TurnKept ==
  \A m \in Messages :
    (\E t \in 1 .. sent : script[t].type = "terminal"
        /\ \E n \in ChunksOf(m) : n < t)
      ~> (CompletedRow(m) \/ RowsOfMessage(m) # {} \/ ~Healthy)

-----------------------------------------------------------------------------
(***************************************************************************)
(* What comments and tests of the code say and the code does not do.       *)
(***************************************************************************)

\* flusher.go:210, "Don't ACK -- events will be retried": a pending entry is
\* eventually acknowledged.
PendingRetried ==
  \A f \in Flushers : \A i \in Positions : (i \in pel[f]) ~> (i \notin pel[f])

=============================================================================
