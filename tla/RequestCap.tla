----------------------------- MODULE RequestCap -----------------------------
(***************************************************************************)
(* The request caps of a credential and of the tokens minted for it:       *)
(* middleware RemainingCheck (internal/middleware/remaining.go), the tool  *)
(* calls of mcpserver/builder.go, and the counters and lazy refill of      *)
(* internal/counter/counter.go.                                            *)
(*                                                                         *)
(* Counters live in Redis, the row of a key (its last_refill_at) in        *)
(* Postgres.  One action is one call of a request to either.  A request    *)
(* goes through the same steps twice, for its token and then for the       *)
(* credential.                                                             *)
(***************************************************************************)
EXTENDS Integers, FiniteSets

CONSTANTS
  Requests,      \* the requests of one behaviour
  Tools,         \* those that are tool calls: they use the token only
  TokenOf,       \* the token of each request
  Credential,    \* the credential all the tokens are for
  Capped,        \* the keys with a cap
  Refilled,      \* the keys with a refill interval
  Remaining,     \* the cap a key is created with
  RefillAmount,  \* what a refill sets its counter to
  MaxIntervals,  \* bound: refill intervals that end, per key
  CapFaults,     \* the failures that may happen
  MaxCapFaults   \* bound: how many of them in one behaviour

Keys == {TokenOf[r] : r \in Requests} \cup {Credential}

CapFaultKinds ==
  {"redis",  \* a Redis call returns an error and has no effect
   "db",     \* a query returns an error and has no effect
   "reply"}  \* a DECR or an UPDATE takes effect and its reply is lost

ASSUME CapAssumption ==
  /\ IsFiniteSet(Requests) /\ Requests # {}
  /\ Tools \subseteq Requests
  /\ \A r \in Requests : TokenOf[r] # Credential
  /\ Capped \subseteq Keys
  /\ Refilled \subseteq Keys
  /\ Remaining \in [Keys -> Nat]
  /\ RefillAmount \in [Keys -> Nat]
  /\ MaxIntervals \in Nat
  /\ CapFaults \subseteq CapFaultKinds
  /\ MaxCapFaults \in Nat

VARIABLES
  counter,     \* per key, its counter in Redis
  lastRefill,  \* per key, last_refill_at: the interval it was refilled in
  interval,    \* per key, how many refill intervals have ended
  phase,       \* per request, whose cap it is at
  pc,          \* per request, its next call, or its end
  seen,        \* per request, the last_refill_at it has read
  took,        \* per request, the keys it has taken one from
  capFaults       \* how many faults have happened

request == <<phase, pc, seen, took>>
row == <<lastRefill, interval>>
capVars == <<counter, row, request, capFaults>>

NoKey == -1
Key(r) == IF phase[r] = "token" THEN TokenOf[r] ELSE Credential
Goto(r, step) == pc' = [pc EXCEPT ![r] = step]

CapFault(kind) == kind \in CapFaults /\ capFaults < MaxCapFaults /\ capFaults' = capFaults + 1
NoCapFault == UNCHANGED capFaults

CapInit ==
  /\ counter = [k \in Keys |-> IF k \in Capped THEN Remaining[k] ELSE NoKey]
  /\ lastRefill = [k \in Keys |-> 0]
  /\ interval = [k \in Keys |-> 0]
  /\ phase = [r \in Requests |-> "token"]
  /\ pc = [r \in Requests |-> "decrement"]
  /\ seen = [r \in Requests |-> 0]
  /\ took = [r \in Requests |-> {}]
  /\ capFaults = 0

-----------------------------------------------------------------------------
(***************************************************************************)
(* The script of Decrement: take one, no cap, or exhausted.                *)
(***************************************************************************)

Charge(r) ==
  /\ counter[Key(r)] > 0
  /\ counter' = [counter EXCEPT ![Key(r)] = @ - 1]
  /\ took' = [took EXCEPT ![r] = @ \cup {Key(r)}]

Uncapped(r) == counter[Key(r)] = NoKey /\ UNCHANGED <<counter, took>>

Exhausted(r) == counter[Key(r)] = 0 /\ UNCHANGED <<counter, took>>

\* On to the credential, or to the handler.
Pass(r) ==
  IF phase[r] = "token"
  THEN Goto(r, "decrement") /\ phase' = [phase EXCEPT ![r] = "credential"]
  ELSE Goto(r, "served") /\ UNCHANGED phase

UndoThen(end) == IF end = "served" THEN "undo_served" ELSE "undo_limited"

\* Mutated: the token is not given back.
LeaveUnpaid(r, end) == Goto(r, end)

\* To the handler without a decrement, or to 429; a token that was taken from
\* is given back first.
Leave(r, end) ==
  Goto(r, IF phase[r] = "credential" /\ TokenOf[r] \in took[r] THEN UndoThen(end) ELSE end)

\* An error of Redis lets the request through.
Decrement(r) ==
  /\ r \notin Tools
  /\ pc[r] \in {"decrement", "retry"}
  /\ \/ (Charge(r) \/ Uncapped(r)) /\ Pass(r) /\ NoCapFault
     \/ Exhausted(r) /\ pc[r] = "decrement" /\ Goto(r, "load") /\ UNCHANGED phase /\ NoCapFault
     \/ Exhausted(r) /\ pc[r] = "retry" /\ Leave(r, "limited") /\ UNCHANGED phase /\ NoCapFault
     \/ CapFault("redis") /\ Leave(r, "served") /\ UNCHANGED <<counter, took, phase>>
     \/ CapFault("reply") /\ Charge(r) /\ Leave(r, "served") /\ UNCHANGED phase
  /\ UNCHANGED <<row, seen>>

\* A tool call neither refills nor reaches the credential's counter.
ToolCall(r) ==
  /\ r \in Tools
  /\ pc[r] = "decrement"
  /\ \/ (Charge(r) \/ Uncapped(r)) /\ Goto(r, "served") /\ NoCapFault
     \/ Exhausted(r) /\ Goto(r, "limited") /\ NoCapFault
     \/ CapFault("redis") /\ Goto(r, "served") /\ UNCHANGED <<counter, took>>
     \/ CapFault("reply") /\ Charge(r) /\ Goto(r, "served")
  /\ UNCHANGED <<row, phase, seen>>

-----------------------------------------------------------------------------
(***************************************************************************)
(* CheckAndRefillToken and CheckAndRefillCredential: SELECT, UPDATE under  *)
(* an optimistic lock, SET.  What is not refilled is 429.                  *)
(***************************************************************************)
Due(k) == lastRefill[k] < interval[k]

LoadRow(r) ==
  /\ pc[r] = "load"
  /\ \/ /\ Due(Key(r)) /\ NoCapFault
        /\ seen' = [seen EXCEPT ![r] = lastRefill[Key(r)]]
        /\ Goto(r, "update")
     \/ ~Due(Key(r)) /\ Leave(r, "limited") /\ UNCHANGED seen /\ NoCapFault
     \/ CapFault("db") /\ Leave(r, "limited") /\ UNCHANGED seen
  /\ UNCHANGED <<counter, row, phase, took>>

\* Mutated: the UPDATE has no condition on last_refill_at.
Unlocked(r) == TRUE
Unchanged(r) == lastRefill[Key(r)] = seen[r]

UpdateRow(r) ==
  LET Updated == lastRefill' = [lastRefill EXCEPT ![Key(r)] = interval[Key(r)]] IN
  /\ pc[r] = "update"
  /\ \/ Unchanged(r) /\ Updated /\ Goto(r, "seed") /\ NoCapFault
     \/ ~Unchanged(r) /\ Leave(r, "limited") /\ UNCHANGED lastRefill /\ NoCapFault
     \/ CapFault("db") /\ Leave(r, "limited") /\ UNCHANGED lastRefill
     \/ CapFault("reply") /\ Unchanged(r) /\ Updated /\ Leave(r, "limited")
  /\ UNCHANGED <<counter, interval, phase, seen, took>>

\* The request tries again even if the SET fails.
Seed(r) ==
  /\ pc[r] = "seed"
  /\ \/ counter' = [counter EXCEPT ![Key(r)] = RefillAmount[Key(r)]] /\ NoCapFault
     \/ UNCHANGED counter /\ CapFault("redis")
  /\ Goto(r, "retry")
  /\ UNCHANGED <<row, phase, seen, took>>

\* The token is given back; an error of the INCR is ignored.
Undo(r) ==
  /\ \/ pc[r] = "undo_served" /\ Goto(r, "served")
     \/ pc[r] = "undo_limited" /\ Goto(r, "limited")
  /\ \/ /\ counter' = [counter EXCEPT ![TokenOf[r]] = @ + 1]
        /\ took' = [took EXCEPT ![r] = @ \ {TokenOf[r]}]
        /\ NoCapFault
     \/ UNCHANGED <<counter, took>> /\ CapFault("redis")
  /\ UNCHANGED <<row, phase, seen>>

\* refill_interval has passed since last_refill_at.
IntervalEnds(k) ==
  /\ k \in Refilled
  /\ ~Due(k)
  /\ interval[k] < MaxIntervals
  /\ interval' = [interval EXCEPT ![k] = @ + 1]
  /\ UNCHANGED <<counter, lastRefill, request, capFaults>>

CapNext ==
  \/ \E r \in Requests :
       \/ Decrement(r) \/ ToolCall(r)
       \/ LoadRow(r) \/ UpdateRow(r) \/ Seed(r) \/ Undo(r)
  \/ \E k \in Keys : IntervalEnds(k)

CapSpec == CapInit /\ [][CapNext]_capVars

-----------------------------------------------------------------------------
Steps ==
  {"decrement", "load", "update", "seed", "retry", "undo_served", "undo_limited",
   "served", "limited"}

CapTypeOK ==
  /\ counter \in [Keys -> Nat \cup {NoKey}]
  /\ lastRefill \in [Keys -> Nat]
  /\ interval \in [Keys -> Nat]
  /\ phase \in [Requests -> {"token", "credential"}]
  /\ pc \in [Requests -> Steps]
  /\ seen \in [Requests -> Nat]
  /\ took \in [Requests -> SUBSET Keys]
  /\ capFaults \in 0 .. MaxCapFaults

\* The requests that count against the cap of a key.
Uses(r, k) == k = TokenOf[r] \/ (k = Credential /\ r \notin Tools)
Served(k) == {r \in Requests : pc[r] = "served" /\ Uses(r, k)}

\* No more requests are served than the cap and the refills of the intervals that
\* have ended allow, plus one per failure that lets a request through: two
\* requests that find the same refill due do not both apply it, and a token given
\* back by one request is used by at most one other.  (remaining.go:10: the
\* middleware "enforces request caps on both the token and credential counters".)
ServedWithinCap ==
  \A k \in Capped :
    Cardinality(Served(k)) =< Remaining[k] + interval[k] * RefillAmount[k] + capFaults

\* Without a failure a request that gets 429 costs nothing: until the first
\* refill the counter accounts for exactly the requests served or under way.
Holders(k) == {r \in Requests : k \in took[r] /\ pc[r] # "limited"}
RejectedPaysNothing ==
  \A k \in Capped :
    (capFaults = 0 /\ interval[k] = 0) => counter[k] + Cardinality(Holders(k)) = Remaining[k]

=============================================================================
