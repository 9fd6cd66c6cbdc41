-------------------------- MODULE ProxyGuards_proof --------------------------
(***************************************************************************)
(* Proofs about CredentialCache, for any number of instances, any          *)
(* lifetimes and any number of failures; about RequestCap, for any number  *)
(* of requests, tokens and failures, and any caps and refills; and about   *)
(* the module that runs the two.                                           *)
(***************************************************************************)
EXTENDS ProxyGuards, FiniteSetTheorems, TLAPS

(***************************************************************************)
(* The inductive invariant behind BoundedStaleness.  A cached value is as  *)
(* old as the flights that carried it and the lives it has used up allow,  *)
(* and no value in the system was read from Postgres after the revocation. *)
(***************************************************************************)
Fresh == RedisTTL + Latency

RedisAge == Present(redis) => redis.age + redis.ttl =< Fresh

MemoryAge ==
  \A i \in Instances :
    Present(memory[i]) => memory[i].age + memory[i].ttl =< Fresh + Latency + MemLife

FlightAge ==
  \A i \in Instances :
    /\ call[i] \in {"unwrap", "set"} => age[i] =< waited[i]
    /\ call[i] \in {"decrypt", "promote"} => age[i] =< Fresh + waited[i]

ReadBefore ==
  revoked =>
    /\ Present(redis) => since =< redis.age
    /\ \A i \in Instances : Present(memory[i]) => since =< memory[i].age
    /\ \A i \in Instances : Carries(i) => since =< age[i]

UnrevokedSince == revoked \/ since = 0

AgesBounded ==
  RedisAge /\ MemoryAge /\ FlightAge /\ ReadBefore /\ UnrevokedSince /\ BoundedStaleness

(***************************************************************************)
(* The inductive invariant behind ClearedEverywhere: behind a DEL that no  *)
(* flight overtook Redis stays empty, and behind its message so does the   *)
(* memory of an instance.                                                  *)
(***************************************************************************)
RevokedFirst == invalidation # "none" => revoked

RedisCleared ==
  (invalidation \in {"publish", "done"} /\ ~overtaken) =>
    /\ ~Present(redis)
    /\ \A i \in Instances : call[i] \notin {"unwrap", "set"}

MemoryCleared ==
  (invalidation = "done" /\ ~overtaken /\ faults = 0) =>
    \A i \in Instances \ inbox : ~Present(memory[i]) /\ ~Carries(i)

Cleared == RevokedFirst /\ RedisCleared /\ MemoryCleared

-----------------------------------------------------------------------------
\* Lifetimes and bounds are natural numbers.
LEMMA Numbers == MemLife \in Nat \ {0} /\ MaxStale \in Nat /\ Fresh \in Nat
BY CacheAssumption DEF MemLife, MaxStale, Fresh

\* Init establishes types and invariants.
LEMMA InitAll == Init => TypeOK /\ AgesBounded /\ Cleared
<1> SUFFICES ASSUME Init PROVE TypeOK /\ AgesBounded /\ Cleared
  OBVIOUS
<1>1. TypeOK
  <2>1. memory \in [Instances -> Entry] /\ redis \in Entry
    BY DEF Init, Entry, Empty
  <2>2. /\ call \in [Instances -> Calls] /\ age \in [Instances -> Nat]
        /\ waited \in [Instances -> 0 .. Latency] /\ since \in 0 .. (MaxStale + 1)
    BY Numbers, CacheAssumption DEF Init, Calls
  <2>3. faults \in 0 .. MaxFaults
    BY CacheAssumption DEF Init
  <2> QED
    BY <2>1, <2>2, <2>3 DEF Init, TypeOK
<1>2. AgesBounded
  BY DEF Init, AgesBounded, RedisAge, MemoryAge, FlightAge, ReadBefore, UnrevokedSince,
         BoundedStaleness, Present, Empty, Carries
<1>3. Cleared
  BY DEF Init, Cleared, RevokedFirst, RedisCleared, MemoryCleared
<1> QED
  BY <1>1, <1>2, <1>3

\* Every step keeps the types.
LEMMA TypeNext == TypeOK /\ [Next]_vars => TypeOK'
<1> SUFFICES ASSUME TypeOK, [Next]_vars PROVE TypeOK'
  OBVIOUS
<1> USE Numbers, CacheAssumption
<1> USE DEF TypeOK, Entry, Empty, Calls, revocation, flight, Silent
<1>1. ASSUME NEW i \in Instances, Hit(i) PROVE TypeOK'
  BY <1>1 DEF Hit
<1>2. ASSUME NEW i \in Instances, Evict(i) PROVE TypeOK'
  BY <1>2 DEF Evict
<1>3. ASSUME NEW i \in Instances, Miss(i) PROVE TypeOK'
  BY <1>3 DEF Miss
<1>4. ASSUME NEW i \in Instances, RedisGet(i) PROVE TypeOK'
  BY <1>4 DEF RedisGet, Fly, Fault, NoFault
<1>5. ASSUME NEW i \in Instances, Decrypt(i) PROVE TypeOK'
  BY <1>5 DEF Decrypt, Fly, Fault, NoFault
<1>6. ASSUME NEW i \in Instances, ReadDB(i) PROVE TypeOK'
  BY <1>6 DEF ReadDB, Fly, Refuse, Land, Fault, NoFault
<1>7. ASSUME NEW i \in Instances, Unwrap(i) PROVE TypeOK'
  BY <1>7 DEF Unwrap, Fly, Refuse, Land, Fault, NoFault
<1>8. ASSUME NEW i \in Instances, SetRedis(i) PROVE TypeOK'
  BY <1>8 DEF SetRedis, Fly, Fault, NoFault
<1>9. ASSUME NEW i \in Instances, PromoteToL1(i) PROVE TypeOK'
  BY <1>9 DEF PromoteToL1, Land
<1>10. CASE Revoke
  BY <1>10 DEF Revoke
<1>11. CASE DropMemory
  BY <1>11 DEF DropMemory
<1>12. CASE DropRedis
  BY <1>12 DEF DropRedis, Fault, NoFault
<1>13. CASE PublishInvalidation
  BY <1>13 DEF PublishInvalidation, Subscribers, Fault, NoFault
<1>14. ASSUME NEW i \in Instances, HandleInvalidation(i) PROVE TypeOK'
  BY <1>14 DEF HandleInvalidation
<1>15. CASE Tick
  BY <1>15 DEF Tick, Aged
<1>16. CASE UNCHANGED vars
  BY <1>16 DEF vars
<1> QED
  BY <1>1, <1>2, <1>3, <1>4, <1>5, <1>6, <1>7, <1>8, <1>9, <1>10, <1>11, <1>12, <1>13, <1>14, <1>15, <1>16 DEF Next, Resolve, Invalidate

\* No step makes a value younger or reads one after the revocation.
LEMMA AgesNext == TypeOK /\ TypeOK' /\ AgesBounded /\ [Next]_vars => AgesBounded'
<1> SUFFICES ASSUME TypeOK, TypeOK', AgesBounded, [Next]_vars PROVE AgesBounded'
  OBVIOUS
<1> USE Numbers, CacheAssumption
<1> USE DEF AgesBounded, RedisAge, MemoryAge, FlightAge, ReadBefore, UnrevokedSince, BoundedStaleness, Carries,
  Present, Empty, TypeOK, Entry, Calls, revocation, flight, Silent, MaxStale, Fresh
<1>1. ASSUME NEW i \in Instances, Hit(i) PROVE AgesBounded'
  BY <1>1 DEF Hit
<1>2. ASSUME NEW i \in Instances, Evict(i) PROVE AgesBounded'
  BY <1>2 DEF Evict
<1>3. ASSUME NEW i \in Instances, Miss(i) PROVE AgesBounded'
  BY <1>3 DEF Miss
<1>4. ASSUME NEW i \in Instances, RedisGet(i) PROVE AgesBounded'
  BY <1>4 DEF RedisGet, Fly, Fault, NoFault
<1>5. ASSUME NEW i \in Instances, Decrypt(i) PROVE AgesBounded'
  BY <1>5 DEF Decrypt, Fly, Fault, NoFault
<1>6. ASSUME NEW i \in Instances, ReadDB(i) PROVE AgesBounded'
  <2>1. UNCHANGED <<revocation, redis, memory>>
    BY <1>6 DEF ReadDB
  <2>2. CASE Refuse(i)
    BY <2>1, <2>2 DEF Refuse, Land
  <2>3. CASE ~revoked /\ Fly(i, "db", "unwrap") /\ age' = [age EXCEPT ![i] = 0]
             /\ Silent /\ UNCHANGED waited
    BY <2>1, <2>3 DEF Fly
  <2> QED
    BY <1>6, <2>2, <2>3 DEF ReadDB
<1>7. ASSUME NEW i \in Instances, Unwrap(i) PROVE AgesBounded'
  BY <1>7 DEF Unwrap, Fly, Refuse, Land, Fault, NoFault
<1>8. ASSUME NEW i \in Instances, SetRedis(i) PROVE AgesBounded'
  BY <1>8 DEF SetRedis, Fly, Fault, NoFault
<1>9. ASSUME NEW i \in Instances, PromoteToL1(i) PROVE AgesBounded'
  BY <1>9 DEF PromoteToL1, Land
<1>10. CASE Revoke
  BY <1>10 DEF Revoke
<1>11. CASE DropMemory
  BY <1>11 DEF DropMemory
<1>12. CASE DropRedis
  BY <1>12 DEF DropRedis, Fault, NoFault
<1>13. CASE PublishInvalidation
  BY <1>13 DEF PublishInvalidation, Subscribers, Fault, NoFault
<1>14. ASSUME NEW i \in Instances, HandleInvalidation(i) PROVE AgesBounded'
  BY <1>14 DEF HandleInvalidation
<1>15. CASE Tick
  <2>1. RedisAge'
    BY <1>15 DEF Tick, Aged
  <2>2. MemoryAge'
    BY <1>15 DEF Tick, Aged
  <2>3. FlightAge'
    BY <1>15 DEF Tick
  <2>4. ReadBefore'
    BY <1>15 DEF Tick, Aged
  <2>5. UnrevokedSince' /\ BoundedStaleness'
    BY <1>15 DEF Tick
  <2> QED
    BY <2>1, <2>2, <2>3, <2>4, <2>5
<1>16. CASE UNCHANGED vars
  BY <1>16 DEF vars
<1> QED
  BY <1>1, <1>2, <1>3, <1>4, <1>5, <1>6, <1>7, <1>8, <1>9, <1>10, <1>11, <1>12, <1>13, <1>14, <1>15, <1>16 DEF Next, Resolve, Invalidate

\* No step puts anything back behind an invalidation it did not overtake.
LEMMA ClearedNext == TypeOK /\ TypeOK' /\ Cleared /\ [Next]_vars => Cleared'
<1> SUFFICES ASSUME TypeOK, TypeOK', Cleared, [Next]_vars PROVE Cleared'
  OBVIOUS
<1> USE Numbers, CacheAssumption
<1> USE DEF Cleared, RevokedFirst, RedisCleared, MemoryCleared, Carries, Present, Empty, TypeOK,
  Entry, Calls, revocation, flight
<1>1. ASSUME NEW i \in Instances, Hit(i) PROVE Cleared'
  BY <1>1 DEF Hit
<1>2. ASSUME NEW i \in Instances, Evict(i) PROVE Cleared'
  BY <1>2 DEF Evict
<1>3. ASSUME NEW i \in Instances, Miss(i) PROVE Cleared'
  BY <1>3 DEF Miss
<1>4. ASSUME NEW i \in Instances, RedisGet(i) PROVE Cleared'
  BY <1>4 DEF RedisGet, Fly, Fault, NoFault
<1>5. ASSUME NEW i \in Instances, Decrypt(i) PROVE Cleared'
  BY <1>5 DEF Decrypt, Fly, Fault, NoFault
<1>6. ASSUME NEW i \in Instances, ReadDB(i) PROVE Cleared'
  BY <1>6 DEF ReadDB, Fly, Refuse, Land, Fault, NoFault
<1>7. ASSUME NEW i \in Instances, Unwrap(i) PROVE Cleared'
  BY <1>7 DEF Unwrap, Fly, Refuse, Land, Fault, NoFault
<1>8. ASSUME NEW i \in Instances, SetRedis(i) PROVE Cleared'
  BY <1>8 DEF SetRedis, Fly, Fault, NoFault
<1>9. ASSUME NEW i \in Instances, PromoteToL1(i) PROVE Cleared'
  BY <1>9 DEF PromoteToL1, Land
<1>10. CASE Revoke
  BY <1>10 DEF Revoke
<1>11. CASE DropMemory
  BY <1>11 DEF DropMemory
<1>12. CASE DropRedis
  <2>1. UNCHANGED <<revoked, call, inbox, memory>> /\ invalidation = "redis"
    BY <1>12 DEF DropRedis
  <2>2. CASE redis' = Empty /\ invalidation' = "publish"
    <3>1. ~overtaken' => \A i \in Instances : call'[i] \notin {"unwrap", "set"}
      BY <1>12, <2>1 DEF DropRedis
    <3> QED
      BY <2>1, <2>2, <3>1
  <2>3. CASE invalidation' = "failed"
    BY <2>1, <2>3
  <2> QED
    BY <1>12, <2>2, <2>3 DEF DropRedis
<1>13. CASE PublishInvalidation
  BY <1>13 DEF PublishInvalidation, Subscribers, Fault, NoFault
<1>14. ASSUME NEW i \in Instances, HandleInvalidation(i) PROVE Cleared'
  BY <1>14 DEF HandleInvalidation
<1>15. CASE Tick
  BY <1>15 DEF Tick, Aged
<1>16. CASE UNCHANGED vars
  BY <1>16 DEF vars
<1> QED
  BY <1>1, <1>2, <1>3, <1>4, <1>5, <1>6, <1>7, <1>8, <1>9, <1>10, <1>11, <1>12, <1>13, <1>14, <1>15, <1>16 DEF Next, Resolve, Invalidate

\* Requests, revocation, subscribers and time keep every variable in its type.
THEOREM CacheTypeCorrect == Spec => []TypeOK
<1>1. Init => TypeOK
  BY InitAll
<1>2. TypeOK /\ [Next]_vars => TypeOK'
  BY TypeNext
<1> QED
  BY <1>1, <1>2, PTL DEF Spec

\* A revoked credential is never served later than both cache lifetimes and two
\* flights after the revocation, whatever fails and however the instances' flights
\* interleave with the invalidation.
THEOREM StalenessBounded == Spec => []BoundedStaleness
<1>1. Init => TypeOK /\ AgesBounded
  BY InitAll
<1>2. TypeOK /\ AgesBounded /\ [Next]_vars => (TypeOK /\ AgesBounded)'
  BY TypeNext, AgesNext
<1>3. AgesBounded => BoundedStaleness
  BY DEF AgesBounded
<1> QED
  BY <1>1, <1>2, <1>3, PTL DEF Spec

\* When nothing fails and no flight holds the credential while a tier is cleared,
\* an invalidation that every instance has handled leaves no tier with it.
THEOREM InvalidationClears == Spec => []ClearedEverywhere
<1>1. Init => TypeOK /\ Cleared
  BY InitAll
<1>2. TypeOK /\ Cleared /\ [Next]_vars => (TypeOK /\ Cleared)'
  BY TypeNext, ClearedNext
<1>3. Cleared => ClearedEverywhere
  BY DEF Cleared, RedisCleared, MemoryCleared, ClearedEverywhere, Propagated, TiersEmpty
<1> QED
  BY <1>1, <1>2, <1>3, PTL DEF Spec

-----------------------------------------------------------------------------
(***************************************************************************)
(* The inductive invariant behind ServedWithinCap.  The ledger of a key:   *)
(* what its counter holds, what requests have taken and what refills under *)
(* way will grant is covered by its cap and the refills in its row.  A     *)
(* request that is served without having paid is the work of a failure.    *)
(***************************************************************************)
Payers(k) == {r \in Requests : k \in took[r]}
Seeding(k) == {r \in Requests : pc[r] = "seed" /\ Key(r) = k}

Ledger(k) ==
  counter[k] + Cardinality(Payers(k)) + Cardinality(Seeding(k)) * RefillAmount[k]
    =< Remaining[k] + lastRefill[k] * RefillAmount[k]

Ledgers == \A k \in Capped : Ledger(k)

CountersOfCapped ==
  /\ \A k \in Keys : counter[k] = NoKey <=> k \notin Capped
  /\ \A r \in Requests : took[r] \subseteq Capped
  /\ \A r \in Requests : pc[r] \in {"load", "update", "seed"} => Key(r) \in Capped

RefillsDue ==
  /\ \A k \in Keys : lastRefill[k] =< interval[k]
  /\ \A r \in Requests : pc[r] = "update" => seen[r] < interval[Key(r)]

Paid(r, k) == k \in Capped => k \in took[r]

Unpaid == {r \in Requests :
             /\ pc[r] \in {"served", "undo_served"}
             /\ pc[r] = "served" => \E k \in Keys : Uses(r, k) /\ ~Paid(r, k)}

TokenPaid ==
  \A r \in Requests :
    /\ r \in Tools => phase[r] = "token" /\ pc[r] \in {"decrement", "served", "limited"}
    /\ (phase[r] = "credential" /\ pc[r] \notin {"served", "limited"}) => Paid(r, TokenOf[r])
    /\ pc[r] \in {"undo_served", "undo_limited"} => TokenOf[r] \in took[r]

Excused == Cardinality(Unpaid) =< capFaults

IInv == CapTypeOK /\ CountersOfCapped /\ RefillsDue /\ TokenPaid /\ Ledgers /\ Excused

-----------------------------------------------------------------------------
\* A request's token and the credential are keys.
LEMMA KeysOfRequest ==
  /\ Credential \in Keys
  /\ \A r \in Requests : TokenOf[r] \in Keys /\ TokenOf[r] # Credential
BY CapAssumption DEF Keys

\* The initial states establish the types.
LEMMA InitType == CapInit => CapTypeOK
BY CapAssumption DEF CapInit, CapTypeOK, Steps, NoKey

\* Every step keeps the types.
LEMMA NextType == CapTypeOK /\ [CapNext]_capVars => CapTypeOK'
<1> SUFFICES ASSUME CapTypeOK, [CapNext]_capVars PROVE CapTypeOK'
  OBVIOUS
<1> USE KeysOfRequest, CapAssumption
<1>1. ASSUME NEW r \in Requests, Decrement(r) PROVE CapTypeOK'
  <2>1. Key(r) \in Keys /\ pc[r] \in Steps
    BY DEF CapTypeOK, Key
  <2>2. CASE UNCHANGED <<counter, took>>
    BY <1>1, <2>1, <2>2 DEF CapTypeOK, Decrement, Charge, Pass, Leave, Goto, UndoThen, Steps,
       CapFault, NoCapFault, row
  <2>3. CASE Charge(r)
    <3>1. counter' \in [Keys -> Nat \cup {NoKey}] /\ took' \in [Requests -> SUBSET Keys]
      BY <2>1, <2>3 DEF CapTypeOK, Charge, NoKey
    <3>2. /\ lastRefill' \in [Keys -> Nat] /\ interval' \in [Keys -> Nat]
          /\ seen' \in [Requests -> Nat]
          /\ phase' \in [Requests -> {"token", "credential"}]
          /\ pc' \in [Requests -> Steps]
          /\ capFaults' \in 0 .. MaxCapFaults
      BY <1>1, <2>1 DEF CapTypeOK, Decrement, Pass, Leave, Goto, UndoThen, Steps, CapFault, NoCapFault, row
    <3> QED
      BY <3>1, <3>2 DEF CapTypeOK
  <2> QED
    BY <1>1, <2>2, <2>3 DEF Decrement, Uncapped, Exhausted
<1>2. ASSUME NEW r \in Requests, ToolCall(r) PROVE CapTypeOK'
  <2>1. Key(r) \in Keys /\ pc[r] \in Steps
    BY DEF CapTypeOK, Key
  <2>2. counter' \in [Keys -> Nat \cup {NoKey}] /\ took' \in [Requests -> SUBSET Keys]
    BY <1>2, <2>1 DEF CapTypeOK, ToolCall, Charge, Uncapped, Exhausted, NoKey
  <2>3. /\ lastRefill' \in [Keys -> Nat] /\ interval' \in [Keys -> Nat]
        /\ seen' \in [Requests -> Nat]
        /\ phase' \in [Requests -> {"token", "credential"}]
        /\ pc' \in [Requests -> Steps]
        /\ capFaults' \in 0 .. MaxCapFaults
    BY <1>2, <2>1 DEF CapTypeOK, ToolCall, Goto, Steps, CapFault, NoCapFault, row
  <2> QED
    BY <2>2, <2>3 DEF CapTypeOK
<1>3. ASSUME NEW r \in Requests, LoadRow(r) PROVE CapTypeOK'
  <2>1. Key(r) \in Keys
    BY DEF CapTypeOK, Key
  <2> QED
    BY <1>3, <2>1 DEF CapTypeOK, LoadRow, Leave, Goto, UndoThen, Steps, CapFault, NoCapFault, row
<1>4. ASSUME NEW r \in Requests, UpdateRow(r) PROVE CapTypeOK'
  <2>1. Key(r) \in Keys
    BY DEF CapTypeOK, Key
  <2> QED
    BY <1>4, <2>1 DEF CapTypeOK, UpdateRow, Leave, Goto, UndoThen, Steps, CapFault, NoCapFault
<1>5. ASSUME NEW r \in Requests, Seed(r) PROVE CapTypeOK'
  <2>1. Key(r) \in Keys
    BY DEF CapTypeOK, Key
  <2> QED
    BY <1>5, <2>1 DEF CapTypeOK, Seed, Goto, Steps, CapFault, NoCapFault, row
<1>6. ASSUME NEW r \in Requests, Undo(r) PROVE CapTypeOK'
  BY <1>6 DEF CapTypeOK, Undo, Goto, Steps, CapFault, NoCapFault, row, NoKey
<1>7. ASSUME NEW k \in Keys, IntervalEnds(k) PROVE CapTypeOK'
  BY <1>7 DEF CapTypeOK, IntervalEnds, request
<1>8. CASE UNCHANGED capVars
  BY <1>8 DEF CapTypeOK, capVars, row, request
<1> QED
  BY <1>1, <1>2, <1>3, <1>4, <1>5, <1>6, <1>7, <1>8 DEF CapNext

\* Every variable keeps its type, whatever the requests, caps and failures.
THEOREM CapTypeCorrect == CapSpec => []CapTypeOK
BY InitType, NextType, PTL DEF CapSpec

-----------------------------------------------------------------------------
\* The initial states establish the three invariants without cardinalities.
LEMMA InitFrame == CapInit => CountersOfCapped /\ RefillsDue /\ TokenPaid
BY KeysOfRequest, CapAssumption DEF CapInit, CountersOfCapped, RefillsDue, TokenPaid, NoKey, Paid

\* A counter is missing exactly when its key has no cap; only capped keys are
\* taken from or refilled.
LEMMA NextCounters ==
  CapTypeOK /\ TokenPaid /\ CountersOfCapped /\ [CapNext]_capVars => CountersOfCapped'
<1> SUFFICES ASSUME CapTypeOK, TokenPaid, CountersOfCapped, [CapNext]_capVars PROVE CountersOfCapped'
  OBVIOUS
<1> USE KeysOfRequest, CapAssumption
<1>0. \A r \in Requests : Key(r) \in Keys
  BY DEF CapTypeOK, Key
<1>1. ASSUME NEW r \in Requests, Charge(r)
      PROVE /\ \A k \in Keys : counter'[k] = NoKey <=> k \notin Capped
            /\ \A q \in Requests : took'[q] \subseteq Capped
  BY <1>0, <1>1 DEF CapTypeOK, CountersOfCapped, Charge, NoKey
<1>2. ASSUME NEW r \in Requests, Decrement(r) PROVE CountersOfCapped'
  <2>1. /\ \A k \in Keys : counter'[k] = NoKey <=> k \notin Capped
        /\ \A q \in Requests : took'[q] \subseteq Capped
    BY <1>1, <1>2 DEF CountersOfCapped, Decrement, Uncapped, Exhausted
  <2>2. ASSUME NEW q \in Requests, pc'[q] \in {"load", "update", "seed"}
        PROVE  Key(q)' \in Capped
    <3>1. CASE q = r
      BY <1>0, <1>2, <2>2, <3>1 DEF CapTypeOK, CountersOfCapped, Decrement, Pass, Leave, Goto, UndoThen,
         Exhausted, NoKey, Key
    <3>2. CASE q # r
      BY <1>2, <2>2, <3>2 DEF CapTypeOK, CountersOfCapped, Decrement, Pass, Leave, Goto, Key
    <3> QED
      BY <3>1, <3>2
  <2> QED
    BY <2>1, <2>2 DEF CountersOfCapped
<1>3. ASSUME NEW r \in Requests, ToolCall(r) PROVE CountersOfCapped'
  <2>1. /\ \A k \in Keys : counter'[k] = NoKey <=> k \notin Capped
        /\ \A q \in Requests : took'[q] \subseteq Capped
    BY <1>1, <1>3 DEF CountersOfCapped, ToolCall, Uncapped, Exhausted
  <2>2. ASSUME NEW q \in Requests, pc'[q] \in {"load", "update", "seed"}
        PROVE  Key(q)' \in Capped
    BY <1>3, <2>2 DEF CapTypeOK, CountersOfCapped, ToolCall, Goto, Key
  <2> QED
    BY <2>1, <2>2 DEF CountersOfCapped
<1>4. ASSUME NEW r \in Requests, LoadRow(r) PROVE CountersOfCapped'
  BY <1>4 DEF CapTypeOK, CountersOfCapped, LoadRow, Leave, Goto, UndoThen, Key
<1>5. ASSUME NEW r \in Requests, UpdateRow(r) PROVE CountersOfCapped'
  BY <1>5 DEF CapTypeOK, CountersOfCapped, UpdateRow, Leave, Goto, UndoThen, Key
<1>6. ASSUME NEW r \in Requests, Seed(r) PROVE CountersOfCapped'
  BY <1>0, <1>6 DEF CapTypeOK, CountersOfCapped, Seed, Goto, Key, NoKey
<1>7. ASSUME NEW r \in Requests, Undo(r) PROVE CountersOfCapped'
  BY <1>7 DEF CapTypeOK, CountersOfCapped, TokenPaid, Undo, Goto, Key, NoKey
<1>8. ASSUME NEW k \in Keys, IntervalEnds(k) PROVE CountersOfCapped'
  BY <1>8 DEF CountersOfCapped, IntervalEnds, request, Key
<1>9. CASE UNCHANGED capVars
  BY <1>9 DEF CountersOfCapped, capVars, request, Key
<1> QED
  BY <1>2, <1>3, <1>4, <1>5, <1>6, <1>7, <1>8, <1>9 DEF CapNext

\* last_refill_at is never ahead of the clock, and a refill about to be written is
\* for an interval that has ended.
LEMMA NextRefills == CapTypeOK /\ RefillsDue /\ [CapNext]_capVars => RefillsDue'
<1> SUFFICES ASSUME CapTypeOK, RefillsDue, [CapNext]_capVars PROVE RefillsDue'
  OBVIOUS
<1> USE KeysOfRequest
<1>0. \A r \in Requests : Key(r) \in Keys
  BY DEF CapTypeOK, Key
<1>1. ASSUME NEW r \in Requests, Decrement(r) \/ ToolCall(r) \/ Seed(r) \/ Undo(r)
      PROVE RefillsDue'
  <2>1. UNCHANGED row
    BY <1>1 DEF Decrement, ToolCall, Seed, Undo
  <2>2. ASSUME NEW q \in Requests, pc'[q] = "update"
        PROVE  pc[q] = "update" /\ seen'[q] = seen[q] /\ Key(q)' = Key(q)
    BY <1>1, <2>2 DEF CapTypeOK, Decrement, ToolCall, Seed, Undo, Pass, Leave, Goto, UndoThen, Key
  <2> QED
    BY <2>1, <2>2 DEF RefillsDue, row
<1>2. ASSUME NEW r \in Requests, LoadRow(r) PROVE RefillsDue'
  BY <1>0, <1>2 DEF CapTypeOK, RefillsDue, LoadRow, Leave, Goto, UndoThen, Key, row, Due
<1>3. ASSUME NEW r \in Requests, UpdateRow(r) PROVE RefillsDue'
  BY <1>0, <1>3 DEF CapTypeOK, RefillsDue, UpdateRow, Leave, Goto, UndoThen, Key
<1>4. ASSUME NEW k \in Keys, IntervalEnds(k) PROVE RefillsDue'
  BY <1>0, <1>4 DEF CapTypeOK, RefillsDue, IntervalEnds, request, Key
<1>5. CASE UNCHANGED capVars
  BY <1>5 DEF RefillsDue, capVars, row, request, Key
<1> QED
  BY <1>1, <1>2, <1>3, <1>4, <1>5 DEF CapNext

\* A request that has reached the credential has paid for its token.
LEMMA NextTokenPaid ==
  CapTypeOK /\ CountersOfCapped /\ TokenPaid /\ [CapNext]_capVars => TokenPaid'
<1> SUFFICES ASSUME CapTypeOK, CountersOfCapped, TokenPaid, [CapNext]_capVars PROVE TokenPaid'
  OBVIOUS
<1> USE KeysOfRequest
<1>1. ASSUME NEW r \in Requests, Decrement(r) PROVE TokenPaid'
  <2>1. ASSUME NEW q \in Requests, q # r
        PROVE  phase'[q] = phase[q] /\ pc'[q] = pc[q] /\ took'[q] = took[q]
    BY <1>1, <2>1 DEF CapTypeOK, Decrement, Charge, Uncapped, Exhausted, Pass, Leave, Goto
  <2>2. /\ r \notin Tools
        /\ (phase'[r] = "credential" /\ pc'[r] \notin {"served", "limited"}) => Paid(r, TokenOf[r])'
        /\ pc'[r] \in {"undo_served", "undo_limited"} => TokenOf[r] \in took'[r]
    BY <1>1 DEF CapTypeOK, CountersOfCapped, TokenPaid, Decrement, Charge, Uncapped, Exhausted, Pass,
       Leave, Goto, UndoThen, Key, Paid
  <2> QED
    BY <2>1, <2>2 DEF TokenPaid, Paid
<1>2. ASSUME NEW r \in Requests, ToolCall(r) PROVE TokenPaid'
  BY <1>2 DEF CapTypeOK, TokenPaid, ToolCall, Charge, Uncapped, Exhausted, Goto, Paid
<1>3. ASSUME NEW r \in Requests, LoadRow(r) \/ UpdateRow(r) PROVE TokenPaid'
  BY <1>3 DEF CapTypeOK, TokenPaid, LoadRow, UpdateRow, Leave, Goto, UndoThen, Paid
<1>4. ASSUME NEW r \in Requests, Seed(r) PROVE TokenPaid'
  BY <1>4 DEF CapTypeOK, TokenPaid, Seed, Goto, Paid
<1>5. ASSUME NEW r \in Requests, Undo(r) PROVE TokenPaid'
  BY <1>5 DEF CapTypeOK, TokenPaid, Undo, Goto, Paid
<1>6. ASSUME NEW k \in Keys, IntervalEnds(k) PROVE TokenPaid'
  BY <1>6 DEF TokenPaid, IntervalEnds, request, Paid
<1>7. CASE UNCHANGED capVars
  BY <1>7 DEF TokenPaid, capVars, request, Paid
<1> QED
  BY <1>1, <1>2, <1>3, <1>4, <1>5, <1>6, <1>7 DEF CapNext

-----------------------------------------------------------------------------
\* The sets of requests below are finite, and so their sizes are numbers.
LEMMA FiniteRequests ==
  ASSUME NEW S \in SUBSET Requests
  PROVE  IsFiniteSet(S) /\ Cardinality(S) \in Nat
BY CapAssumption, FS_Subset, FS_CardinalityType

\* A smaller set, a set with one element more, and a set with one less.
LEMMA Smaller ==
  ASSUME NEW S \in SUBSET Requests, NEW T \in SUBSET Requests, T \subseteq S
  PROVE  Cardinality(T) =< Cardinality(S)
BY FiniteRequests, FS_Subset

LEMMA OneMore ==
  ASSUME NEW S \in SUBSET Requests, NEW T \in SUBSET Requests, NEW x \in Requests,
         T \subseteq S \cup {x}
  PROVE  Cardinality(T) =< Cardinality(S) + 1
<1>1. Cardinality(T) =< Cardinality(S \cup {x})
  BY Smaller
<1>2. Cardinality(S \cup {x}) = IF x \in S THEN Cardinality(S) ELSE Cardinality(S) + 1
  BY FiniteRequests, FS_AddElement
<1>3. Cardinality(S) \in Nat /\ Cardinality(T) \in Nat
  BY FiniteRequests
<1> QED
  BY <1>1, <1>2, <1>3

LEMMA OneLess ==
  ASSUME NEW S \in SUBSET Requests, NEW T \in SUBSET Requests, NEW x \in S,
         T \subseteq S \ {x}
  PROVE  Cardinality(T) =< Cardinality(S) - 1
<1>1. Cardinality(T) =< Cardinality(S \ {x})
  BY Smaller
<1>2. Cardinality(S \ {x}) = Cardinality(S) - 1
  BY FiniteRequests, FS_RemoveElement
<1> QED
  BY <1>1, <1>2

\* Multiples of a refill.
LEMMA MoreRefills ==
  ASSUME NEW a \in Nat, NEW m \in Nat, NEW n \in Nat, m =< n
  PROVE  m * a =< n * a
<1>1. PICK d \in Nat : n = m + d
  BY n - m \in Nat
<1>2. n * a = m * a + d * a
  BY <1>1
<1>3. m * a \in Nat /\ d * a \in Nat
  OBVIOUS
<1> QED
  BY <1>2, <1>3

LEMMA OneRefill ==
  ASSUME NEW a \in Nat, NEW m \in Nat
  PROVE  (m + 1) * a = m * a + a
OBVIOUS

\* The sizes in a ledger are numbers, before and after a step.
LEMMA LedgerNumbers ==
  ASSUME CapTypeOK, CapTypeOK', CountersOfCapped, CountersOfCapped', NEW k \in Capped
  PROVE  /\ k \in Keys
         /\ counter[k] \in Nat /\ counter'[k] \in Nat
         /\ Payers(k) \in SUBSET Requests /\ Payers(k)' \in SUBSET Requests
         /\ Seeding(k) \in SUBSET Requests /\ Seeding(k)' \in SUBSET Requests
         /\ Cardinality(Payers(k)) \in Nat /\ Cardinality(Payers(k)') \in Nat
         /\ Cardinality(Seeding(k)) \in Nat /\ Cardinality(Seeding(k)') \in Nat
         /\ RefillAmount[k] \in Nat /\ Remaining[k] \in Nat
         /\ lastRefill[k] \in Nat /\ lastRefill'[k] \in Nat
<1>1. k \in Keys /\ RefillAmount[k] \in Nat /\ Remaining[k] \in Nat
  BY CapAssumption
<1>2. /\ Payers(k) \in SUBSET Requests /\ Payers(k)' \in SUBSET Requests
      /\ Seeding(k) \in SUBSET Requests /\ Seeding(k)' \in SUBSET Requests
  BY DEF Payers, Seeding
<1>3. counter[k] \in Nat /\ counter'[k] \in Nat
  BY <1>1 DEF CapTypeOK, CountersOfCapped
<1> QED
  BY <1>1, <1>2, <1>3, FiniteRequests DEF CapTypeOK

\* A ledger is kept by a step that leaves its row alone, starts no refill and
\* takes from the counter what it adds to the payers.
LEMMA LedgerKept ==
  ASSUME CapTypeOK, CapTypeOK', CountersOfCapped, CountersOfCapped', NEW k \in Capped, Ledger(k),
         lastRefill'[k] = lastRefill[k],
         Seeding(k)' \subseteq Seeding(k),
         counter'[k] + Cardinality(Payers(k)') =< counter[k] + Cardinality(Payers(k))
  PROVE  Ledger(k)'
<1>1. Cardinality(Seeding(k)') =< Cardinality(Seeding(k))
  BY LedgerNumbers, Smaller
<1>2. Cardinality(Seeding(k)') * RefillAmount[k] =< Cardinality(Seeding(k)) * RefillAmount[k]
  BY <1>1, LedgerNumbers, MoreRefills
<1>3. /\ Cardinality(Seeding(k)') * RefillAmount[k] \in Nat
      /\ Cardinality(Seeding(k)) * RefillAmount[k] \in Nat
      /\ lastRefill[k] * RefillAmount[k] \in Nat
  BY LedgerNumbers
<1> HIDE DEF Payers, Seeding
<1> QED
  BY <1>2, <1>3, LedgerNumbers DEF Ledger

\* No request has paid or is about to refill when the caps are created.
LEMMA InitLedgers == CapInit => Ledgers
<1> SUFFICES ASSUME CapInit, NEW k \in Capped PROVE Ledger(k)
  BY DEF Ledgers
<1>1. Payers(k) = {} /\ Seeding(k) = {}
  BY DEF CapInit, Payers, Seeding
<1>2. Cardinality({}) = 0
  BY FS_EmptySet
<1>3. counter[k] = Remaining[k] /\ lastRefill[k] = 0
  BY CapAssumption DEF CapInit
<1>4. Remaining[k] \in Nat /\ RefillAmount[k] \in Nat
  BY CapAssumption
<1> QED
  BY <1>1, <1>2, <1>3, <1>4 DEF Ledger

\* Taking one: what leaves the counter is paid by the request.
LEMMA ChargeBalances ==
  ASSUME CapTypeOK, CapTypeOK', CountersOfCapped, CountersOfCapped', NEW r \in Requests, Charge(r),
         NEW k \in Capped
  PROVE  counter'[k] + Cardinality(Payers(k)') =< counter[k] + Cardinality(Payers(k))
<1>0. Key(r) \in Keys
  BY KeysOfRequest DEF CapTypeOK, Key
<1>1. CASE Key(r) = k
  <2>1. counter'[k] = counter[k] - 1
    BY <1>0, <1>1 DEF CapTypeOK, Charge
  <2>2. Payers(k)' \subseteq Payers(k) \cup {r}
    BY DEF CapTypeOK, Charge, Payers
  <2>3. Cardinality(Payers(k)') =< Cardinality(Payers(k)) + 1
    BY <2>2, LedgerNumbers, OneMore
  <2> QED
    BY <2>1, <2>3, LedgerNumbers
<1>2. CASE Key(r) # k
  <2>1. counter'[k] = counter[k]
    BY <1>2, LedgerNumbers DEF CapTypeOK, Charge
  <2>2. Payers(k)' = Payers(k)
    BY <1>2 DEF CapTypeOK, Charge, Payers
  <2> QED
    BY <2>1, <2>2, LedgerNumbers
<1> QED
  BY <1>1, <1>2

\* Giving back: the request that had paid no longer has.
LEMMA UndoBalances ==
  ASSUME CapTypeOK, CapTypeOK', CountersOfCapped, CountersOfCapped', TokenPaid,
         NEW r \in Requests, Undo(r), NEW k \in Capped
  PROVE  counter'[k] + Cardinality(Payers(k)') =< counter[k] + Cardinality(Payers(k))
<1>1. CASE UNCHANGED <<counter, took>>
  <2>1. Payers(k)' = Payers(k)
    BY <1>1 DEF Payers
  <2> QED
    BY <1>1, <2>1, LedgerNumbers
<1>2. CASE /\ counter' = [counter EXCEPT ![TokenOf[r]] = @ + 1]
           /\ took' = [took EXCEPT ![r] = @ \ {TokenOf[r]}]
  <2>0. TokenOf[r] \in took[r] /\ TokenOf[r] \in Keys
    BY KeysOfRequest DEF TokenPaid, Undo
  <2>1. CASE TokenOf[r] = k
    <3>1. counter'[k] = counter[k] + 1
      BY <1>2, <2>0, <2>1 DEF CapTypeOK
    <3>2. r \in Payers(k) /\ Payers(k)' \subseteq Payers(k) \ {r}
      BY <1>2, <2>0, <2>1 DEF CapTypeOK, Payers
    <3>3. Cardinality(Payers(k)') =< Cardinality(Payers(k)) - 1
      BY <3>2, LedgerNumbers, OneLess
    <3> QED
      BY <3>1, <3>3, LedgerNumbers
  <2>2. CASE TokenOf[r] # k
    <3>1. counter'[k] = counter[k]
      BY <1>2, <2>2, LedgerNumbers DEF CapTypeOK
    <3>2. Payers(k)' = Payers(k)
      BY <1>2, <2>2 DEF CapTypeOK, Payers
    <3> QED
      BY <3>1, <3>2, LedgerNumbers
  <2> QED
    BY <2>1, <2>2
<1> QED
  BY <1>1, <1>2 DEF Undo

\* An UPDATE that starts a refill adds the refill to both sides of the ledger.
LEMMA UpdateBalances ==
  ASSUME CapTypeOK, CapTypeOK', CountersOfCapped, CountersOfCapped', RefillsDue,
         NEW r \in Requests, UpdateRow(r), NEW k \in Capped, Ledger(k)
  PROVE  Ledger(k)'
<1>0. UNCHANGED <<counter, took, phase>> /\ Payers(k)' = Payers(k)
  BY DEF UpdateRow, Payers
<1>1. CASE pc'[r] # "seed" /\ lastRefill'[k] = lastRefill[k]
  <2>1. Seeding(k)' \subseteq Seeding(k)
    BY <1>0, <1>1 DEF CapTypeOK, UpdateRow, Leave, Goto, Seeding, Key
  <2> QED
    BY <1>0, <1>1, <2>1, LedgerKept, LedgerNumbers
<1>2. CASE Key(r) # k
  <2>1. Seeding(k)' \subseteq Seeding(k) /\ lastRefill'[k] = lastRefill[k]
    BY <1>0, <1>2, LedgerNumbers DEF CapTypeOK, UpdateRow, Leave, Goto, Seeding, Key
  <2> QED
    BY <1>0, <2>1, LedgerKept, LedgerNumbers
<1>3. CASE Key(r) = k /\ ~(pc'[r] # "seed" /\ lastRefill'[k] = lastRefill[k])
  <2>1. lastRefill'[k] = interval[k] /\ lastRefill[k] < interval[k]
    BY <1>3, LedgerNumbers DEF CapTypeOK, RefillsDue, UpdateRow, Unchanged, Leave, Goto, UndoThen
  <2>2. lastRefill[k] + 1 =< lastRefill'[k]
    BY <2>1, LedgerNumbers DEF CapTypeOK
  <2>3. (lastRefill[k] + 1) * RefillAmount[k] =< lastRefill'[k] * RefillAmount[k]
    BY <2>2, LedgerNumbers, MoreRefills
  <2>4. (lastRefill[k] + 1) * RefillAmount[k] = lastRefill[k] * RefillAmount[k] + RefillAmount[k]
    BY LedgerNumbers, OneRefill
  <2>5. Seeding(k)' \subseteq Seeding(k) \cup {r}
    BY <1>0 DEF CapTypeOK, UpdateRow, Leave, Goto, Seeding, Key
  <2>6. Cardinality(Seeding(k)') =< Cardinality(Seeding(k)) + 1
    BY <2>5, LedgerNumbers, OneMore
  <2>7. Cardinality(Seeding(k)') * RefillAmount[k] =< (Cardinality(Seeding(k)) + 1) * RefillAmount[k]
    BY <2>6, LedgerNumbers, MoreRefills
  <2>8. (Cardinality(Seeding(k)) + 1) * RefillAmount[k]
          = Cardinality(Seeding(k)) * RefillAmount[k] + RefillAmount[k]
    BY LedgerNumbers, OneRefill
  <2>9. /\ Cardinality(Seeding(k)') * RefillAmount[k] \in Nat
        /\ Cardinality(Seeding(k)) * RefillAmount[k] \in Nat
        /\ lastRefill[k] * RefillAmount[k] \in Nat
        /\ lastRefill'[k] * RefillAmount[k] \in Nat
    BY LedgerNumbers
  <2> HIDE DEF Payers, Seeding
  <2> QED
    BY <1>0, <2>3, <2>4, <2>7, <2>8, <2>9, LedgerNumbers DEF Ledger
<1> QED
  BY <1>1, <1>2, <1>3

\* A SET replaces what the counter held by the refill its UPDATE has granted.
LEMMA SeedBalances ==
  ASSUME CapTypeOK, CapTypeOK', CountersOfCapped, CountersOfCapped',
         NEW r \in Requests, Seed(r), NEW k \in Capped, Ledger(k)
  PROVE  Ledger(k)'
<1>0. UNCHANGED <<lastRefill, took, phase>> /\ Payers(k)' = Payers(k)
  BY DEF Seed, Payers, row
<1>1. CASE Key(r) # k \/ counter'[k] = counter[k]
  <2>1. Seeding(k)' \subseteq Seeding(k)
    BY <1>0 DEF CapTypeOK, Seed, Goto, Seeding, Key
  <2>2. counter'[k] = counter[k]
    BY <1>1, LedgerNumbers DEF CapTypeOK, Seed
  <2> QED
    BY <1>0, <2>1, <2>2, LedgerKept, LedgerNumbers
<1>2. CASE Key(r) = k /\ counter'[k] # counter[k]
  <2>1. counter'[k] = RefillAmount[k]
    BY <1>2, LedgerNumbers DEF CapTypeOK, Seed
  <2>2. r \in Seeding(k) /\ Seeding(k)' \subseteq Seeding(k) \ {r}
    BY <1>0, <1>2 DEF CapTypeOK, Seed, Goto, Seeding, Key
  <2>3. Cardinality(Seeding(k)') + 1 =< Cardinality(Seeding(k))
    BY <2>2, LedgerNumbers, OneLess
  <2>4. (Cardinality(Seeding(k)') + 1) * RefillAmount[k] =< Cardinality(Seeding(k)) * RefillAmount[k]
    BY <2>3, LedgerNumbers, MoreRefills
  <2>5. (Cardinality(Seeding(k)') + 1) * RefillAmount[k]
          = Cardinality(Seeding(k)') * RefillAmount[k] + RefillAmount[k]
    BY LedgerNumbers, OneRefill
  <2>6. /\ Cardinality(Seeding(k)') * RefillAmount[k] \in Nat
        /\ Cardinality(Seeding(k)) * RefillAmount[k] \in Nat
        /\ lastRefill[k] * RefillAmount[k] \in Nat
    BY LedgerNumbers
  <2> HIDE DEF Payers, Seeding
  <2> QED
    BY <1>0, <2>1, <2>4, <2>5, <2>6, LedgerNumbers DEF Ledger
<1> QED
  BY <1>1, <1>2

\* Every step keeps every ledger.
LEMMA NextLedgers ==
  /\ CapTypeOK /\ CountersOfCapped /\ RefillsDue /\ TokenPaid /\ Ledgers
  /\ CapTypeOK' /\ CountersOfCapped'
  /\ [CapNext]_capVars
  => Ledgers'
<1> SUFFICES ASSUME CapTypeOK, CountersOfCapped, RefillsDue, TokenPaid, Ledgers,
                    CapTypeOK', CountersOfCapped', [CapNext]_capVars, NEW k \in Capped
             PROVE  Ledger(k)'
  BY DEF Ledgers
<1>0. Ledger(k)
  BY DEF Ledgers
<1>1. ASSUME NEW r \in Requests, Decrement(r) \/ ToolCall(r) PROVE Ledger(k)'
  <2>1. lastRefill'[k] = lastRefill[k]
    BY <1>1 DEF Decrement, ToolCall, row
  <2>2. Seeding(k)' \subseteq Seeding(k)
    BY <1>1 DEF CapTypeOK, Decrement, ToolCall, Pass, Leave, Goto, UndoThen, Seeding, Key
  <2>3. Charge(r) \/ UNCHANGED <<counter, took>>
    BY <1>1 DEF Decrement, ToolCall, Uncapped, Exhausted
  <2>4. CASE UNCHANGED <<counter, took>>
    <3>1. Payers(k)' = Payers(k)
      BY <2>4 DEF Payers
    <3> QED
      BY <1>0, <2>1, <2>2, <2>4, <3>1, LedgerKept, LedgerNumbers
  <2>5. CASE Charge(r)
    BY <1>0, <2>1, <2>2, <2>5, ChargeBalances, LedgerKept
  <2> QED
    BY <2>3, <2>4, <2>5
<1>2. ASSUME NEW r \in Requests, LoadRow(r) PROVE Ledger(k)'
  <2>1. Seeding(k)' \subseteq Seeding(k) /\ Payers(k)' = Payers(k)
    BY <1>2 DEF CapTypeOK, LoadRow, Leave, Goto, UndoThen, Seeding, Payers, Key
  <2> QED
    BY <1>0, <1>2, <2>1, LedgerKept, LedgerNumbers DEF LoadRow, row
<1>3. ASSUME NEW r \in Requests, UpdateRow(r) PROVE Ledger(k)'
  BY <1>0, <1>3, UpdateBalances
<1>4. ASSUME NEW r \in Requests, Seed(r) PROVE Ledger(k)'
  BY <1>0, <1>4, SeedBalances
<1>5. ASSUME NEW r \in Requests, Undo(r) PROVE Ledger(k)'
  <2>1. Seeding(k)' \subseteq Seeding(k)
    BY <1>5 DEF CapTypeOK, Undo, Goto, Seeding, Key
  <2> QED
    BY <1>0, <1>5, <2>1, UndoBalances, LedgerKept DEF Undo, row
<1>6. ASSUME NEW j \in Keys, IntervalEnds(j) PROVE Ledger(k)'
  BY <1>0, <1>6 DEF IntervalEnds, request, Ledger, Payers, Seeding, Key
<1>7. CASE UNCHANGED capVars
  BY <1>0, <1>7 DEF capVars, row, request, Ledger, Payers, Seeding, Key
<1> QED
  BY <1>1, <1>2, <1>3, <1>4, <1>5, <1>6, <1>7 DEF CapNext

-----------------------------------------------------------------------------
\* Nothing has been served yet.
LEMMA InitExcused == CapInit => Excused
<1> SUFFICES ASSUME CapInit PROVE Excused
  OBVIOUS
<1>1. Unpaid = {}
  BY DEF CapInit, Unpaid
<1>2. Cardinality({}) = 0 /\ capFaults = 0
  BY FS_EmptySet DEF CapInit
<1> QED
  BY <1>1, <1>2 DEF Excused

\* A request without a failure joins no one who has not paid.
LEMMA NextExcused ==
  /\ CapTypeOK /\ CountersOfCapped /\ TokenPaid /\ Excused /\ CapTypeOK'
  /\ [CapNext]_capVars
  => Excused'
<1> SUFFICES ASSUME CapTypeOK, CountersOfCapped, TokenPaid, Excused, CapTypeOK', [CapNext]_capVars
             PROVE  Excused'
  OBVIOUS
<1> USE KeysOfRequest
<1>0. /\ Unpaid \in SUBSET Requests /\ Unpaid' \in SUBSET Requests
      /\ Cardinality(Unpaid) \in Nat /\ Cardinality(Unpaid') \in Nat
      /\ capFaults \in Nat /\ capFaults' \in Nat
  <2>1. Unpaid \in SUBSET Requests /\ Unpaid' \in SUBSET Requests
    BY DEF Unpaid
  <2> QED
    BY <2>1, FiniteRequests, CapAssumption DEF CapTypeOK
<1>1. ASSUME Unpaid' \subseteq Unpaid, capFaults =< capFaults' PROVE Excused'
  <2>1. Cardinality(Unpaid') =< Cardinality(Unpaid)
    BY <1>0, <1>1, Smaller
  <2> QED
    BY <1>0, <1>1, <2>1 DEF Excused
<1>2. ASSUME NEW r \in Requests, Unpaid' \subseteq Unpaid \cup {r}, capFaults' = capFaults + 1
      PROVE  Excused'
  <2>1. Cardinality(Unpaid') =< Cardinality(Unpaid) + 1
    BY <1>0, <1>2, OneMore
  <2> QED
    BY <1>0, <1>2, <2>1 DEF Excused
<1>3. ASSUME NEW r \in Requests,
             \A q \in Requests \ {r} : pc'[q] = pc[q] /\ took'[q] = took[q]
      PROVE  /\ Unpaid' \subseteq Unpaid \cup {r}
             /\ r \notin Unpaid' => Unpaid' \subseteq Unpaid
             /\ r \in Unpaid => Unpaid' \subseteq Unpaid
  BY <1>3 DEF Unpaid, Paid
<1>4. ASSUME NEW r \in Requests, Decrement(r) PROVE Excused'
  <2>1. \A q \in Requests \ {r} : pc'[q] = pc[q] /\ took'[q] = took[q]
    BY <1>4 DEF CapTypeOK, Decrement, Charge, Uncapped, Exhausted, Pass, Leave, Goto
  <2>2. CASE capFaults' = capFaults + 1
    BY <1>2, <1>3, <2>1, <2>2
  <2>3. CASE NoCapFault /\ (Charge(r) \/ Uncapped(r)) /\ Pass(r)
    <3>1. r \notin Unpaid'
      <4>1. CASE phase[r] = "token"
        BY <2>3, <4>1 DEF CapTypeOK, Pass, Goto, Unpaid
      <4>2. CASE phase[r] = "credential"
        <5>1. Paid(r, TokenOf[r])
          BY <1>4, <4>2 DEF TokenPaid, Decrement
        <5>2. Paid(r, TokenOf[r])' /\ Paid(r, Credential)'
          BY <2>3, <4>2, <5>1 DEF CapTypeOK, CountersOfCapped, Charge, Uncapped, Key, Paid
        <5> QED
          BY <2>3, <4>2, <5>2 DEF CapTypeOK, Pass, Goto, Unpaid, Uses, Paid
      <4> QED
        BY <4>1, <4>2 DEF CapTypeOK
    <3> QED
      BY <1>0, <1>1, <1>3, <2>1, <2>3, <3>1 DEF NoCapFault
  <2>4. CASE NoCapFault /\ pc'[r] \in {"load", "undo_limited", "limited"}
    <3>1. r \notin Unpaid'
      BY <2>4 DEF Unpaid
    <3> QED
      BY <1>0, <1>1, <1>3, <2>1, <2>4, <3>1 DEF NoCapFault
  <2> QED
    BY <1>4, <2>2, <2>3, <2>4 DEF CapTypeOK, Decrement, CapFault, Leave, Goto, UndoThen
<1>5. ASSUME NEW r \in Requests, ToolCall(r) PROVE Excused'
  <2>1. \A q \in Requests \ {r} : pc'[q] = pc[q] /\ took'[q] = took[q]
    BY <1>5 DEF CapTypeOK, ToolCall, Charge, Uncapped, Exhausted, Goto
  <2>2. CASE capFaults' = capFaults + 1
    BY <1>2, <1>3, <2>1, <2>2
  <2>3. CASE NoCapFault /\ (Charge(r) \/ Uncapped(r))
    <3>1. phase[r] = "token" /\ r \in Tools
      BY <1>5 DEF TokenPaid, ToolCall
    <3>2. Paid(r, TokenOf[r])'
      BY <2>3, <3>1 DEF CapTypeOK, CountersOfCapped, Charge, Uncapped, Key, Paid
    <3>3. r \notin Unpaid'
      BY <1>5, <3>1, <3>2 DEF CapTypeOK, ToolCall, Goto, Unpaid, Uses, Paid
    <3> QED
      BY <1>0, <1>1, <1>3, <2>1, <2>3, <3>3 DEF NoCapFault
  <2>4. CASE NoCapFault /\ pc'[r] = "limited"
    <3>1. r \notin Unpaid'
      BY <2>4 DEF Unpaid
    <3> QED
      BY <1>0, <1>1, <1>3, <2>1, <2>4, <3>1 DEF NoCapFault
  <2> QED
    BY <1>5, <2>2, <2>3, <2>4 DEF CapTypeOK, ToolCall, CapFault, Goto
<1>6. ASSUME NEW r \in Requests, LoadRow(r) \/ UpdateRow(r) \/ Seed(r) PROVE Excused'
  <2>1. \A q \in Requests \ {r} : pc'[q] = pc[q] /\ took'[q] = took[q]
    BY <1>6 DEF CapTypeOK, LoadRow, UpdateRow, Seed, Leave, Goto
  <2>2. r \notin Unpaid' /\ capFaults =< capFaults'
    BY <1>0, <1>6 DEF CapTypeOK, LoadRow, UpdateRow, Seed, Leave, Goto, UndoThen, Unpaid, CapFault, NoCapFault
  <2> QED
    BY <1>1, <1>3, <2>1, <2>2
<1>7. ASSUME NEW r \in Requests, Undo(r) PROVE Excused'
  <2>1. \A q \in Requests \ {r} : pc'[q] = pc[q] /\ took'[q] = took[q]
    BY <1>7 DEF CapTypeOK, Undo, Goto
  <2>2. capFaults =< capFaults'
    BY <1>0, <1>7 DEF Undo, CapFault, NoCapFault
  <2>3. r \in Unpaid \/ r \notin Unpaid'
    BY <1>7 DEF CapTypeOK, Undo, Goto, Unpaid
  <2> QED
    BY <1>1, <1>3, <2>1, <2>2, <2>3
<1>8. ASSUME NEW k \in Keys, IntervalEnds(k) PROVE Excused'
  BY <1>0, <1>1, <1>8 DEF IntervalEnds, request, Unpaid, Paid
<1>9. CASE UNCHANGED capVars
  BY <1>0, <1>1, <1>9 DEF capVars, request, Unpaid, Paid
<1> QED
  BY <1>4, <1>5, <1>6, <1>7, <1>8, <1>9 DEF CapNext

-----------------------------------------------------------------------------
\* Every request that is served has paid or is excused, and the ledger bounds
\* those that have paid.
LEMMA LedgersCap == IInv => ServedWithinCap
<1> SUFFICES ASSUME IInv, NEW k \in Capped
             PROVE  Cardinality(Served(k))
                      =< Remaining[k] + interval[k] * RefillAmount[k] + capFaults
  BY DEF ServedWithinCap
<1>1. k \in Keys
  BY CapAssumption
<1>2. Served(k) \subseteq Payers(k) \cup Unpaid
  BY <1>1 DEF Served, Payers, Unpaid, Paid
<1>3. /\ Served(k) \in SUBSET Requests /\ Payers(k) \in SUBSET Requests
      /\ Unpaid \in SUBSET Requests /\ Seeding(k) \in SUBSET Requests
  BY DEF Served, Payers, Unpaid, Seeding
<1>4. Cardinality(Served(k)) =< Cardinality(Payers(k)) + Cardinality(Unpaid)
  <2>1. Cardinality(Served(k)) =< Cardinality(Payers(k) \cup Unpaid)
    BY <1>2, <1>3, Smaller
  <2>2. Cardinality(Payers(k) \cup Unpaid)
          = Cardinality(Payers(k)) + Cardinality(Unpaid) - Cardinality(Payers(k) \cap Unpaid)
    BY <1>3, FiniteRequests, FS_Union
  <2>3. /\ Cardinality(Payers(k) \cap Unpaid) \in Nat /\ Cardinality(Payers(k)) \in Nat
        /\ Cardinality(Unpaid) \in Nat /\ Cardinality(Served(k)) \in Nat
    BY <1>3, FiniteRequests
  <2> QED
    BY <2>1, <2>2, <2>3
<1>5. /\ counter[k] \in Nat /\ lastRefill[k] \in Nat /\ interval[k] \in Nat
      /\ RefillAmount[k] \in Nat /\ Remaining[k] \in Nat /\ capFaults \in Nat
  BY <1>1, CapAssumption DEF IInv, CapTypeOK, CountersOfCapped
<1>6. lastRefill[k] * RefillAmount[k] =< interval[k] * RefillAmount[k]
  BY <1>1, <1>5, MoreRefills DEF IInv, RefillsDue
<1>7. counter[k] + Cardinality(Payers(k)) + Cardinality(Seeding(k)) * RefillAmount[k]
        =< Remaining[k] + lastRefill[k] * RefillAmount[k]
  BY DEF IInv, Ledgers, Ledger
<1>8. Cardinality(Unpaid) =< capFaults
  BY DEF IInv, Excused
<1>9. /\ Cardinality(Seeding(k)) \in Nat /\ Cardinality(Payers(k)) \in Nat
      /\ Cardinality(Unpaid) \in Nat /\ Cardinality(Served(k)) \in Nat
  BY <1>3, FiniteRequests
<1>10. /\ Cardinality(Seeding(k)) * RefillAmount[k] \in Nat
       /\ lastRefill[k] * RefillAmount[k] \in Nat
       /\ interval[k] * RefillAmount[k] \in Nat
  BY <1>5, <1>9
<1> HIDE DEF Payers, Seeding, Unpaid, Served
<1> QED
  BY <1>4, <1>5, <1>6, <1>7, <1>8, <1>9, <1>10

\* Whatever the requests, tokens, caps, refills and failures, no more requests are
\* served than the caps and the intervals that have ended allow, plus one per
\* failure (RemainingCheck, Decrement and the two CheckAndRefill functions).
THEOREM CapEnforced == CapSpec => []ServedWithinCap
<1>1. CapInit => IInv
  BY InitType, InitFrame, InitLedgers, InitExcused DEF IInv
<1>2. IInv /\ [CapNext]_capVars => IInv'
  BY NextType, NextCounters, NextRefills, NextTokenPaid, NextLedgers, NextExcused DEF IInv
<1> QED
  BY <1>1, <1>2, LedgersCap, PTL DEF CapSpec

-----------------------------------------------------------------------------
(***************************************************************************)
(* The inductive invariant behind RejectedPaysNothing: what a request may  *)
(* hold at each step, and that until the first refill the counter and the  *)
(* holders make up the cap.                                                *)
(***************************************************************************)
Held ==
  \A r \in Requests :
    /\ took[r] \subseteq {TokenOf[r], Credential}
    /\ (phase[r] = "token" /\ pc[r] # "served") => took[r] = {}
    /\ Credential \in took[r] => pc[r] \in {"served", "undo_served"}
    /\ (capFaults = 0 /\ pc[r] = "limited") => took[r] = {}
    /\ pc[r] = "undo_limited" => phase[r] = "credential"

RefillsLate == \A r \in Requests : pc[r] = "seed" => interval[Key(r)] > 0

Balance(k) ==
  (capFaults = 0 /\ interval[k] = 0) => counter[k] + Cardinality(Holders(k)) = Remaining[k]

HInv ==
  /\ CapTypeOK /\ CountersOfCapped /\ RefillsDue /\ TokenPaid
  /\ Held /\ RefillsLate /\ RejectedPaysNothing

\* Nothing is held when the counters are created.
LEMMA InitHeld == CapInit => Held /\ RefillsLate /\ RejectedPaysNothing
<1> SUFFICES ASSUME CapInit PROVE Held /\ RefillsLate /\ RejectedPaysNothing
  OBVIOUS
<1>1. Held /\ RefillsLate
  BY DEF CapInit, Held, RefillsLate
<1>2. ASSUME NEW k \in Capped PROVE counter[k] + Cardinality(Holders(k)) = Remaining[k]
  <2>1. Holders(k) = {} /\ counter[k] = Remaining[k] /\ Remaining[k] \in Nat
    BY CapAssumption DEF CapInit, Holders
  <2>2. Cardinality({}) = 0
    BY FS_EmptySet
  <2> QED
    BY <2>1, <2>2
<1> QED
  BY <1>1, <1>2 DEF RejectedPaysNothing

\* What a request holds at each of its steps.
LEMMA NextHeld == CapTypeOK /\ TokenPaid /\ Held /\ [CapNext]_capVars => Held'
<1> SUFFICES ASSUME CapTypeOK, TokenPaid, Held, [CapNext]_capVars PROVE Held'
  OBVIOUS
<1> USE KeysOfRequest
<1>1. capFaults' = 0 => capFaults = 0
  BY CapAssumption DEF CapTypeOK, CapNext, capVars, Decrement, ToolCall, LoadRow, UpdateRow, Seed, Undo,
     IntervalEnds, CapFault, NoCapFault
<1>2. ASSUME NEW r \in Requests, Decrement(r) PROVE Held'
  <2>1. ASSUME NEW q \in Requests, q # r
        PROVE  phase'[q] = phase[q] /\ pc'[q] = pc[q] /\ took'[q] = took[q]
    BY <1>2, <2>1 DEF CapTypeOK, Decrement, Charge, Uncapped, Exhausted, Pass, Leave, Goto
  <2>2. /\ took'[r] \subseteq {TokenOf[r], Credential}
        /\ (phase'[r] = "token" /\ pc'[r] # "served") => took'[r] = {}
        /\ Credential \in took'[r] => pc'[r] \in {"served", "undo_served"}
        /\ pc'[r] = "limited" => took'[r] = {}
        /\ pc'[r] = "undo_limited" => phase'[r] = "credential"
    BY <1>2 DEF CapTypeOK, Held, Decrement, Charge, Uncapped, Exhausted, Pass, Leave, Goto, UndoThen, Key
  <2> QED
    BY <1>1, <2>1, <2>2 DEF Held
<1>3. ASSUME NEW r \in Requests, ToolCall(r) PROVE Held'
  <2>1. ASSUME NEW q \in Requests, q # r
        PROVE  phase'[q] = phase[q] /\ pc'[q] = pc[q] /\ took'[q] = took[q]
    BY <1>3, <2>1 DEF CapTypeOK, ToolCall, Charge, Uncapped, Exhausted, Goto
  <2>2. phase[r] = "token" /\ took[r] = {}
    BY <1>3 DEF Held, TokenPaid, ToolCall
  <2>3. /\ took'[r] \subseteq {TokenOf[r], Credential}
        /\ pc'[r] \in {"served", "limited"}
        /\ pc'[r] = "limited" => took'[r] = {}
        /\ Credential \notin took'[r]
    BY <1>3, <2>2 DEF CapTypeOK, ToolCall, Charge, Uncapped, Exhausted, Goto, Key
  <2> QED
    BY <1>1, <2>1, <2>3 DEF Held
<1>4. ASSUME NEW r \in Requests, LoadRow(r) \/ UpdateRow(r) \/ Seed(r) PROVE Held'
  <2>1. UNCHANGED <<took, phase>>
    BY <1>4 DEF LoadRow, UpdateRow, Seed
  <2>2. \A q \in Requests \ {r} : pc'[q] = pc[q]
    BY <1>4 DEF CapTypeOK, LoadRow, UpdateRow, Seed, Leave, Goto
  <2>3. /\ pc[r] \in {"load", "update", "seed"}
        /\ pc'[r] \notin {"served", "undo_served"}
        /\ pc'[r] = "limited" => (phase[r] = "token" \/ TokenOf[r] \notin took[r])
        /\ pc'[r] = "undo_limited" => phase[r] = "credential"
    BY <1>4 DEF CapTypeOK, LoadRow, UpdateRow, Seed, Leave, Goto, UndoThen
  <2> QED
    BY <1>1, <2>1, <2>2, <2>3 DEF Held
<1>5. ASSUME NEW r \in Requests, Undo(r) PROVE Held'
  <2>1. ASSUME NEW q \in Requests, q # r
        PROVE  phase'[q] = phase[q] /\ pc'[q] = pc[q] /\ took'[q] = took[q]
    BY <1>5, <2>1 DEF CapTypeOK, Undo, Goto
  <2>2. /\ took'[r] \subseteq took[r]
        /\ phase'[r] = phase[r]
        /\ \/ pc[r] = "undo_served" /\ pc'[r] = "served"
           \/ pc[r] = "undo_limited" /\ pc'[r] = "limited"
    BY <1>5 DEF CapTypeOK, Undo, Goto
  <2>3. CASE took' = [took EXCEPT ![r] = @ \ {TokenOf[r]}]
    <3>1. TokenOf[r] \notin took'[r]
      BY <2>3 DEF CapTypeOK
    <3> QED
      BY <1>1, <2>1, <2>2, <3>1 DEF Held
  <2>4. CASE capFaults' = capFaults + 1
    <3>1. capFaults' # 0
      BY <2>4, CapAssumption DEF CapTypeOK
    <3> QED
      BY <2>1, <2>2, <3>1 DEF Held
  <2> QED
    BY <1>5, <2>3, <2>4 DEF Undo, CapFault
<1>6. ASSUME NEW k \in Keys, IntervalEnds(k) PROVE Held'
  BY <1>6 DEF Held, IntervalEnds, request
<1>7. CASE UNCHANGED capVars
  BY <1>7 DEF Held, capVars, request
<1> QED
  BY <1>2, <1>3, <1>4, <1>5, <1>6, <1>7 DEF CapNext

\* A counter is SET only after an interval has ended.
LEMMA NextLate == CapTypeOK /\ RefillsDue /\ RefillsLate /\ [CapNext]_capVars => RefillsLate'
<1> SUFFICES ASSUME CapTypeOK, RefillsDue, RefillsLate, [CapNext]_capVars, NEW q \in Requests, pc'[q] = "seed"
             PROVE  interval'[Key(q)'] > 0
  BY DEF RefillsLate
<1> USE KeysOfRequest
<1>0. Key(q) \in Keys
  BY DEF CapTypeOK, Key
<1>1. ASSUME NEW r \in Requests, UpdateRow(r) PROVE interval'[Key(q)'] > 0
  <2>1. Key(q)' = Key(q) /\ interval' = interval
    BY <1>1 DEF UpdateRow, Key
  <2>2. pc[q] \in {"update", "seed"}
    BY <1>1 DEF CapTypeOK, UpdateRow, Leave, Goto, UndoThen
  <2> QED
    BY <1>0, <2>1, <2>2 DEF CapTypeOK, RefillsDue, RefillsLate
<1>2. ASSUME NEW r \in Requests, Decrement(r) \/ ToolCall(r) \/ LoadRow(r) \/ Seed(r) \/ Undo(r)
      PROVE interval'[Key(q)'] > 0
  <2>1. interval' = interval
    BY <1>2 DEF Decrement, ToolCall, LoadRow, Seed, Undo, row
  <2>2. pc[q] = "seed" /\ Key(q)' = Key(q)
    BY <1>2 DEF CapTypeOK, Decrement, ToolCall, LoadRow, Seed, Undo, Pass, Leave, Goto, UndoThen, Key
  <2> QED
    BY <2>1, <2>2 DEF RefillsLate
<1>3. ASSUME NEW k \in Keys, IntervalEnds(k) PROVE interval'[Key(q)'] > 0
  BY <1>0, <1>3 DEF CapTypeOK, RefillsLate, IntervalEnds, request, Key
<1>4. CASE UNCHANGED capVars
  BY <1>4 DEF RefillsLate, capVars, row, request, Key
<1> QED
  BY <1>1, <1>2, <1>3, <1>4 DEF CapNext

\* A step that moves nobody in or out of the holders of a key and leaves its
\* counter alone.
LEMMA HoldersKept ==
  ASSUME CapTypeOK, CapTypeOK', NEW k \in Capped, Balance(k),
         capFaults' = 0 => capFaults = 0, interval'[k] = 0 => interval[k] = 0,
         (capFaults' = 0 /\ interval'[k] = 0) =>
            counter'[k] = counter[k] /\ Holders(k)' = Holders(k)
  PROVE  Balance(k)'
<1>1. CASE capFaults' = 0 /\ interval'[k] = 0
  <2>1. counter'[k] + Cardinality(Holders(k)') = counter[k] + Cardinality(Holders(k))
    BY <1>1
  <2> QED
    BY <1>1, <2>1 DEF Balance
<1>2. CASE ~(capFaults' = 0 /\ interval'[k] = 0)
  BY <1>2 DEF Balance
<1> QED
  BY <1>1, <1>2

\* Taking one makes the request a holder.
LEMMA ChargeHolds ==
  ASSUME CapTypeOK, CountersOfCapped, NEW r \in Requests, Charge(r), Key(r) \notin took[r],
         pc'[r] # "limited", pc[r] # "limited",
         \A q \in Requests \ {r} : pc'[q] = pc[q],
         NEW k \in Capped
  PROVE  counter'[k] + Cardinality(Holders(k)') = counter[k] + Cardinality(Holders(k))
<1>0. k \in Keys /\ Key(r) \in Keys /\ counter[k] \in Nat /\ Holders(k) \in SUBSET Requests
  <2>1. k \in Keys /\ Key(r) \in Keys
    BY CapAssumption, KeysOfRequest DEF CapTypeOK, Key
  <2> QED
    BY <2>1 DEF CapTypeOK, CountersOfCapped, Holders
<1>1. CASE Key(r) = k
  <2>1. counter'[k] = counter[k] - 1
    BY <1>0, <1>1 DEF CapTypeOK, Charge
  <2>2. r \notin Holders(k) /\ Holders(k)' = Holders(k) \cup {r}
    BY <1>1 DEF CapTypeOK, Charge, Holders
  <2>3. Cardinality(Holders(k)') = Cardinality(Holders(k)) + 1
    BY <1>0, <2>2, FiniteRequests, FS_AddElement
  <2>4. Cardinality(Holders(k)) \in Nat
    BY <1>0, FiniteRequests
  <2> QED
    BY <1>0, <2>1, <2>3, <2>4
<1>2. CASE Key(r) # k
  <2>1. counter'[k] = counter[k]
    BY <1>0, <1>2 DEF CapTypeOK, Charge
  <2>2. Holders(k)' = Holders(k)
    BY <1>2 DEF CapTypeOK, Charge, Holders
  <2> QED
    BY <2>1, <2>2
<1> QED
  BY <1>1, <1>2

\* Giving back makes it none.
LEMMA UndoReleases ==
  ASSUME CapTypeOK, CountersOfCapped, TokenPaid, Held, NEW r \in Requests, Undo(r),
         counter' = [counter EXCEPT ![TokenOf[r]] = @ + 1],
         took' = [took EXCEPT ![r] = @ \ {TokenOf[r]}],
         NEW k \in Capped
  PROVE  counter'[k] + Cardinality(Holders(k)') = counter[k] + Cardinality(Holders(k))
<1>0. /\ k \in Keys /\ TokenOf[r] \in Keys /\ counter[k] \in Nat
      /\ Holders(k) \in SUBSET Requests
  <2>1. k \in Keys /\ TokenOf[r] \in Keys
    BY CapAssumption, KeysOfRequest
  <2> QED
    BY <2>1 DEF CapTypeOK, CountersOfCapped, Holders
<1>1. TokenOf[r] \in took[r] /\ pc[r] \in {"undo_served", "undo_limited"}
  BY DEF TokenPaid, Undo
<1>2. CASE TokenOf[r] = k
  <2>1. counter'[k] = counter[k] + 1
    BY <1>0, <1>2 DEF CapTypeOK
  <2>2. r \in Holders(k) /\ Holders(k)' = Holders(k) \ {r}
    BY <1>1, <1>2 DEF CapTypeOK, Undo, Goto, Holders
  <2>3. Cardinality(Holders(k)') = Cardinality(Holders(k)) - 1
    BY <1>0, <2>2, FiniteRequests, FS_RemoveElement
  <2>4. Cardinality(Holders(k)) \in Nat
    BY <1>0, FiniteRequests
  <2> QED
    BY <1>0, <2>1, <2>3, <2>4
<1>3. CASE TokenOf[r] # k
  <2>1. counter'[k] = counter[k]
    BY <1>0, <1>3 DEF CapTypeOK
  <2>2. k \in took[r] => pc[r] = "undo_served"
    BY <1>1, <1>3 DEF Held
  <2>3. Holders(k)' = Holders(k)
    BY <1>3, <2>2 DEF CapTypeOK, Undo, Goto, Holders
  <2> QED
    BY <2>1, <2>3
<1> QED
  BY <1>2, <1>3

\* Every step keeps the balance of every key.
LEMMA NextBalance == HInv /\ CapTypeOK' /\ [CapNext]_capVars => RejectedPaysNothing'
<1> SUFFICES ASSUME HInv, CapTypeOK', [CapNext]_capVars, NEW k \in Capped PROVE Balance(k)'
  BY DEF RejectedPaysNothing, Balance
<1> USE KeysOfRequest DEF HInv
<1>0. Balance(k) /\ k \in Keys
  BY CapAssumption DEF RejectedPaysNothing, Balance
<1>1. capFaults' = 0 => capFaults = 0
  BY CapAssumption DEF CapTypeOK, CapNext, capVars, Decrement, ToolCall, LoadRow, UpdateRow, Seed, Undo,
     IntervalEnds, CapFault, NoCapFault
<1>2. ASSUME capFaults' = capFaults + 1 PROVE Balance(k)'
  BY <1>2, CapAssumption DEF CapTypeOK, Balance
<1>3. ASSUME interval'[k] = interval[k],
             counter'[k] + Cardinality(Holders(k)') = counter[k] + Cardinality(Holders(k))
      PROVE  Balance(k)'
  BY <1>0, <1>1, <1>3 DEF Balance
<1>4. ASSUME NEW r \in Requests, Decrement(r) \/ ToolCall(r) PROVE Balance(k)'
  <2>1. interval' = interval /\ \A q \in Requests \ {r} : pc'[q] = pc[q]
    BY <1>4 DEF CapTypeOK, Decrement, ToolCall, Pass, Leave, Goto, row
  <2>2. pc[r] \in {"decrement", "retry"} /\ Key(r) \notin took[r]
    BY <1>4 DEF CapTypeOK, Held, Decrement, ToolCall, Key
  <2>3. CASE Charge(r) /\ pc'[r] # "limited"
    BY <1>3, <2>1, <2>2, <2>3, ChargeHolds
  <2>4. CASE UNCHANGED <<counter, took>> /\ (pc'[r] = "limited" => took[r] = {})
    <3>1. Holders(k)' = Holders(k)
      BY <2>1, <2>2, <2>4 DEF Holders
    <3> QED
      BY <1>3, <2>1, <2>4, <3>1
  <2>5. CASE capFaults' = capFaults + 1
    BY <1>2, <2>5
  <2>6. UNCHANGED <<counter, took>> => (pc'[r] = "limited" => took[r] = {})
    BY <1>4, <2>2 DEF CapTypeOK, Held, TokenPaid, Decrement, ToolCall, Pass, Leave, Goto, UndoThen
  <2>7. Charge(r) => pc'[r] # "limited"
    BY <1>4 DEF CapTypeOK, Decrement, ToolCall, Charge, Exhausted, Pass, Leave, Goto, UndoThen
  <2> QED
    BY <1>4, <2>3, <2>4, <2>5, <2>6, <2>7 DEF Decrement, ToolCall, Uncapped, Exhausted, CapFault
<1>5. ASSUME NEW r \in Requests, LoadRow(r) \/ UpdateRow(r) PROVE Balance(k)'
  <2>1. UNCHANGED <<counter, interval, took>> /\ \A q \in Requests \ {r} : pc'[q] = pc[q]
    BY <1>5 DEF CapTypeOK, LoadRow, UpdateRow, Leave, Goto, row
  <2>2. pc[r] # "limited" /\ (pc'[r] = "limited" => took[r] = {})
    BY <1>5 DEF CapTypeOK, Held, LoadRow, UpdateRow, Leave, Goto, UndoThen
  <2>3. Holders(k)' = Holders(k)
    BY <2>1, <2>2 DEF Holders
  <2> QED
    BY <1>3, <2>1, <2>3
<1>6. ASSUME NEW r \in Requests, Seed(r) PROVE Balance(k)'
  <2>1. Holders(k)' = Holders(k) /\ interval' = interval
    BY <1>6 DEF CapTypeOK, Seed, Goto, Holders, row
  <2>2. interval[k] = 0 => counter'[k] = counter[k]
    BY <1>0, <1>6 DEF CapTypeOK, RefillsLate, Seed, Key
  <2> QED
    BY <1>0, <1>1, <2>1, <2>2, HoldersKept
<1>7. ASSUME NEW r \in Requests, Undo(r) PROVE Balance(k)'
  <2>1. interval' = interval
    BY <1>7 DEF Undo, row
  <2>2. CASE capFaults' = capFaults + 1
    BY <1>2, <2>2
  <2>3. CASE /\ counter' = [counter EXCEPT ![TokenOf[r]] = @ + 1]
             /\ took' = [took EXCEPT ![r] = @ \ {TokenOf[r]}]
    BY <1>3, <1>7, <2>1, <2>3, UndoReleases
  <2> QED
    BY <1>7, <2>2, <2>3 DEF Undo, CapFault
<1>8. ASSUME NEW j \in Keys, IntervalEnds(j) PROVE Balance(k)'
  <2>1. /\ Holders(k)' = Holders(k) /\ counter' = counter
        /\ interval'[k] = 0 => interval[k] = 0
    BY <1>0, <1>8 DEF CapTypeOK, IntervalEnds, request, Holders
  <2> QED
    BY <1>0, <1>1, <2>1, HoldersKept
<1>9. CASE UNCHANGED capVars
  <2>1. Holders(k)' = Holders(k) /\ UNCHANGED <<counter, interval>>
    BY <1>9 DEF capVars, row, request, Holders
  <2> QED
    BY <1>3, <2>1
<1> QED
  BY <1>4, <1>5, <1>6, <1>7, <1>8, <1>9 DEF CapNext

\* Until something fails or a key is refilled, its counter accounts exactly for
\* the requests that are served or under way: those that got 429 gave back what
\* they had taken (RemainingCheck and Undo).
THEOREM RejectionFree == CapSpec => []RejectedPaysNothing
<1>1. CapInit => HInv
  BY InitType, InitFrame, InitHeld DEF HInv
<1>2. HInv /\ [CapNext]_capVars => HInv'
  BY NextType, NextCounters, NextRefills, NextTokenPaid, NextHeld, NextLate, NextBalance DEF HInv
<1>3. HInv => RejectedPaysNothing
  BY DEF HInv
<1> QED
  BY <1>1, <1>2, <1>3, PTL DEF CapSpec

-----------------------------------------------------------------------------
(***************************************************************************)
(* A step of the two together is a step of each of them or leaves it alone.*)
(***************************************************************************)
LEMMA GuardsStep == [GuardsNext]_<<about, vars, capVars>> => [Next]_vars /\ [CapNext]_capVars
BY Zenon DEF GuardsNext

\* What a request to the proxy depends on is safe in every behaviour of the two
\* together: an answer is no staler than MaxStale, an invalidation clears every
\* tier, no cap is exceeded and a rejected request has given back what it took.
THEOREM GuardsSafe ==
    GuardsSpec => []( /\ GuardsTypeOK /\ BoundedStaleness /\ ClearedEverywhere
                      /\ ServedWithinCap /\ RejectedPaysNothing)
<1>1. GuardsSpec => Spec /\ CapSpec
  <2>1. GuardsInit => Init /\ CapInit
    BY DEF GuardsInit
  <2> QED
    BY <2>1, GuardsStep, PTL DEF GuardsSpec, Spec, CapSpec
<1> QED
  BY <1>1, CacheTypeCorrect, StalenessBounded, InvalidationClears, CapTypeCorrect, CapEnforced,
     RejectionFree, PTL DEF GuardsTypeOK
=============================================================================
