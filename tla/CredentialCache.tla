-------------------------- MODULE CredentialCache --------------------------
(***************************************************************************)
(* One credential in the three tiers of internal/cache: the memory of      *)
(* every API instance (L1), Redis (L2) and Postgres (L3), and its          *)
(* revocation (internal/handler/credentials.go, Revoke).                   *)
(*                                                                         *)
(* A flight is one run of resolveFromLowerTiers: singleflight gives an     *)
(* instance at most one of a credential at a time, and every request that  *)
(* comes meanwhile gets its result.  One action is one call to Redis,      *)
(* Postgres or KMS.                                                        *)
(*                                                                         *)
(* Time passes in ticks.  A cached value carries how long it still lives   *)
(* (ttl) and how long ago Postgres was read for it (age).                  *)
(***************************************************************************)
EXTENDS Naturals

CONSTANTS
  Instances,   \* API instances, each with its own memory
  MemTTL,      \* lifetime of an entry in memory, in ticks
  HardExpiry,  \* hard expiry of an entry in memory, in ticks
  RedisTTL,    \* lifetime of an entry in Redis, in ticks
  Latency,     \* bound: ticks a flight may take
  Faults,      \* the failures that may happen
  MaxFaults    \* bound: how many of them in one behaviour

FaultKinds ==
  {"redis",  \* a Redis call returns an error and has no effect
   "kms",    \* an unwrap or a decryption fails
   "db",     \* a SELECT returns an error
   "lost"}   \* some subscribers are disconnected while a message is published

ASSUME CacheAssumption ==
  /\ MemTTL \in Nat \ {0}
  /\ HardExpiry \in Nat \ {0}
  /\ RedisTTL \in Nat \ {0}
  /\ Latency \in Nat
  /\ Faults \subseteq FaultKinds
  /\ MaxFaults \in Nat

VARIABLES
  revoked,       \* is revoked_at set in Postgres
  since,         \* ticks since then, capped
  redis,         \* the entry in Redis
  memory,        \* per instance, the entry in its memory
  call,          \* per instance, the next call of its flight
  age,           \* per instance, the age of the value its flight carries
  waited,        \* per instance, the ticks its flight has taken
  invalidation,  \* the next step of InvalidateCredential
  revoker,       \* the instance that runs it
  inbox,         \* instances with an invalidation message to handle
  answer,        \* what the last step gave to callers
  overtaken,     \* a flight held the credential across an invalidation
  faults         \* how many faults have happened

flight == <<call, age, waited>>
revocation == <<revoked, since, invalidation, revoker, inbox>>
vars == <<revocation, redis, memory, flight, answer, overtaken, faults>>

Entry == [ttl : Nat, age : Nat]
Empty == [ttl |-> 0, age |-> 0]
Present(e) == e.ttl > 0

\* An entry in memory lives until the first of its two deadlines.
MemLife == IF MemTTL < HardExpiry THEN MemTTL ELSE HardExpiry

\* A value read from Postgres at the start of a flight may enter Redis at its
\* end, enter memory at the end of a later one, and be served from there.
MaxStale == RedisTTL + MemLife + 2 * Latency

Fault(kind) == kind \in Faults /\ faults < MaxFaults /\ faults' = faults + 1
NoFault == UNCHANGED faults
Silent == answer' = "none"

Init ==
  /\ revoked = FALSE /\ since = 0
  /\ redis = Empty
  /\ memory = [i \in Instances |-> Empty]
  /\ call = [i \in Instances |-> "none"]
  /\ age = [i \in Instances |-> 0]
  /\ waited = [i \in Instances |-> 0]
  /\ invalidation = "none" /\ revoker \in Instances
  /\ inbox = {}
  /\ answer = "none"
  /\ overtaken = FALSE
  /\ faults = 0

-----------------------------------------------------------------------------
(***************************************************************************)
(* GetDecryptedCredential.                                                 *)
(***************************************************************************)

\* Mutated: a hit gives the entry a new life.
SlidingHit(i) ==
  /\ Present(memory[i])
  /\ answer' = "key"
  /\ memory' = [memory EXCEPT ![i].ttl = MemLife]
  /\ UNCHANGED <<revocation, redis, flight, overtaken, faults>>

Hit(i) ==
  /\ Present(memory[i])
  /\ answer' = "key"
  /\ UNCHANGED <<revocation, redis, memory, flight, overtaken, faults>>

\* The LRU drops an entry, or its enclave cannot be opened.
Evict(i) ==
  /\ Present(memory[i])
  /\ memory' = [memory EXCEPT ![i] = Empty]
  /\ Silent
  /\ UNCHANGED <<revocation, redis, flight, overtaken, faults>>

Miss(i) ==
  /\ ~Present(memory[i])
  /\ call[i] = "none"
  /\ call' = [call EXCEPT ![i] = "redis"]
  /\ Silent
  /\ UNCHANGED <<revocation, redis, memory, age, waited, overtaken, faults>>

\* The flight makes the call of from and goes on to the call of to.
Fly(i, from, to) == call[i] = from /\ call' = [call EXCEPT ![i] = to]

Land(i) ==
  /\ call' = [call EXCEPT ![i] = "none"]
  /\ age' = [age EXCEPT ![i] = 0]
  /\ waited' = [waited EXCEPT ![i] = 0]

\* The flight ends without the credential.
Refuse(i) == Land(i) /\ answer' = "refused"

\* A miss, an error and an entry that cannot be parsed all go on to Postgres.
RedisGet(i) ==
  /\ \/ Fly(i, "redis", "decrypt") /\ Present(redis) /\ NoFault
        /\ age' = [age EXCEPT ![i] = redis.age]
     \/ Fly(i, "redis", "db") /\ ~Present(redis) /\ NoFault /\ age' = age
     \/ Fly(i, "redis", "db") /\ Present(redis) /\ Fault("redis") /\ age' = age
  /\ Silent
  /\ UNCHANGED <<revocation, redis, memory, waited, overtaken>>

\* With the DEK from the DEK cache or from KMS; a failure drops the Redis entry,
\* and the error of that DEL is ignored.
Decrypt(i) ==
  /\ \/ Fly(i, "decrypt", "promote") /\ redis' = redis /\ NoFault
     \/ Fly(i, "decrypt", "db") /\ redis' = Empty /\ Fault("kms")
     \/ Fly(i, "decrypt", "db") /\ redis' = redis /\ "redis" \in Faults /\ Fault("kms")
  /\ Silent
  /\ UNCHANGED <<revocation, memory, age, waited, overtaken>>

ReadDB(i) ==
  /\ call[i] = "db"
  /\ \/ /\ ~revoked /\ NoFault
        /\ Fly(i, "db", "unwrap")
        /\ age' = [age EXCEPT ![i] = 0]
        /\ Silent
        /\ UNCHANGED waited
     \/ revoked /\ NoFault /\ Refuse(i)
     \/ ~revoked /\ Fault("db") /\ Refuse(i)
  /\ UNCHANGED <<revocation, redis, memory, overtaken>>

Unwrap(i) ==
  /\ call[i] = "unwrap"
  /\ \/ Fly(i, "unwrap", "set") /\ NoFault /\ Silent /\ UNCHANGED <<age, waited>>
     \/ Fault("kms") /\ Refuse(i)
  /\ UNCHANGED <<revocation, redis, memory, overtaken>>

\* The error of the Redis SET is ignored.
SetRedis(i) ==
  /\ Fly(i, "set", "promote")
  /\ \/ redis' = [ttl |-> RedisTTL, age |-> age[i]] /\ NoFault
     \/ redis' = redis /\ Fault("redis")
  /\ Silent
  /\ UNCHANGED <<revocation, memory, age, waited, overtaken>>

PromoteToL1(i) ==
  /\ call[i] = "promote"
  /\ memory' = [memory EXCEPT ![i] = [ttl |-> MemLife, age |-> age[i]]]
  /\ Land(i)
  /\ answer' = "key"
  /\ UNCHANGED <<revocation, redis, overtaken, faults>>

-----------------------------------------------------------------------------
(***************************************************************************)
(* Revoke, then InvalidateCredential: memory, Redis, the other instances.  *)
(* An error ends it, and a second Revoke finds nothing to revoke.          *)
(***************************************************************************)
Revoke ==
  /\ ~revoked
  /\ revoked' = TRUE
  /\ invalidation' = "memory"
  /\ Silent
  /\ UNCHANGED <<since, revoker, inbox, redis, memory, flight, overtaken, faults>>

DropMemory ==
  /\ invalidation = "memory"
  /\ memory' = [memory EXCEPT ![revoker] = Empty]
  /\ invalidation' = "redis"
  /\ Silent
  /\ UNCHANGED <<revoked, since, revoker, inbox, redis, flight, overtaken, faults>>

\* The flight has read the credential from a lower tier.
Carries(i) == call[i] \in {"decrypt", "unwrap", "set", "promote"}

\* Between the SELECT and the SET a flight puts back what DEL removes.
DropRedis ==
  /\ invalidation = "redis"
  /\ \/ redis' = Empty /\ invalidation' = "publish" /\ NoFault
     \/ redis' = redis /\ invalidation' = "failed" /\ Fault("redis")
  /\ overtaken' = (overtaken \/ \E i \in Instances : call[i] \in {"unwrap", "set"})
  /\ Silent
  /\ UNCHANGED <<revoked, since, revoker, inbox, memory, flight>>

\* Mutated: the instance that publishes does not listen to itself.
OtherInstances == Instances \ {revoker}
Subscribers == Instances

PublishInvalidation ==
  /\ invalidation = "publish"
  /\ \/ inbox' = Subscribers /\ invalidation' = "done" /\ NoFault
     \/ inbox' \in SUBSET Subscribers \ {Subscribers} /\ invalidation' = "done" /\ Fault("lost")
     \/ inbox' = inbox /\ invalidation' = "failed" /\ Fault("redis")
  /\ Silent
  /\ UNCHANGED <<revoked, since, revoker, redis, memory, flight, overtaken>>

\* One message of the subscriber's loop.
HandleInvalidation(i) ==
  /\ i \in inbox
  /\ inbox' = inbox \ {i}
  /\ memory' = [memory EXCEPT ![i] = Empty]
  /\ overtaken' = (overtaken \/ Carries(i))
  /\ Silent
  /\ UNCHANGED <<revoked, since, invalidation, revoker, redis, flight, faults>>

-----------------------------------------------------------------------------
Aged(e) == IF e.ttl > 1 THEN [ttl |-> e.ttl - 1, age |-> e.age + 1] ELSE Empty

\* A tick; a flight takes no more than Latency of them.
Tick ==
  /\ \A i \in Instances : call[i] = "none" \/ waited[i] < Latency
  /\ redis' = Aged(redis)
  /\ memory' = [i \in Instances |-> Aged(memory[i])]
  /\ waited' = [i \in Instances |-> IF call[i] = "none" THEN 0 ELSE waited[i] + 1]
  /\ age' = [i \in Instances |-> IF Carries(i) THEN age[i] + 1 ELSE 0]
  /\ since' = IF revoked /\ since =< MaxStale THEN since + 1 ELSE since
  /\ Silent
  /\ UNCHANGED <<revoked, invalidation, revoker, inbox, call, overtaken, faults>>

Resolve(i) ==
  \/ Hit(i) \/ Evict(i) \/ Miss(i) \/ RedisGet(i) \/ Decrypt(i) \/ ReadDB(i)
  \/ Unwrap(i) \/ SetRedis(i) \/ PromoteToL1(i)

Invalidate ==
  \/ Revoke \/ DropMemory \/ DropRedis \/ PublishInvalidation
  \/ \E i \in Instances : HandleInvalidation(i)

Next == (\E i \in Instances : Resolve(i)) \/ Invalidate \/ Tick

Spec == Init /\ [][Next]_vars

-----------------------------------------------------------------------------
Calls == {"none", "redis", "decrypt", "db", "unwrap", "set", "promote"}

TypeOK ==
  /\ revoked \in BOOLEAN
  /\ since \in 0 .. (MaxStale + 1)
  /\ redis \in Entry
  /\ memory \in [Instances -> Entry]
  /\ call \in [Instances -> Calls]
  /\ age \in [Instances -> Nat]
  /\ waited \in [Instances -> 0 .. Latency]
  /\ invalidation \in {"none", "memory", "redis", "publish", "done", "failed"}
  /\ revoker \in Instances
  /\ inbox \subseteq Instances
  /\ answer \in {"none", "key", "refused"}
  /\ overtaken \in BOOLEAN
  /\ faults \in 0 .. MaxFaults

\* A revoked credential is served no longer than the lifetimes of both caches and
\* two flights take, whatever is lost or fails: no hit, no promotion and no
\* failure of the invalidation makes a cached value younger.
BoundedStaleness == (revoked /\ answer = "key") => since =< MaxStale

\* Once every instance has handled the message, no tier holds the credential and
\* none will again, unless a flight held it while a tier was cleared or a
\* subscriber missed the message.  (InvalidateCredential, cache.go:248: "removes
\* a credential from all cache tiers".)
Propagated == invalidation = "done" /\ inbox = {} /\ faults = 0
TiersEmpty == ~Present(redis) /\ \A i \in Instances : ~Present(memory[i])
ClearedEverywhere == (Propagated /\ ~overtaken) => TiersEmpty

=============================================================================
