---------------------------- MODULE MCProxyGuards ----------------------------
(***************************************************************************)
(* Small instances: two tokens of one credential, two instances of the API.*)
(***************************************************************************)
EXTENDS ProxyGuards, TLC

CONSTANTS i1, i2, r1, r2, r3, r4, r5, t1, t2, c

MCTokenOf == [r \in Requests |-> IF r = r3 THEN t2 ELSE t1]

One == [k \in Keys |-> 1]

Two == [k \in Keys |-> IF k = c THEN 2 ELSE 1]

\* Two instances, and two requests of the first token that do the same.
Alike == Permutations({i1, i2}) \cup Permutations({r1, r2})
=============================================================================
