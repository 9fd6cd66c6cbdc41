---------------------------- MODULE MCAgentPanel ----------------------------
EXTENDS AgentPanel, TLC

CONSTANTS k1, k2, m1, m2

\* A provider with two models, one of which another provider has too.
TwoProviders == (k1 :> {m1, m2}) @@ (k2 :> {m2})

WithTheSharedModel == <<k1, m2>>

Permuted == Permutations(Agents)
=============================================================================
