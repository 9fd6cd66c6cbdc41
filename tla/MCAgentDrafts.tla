--------------------------- MODULE MCAgentDrafts ---------------------------
EXTENDS AgentDrafts, TLC

Permuted == Permutations(Events)
=============================================================================
