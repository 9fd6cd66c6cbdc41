----------------------------- MODULE AgentParts -----------------------------
(***************************************************************************)
(* What an agent refers to, wherever it is drafted or edited.              *)
(***************************************************************************)
CONSTANTS
    Keys,       \* LLM keys
    Models,
    None

\* An identifier is a UUID, and never the empty string or null.
ASSUME NoneIsNoKey == None \notin Keys
=============================================================================
