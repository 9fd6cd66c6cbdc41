---- MODULE MCConversation ----
(* One bash call, one answer, batches of three with a tail of two kept.  *)
EXTENDS Conversation, TLC
====
