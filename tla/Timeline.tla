------------------------------- MODULE Timeline -------------------------------
(***************************************************************************)
(* The conversation page of the web app: the rows of conversation_events    *)
(* a GET of /events can return, their order, and the items the page makes   *)
(* of them (conversation-events.ts, conversation/timeline.tsx, page.tsx).   *)
(*                                                                          *)
(* An event is [type, ref, seq, res]: ref names the response or the tool    *)
(* call it belongs to (data.message_id, data.id), seq is Bridge's           *)
(* sequence_number, res is how a tool call ended.  A row is an event with   *)
(* the INSERT that stored it (rows of one statement share created_at) and   *)
(* the entry of the stream it came from, 0 for a row the flusher makes      *)
(* itself.                                                                  *)
(***************************************************************************)
EXTENDS Naturals, FiniteSets, FiniteSetsExt, SequencesExt

CONSTANTS Bash,      \* the tool calls whose tool is bash
          Limit      \* rows a page asks for (100 in the code)

Event(type, ref, seq, res) == [type |-> type, ref |-> ref, seq |-> seq, res |-> res]

-----------------------------------------------------------------------------
(* GET /v1/conversations/{id}/events                                        *)

\* Newest first by created_at, then by a random id, cut at the limit: every
\* row of a newer statement, and any rows of the one the limit falls in.
Windows(rows) ==
  IF Cardinality(rows) <= Limit THEN {rows}
  ELSE LET Newer(b) == {r \in rows : r.batch > b}
           b == CHOOSE b \in {r.batch : r \in rows} :
                  /\ Cardinality(Newer(b)) <= Limit
                  /\ Cardinality(Newer(b) \cup {r \in rows : r.batch = b}) > Limit
       IN {Newer(b) \cup some : some \in kSubset(Limit - Cardinality(Newer(b)),
                                                 {r \in rows : r.batch = b})}

-----------------------------------------------------------------------------
(* normalizeEvents and buildTimeline: an item for every row that has one,    *)
(* drawn in the order of the rows                                           *)

\* The page puts the rows in the order of their sequence numbers.  The sort is
\* stable: a redelivered row, stored later, comes before its original.
Precedes(a, b) ==
  \/ a.seq < b.seq
  \/ a.seq = b.seq /\ a.batch > b.batch
  \/ a.seq = b.seq /\ a.batch = b.batch /\ a.entry < b.entry

\* The rows of a type that belong to a call or response.
Of(window, type, ref) == {r \in window : r.type = type /\ r.ref = ref}

\* The first completion in the page of a tool call that has one.
FindCompletion(window, id) ==
  LET found == Of(window, "tool_call_completed", id)
  IN CHOOSE c \in found : \A d \in found : ~Precedes(d, c)

\* What a bash tool returned says that it failed: an exit code, or a timeout.
ParseBashResult(res) == res = "exit"

\* Mutant: a bash call fails only when Bridge says so.
BashOutcomeByFlag(res) == IF res = "error" THEN "failed" ELSE "success"

\* A bash call fails by its exit code or by a timeout too; any other tool
\* only when Bridge says so.
BashOutcome(res) == IF res = "error" \/ ParseBashResult(res) THEN "failed" ELSE "success"
ToolOutcome(res) == IF res = "error" THEN "failed" ELSE "success"
OrphanOutcome(event) ==
  IF event.ref \in Bash THEN BashOutcome(event.res) ELSE ToolOutcome(event.res)
Outcome(started, completed) ==
  IF started.ref \in Bash THEN BashOutcome(completed.res) ELSE ToolOutcome(completed.res)

\* A start is dropped for a response whose completion is in the page, and a
\* completion for a call whose start came before it; a chunk and an error of
\* the agent make no item.
Dropped(window, row) ==
  \/ row.type \in {"response_chunk", "agent_error"}
  \/ /\ row.type = "response_started"
     /\ Of(window, "response_completed", row.ref) # {}
  \/ /\ row.type = "tool_call_completed"
     /\ \E s \in Of(window, "tool_call_started", row.ref) : Precedes(s, row)

\* Mutant: the completion goes to the last start of the call only.
ItemOfLastStart(window, row) ==
  LET As(kind, status) == [kind |-> kind, row |-> row, status |-> status]
  IN CASE row.type = "response_started"    -> As("agent_response", "streaming")
       [] row.type = "response_completed"  -> As("agent_response", "completed")
       [] row.type = "tool_call_started"   ->
            As("tool_call",
               IF \/ Of(window, "tool_call_completed", row.ref) = {}
                  \/ \E s \in Of(window, "tool_call_started", row.ref) : Precedes(row, s)
               THEN "running" ELSE Outcome(row, FindCompletion(window, row.ref)))
       [] row.type = "tool_call_completed" -> As("tool_call", OrphanOutcome(row))
       [] row.type = "turn_completed"      -> As("turn_summary", "none")
       [] OTHER                            -> As(row.type, "none")

Item(window, row) ==
  LET As(kind, status) == [kind |-> kind, row |-> row, status |-> status]
  IN CASE row.type = "response_started"    -> As("agent_response", "streaming")
       [] row.type = "response_completed"  -> As("agent_response", "completed")
       [] row.type = "tool_call_started"   ->
            As("tool_call",
               IF Of(window, "tool_call_completed", row.ref) = {}
               THEN "running" ELSE Outcome(row, FindCompletion(window, row.ref)))
       [] row.type = "tool_call_completed" -> As("tool_call", OrphanOutcome(row))
       [] row.type = "turn_completed"      -> As("turn_summary", "none")
       [] OTHER                            -> As(row.type, "none")

BuildTimeline(window) ==
  {Item(window, row) : row \in {r \in window : ~Dropped(window, r)}}

-----------------------------------------------------------------------------
(* What the page shows of the items                                         *)

\* The dots that say an answer is being written, and that a call is running:
\* a streaming item has no text of its own.
AgentResponseItem(item) == item.kind = "agent_response" /\ item.status = "streaming"
ToolCallItem(item)      == item.kind = "tool_call" /\ item.status = "running"
Busy(item) == AgentResponseItem(item) \/ ToolCallItem(item)

\* Every timeline a GET may give the page now.
Timelines(rows) == {BuildTimeline(w) : w \in Windows(rows)}
=============================================================================
