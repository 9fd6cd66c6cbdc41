----------------------------- MODULE Conversation -----------------------------
(***************************************************************************)
(* A conversation as the web app shows it.  Bridge posts the events of the  *)
(* agent, which the API adds to a Redis stream; the flusher copies them to  *)
(* Postgres and trims the stream.  The run panel (use-conversation-stream,  *)
(* run-panel.tsx) follows the stream over SSE, replaying what is left of it *)
(* from the start whenever it gets another access token; the conversation   *)
(* page shows the rows (Timeline).                                          *)
(*                                                                          *)
(* log[k] is the entry k of the stream; entries up to low are trimmed.      *)
(***************************************************************************)
EXTENDS Timeline

CONSTANTS Responses, Tools,   \* message ids and tool call ids
          Keep,               \* entries a trim leaves (500 in the code)
          Batch,              \* entries a flush reads (100 in the code)
          Results,            \* how a call may end: "ok", "error", "exit"
          MaxEvents,          \* bound: entries of the stream
          MaxRedelivered,     \* bound: batches Bridge posts again
          MaxTokens,          \* bound: access tokens the panel gets
          MaxSends            \* bound: messages the user sends

Nobody == "nobody"

ASSUME ConversationAssumption == {Keep, Batch, MaxEvents} \subseteq Nat
ASSUME IdsApart == Responses \cap Tools = {} /\ Nobody \notin Responses \cup Tools

VARIABLES
  log, low,          \* the stream
  agent,             \* what Bridge is doing: its answer, its calls, its inbox
  posted,            \* bounds: batches posted again
  read, rows, held,  \* the flusher: entries read, rows stored, chunks held
  panel,             \* the connection of the panel
  messages,          \* StreamMessage[]
  isStreaming

vars == <<log, low, agent, posted, read, rows, held, panel, messages, isStreaming>>
stream == <<log, low, agent, posted>>
flusher == <<read, rows, held>>
view == <<messages, isStreaming>>

Types == {"message_received", "response_started", "response_chunk", "response_completed",
          "tool_call_started", "tool_call_completed", "turn_completed", "agent_error", "done"}
Messages == [role : {"user", "agent", "error"}, ref : Responses \cup {Nobody},
             entry : 0..MaxEvents, content : Seq(1..MaxEvents), full : BOOLEAN]

TypeOK ==
  /\ log \in Seq([type : Types, ref : Responses \cup Tools \cup {Nobody},
                  seq : 1..MaxEvents, res : Results \cup {"none"}])
  /\ low \in 0..Len(log)
  /\ agent \in [answer : Responses \cup {Nobody}, used : SUBSET (Responses \cup Tools),
                running : SUBSET Tools, inbox : 0..MaxSends + 1, made : 0..MaxEvents,
                over : BOOLEAN]
  /\ posted \in 0..MaxRedelivered
  /\ read \in 0..Len(log)
  /\ \A r \in rows : r.entry \in 0..read
  /\ held \subseteq Responses
  /\ panel \in [phase : {"closed", "token", "tokenError", "opening", "open", "dead", "ended"},
                pos : 0..MaxEvents, connected : BOOLEAN,
                tokens : 0..MaxTokens, sends : 0..MaxSends, sending : BOOLEAN]
  /\ \A i \in DOMAIN messages : messages[i] \in Messages
  /\ isStreaming \in BOOLEAN

Init ==
  /\ log = <<>> /\ low = 0 /\ posted = 0
  /\ agent = [answer |-> Nobody, used |-> {}, running |-> {}, made |-> 0, over |-> FALSE,
              inbox |-> 1]     \* the message the run was started with
  /\ read = 0 /\ rows = {} /\ held = {}
  /\ panel = [phase |-> "closed", pos |-> 0, connected |-> FALSE,
              tokens |-> 0, sends |-> 0, sending |-> FALSE]
  /\ messages = <<>> /\ isStreaming = FALSE

-----------------------------------------------------------------------------
(* Bridge and its webhooks                                                  *)

\* An event of the agent, published on the stream.
Publish(type, ref, res) ==
  /\ ~agent.over /\ Len(log) < MaxEvents
  /\ log' = Append(log, Event(type, ref, agent.made + 1, res))
  /\ UNCHANGED <<low, posted, flusher, panel, view>>

Receive ==
  /\ agent.inbox > 0 /\ agent.answer = Nobody
  /\ Publish("message_received", Nobody, "none")
  /\ agent' = [agent EXCEPT !.inbox = @ - 1, !.made = @ + 1]

Start(r) ==
  /\ agent.answer = Nobody /\ r \notin agent.used
  /\ Publish("response_started", r, "none")
  /\ agent' = [agent EXCEPT !.answer = r, !.used = @ \cup {r}, !.made = @ + 1]

Chunk(r) ==
  /\ agent.answer = r
  /\ Publish("response_chunk", r, "none")
  /\ agent' = [agent EXCEPT !.made = @ + 1]

Complete(r) ==
  /\ agent.answer = r
  /\ Publish("response_completed", r, "none")
  /\ agent' = [agent EXCEPT !.answer = Nobody, !.made = @ + 1]

StartTool(t) ==
  /\ t \notin agent.used
  /\ Publish("tool_call_started", t, "none")
  /\ agent' = [agent EXCEPT !.running = @ \cup {t}, !.used = @ \cup {t}, !.made = @ + 1]

CompleteTool(t, res) ==
  /\ t \in agent.running
  /\ Publish("tool_call_completed", t, res)
  /\ agent' = [agent EXCEPT !.running = @ \ {t}, !.made = @ + 1]

\* The end of a turn, an error of what is under way, the end of the run: an
\* answer or a call that had not ended never will.
EndTurn ==
  /\ log # <<>> /\ Last(log).type = "response_completed"
  /\ Publish("turn_completed", Nobody, "none")
  /\ agent' = [agent EXCEPT !.made = @ + 1]

AgentError ==
  /\ agent.answer # Nobody \/ agent.running # {}
  /\ Publish("agent_error", Nobody, "none")
  /\ agent' = [agent EXCEPT !.answer = Nobody, !.running = {}, !.made = @ + 1]

Done ==
  /\ Publish("done", Nobody, "none")
  /\ agent' = [agent EXCEPT !.answer = Nobody, !.running = {}, !.made = @ + 1, !.over = TRUE]

\* Bridge had no answer to its last batch, and posts it again: every event of
\* it is published again.
Redeliver(n) ==
  /\ posted < MaxRedelivered
  /\ n \in 1..Len(log) /\ Len(log) + n <= MaxEvents
  /\ log' = log \o SubSeq(log, Len(log) - n + 1, Len(log))
  /\ posted' = posted + 1
  /\ UNCHANGED <<low, agent, flusher, panel, view>>

-----------------------------------------------------------------------------
(* The flusher and the cleanup of the stream                                *)

Row(k, b) == [type |-> log[k].type, ref |-> log[k].ref, seq |-> log[k].seq,
              res |-> log[k].res, batch |-> b, entry |-> k]

\* The row made for an answer whose completion never came: it has no
\* sequence number.
Recovered(r, b) == [type |-> "response_completed", ref |-> r, seq |-> 0,
                    res |-> "none", batch |-> b, entry |-> 0]

\* The answers whose chunks are held after some entries: those that had held
\* chunks or get one, and no completion after it.
Kept(seen) ==
  LET Has(k, type, r) == log[k].type = type /\ log[k].ref = r
  IN {r \in Responses :
        \/ r \in held /\ ~\E k \in seen : Has(k, "response_completed", r)
        \/ \E c \in seen : /\ Has(c, "response_chunk", r)
                           /\ \A k \in seen : Has(k, "response_completed", r) => k < c}

\* Chunks are held back, and become a row when the run ends without the
\* completion of their answer.
Flush ==
  LET from  == Max({read, low})
      to    == Min({from + Batch, Len(log)})
      seen  == (from + 1)..to
      kept  == Kept(seen)
      ended == \E k \in seen : log[k].type = "done"
  IN /\ from < Len(log)
     /\ rows' = rows \cup {Row(k, to) : k \in {j \in seen : log[j].type # "response_chunk"}}
                     \cup (IF ended THEN {Recovered(r, to) : r \in kept} ELSE {})
     /\ held' = IF ended THEN {} ELSE kept
     /\ read' = to
     /\ low' = Max({low, Len(log) - Keep})
     /\ UNCHANGED <<log, agent, posted, panel, view>>

\* A stream nothing was added to for a long time is deleted.
CleanIdle ==
  /\ agent.over /\ read = Len(log) /\ low < Len(log)
  /\ low' = Len(log)
  /\ UNCHANGED <<log, agent, posted, flusher, panel, view>>

-----------------------------------------------------------------------------
(* The panel: opening it, its token, its connection                         *)

OpenPanel ==
  /\ panel.phase = "closed" /\ panel.tokens < MaxTokens
  /\ panel' = [panel EXCEPT !.phase = "token"]
  /\ UNCHANGED <<stream, flusher, view>>

TokenFails ==
  /\ panel.phase = "token"
  /\ panel' = [panel EXCEPT !.phase = "tokenError"]
  /\ UNCHANGED <<stream, flusher, view>>

\* Mutant: what the last connection brought stays on the screen.
ConnectKeepsMessages ==
  /\ panel.phase # "closed" /\ panel.tokens < MaxTokens
  /\ panel' = [panel EXCEPT !.phase = "opening", !.pos = 0, !.connected = FALSE,
                            !.tokens = @ + 1]
  /\ isStreaming' = FALSE
  /\ UNCHANGED <<stream, flusher, messages>>

\* Mutant: the stream is resumed though the messages were cleared.
ConnectResumes ==
  /\ panel.phase # "closed" /\ panel.tokens < MaxTokens
  /\ panel' = [panel EXCEPT !.phase = "opening", !.connected = FALSE, !.tokens = @ + 1]
  /\ messages' = <<>> /\ isStreaming' = FALSE
  /\ UNCHANGED <<stream, flusher>>

\* Another token: the connection of the last one is aborted, what it brought
\* is cleared, and the stream is read from the start.
Connect ==
  /\ panel.phase # "closed" /\ panel.tokens < MaxTokens
  /\ panel' = [panel EXCEPT !.phase = "opening", !.pos = 0, !.connected = FALSE,
                            !.tokens = @ + 1]
  /\ messages' = <<>> /\ isStreaming' = FALSE
  /\ UNCHANGED <<stream, flusher>>

Accepted ==
  /\ panel.phase = "opening"
  /\ panel' = [panel EXCEPT !.phase = "open", !.connected = TRUE]
  /\ UNCHANGED <<stream, flusher, view>>

\* The connection is refused or lost: onerror rethrows, and nothing tries again
\* until there is another token.
Fails ==
  /\ panel.phase \in {"opening", "open"}
  /\ panel' = [panel EXCEPT !.phase = "dead"]
  /\ UNCHANGED <<stream, flusher, view>>

Closes ==
  /\ panel.phase = "open"
  /\ panel' = [panel EXCEPT !.phase = "ended", !.connected = FALSE]
  /\ isStreaming' = FALSE
  /\ UNCHANGED <<stream, flusher, messages>>

\* fetchEventSource drops the connection of a hidden document, and opens
\* another with the id of the last event it saw when it shows again.  Until
\* then it is as if the new one were not yet accepted.
HideAndShow ==
  /\ panel.phase = "open"
  /\ panel' = [panel EXCEPT !.phase = "opening"]
  /\ UNCHANGED <<stream, flusher, view>>

ClosePanel ==
  /\ panel.phase # "closed"
  /\ panel' = [panel EXCEPT !.phase = "closed", !.pos = 0, !.connected = FALSE,
                            !.sending = FALSE]
  /\ messages' = <<>> /\ isStreaming' = FALSE
  /\ \/ UNCHANGED agent
     \/ panel.sending /\ agent' = [agent EXCEPT !.inbox = @ + 1]
  /\ UNCHANGED <<log, low, posted, flusher>>

-----------------------------------------------------------------------------
(* onmessage                                                                *)

Message(role, ref, entry) ==
  [role |-> role, ref |-> ref, entry |-> entry, content |-> <<>>, full |-> FALSE]

\* The last message of an answer, 0 if the panel has none.
LastOf(r) ==
  LET own == {i \in DOMAIN messages : messages[i].role = "agent" /\ messages[i].ref = r}
  IN IF own = {} THEN 0 ELSE Max(own)

ResponseChunk(k) ==
  LET i == LastOf(log[k].ref)
  IN messages' = IF i = 0 THEN messages
                 ELSE [messages EXCEPT ![i].content = Append(@, k)]

\* Mutant: no fallback.
ResponseCompletedNoFallback(k) == LastOf(log[k].ref) \in Nat /\ UNCHANGED messages

\* The text that came in chunks stays; the full response is for a message
\* that has none.
ResponseCompleted(k) ==
  LET i == LastOf(log[k].ref)
  IN messages' = IF i = 0 \/ messages[i].content # <<>> THEN messages
                 ELSE [messages EXCEPT ![i].full = TRUE]

\* Mutant: an error leaves the dots on.
OnMessageErrorStreams(k) ==
  CASE log[k].type = "message_received" ->
         messages' = Append(messages, Message("user", Nobody, k)) /\ UNCHANGED isStreaming
    [] log[k].type = "response_started" ->
         messages' = Append(messages, Message("agent", log[k].ref, k)) /\ isStreaming' = TRUE
    [] log[k].type = "response_chunk" -> ResponseChunk(k) /\ UNCHANGED isStreaming
    [] log[k].type = "response_completed" -> ResponseCompleted(k) /\ isStreaming' = FALSE
    [] log[k].type = "agent_error" ->
         messages' = Append(messages, Message("error", Nobody, k)) /\ UNCHANGED isStreaming
    [] log[k].type = "done" -> isStreaming' = FALSE /\ UNCHANGED messages
    [] OTHER -> UNCHANGED view

OnMessage(k) ==
  CASE log[k].type = "message_received" ->
         messages' = Append(messages, Message("user", Nobody, k)) /\ UNCHANGED isStreaming
    [] log[k].type = "response_started" ->
         messages' = Append(messages, Message("agent", log[k].ref, k)) /\ isStreaming' = TRUE
    [] log[k].type = "response_chunk" -> ResponseChunk(k) /\ UNCHANGED isStreaming
    [] log[k].type = "response_completed" -> ResponseCompleted(k) /\ isStreaming' = FALSE
    [] log[k].type = "agent_error" ->
         messages' = Append(messages, Message("error", Nobody, k)) /\ isStreaming' = FALSE
    [] log[k].type = "done" -> isStreaming' = FALSE /\ UNCHANGED messages
    [] OTHER -> UNCHANGED view

\* The next entry there is after the last one the panel saw.
NextEntry(pos) == Max({pos, low}) + 1

Deliver ==
  LET k == NextEntry(panel.pos)
  IN /\ panel.phase = "open" /\ k <= Len(log)
     /\ OnMessage(k)
     /\ panel' = [panel EXCEPT !.pos = k]
     /\ UNCHANGED <<stream, flusher>>

-----------------------------------------------------------------------------
(* Sending a message                                                        *)

IsActive == panel.connected \/ panel.phase = "token"

\* The message is shown at once.
HandleSendMessage ==
  /\ IsActive /\ ~panel.sending /\ panel.sends < MaxSends
  /\ messages' = Append(messages, Message("user", Nobody, 0))
  /\ panel' = [panel EXCEPT !.sending = TRUE, !.sends = @ + 1]
  /\ UNCHANGED <<stream, flusher, isStreaming>>

\* Bridge has the message, or the call failed, perhaps after Bridge got it.
Sent(reached) ==
  /\ panel.sending
  /\ agent' = IF reached THEN [agent EXCEPT !.inbox = @ + 1] ELSE agent
  /\ panel' = [panel EXCEPT !.sending = FALSE]
  /\ UNCHANGED <<log, low, posted, flusher, view>>

-----------------------------------------------------------------------------
Bridge == \/ Receive \/ EndTurn \/ AgentError \/ Done
          \/ \E r \in Responses : Start(r) \/ Chunk(r) \/ Complete(r)
          \/ \E t \in Tools : StartTool(t)
          \/ \E t \in Tools, res \in Results : CompleteTool(t, res)
          \/ \E n \in 1..MaxEvents : Redeliver(n)

Panel == \/ OpenPanel \/ TokenFails \/ Connect \/ Accepted \/ Fails \/ Closes
         \/ HideAndShow \/ ClosePanel \/ Deliver
         \/ HandleSendMessage \/ \E reached \in BOOLEAN : Sent(reached)

Next == Bridge \/ Flush \/ CleanIdle \/ Panel

Spec == Init /\ [][Next]_vars

-----------------------------------------------------------------------------
(* Properties of the panel                                                  *)

\* Every entry is shown at most once and in the order of the stream, however
\* often the connection was lost, resumed after the document was hidden, or
\* opened again with another token (use-conversation-stream.ts:97).
ShownOnce ==
  /\ \A i, j \in DOMAIN messages :
       i < j /\ messages[i].entry # 0 /\ messages[j].entry # 0
         => messages[i].entry < messages[j].entry
  /\ \A i \in DOMAIN messages :
       LET c == messages[i].content
       IN /\ \A m, n \in DOMAIN c : m < n => c[m] < c[n]
          /\ \A n \in DOMAIN c : messages[i].entry < c[n]

\* What the panel passed and the stream still has is on the screen: a message
\* of the user, the start of an answer and an error as a message, a chunk of an
\* answer whose start is there in the text (conversations.go:406 resumes at the
\* last id the panel saw, and at the start after its messages were cleared).
NothingSkipped ==
  \A k \in (low + 1)..panel.pos :
    /\ log[k].type \in {"message_received", "response_started", "agent_error"}
         => \E i \in DOMAIN messages : messages[i].entry = k
    /\ log[k].type = "response_chunk" /\ LastOf(log[k].ref) # 0
         => \/ \E i \in DOMAIN messages : k \in Range(messages[i].content)
            \/ \A i \in DOMAIN messages :
                 messages[i].role = "agent" /\ messages[i].ref = log[k].ref
                   => messages[i].entry > k

\* The panel says that the agent is writing only after the start of an answer
\* that nothing it has seen since has ended.
SpinnerTrue ==
  isStreaming =>
    \E s \in 1..panel.pos :
      /\ log[s].type = "response_started"
      /\ \E i \in DOMAIN messages : messages[i].entry = s
      /\ \A k \in (Max({s, low}) + 1)..panel.pos :
           log[k].type \notin {"response_completed", "agent_error", "done"}

\* An answer whose completion the panel saw has a text, even when every chunk
\* of it was missed.
CompletedNotBlank ==
  \A k \in (low + 1)..panel.pos :
    log[k].type = "response_completed" /\ LastOf(log[k].ref) # 0
      => LET m == messages[LastOf(log[k].ref)]
         IN m.entry < k => m.content # <<>> \/ m.full

(* Properties of the page                                                   *)

\* Whatever page of the rows it gets, the page shows every card of one call in
\* the same state: batches Bridge posted twice make two cards of a call, and no
\* card of it stays running when another has its result
\* (conversation-events.ts:333, bridge_webhooks.go:127).
CardsAgree ==
  \A items \in Timelines(rows) : \A a, b \in items :
    a.kind = "tool_call" /\ b.kind = "tool_call" /\ a.row.ref = b.row.ref
      => a.status = b.status

\* A page that has every row shows no dots for an answer or a call whose end is
\* stored, and a failed bash command as failed though Bridge calls it no error.
ResolvedShown ==
  Cardinality(rows) <= Limit =>
    \A items \in Timelines(rows) : \A item \in items, r \in rows :
      r.type \in {"response_completed", "tool_call_completed"} /\ r.ref = item.row.ref
        => /\ ~Busy(item)
           /\ r.res = "exit" /\ r.ref \in Bash => item.status = "failed"

=============================================================================
