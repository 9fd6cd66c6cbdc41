-------------------------- MODULE Conversation_proof --------------------------
(***************************************************************************)
(* Proofs about the run panel of Conversation: for any number of events,   *)
(* answers, connections, redeliveries and trims of the stream, the panel   *)
(* shows every entry once, in order, and skips none, and the page shows     *)
(* the cards of a call in one state.                                        *)
(***************************************************************************)
EXTENDS Conversation, TLAPS, WellFoundedInduction

-----------------------------------------------------------------------------
(* The greater of two numbers, and of the numbers up to a bound            *)

LEMMA GreaterOf ==
    ASSUME NEW a \in Int, NEW b \in Int
    PROVE  /\ Max({a, b}) \in {a, b}
           /\ Max({a, b}) >= a /\ Max({a, b}) >= b
<1>1. \E x \in {a, b} : \A y \in {a, b} : x >= y
  <2>1. CASE a >= b
    BY <2>1
  <2>2. CASE b >= a
    BY <2>2
  <2> QED
    BY <2>1, <2>2
<1> QED
  BY <1>1 DEF Max

LEMMA Later ==
    ASSUME NEW a \in Nat, NEW b \in Nat, NEW n \in Nat, b >= a
    PROVE  \A k \in (b + 1) .. n : k \in (a + 1) .. n /\ k \in 1 .. n
OBVIOUS

LEMMA GreatestOf ==
    ASSUME NEW n \in Nat, NEW S \in SUBSET (1 .. n), S # {}
    PROVE  Max(S) \in S /\ \A y \in S : Max(S) >= y
<1> DEFINE T == {n - x : x \in S}
           LessThan == OpToRel(<, Nat)
<1>1. T \in SUBSET Nat /\ T # {}
  <2>1. \A x \in S : n - x \in Nat
    OBVIOUS
  <2> QED
    BY <2>1, Zenon
<1>2. PICK m \in T : \A k \in T : <<k, m>> \notin LessThan
  <2> HIDE DEF T
  <2> QED
    BY <1>1, WFMin, NatLessThanWellFounded, Zenon
<1>3. \A k \in T : m <= k
  <2>1. \A k \in T : ~(k < m)
    <3> HIDE DEF T
    <3> QED
      BY <1>1, <1>2, Zenon DEF OpToRel
  <2> QED
    BY <1>1, <2>1
<1>4. PICK x \in S : m = n - x
  OBVIOUS
<1>5. \A y \in S : x >= y
  <2> TAKE y \in S
  <2>1. m <= n - y
    BY <1>3
  <2> QED
    BY <1>4, <2>1
<1> QED
  BY <1>5 DEF Max

-----------------------------------------------------------------------------
(* The invariant                                                           *)

Refs == Responses \cup Tools \cup {Nobody}
Entries == [type : Types, ref : Refs, seq : Nat, res : Results \cup {"none"}]
Shown == [role : {"user", "agent", "error"}, ref : Refs, entry : Nat,
          content : Seq(Nat), full : BOOLEAN]

\* How many events the agent made is a number: they number the entries.
StreamInv ==
  /\ log \in Seq(Entries) /\ low \in Nat
  /\ "made" \in DOMAIN agent /\ agent.made \in Nat

\* What is on the screen was passed.
PanelInv ==
  /\ "pos" \in DOMAIN panel /\ panel.pos \in Nat /\ panel.pos <= Len(log)
  /\ messages \in Seq(Shown)
  /\ \A i \in DOMAIN messages :
       /\ messages[i].entry <= panel.pos
       /\ \A n \in DOMAIN messages[i].content : messages[i].content[n] <= panel.pos

ViewInv == ShownOnce /\ NothingSkipped /\ SpinnerTrue /\ CompletedNotBlank

IInv == StreamInv /\ PanelInv /\ ViewInv

LEMMA InitAll == Init => IInv
<1> SUFFICES ASSUME Init PROVE IInv
  OBVIOUS
<1>1. StreamInv
  BY DEF Init, StreamInv
<1>2. PanelInv
  BY DEF Init, PanelInv
<1>3. ViewInv
  BY DEF Init, ViewInv, ShownOnce, NothingSkipped, SpinnerTrue, CompletedNotBlank
<1> QED
  BY <1>1, <1>2, <1>3 DEF IInv

-----------------------------------------------------------------------------
(* The stream: only its end grows, and its start goes                      *)

Grows ==
  /\ Len(log') >= Len(log) /\ \A k \in 1 .. Len(log) : log'[k] = log[k]
  /\ low' >= low

\* An event that is published.
LEMMA Published ==
  ASSUME StreamInv, NEW type \in Types, NEW ref \in Refs, NEW res \in Results \cup {"none"},
         Publish(type, ref, res)
  PROVE  /\ log' \in Seq(Entries) /\ low' = low /\ Grows
         /\ UNCHANGED <<panel, messages, isStreaming>>
<1>1. Event(type, ref, agent.made + 1, res) \in Entries
  BY DEF Event, Entries, StreamInv
<1> QED
  BY <1>1 DEF Publish, Grows, StreamInv, view

LEMMA BridgeKeeps ==
  ASSUME StreamInv, Bridge
  PROVE  StreamInv' /\ Grows /\ UNCHANGED <<panel, messages, isStreaming>>
<1> DEFINE Made == "made" \in DOMAIN agent' /\ agent'.made \in Nat
<1> USE DEF Refs, Types
<1>1. CASE Receive
  <2>1. Made
    BY <1>1 DEF Receive, StreamInv
  <2> QED
    BY <1>1, <2>1, Published DEF Receive, StreamInv
<1>2. ASSUME NEW r \in Responses, Start(r)
      PROVE  StreamInv' /\ Grows /\ UNCHANGED <<panel, messages, isStreaming>>
  <2>1. Made
    BY <1>2 DEF Start, StreamInv
  <2> QED
    BY <1>2, <2>1, Published DEF Start, StreamInv
<1>3. ASSUME NEW r \in Responses, Chunk(r) \/ Complete(r)
      PROVE  StreamInv' /\ Grows /\ UNCHANGED <<panel, messages, isStreaming>>
  <2>1. CASE Chunk(r)
    <3>1. Made
      BY <2>1 DEF Chunk, StreamInv
    <3> QED
      BY <2>1, <3>1, Published DEF Chunk, StreamInv
  <2>2. CASE Complete(r)
    <3>1. Made
      BY <2>2 DEF Complete, StreamInv
    <3> QED
      BY <2>2, <3>1, Published DEF Complete, StreamInv
  <2> QED
    BY <1>3, <2>1, <2>2
<1>4. ASSUME NEW t \in Tools, StartTool(t)
      PROVE  StreamInv' /\ Grows /\ UNCHANGED <<panel, messages, isStreaming>>
  <2>1. Made
    BY <1>4 DEF StartTool, StreamInv
  <2> QED
    BY <1>4, <2>1, Published DEF StartTool, StreamInv
<1>5. ASSUME NEW t \in Tools, NEW res \in Results, CompleteTool(t, res)
      PROVE  StreamInv' /\ Grows /\ UNCHANGED <<panel, messages, isStreaming>>
  <2>1. Made
    BY <1>5 DEF CompleteTool, StreamInv
  <2> QED
    BY <1>5, <2>1, Published DEF CompleteTool, StreamInv
<1>6. CASE EndTurn
  <2>1. Made
    BY <1>6 DEF EndTurn, StreamInv
  <2> QED
    BY <1>6, <2>1, Published DEF EndTurn, StreamInv
<1>7. CASE AgentError
  <2>1. Made
    BY <1>7 DEF AgentError, StreamInv
  <2> QED
    BY <1>7, <2>1, Published DEF AgentError, StreamInv
<1>8. CASE Done
  <2>1. Publish("done", Nobody, "none") /\ agent'.made = agent.made + 1
    BY <1>8 DEF Done, StreamInv
  <2>2. "made" \in DOMAIN agent'
    <3>1. DOMAIN agent' = DOMAIN agent
      BY <1>8, Zenon DEF Done
    <3> QED
      BY <3>1 DEF StreamInv
  <2>3. Made
    BY <2>1, <2>2 DEF StreamInv
  <2> QED
    BY <2>1, <2>3, Published DEF StreamInv
<1>9. ASSUME NEW n \in 1 .. MaxEvents, Redeliver(n)
      PROVE  StreamInv' /\ Grows /\ UNCHANGED <<panel, messages, isStreaming>>
  <2>1. n \in 1 .. Len(log) /\ log' = log \o SubSeq(log, Len(log) - n + 1, Len(log))
    BY <1>9 DEF Redeliver
  <2>2. SubSeq(log, Len(log) - n + 1, Len(log)) \in Seq(Entries)
    BY <2>1 DEF StreamInv
  <2> QED
    BY <1>9, <2>1, <2>2 DEF Redeliver, StreamInv, Grows, view
<1> QED
  BY <1>1, <1>2, <1>3, <1>4, <1>5, <1>6, <1>7, <1>8, <1>9 DEF Bridge

LEMMA FlusherKeeps ==
  ASSUME StreamInv, Flush \/ CleanIdle
  PROVE  StreamInv' /\ Grows /\ UNCHANGED <<panel, messages, isStreaming>>
<1>1. log' = log /\ agent' = agent /\ UNCHANGED <<panel, messages, isStreaming>>
  BY DEF Flush, CleanIdle, view
<1>2. low' \in Nat /\ low' >= low
  <2>1. CASE Flush
    <3>1. low' = Max({low, Len(log) - Keep})
      BY <2>1 DEF Flush
    <3>2. low \in Int /\ Len(log) - Keep \in Int
      BY ConversationAssumption DEF StreamInv
    <3>3. low' \in {low, Len(log) - Keep} /\ low' >= low
      BY <3>1, <3>2, GreaterOf, Zenon
    <3> QED
      BY <3>2, <3>3 DEF StreamInv
  <2>2. CASE CleanIdle
    BY <2>2 DEF CleanIdle, StreamInv
  <2> QED
    BY <2>1, <2>2
<1> QED
  BY <1>1, <1>2 DEF StreamInv, Grows
-----------------------------------------------------------------------------
(* The last message of an answer                                           *)

LastIn(ms, r) ==
  LET own == {i \in DOMAIN ms : ms[i].role = "agent" /\ ms[i].ref = r}
  IN IF own = {} THEN 0 ELSE Max(own)

IsOf(ms, i, r) == i \in DOMAIN ms /\ ms[i].role = "agent" /\ ms[i].ref = r

LEMMA LastInIs ==
  ASSUME NEW ms \in Seq(Shown), NEW r
  PROVE  \/ /\ LastIn(ms, r) = 0
            /\ \A i \in DOMAIN ms : ~IsOf(ms, i, r)
         \/ /\ LastIn(ms, r) \in 1 .. Len(ms) /\ IsOf(ms, LastIn(ms, r), r)
            /\ \A i \in DOMAIN ms : IsOf(ms, i, r) => i <= LastIn(ms, r)
<1> DEFINE own == {i \in DOMAIN ms : ms[i].role = "agent" /\ ms[i].ref = r}
<1>1. CASE own = {}
  BY <1>1 DEF LastIn, IsOf
<1>2. CASE own # {}
  <2>1. own \in SUBSET (1 .. Len(ms)) /\ Len(ms) \in Nat
    OBVIOUS
  <2>2. Max(own) \in own /\ \A i \in own : Max(own) >= i
    BY <1>2, <2>1, GreatestOf
  <2>3. LastIn(ms, r) = Max(own)
    BY <1>2 DEF LastIn
  <2> QED
    BY <2>1, <2>2, <2>3 DEF IsOf
<1> QED
  BY <1>1, <1>2

\* A message more is the last of its answer, and of no other.
LEMMA AppendLast ==
  ASSUME NEW ms \in Seq(Shown), NEW m \in Shown
  PROVE  /\ Append(ms, m) \in Seq(Shown) /\ Len(Append(ms, m)) = Len(ms) + 1
         /\ \A i \in 1 .. Len(ms) : Append(ms, m)[i] = ms[i]
         /\ Append(ms, m)[Len(ms) + 1] = m
         /\ \A r : ~(m.role = "agent" /\ m.ref = r) => LastIn(Append(ms, m), r) = LastIn(ms, r)
         /\ m.role = "agent" => LastIn(Append(ms, m), m.ref) = Len(ms) + 1
<1> DEFINE nx == Append(ms, m)
<1>1. /\ nx \in Seq(Shown) /\ Len(nx) = Len(ms) + 1 /\ Len(ms) \in Nat
      /\ \A i \in 1 .. Len(ms) : nx[i] = ms[i]
      /\ nx[Len(ms) + 1] = m
      /\ DOMAIN nx = 1 .. (Len(ms) + 1) /\ DOMAIN ms = 1 .. Len(ms)
  OBVIOUS
<1> HIDE DEF nx
<1>2. ASSUME NEW r, ~(m.role = "agent" /\ m.ref = r)
      PROVE  LastIn(nx, r) = LastIn(ms, r)
  <2>1. {i \in DOMAIN nx : nx[i].role = "agent" /\ nx[i].ref = r}
          = {i \in DOMAIN ms : ms[i].role = "agent" /\ ms[i].ref = r}
    BY <1>1, <1>2
  <2> QED
    BY <2>1, Zenon DEF LastIn
<1>3. ASSUME m.role = "agent" PROVE LastIn(nx, m.ref) = Len(ms) + 1
  <2>1. IsOf(nx, Len(ms) + 1, m.ref)
    BY <1>1, <1>3 DEF IsOf
  <2>2. LastIn(nx, m.ref) \in 1 .. Len(nx) /\ Len(ms) + 1 <= LastIn(nx, m.ref)
    BY <1>1, <2>1, LastInIs DEF IsOf
  <2> QED
    BY <1>1, <2>2
<1> QED
  BY <1>1, <1>2, <1>3 DEF nx

\* Writing in a message leaves it the message of its answer.
LEMMA WrittenLast ==
  ASSUME NEW ms \in Seq(Shown), NEW nx \in Seq(Shown), Len(nx) = Len(ms),
         \A i \in 1 .. Len(ms) : nx[i].role = ms[i].role /\ nx[i].ref = ms[i].ref
  PROVE  \A r : LastIn(nx, r) = LastIn(ms, r)
<1> TAKE r
<1>1. {i \in DOMAIN nx : nx[i].role = "agent" /\ nx[i].ref = r}
        = {i \in DOMAIN ms : ms[i].role = "agent" /\ ms[i].ref = r}
  OBVIOUS
<1> QED
  BY <1>1, Zenon DEF LastIn

LEMMA LastOfIsLastIn ==
  \A r : LastOf(r) = LastIn(messages, r)
BY DEF LastOf, LastIn

-----------------------------------------------------------------------------
(* Steps that leave the screen                                             *)

LEMMA QuietStep ==
  ASSUME IInv, StreamInv', Grows, messages' = messages,
         "pos" \in DOMAIN panel', panel'.pos = panel.pos, isStreaming' => isStreaming
  PROVE  IInv'
<1> USE DEF IInv, ViewInv
<1>0. low \in Nat /\ low' \in Nat /\ low' >= low /\ panel.pos \in Nat
  BY DEF StreamInv, PanelInv, Grows
<1>1. PanelInv'
  BY DEF PanelInv, Grows, StreamInv
<1>2. ShownOnce'
  BY DEF ShownOnce
<1>3. \A k \in 1 .. panel.pos : log'[k] = log[k]
  BY DEF PanelInv, Grows, StreamInv
<1>a. \A k \in (low' + 1) .. panel.pos : k \in (low + 1) .. panel.pos /\ log'[k] = log[k]
  <2>1. \A k \in (low' + 1) .. panel.pos : k \in (low + 1) .. panel.pos /\ k \in 1 .. panel.pos
    BY <1>0, Later
  <2> QED
    BY <1>3, <2>1
<1>4. NothingSkipped'
  <2>1. \A r : LastOf(r)' = LastOf(r)
    BY DEF LastOf
  <2> QED
    BY <1>a, <2>1 DEF NothingSkipped
<1>5. SpinnerTrue'
  <2> SUFFICES ASSUME isStreaming' PROVE SpinnerTrue'
    BY DEF SpinnerTrue
  <2>1. PICK s \in 1 .. panel.pos :
          /\ log[s].type = "response_started"
          /\ \E i \in DOMAIN messages : messages[i].entry = s
          /\ \A k \in (Max({s, low}) + 1) .. panel.pos :
               log[k].type \notin {"response_completed", "agent_error", "done"}
    BY DEF SpinnerTrue
  <2>2. Max({s, low}) \in Nat /\ Max({s, low'}) \in Nat /\ Max({s, low}) <= Max({s, low'})
    <3>1. s \in Int /\ low \in Int /\ low' \in Int
      BY <1>0
    <3>2. Max({s, low}) \in {s, low}
      BY <3>1, GreaterOf, Zenon
    <3>3. /\ Max({s, low'}) \in {s, low'}
          /\ Max({s, low'}) >= s /\ Max({s, low'}) >= low'
      BY <3>1, GreaterOf, Zenon
    <3> QED
      BY <1>0, <3>2, <3>3
  <2>3. \A k \in (Max({s, low'}) + 1) .. panel.pos :
          k \in (Max({s, low}) + 1) .. panel.pos /\ log'[k] = log[k]
    BY <1>0, <1>3, <2>2
  <2>4. log'[s] = log[s]
    BY <1>3
  <2> HIDE DEF IInv, ViewInv
  <2> QED
    BY <2>1, <2>3, <2>4 DEF SpinnerTrue
<1>6. CompletedNotBlank'
  <2>1. \A r : LastOf(r)' = LastOf(r)
    BY DEF LastOf
  <2> QED
    BY <1>a, <2>1 DEF CompletedNotBlank
<1> QED
  BY <1>1, <1>2, <1>4, <1>5, <1>6

LEMMA Cleared ==
  ASSUME IInv, UNCHANGED <<log, low>>, "made" \in DOMAIN agent' /\ agent'.made \in Nat,
         messages' = <<>>, "pos" \in DOMAIN panel', panel'.pos = 0, isStreaming' = FALSE
  PROVE  IInv'
<1>1. StreamInv'
  BY DEF IInv, StreamInv
<1>2. PanelInv'
  BY DEF PanelInv, IInv, StreamInv
<1>3. \A k \in (low' + 1) .. panel'.pos : FALSE
  BY DEF IInv, StreamInv
<1> QED
  BY <1>1, <1>2, <1>3 DEF IInv, ViewInv, ShownOnce, NothingSkipped, SpinnerTrue, CompletedNotBlank
-----------------------------------------------------------------------------
(* Steps that pass an entry of the stream                                  *)

\* Nothing the stream still has lies between the last entry and the next one.
Passes(k) ==
  /\ k \in Nat /\ k > panel.pos /\ k > low /\ k <= Len(log)
  /\ \A j \in (low + 1) .. k : j \in (low + 1) .. panel.pos \/ j = k
  /\ UNCHANGED <<log, low, agent>>
  /\ "pos" \in DOMAIN panel' /\ panel'.pos = k

Ends == {"response_completed", "agent_error", "done"}
Shows == {"message_received", "response_started", "agent_error"}

LEMMA SpinnerStep ==
  ASSUME IInv, NEW k, Passes(k),
         \A i \in DOMAIN messages :
           \E j \in DOMAIN messages' : messages'[j].entry = messages[i].entry,
         isStreaming' =>
           \/ isStreaming /\ log[k].type \notin Ends
           \/ log[k].type = "response_started" /\ \E j \in DOMAIN messages' : messages'[j].entry = k
  PROVE  SpinnerTrue'
<1> SUFFICES ASSUME isStreaming' PROVE SpinnerTrue'
  BY DEF SpinnerTrue
<1>0. low \in Nat /\ panel.pos \in Nat /\ k \in Nat /\ k > panel.pos /\ k > low
  BY DEF IInv, StreamInv, PanelInv, Passes
<1>1. CASE isStreaming /\ log[k].type \notin Ends
  <2>1. PICK s \in 1 .. panel.pos :
          /\ log[s].type = "response_started"
          /\ \E i \in DOMAIN messages : messages[i].entry = s
          /\ \A j \in (Max({s, low}) + 1) .. panel.pos : log[j].type \notin Ends
    BY <1>1 DEF IInv, ViewInv, SpinnerTrue, Ends
  <2>2. Max({s, low}) \in {s, low} /\ Max({s, low}) >= s /\ Max({s, low}) >= low
    <3>1. s \in Int /\ low \in Int
      BY <1>0
    <3> QED
      BY <3>1, GreaterOf, Zenon
  <2>3. ASSUME NEW j \in (Max({s, low}) + 1) .. k PROVE log[j].type \notin Ends
    <3>1. j \in (low + 1) .. k
      BY <1>0, <2>2
    <3>2. CASE j = k
      BY <1>1, <3>2
    <3>3. CASE j \in (low + 1) .. panel.pos
      <4>1. j \in (Max({s, low}) + 1) .. panel.pos
        BY <1>0, <2>2, <3>3
      <4> QED
        BY <2>1, <4>1
    <3> QED
      BY <3>1, <3>2, <3>3 DEF Passes
  <2>4. s \in 1 .. k /\ \E i \in DOMAIN messages' : messages'[i].entry = s
    BY <1>0, <2>1
  <2> QED
    BY <2>1, <2>3, <2>4 DEF SpinnerTrue, Passes, Ends
<1>2. CASE log[k].type = "response_started" /\ \E j \in DOMAIN messages' : messages'[j].entry = k
  <2>1. Max({k, low}) \in {k, low} /\ Max({k, low}) >= k
    <3>1. k \in Int /\ low \in Int
      BY <1>0
    <3> QED
      BY <3>1, GreaterOf, Zenon
  <2>2. k \in 1 .. k /\ \A j \in (Max({k, low}) + 1) .. k : FALSE
    BY <1>0, <2>1
  <2> QED
    BY <1>2, <2>2 DEF SpinnerTrue, Passes
<1> QED
  BY <1>1, <1>2
\* d is c, or c with k at its end.
Longer(c, d, k) ==
  /\ DOMAIN c = 1 .. Len(c) /\ DOMAIN d = 1 .. Len(d)
  /\ Len(c) \in Nat /\ Len(d) \in {Len(c), Len(c) + 1}
  /\ \A n \in 1 .. Len(c) : d[n] = c[n]
  /\ Len(d) = Len(c) + 1 => d[Len(c) + 1] = k
  /\ Len(c) = 0 \/ d # <<>>

LEMMA LongerSame ==
  ASSUME NEW k \in Nat, NEW c \in Seq(Nat)
  PROVE  Longer(c, c, k)
<1>1. DOMAIN c = 1 .. Len(c) /\ Len(c) \in Nat /\ Len(c) # Len(c) + 1
  OBVIOUS
<1>2. Len(c) = 0 \/ c # <<>>
  OBVIOUS
<1> QED
  BY <1>1, <1>2, Zenon DEF Longer

LEMMA LongerAppend ==
  ASSUME NEW k \in Nat, NEW c \in Seq(Nat)
  PROVE  Append(c, k) \in Seq(Nat) /\ Longer(c, Append(c, k), k)
<1>1. DOMAIN c = 1 .. Len(c) /\ Len(c) \in Nat
  OBVIOUS
<1>2. /\ Append(c, k) \in Seq(Nat) /\ Len(Append(c, k)) = Len(c) + 1
      /\ DOMAIN Append(c, k) = 1 .. (Len(c) + 1)
      /\ \A n \in 1 .. Len(c) : Append(c, k)[n] = c[n]
      /\ Append(c, k)[Len(c) + 1] = k
  OBVIOUS
<1>3. Append(c, k) # <<>>
  BY <1>1, <1>2
<1> QED
  BY <1>1, <1>2, <1>3, Zenon DEF Longer

\* The entries of a content follow one another, and that of its message.
Ordered(e, c) ==
  /\ \A m, n \in 1 .. Len(c) : m < n => c[m] < c[n]
  /\ \A n \in 1 .. Len(c) : e < c[n]

LEMMA LongerOrdered ==
  ASSUME NEW p \in Nat, NEW k \in Nat, p < k, NEW e \in Nat, e <= p,
         NEW c \in Seq(Nat), NEW d \in Seq(Nat),
         Len(d) \in {Len(c), Len(c) + 1}, \A n \in 1 .. Len(c) : d[n] = c[n],
         Len(d) = Len(c) + 1 => d[Len(c) + 1] = k,
         \A n \in 1 .. Len(c) : c[n] <= p
  PROVE  /\ Ordered(e, c) => Ordered(e, d)
         /\ \A n \in 1 .. Len(d) : d[n] <= k
         /\ Range(c) \subseteq Range(d)
<1>1. /\ Len(c) \in Nat /\ (Len(d) = Len(c) \/ Len(d) = Len(c) + 1)
      /\ \A n \in 1 .. Len(c) : d[n] = c[n] /\ c[n] \in Nat /\ c[n] <= p
      /\ Len(d) = Len(c) + 1 => d[Len(c) + 1] = k
  OBVIOUS
<1>2. ASSUME NEW n \in 1 .. Len(d)
      PROVE  \/ n \in 1 .. Len(c) /\ d[n] = c[n] /\ d[n] \in Nat /\ d[n] <= p
             \/ n = Len(c) + 1 /\ d[n] = k
  <2>1. n \in 1 .. Len(c) \/ (n = Len(c) + 1 /\ Len(d) = Len(c) + 1)
    BY <1>1
  <2> QED
    BY <1>1, <2>1, Zenon
<1>3. ASSUME Ordered(e, c) PROVE Ordered(e, d)
  <2>1. ASSUME NEW m \in 1 .. Len(d), NEW n \in 1 .. Len(d), m < n PROVE d[m] < d[n]
    <3>1. m \in 1 .. Len(c)
      BY <1>1, <2>1
    <3>2. d[m] = c[m] /\ d[m] \in Nat /\ d[m] <= p
      BY <1>1, <3>1
    <3>3. CASE n \in 1 .. Len(c)
      <4>1. c[m] < c[n]
        BY <1>3, <2>1, <3>1, <3>3 DEF Ordered
      <4> QED
        BY <1>1, <3>2, <3>3, <4>1
    <3>4. CASE d[n] = k
      BY <3>2, <3>4
    <3> QED
      BY <1>2, <3>3, <3>4
  <2>2. \A n \in 1 .. Len(d) : e < d[n]
    BY <1>1, <1>2, <1>3 DEF Ordered
  <2> QED
    BY <2>1, <2>2 DEF Ordered
<1>4. \A n \in 1 .. Len(d) : d[n] <= k
  BY <1>1, <1>2
<1>5. Range(c) \subseteq Range(d)
  <2>1. Range(c) = {c[n] : n \in 1 .. Len(c)} /\ Range(d) = {d[n] : n \in 1 .. Len(d)}
    BY DEF Range
  <2>2. \A n \in 1 .. Len(c) : n \in 1 .. Len(d) /\ d[n] = c[n]
    BY <1>1
  <2> QED
    BY <2>1, <2>2, Zenon
<1> QED
  BY <1>3, <1>4, <1>5

\* The messages nx are those of ms, with k at the end of a content, or a
\* content full.
Rewritten(ms, nx, k) ==
  /\ nx \in Seq(Shown) /\ Len(nx) = Len(ms)
  /\ \A j \in 1 .. Len(ms) :
       /\ nx[j].role = ms[j].role /\ nx[j].ref = ms[j].ref
       /\ nx[j].entry = ms[j].entry
       /\ \/ nx[j].content = ms[j].content
          \/ nx[j].content = Append(ms[j].content, k)
       /\ ms[j].full => nx[j].full

\* An entry that writes in a message, or changes none.
Writes(k) ==
  /\ log[k].type \notin Shows
  /\ Rewritten(messages, messages', k)
  /\ LastOf(log[k].ref) # 0 /\ log[k].type = "response_chunk"
       => messages'[LastOf(log[k].ref)].content = Append(messages[LastOf(log[k].ref)].content, k)
  /\ LastOf(log[k].ref) # 0 /\ log[k].type = "response_completed"
       => \/ messages'[LastOf(log[k].ref)].content # <<>>
          \/ messages'[LastOf(log[k].ref)].full
  /\ isStreaming' => isStreaming /\ log[k].type \notin Ends

LEMMA WriteStep ==
  ASSUME IInv, NEW k, Passes(k), Writes(k)
  PROVE  IInv'
<1>0. /\ low \in Nat /\ panel.pos \in Nat /\ k \in Nat /\ k > panel.pos /\ k > low /\ k <= Len(log)
      /\ log' = log /\ low' = low /\ agent' = agent /\ panel'.pos = k /\ "pos" \in DOMAIN panel'
      /\ Len(messages) \in Nat /\ messages \in Seq(Shown) /\ log \in Seq(Entries)
      /\ \A j \in (low + 1) .. k : j \in (low + 1) .. panel.pos \/ j = k
  BY DEF IInv, StreamInv, PanelInv, Passes
<1>1. DOMAIN messages' = 1 .. Len(messages) /\ DOMAIN messages = 1 .. Len(messages)
  BY <1>0 DEF Writes, Rewritten
<1>2. ASSUME NEW i \in 1 .. Len(messages)
      PROVE  /\ messages[i].entry \in Nat /\ messages[i].entry <= panel.pos
             /\ messages'[i].entry = messages[i].entry
             /\ messages[i].content \in Seq(Nat) /\ messages'[i].content \in Seq(Nat)
             /\ Longer(messages[i].content, messages'[i].content, k)
             /\ \A n \in 1 .. Len(messages[i].content) : messages[i].content[n] <= panel.pos
  <2>1. messages[i] \in Shown
    BY <1>0
  <2>2. messages[i].entry \in Nat /\ messages[i].content \in Seq(Nat)
    BY <2>1 DEF Shown
  <2>3. \/ messages'[i].content = messages[i].content
        \/ messages'[i].content = Append(messages[i].content, k)
    BY DEF Writes, Rewritten
  <2>4. messages'[i].content \in Seq(Nat) /\ Longer(messages[i].content, messages'[i].content, k)
    BY <1>0, <2>2, <2>3, LongerSame, LongerAppend, Zenon
  <2>5. messages'[i].entry = messages[i].entry
    BY DEF Writes, Rewritten
  <2> QED
    BY <1>1, <2>2, <2>4, <2>5 DEF IInv, PanelInv
<1>3. ASSUME NEW i \in 1 .. Len(messages)
      PROVE  /\ Ordered(messages[i].entry, messages'[i].content)
             /\ DOMAIN messages'[i].content = 1 .. Len(messages'[i].content)
             /\ \A n \in 1 .. Len(messages'[i].content) : messages'[i].content[n] <= k
             /\ Range(messages[i].content) \subseteq Range(messages'[i].content)
  <2>1. Ordered(messages[i].entry, messages[i].content)
    <3>1. DOMAIN messages[i].content = 1 .. Len(messages[i].content)
      BY <1>2
    <3> QED
      BY <1>1, <3>1, Zenon DEF IInv, ViewInv, ShownOnce, Ordered
  <2>2. DOMAIN messages'[i].content = 1 .. Len(messages'[i].content)
    BY <1>2
  <2> DEFINE c == messages[i].content
             d == messages'[i].content
             e == messages[i].entry
  <2>3. /\ panel.pos \in Nat /\ k \in Nat /\ panel.pos < k /\ e \in Nat /\ e <= panel.pos
        /\ c \in Seq(Nat) /\ d \in Seq(Nat)
        /\ \A n \in 1 .. Len(c) : c[n] <= panel.pos
    BY <1>0, <1>2
  <2>4. /\ Len(d) \in {Len(c), Len(c) + 1} /\ \A n \in 1 .. Len(c) : d[n] = c[n]
        /\ Len(d) = Len(c) + 1 => d[Len(c) + 1] = k
    BY <1>2, Zenon DEF Longer
  <2> HIDE DEF c, d, e
  <2>5. /\ Ordered(e, c) => Ordered(e, d)
        /\ \A n \in 1 .. Len(d) : d[n] <= k
        /\ Range(c) \subseteq Range(d)
    BY <2>3, <2>4, LongerOrdered, Zenon
  <2> QED
    BY <2>1, <2>2, <2>5, Zenon DEF c, d, e
<1>4. StreamInv' /\ PanelInv'
  <2>1. \A i \in 1 .. Len(messages) : messages'[i].entry <= k
    BY <1>0, <1>2
  <2>2. messages' \in Seq(Shown)
    BY DEF Writes, Rewritten
  <2> QED
    BY <1>0, <1>1, <1>3, <2>1, <2>2 DEF IInv, StreamInv, PanelInv
<1>5. ShownOnce'
  <2>1. \A i, j \in DOMAIN messages :
          i < j /\ messages[i].entry # 0 /\ messages[j].entry # 0
            => messages[i].entry < messages[j].entry
    BY DEF IInv, ViewInv, ShownOnce
  <2> QED
    BY <1>1, <1>2, <1>3, <2>1 DEF ShownOnce, Ordered
<1>6. \A r : LastOf(r) = LastIn(messages, r) /\ LastOf(r)' = LastIn(messages', r)
  BY LastOfIsLastIn DEF LastOf, LastIn
<1>7. \A r : LastIn(messages', r) = LastIn(messages, r)
  BY <1>0, WrittenLast DEF Writes, Rewritten
<1>8. NothingSkipped'
  <2> SUFFICES ASSUME NEW j \in (low + 1) .. k
               PROVE  /\ log[j].type \in Shows => \E i \in DOMAIN messages' : messages'[i].entry = j
                      /\ log[j].type = "response_chunk" /\ LastIn(messages', log[j].ref) # 0
                           => \/ \E i \in DOMAIN messages' : j \in Range(messages'[i].content)
                              \/ \A i \in DOMAIN messages' :
                                   messages'[i].role = "agent" /\ messages'[i].ref = log[j].ref
                                     => messages'[i].entry > j
    BY <1>0, <1>6 DEF NothingSkipped, Shows
  <2>1. CASE j = k
    <3>1. log[k].type \notin Shows
      BY DEF Writes, Rewritten
    <3>2. SUFFICES ASSUME log[k].type = "response_chunk", LastIn(messages, log[k].ref) # 0
                   PROVE  \E i \in DOMAIN messages' : k \in Range(messages'[i].content)
      BY <1>7, <2>1, <3>1
    <3> DEFINE i == LastIn(messages, log[k].ref)
    <3>3. i \in 1 .. Len(messages)
      BY <1>0, <3>2, LastInIs
    <3>4. messages'[i].content = Append(messages[i].content, k)
      BY <1>6, <3>2 DEF Writes, Rewritten
    <3>5. messages[i].content \in Seq(Nat)
      BY <1>2, <3>3
    <3>6. k \in Range(Append(messages[i].content, k))
      <4> DEFINE c == messages[i].content
      <4>1. /\ Append(c, k)[Len(c) + 1] = k /\ Len(c) + 1 \in 1 .. Len(Append(c, k))
            /\ DOMAIN Append(c, k) = 1 .. Len(Append(c, k))
        BY <1>0, <3>5
      <4> QED
        BY <4>1 DEF Range
    <3> QED
      BY <1>1, <3>3, <3>4, <3>6
  <2>2. CASE j \in (low + 1) .. panel.pos
    <3>1. /\ log[j].type \in Shows => \E i \in DOMAIN messages : messages[i].entry = j
          /\ log[j].type = "response_chunk" /\ LastIn(messages, log[j].ref) # 0
               => \/ \E i \in DOMAIN messages : j \in Range(messages[i].content)
                  \/ \A i \in DOMAIN messages :
                       messages[i].role = "agent" /\ messages[i].ref = log[j].ref
                         => messages[i].entry > j
      BY <1>6, <2>2 DEF IInv, ViewInv, NothingSkipped, Shows
    <3>2. \A i \in 1 .. Len(messages) :
            /\ messages'[i].role = messages[i].role /\ messages'[i].ref = messages[i].ref
            /\ messages'[i].entry = messages[i].entry
      BY DEF Writes, Rewritten
    <3> QED
      BY <1>1, <1>3, <1>7, <3>1, <3>2
  <2> QED
    BY <1>0, <2>1, <2>2
<1>9. SpinnerTrue'
  <2>1. \A i \in DOMAIN messages :
           \E j \in DOMAIN messages' : messages'[j].entry = messages[i].entry
    BY <1>1, <1>2
  <2>2. isStreaming' => isStreaming /\ log[k].type \notin Ends
    BY DEF Writes, Rewritten
  <2> QED
    BY <2>1, <2>2, SpinnerStep
<1>10. CompletedNotBlank'
  <2> SUFFICES ASSUME NEW j \in (low + 1) .. k, log[j].type = "response_completed",
                      LastIn(messages', log[j].ref) # 0,
                      messages'[LastIn(messages', log[j].ref)].entry < j
               PROVE  \/ messages'[LastIn(messages', log[j].ref)].content # <<>>
                      \/ messages'[LastIn(messages', log[j].ref)].full
    BY <1>0, <1>6 DEF CompletedNotBlank
  <2> DEFINE i == LastIn(messages, log[j].ref)
  <2>1. i \in 1 .. Len(messages) /\ i = LastIn(messages', log[j].ref) /\ i = LastOf(log[j].ref)
    BY <1>0, <1>6, <1>7, LastInIs
  <2>2. CASE j = k
    BY <2>1, <2>2 DEF Writes, Rewritten
  <2>3. CASE j \in (low + 1) .. panel.pos
    <3>1. messages[i].content # <<>> \/ messages[i].full
      BY <1>2, <2>1, <2>3 DEF IInv, ViewInv, CompletedNotBlank
    <3>2. messages[i].full => messages'[i].full
      BY <2>1 DEF Writes, Rewritten
    <3>3. messages[i].content # <<>> => messages'[i].content # <<>>
      BY <1>2, <2>1 DEF Longer
    <3> QED
      BY <2>1, <3>1, <3>2, <3>3
  <2> QED
    BY <1>0, <2>2, <2>3
<1> QED
  BY <1>4, <1>5, <1>8, <1>9, <1>10 DEF IInv, ViewInv

\* A chunk is written in a message, and a full response.
LEMMA WritesContent ==
  ASSUME NEW k \in Nat, NEW ms \in Seq(Shown), NEW i \in 1 .. Len(ms),
         NEW nx, nx = [ms EXCEPT ![i].content = Append(ms[i].content, k)]
  PROVE  Rewritten(ms, nx, k) /\ nx[i].content = Append(ms[i].content, k)
<1> DEFINE m == [ms[i] EXCEPT !.content = Append(ms[i].content, k)]
<1>1. ms[i] \in Shown
  OBVIOUS
<1>a. Append(ms[i].content, k) \in Seq(Nat)
  <2>1. ms[i].content \in Seq(Nat)
    BY <1>1 DEF Shown
  <2> QED
    BY <2>1
<1>2. m \in Shown
  BY <1>1, <1>a DEF Shown
<1>3. nx = [ms EXCEPT ![i] = m]
  OBVIOUS
<1>4. nx \in Seq(Shown) /\ Len(nx) = Len(ms)
  BY <1>2, <1>3
<1>5. nx[i] = m /\ \A j \in 1 .. Len(ms) : j # i => nx[j] = ms[j]
  <2> HIDE DEF m
  <2> QED
    BY <1>3
<1>6. /\ nx[i].role = ms[i].role /\ nx[i].ref = ms[i].ref
      /\ nx[i].entry = ms[i].entry /\ nx[i].content = Append(ms[i].content, k)
  BY <1>1, <1>5 DEF Shown
<1>7. nx[i].full = ms[i].full
  <2>1. m.full = ms[i].full
    BY <1>1 DEF Shown
  <2> HIDE DEF m
  <2> QED
    BY <1>5, <2>1
<1> QED
  BY <1>4, <1>5, <1>6, <1>7, Zenon DEF Rewritten

LEMMA WritesFull ==
  ASSUME NEW k, NEW ms \in Seq(Shown), NEW i \in 1 .. Len(ms),
         NEW nx, nx = [ms EXCEPT ![i].full = TRUE]
  PROVE  Rewritten(ms, nx, k) /\ nx[i].full
<1> DEFINE m == [ms[i] EXCEPT !.full = TRUE]
<1>1. ms[i] \in Shown
  OBVIOUS
<1>2. m \in Shown
  BY <1>1 DEF Shown
<1>3. nx = [ms EXCEPT ![i] = m]
  OBVIOUS
<1>4. nx \in Seq(Shown) /\ Len(nx) = Len(ms)
  BY <1>2, <1>3
<1>5. nx[i] = m /\ \A j \in 1 .. Len(ms) : j # i => nx[j] = ms[j]
  <2> HIDE DEF m
  <2> QED
    BY <1>3
<1>6. /\ nx[i].role = ms[i].role /\ nx[i].ref = ms[i].ref
      /\ nx[i].entry = ms[i].entry /\ nx[i].content = ms[i].content
  BY <1>1, <1>5 DEF Shown
<1>7. nx[i].full
  <2>1. "full" \in DOMAIN ms[i]
    BY <1>1 DEF Shown
  <2> QED
    BY <1>5, <2>1, Zenon
<1> QED
  BY <1>4, <1>5, <1>6, <1>7, Zenon DEF Rewritten

\* A message more: that of an entry that shows one, or one of the user.
Adds(m) ==
  /\ messages' = Append(messages, m) /\ m.content = <<>>
  /\ \/ /\ Passes(m.entry) /\ log[m.entry].type \in Shows
        /\ isStreaming' => \/ isStreaming /\ log[m.entry].type \notin Ends
                           \/ log[m.entry].type = "response_started"
     \/ /\ m.entry = 0 /\ m.role # "agent" /\ UNCHANGED <<log, low, agent, isStreaming>>
        /\ "pos" \in DOMAIN panel' /\ panel'.pos = panel.pos

LEMMA AddStep ==
  ASSUME IInv, NEW m \in Shown, Adds(m)
  PROVE  IInv'
<1> DEFINE p == panel'.pos
           old == Len(messages)
<1>0. /\ low \in Nat /\ panel.pos \in Nat /\ panel.pos <= Len(log) /\ m.entry \in Nat
      /\ old \in Nat /\ messages \in Seq(Shown) /\ log \in Seq(Entries)
  BY DEF IInv, StreamInv, PanelInv, Shown
<1>1. /\ log' = log /\ low' = low /\ agent' = agent /\ "pos" \in DOMAIN panel'
      /\ p \in Nat /\ p <= Len(log) /\ panel.pos <= p /\ m.entry <= p
      /\ (m.entry = 0 /\ m.role # "agent") \/ (m.entry = p /\ panel.pos < p)
      /\ \A j \in (low + 1) .. p :
           j \in (low + 1) .. panel.pos \/ (j = m.entry /\ log[j].type \in Shows)
  <2>1. CASE Passes(m.entry) /\ log[m.entry].type \in Shows
    <3>1. /\ log' = log /\ low' = low /\ agent' = agent /\ "pos" \in DOMAIN panel'
          /\ p = m.entry /\ m.entry <= Len(log) /\ m.entry > panel.pos
          /\ \A j \in (low + 1) .. m.entry : j \in (low + 1) .. panel.pos \/ j = m.entry
      BY <2>1 DEF Passes
    <3>2. p \in Nat /\ p <= Len(log) /\ panel.pos <= p /\ m.entry <= p /\ panel.pos < p
      BY <1>0, <3>1
    <3>3. \A j \in (low + 1) .. p :
            j \in (low + 1) .. panel.pos \/ (j = m.entry /\ log[j].type \in Shows)
      <4> TAKE j \in (low + 1) .. p
      <4>1. j \in (low + 1) .. panel.pos \/ j = m.entry
        BY <3>1
      <4> QED
        BY <2>1, <4>1, Zenon
    <3> QED
      BY <3>1, <3>2, <3>3, Zenon
  <2>2. CASE /\ m.entry = 0 /\ m.role # "agent" /\ UNCHANGED <<log, low, agent>>
             /\ "pos" \in DOMAIN panel' /\ panel'.pos = panel.pos
    <3>1. p = panel.pos
      BY <2>2
    <3>2. p \in Nat /\ p <= Len(log) /\ panel.pos <= p /\ m.entry <= p
      BY <1>0, <2>2, <3>1
    <3>3. \A j \in (low + 1) .. p : j \in (low + 1) .. panel.pos
      BY <3>1
    <3> QED
      BY <1>0, <2>2, <3>2, <3>3, Zenon
  <2> QED
    BY <2>1, <2>2 DEF Adds
<1>2. /\ messages' \in Seq(Shown) /\ Len(messages') = old + 1
      /\ \A i \in 1 .. old : messages'[i] = messages[i]
      /\ messages'[old + 1] = m
      /\ \A r : ~(m.role = "agent" /\ m.ref = r) => LastIn(messages', r) = LastIn(messages, r)
      /\ m.role = "agent" => LastIn(messages', m.ref) = old + 1
  <2>1. messages' = Append(messages, m)
    BY DEF Adds
  <2>2. messages \in Seq(Shown)
    BY <1>0
  <2> HIDE DEF Adds, IInv
  <2> QED
    BY <2>1, <2>2, AppendLast
<1>3. /\ DOMAIN messages' = 1 .. (old + 1) /\ DOMAIN messages = 1 .. old
      /\ \A i \in 1 .. (old + 1) : i \in 1 .. old \/ i = old + 1
      /\ \A i \in 1 .. old : i \in 1 .. (old + 1)
      /\ old + 1 \in 1 .. (old + 1)
  BY <1>0, <1>2
<1>4. m.content = <<>> /\ DOMAIN m.content = {}
  <2>1. m.content = <<>>
    BY DEF Adds
  <2> QED
    BY <2>1
<1> HIDE DEF old
<1>a. ASSUME NEW i \in 1 .. old
      PROVE  /\ messages[i].entry \in Nat /\ messages[i].entry <= panel.pos
             /\ messages[i].content \in Seq(Nat)
             /\ \A n \in DOMAIN messages[i].content :
                  messages[i].content[n] <= panel.pos /\ messages[i].content[n] \in Nat
  <2>1. messages[i] \in Shown
    BY <1>0, <1>3
  <2>2. messages[i].entry \in Nat /\ messages[i].content \in Seq(Nat)
    BY <2>1 DEF Shown
  <2>3. i \in DOMAIN messages
    BY <1>3
  <2>4. /\ messages[i].entry <= panel.pos
        /\ \A n \in DOMAIN messages[i].content : messages[i].content[n] <= panel.pos
    BY <2>3, Zenon DEF IInv, PanelInv
  <2>5. \A n \in DOMAIN messages[i].content : messages[i].content[n] \in Nat
    BY <2>2
  <2> QED
    BY <2>2, <2>4, <2>5
<1>5. StreamInv' /\ PanelInv'
  <2>1. StreamInv'
    BY <1>1 DEF IInv, StreamInv
  <2>2. ASSUME NEW i \in 1 .. old
        PROVE  /\ messages'[i].entry <= p
               /\ \A n \in DOMAIN messages'[i].content : messages'[i].content[n] <= p
    <3>1. messages'[i] = messages[i]
      BY <1>2
    <3>2. messages[i].entry <= p
      BY <1>0, <1>1, <1>a
    <3>3. \A n \in DOMAIN messages[i].content : messages[i].content[n] <= p
      BY <1>0, <1>1, <1>a
    <3> QED
      BY <3>1, <3>2, <3>3
  <2> QED
    BY <1>1, <1>2, <1>3, <1>4, <2>1, <2>2 DEF PanelInv
<1>6. ShownOnce'
  <2>0. /\ \A i, j \in 1 .. old :
             i < j /\ messages[i].entry # 0 /\ messages[j].entry # 0
               => messages[i].entry < messages[j].entry
        /\ \A i \in 1 .. old :
             LET c == messages[i].content
             IN /\ \A a, b \in DOMAIN c : a < b => c[a] < c[b]
                /\ \A n \in DOMAIN c : messages[i].entry < c[n]
    BY <1>3 DEF IInv, ViewInv, ShownOnce
  <2>1. ASSUME NEW i \in 1 .. (old + 1), NEW j \in 1 .. (old + 1),
               i < j, messages'[i].entry # 0, messages'[j].entry # 0
        PROVE  messages'[i].entry < messages'[j].entry
    <3>0. old \in Nat
      BY <1>0 DEF old
    <3>1. i \in 1 .. old
      BY <2>1, <3>0
    <3>2. CASE j \in 1 .. old
      BY <1>2, <2>0, <2>1, <3>1, <3>2
    <3>3. CASE j = old + 1
      <4>1. m.entry = p /\ panel.pos < p
        BY <1>1, <1>2, <2>1, <3>3
      <4>2. messages[i].entry \in Nat /\ messages[i].entry <= panel.pos
        BY <1>a, <3>1
      <4> QED
        BY <1>0, <1>1, <1>2, <3>1, <3>3, <4>1, <4>2
    <3> QED
      BY <1>3, <3>2, <3>3
  <2>2. ASSUME NEW i \in 1 .. (old + 1)
        PROVE  LET c == messages'[i].content
               IN /\ \A a, b \in DOMAIN c : a < b => c[a] < c[b]
                  /\ \A n \in DOMAIN c : messages'[i].entry < c[n]
    <3>1. CASE i \in 1 .. old
      BY <1>2, <2>0, <3>1
    <3>2. CASE i = old + 1
      BY <1>2, <1>4, <3>2
    <3> QED
      BY <1>3, <3>1, <3>2
  <2> QED
    BY <1>3, <2>1, <2>2 DEF ShownOnce
<1>7. \A r : LastOf(r) = LastIn(messages, r) /\ LastOf(r)' = LastIn(messages', r)
  BY LastOfIsLastIn DEF LastOf, LastIn
<1>8. NothingSkipped'
  <2> SUFFICES ASSUME NEW j \in (low + 1) .. p
               PROVE  /\ log[j].type \in Shows => \E i \in DOMAIN messages' : messages'[i].entry = j
                      /\ log[j].type = "response_chunk" /\ LastIn(messages', log[j].ref) # 0
                           => \/ \E i \in DOMAIN messages' : j \in Range(messages'[i].content)
                              \/ \A i \in DOMAIN messages' :
                                   messages'[i].role = "agent" /\ messages'[i].ref = log[j].ref
                                     => messages'[i].entry > j
    BY <1>1, <1>7 DEF NothingSkipped, Shows
  <2>1. CASE j = m.entry /\ log[j].type \in Shows
    BY <1>2, <1>3, <2>1 DEF Shows
  <2>2. CASE j \in (low + 1) .. panel.pos
    <3>1. /\ log[j].type \in Shows => \E i \in 1 .. old : messages[i].entry = j
          /\ log[j].type = "response_chunk" /\ LastIn(messages, log[j].ref) # 0
               => \/ \E i \in 1 .. old : j \in Range(messages[i].content)
                  \/ \A i \in 1 .. old :
                       messages[i].role = "agent" /\ messages[i].ref = log[j].ref
                         => messages[i].entry > j
      BY <1>3, <1>7, <2>2 DEF IInv, ViewInv, NothingSkipped, Shows
    <3>2. LastIn(messages, log[j].ref) = 0
            => \A i \in 1 .. old : ~(messages[i].role = "agent" /\ messages[i].ref = log[j].ref)
      <4>1. 0 \notin 1 .. old
        OBVIOUS
      <4> QED
        BY <1>0, <1>3, <4>1, LastInIs, Zenon DEF IsOf, old
    <3>3. m.role = "agent" => m.entry > j
      BY <1>0, <1>1, <2>2
    <3>4. CASE log[j].type \in Shows
      BY <1>2, <1>3, <3>1, <3>4 DEF Shows
    <3>5. CASE log[j].type = "response_chunk"
      <4>1. CASE \E i \in 1 .. old : j \in Range(messages[i].content)
        BY <1>2, <1>3, <3>5, <4>1 DEF Shows
      <4>2. CASE \A i \in 1 .. old :
                   messages[i].role = "agent" /\ messages[i].ref = log[j].ref
                     => messages[i].entry > j
        BY <1>2, <1>3, <3>3, <3>5, <4>2 DEF Shows
      <4> QED
        BY <3>1, <3>2, <3>5, <4>1, <4>2
    <3> QED
      BY <3>4, <3>5
  <2> QED
    BY <1>1, <2>1, <2>2
<1>9. SpinnerTrue'
  <2>0. /\ \A i \in DOMAIN messages :
             \E j \in DOMAIN messages' : messages'[j].entry = messages[i].entry
        /\ \E j \in DOMAIN messages' : messages'[j].entry = m.entry
    BY <1>2, <1>3
  <2>1. CASE Passes(m.entry)
    <3>1. isStreaming' => \/ isStreaming /\ log[m.entry].type \notin Ends
                          \/ log[m.entry].type = "response_started"
      <4>1. m.entry # 0
        BY <1>0, <2>1 DEF Passes
      <4> QED
        BY <4>1, Zenon DEF Adds
    <3> QED
      BY <2>0, <2>1, <3>1, SpinnerStep
  <2>2. CASE UNCHANGED <<log, low, isStreaming>> /\ panel'.pos = panel.pos
    BY <2>0, <2>2 DEF IInv, ViewInv, SpinnerTrue
  <2> QED
    BY <2>1, <2>2, Zenon DEF Adds
<1>10. CompletedNotBlank'
  <2> SUFFICES ASSUME NEW j \in (low + 1) .. p, log[j].type = "response_completed",
                      LastIn(messages', log[j].ref) # 0,
                      messages'[LastIn(messages', log[j].ref)].entry < j
               PROVE  \/ messages'[LastIn(messages', log[j].ref)].content # <<>>
                      \/ messages'[LastIn(messages', log[j].ref)].full
    BY <1>1, <1>7 DEF CompletedNotBlank
  <2>1. j \in (low + 1) .. panel.pos
    BY <1>1 DEF Shows
  <2>2. CASE m.role = "agent" /\ m.ref = log[j].ref
    <3>1. messages'[LastIn(messages', log[j].ref)] = m
      BY <1>2, <2>2
    <3> QED
      BY <1>0, <1>1, <2>1, <2>2, <3>1
  <2>3. CASE ~(m.role = "agent" /\ m.ref = log[j].ref)
    <3> DEFINE i == LastIn(messages, log[j].ref)
    <3>1. i = LastIn(messages', log[j].ref) /\ i # 0
      BY <1>2, <2>3
    <3>2. i \in 1 .. old
      BY <1>0, <3>1, LastInIs DEF old
    <3>3. messages[i].content # <<>> \/ messages[i].full
      BY <1>2, <1>7, <2>1, <3>1, <3>2 DEF IInv, ViewInv, CompletedNotBlank
    <3> QED
      BY <1>2, <3>1, <3>2, <3>3
  <2> QED
    BY <2>2, <2>3
<1> QED
  BY <1>5, <1>6, <1>8, <1>9, <1>10 DEF IInv, ViewInv
-----------------------------------------------------------------------------
(* Every step of the panel                                                 *)

LEMMA UserMessage ==
  ASSUME NEW k \in Nat, NEW role \in {"user", "error"}
  PROVE  /\ Message(role, Nobody, k) \in Shown
         /\ Message(role, Nobody, k).entry = k /\ Message(role, Nobody, k).content = <<>>
         /\ Message(role, Nobody, k).role = role
BY DEF Message, Shown, Refs

LEMMA DeliverStep ==
  ASSUME IInv, Deliver
  PROVE  IInv'
<1> DEFINE k == NextEntry(panel.pos)
<1>0. /\ low \in Nat /\ panel.pos \in Nat /\ "pos" \in DOMAIN panel
      /\ messages \in Seq(Shown) /\ log \in Seq(Entries)
  BY DEF IInv, StreamInv, PanelInv
<1>1. /\ k \in Nat /\ k > panel.pos /\ k > low
      /\ \A j \in (low + 1) .. k : j \in (low + 1) .. panel.pos \/ j = k
  <2>1. panel.pos \in Int /\ low \in Int
    BY <1>0
  <2>2. /\ Max({panel.pos, low}) \in {panel.pos, low}
        /\ Max({panel.pos, low}) >= panel.pos /\ Max({panel.pos, low}) >= low
    BY <2>1, GreaterOf, Zenon
  <2> DEFINE last == Max({panel.pos, low})
  <2>3. k = last + 1 /\ last \in Nat /\ last >= panel.pos /\ last >= low
    BY <1>0, <2>2 DEF NextEntry
  <2>4. last = panel.pos \/ last = low
    BY <2>2
  <2> HIDE DEF last, k
  <2> QED
    BY <1>0, <2>3, <2>4
<1>2. k <= Len(log) /\ OnMessage(k) /\ panel' = [panel EXCEPT !.pos = k] /\ UNCHANGED stream
  BY DEF Deliver
<1> HIDE DEF k
<1>3. Passes(k)
  BY <1>0, <1>1, <1>2 DEF Passes, stream
<1>4. log[k] \in Entries /\ log[k].type \in Types /\ log[k].ref \in Refs
  <2>1. log[k] \in Entries
    BY <1>0, <1>1, <1>2
  <2> QED
    BY <2>1 DEF Entries
<1>5. CASE log[k].type = "message_received"
  <2>1. messages' = Append(messages, Message("user", Nobody, k)) /\ isStreaming' = isStreaming
    BY <1>2, <1>5 DEF OnMessage
  <2>2. Adds(Message("user", Nobody, k))
    BY <1>1, <1>3, <1>5, <2>1, UserMessage DEF Adds, Shows, Ends
  <2> QED
    BY <1>1, <2>2, AddStep, UserMessage
<1>6. CASE log[k].type = "agent_error"
  <2>1. messages' = Append(messages, Message("error", Nobody, k)) /\ isStreaming' = FALSE
    BY <1>2, <1>6 DEF OnMessage
  <2>2. Adds(Message("error", Nobody, k))
    BY <1>1, <1>3, <1>6, <2>1, UserMessage DEF Adds, Shows, Ends
  <2> QED
    BY <1>1, <2>2, AddStep, UserMessage
<1>7. CASE log[k].type = "response_started"
  <2> DEFINE m == Message("agent", log[k].ref, k)
  <2>1. messages' = Append(messages, m) /\ isStreaming' = TRUE
    BY <1>2, <1>7 DEF OnMessage
  <2>2. m \in Shown /\ m.entry = k /\ m.content = <<>>
    BY <1>1, <1>4 DEF Message, Shown
  <2> HIDE DEF m
  <2>3. Adds(m)
    BY <1>1, <1>3, <1>7, <2>1, <2>2 DEF Adds, Shows
  <2> QED
    BY <2>2, <2>3, AddStep
<1>8. CASE log[k].type \notin Shows
  <2> DEFINE i == LastOf(log[k].ref)
  <2>1. i = 0 \/ i \in 1 .. Len(messages)
    BY <1>0, LastInIs, LastOfIsLastIn
  <2> HIDE DEF i
  <2>2. CASE log[k].type = "response_chunk"
    <3>1. /\ isStreaming' = isStreaming
          /\ messages' = IF i = 0 THEN messages
                         ELSE [messages EXCEPT ![i].content = Append(@, k)]
      BY <1>2, <2>2 DEF OnMessage, ResponseChunk, i
    <3>2. Writes(k)
      <4>1. CASE i = 0
        BY <1>0, <1>8, <2>2, <3>1, <4>1 DEF Writes, Rewritten, Ends, i
      <4>2. CASE i # 0
        <5>1. i \in 1 .. Len(messages) /\ messages' = [messages EXCEPT ![i].content = Append(messages[i].content, k)]
          BY <2>1, <3>1, <4>2
        <5>a. ASSUME NEW nx, nx = [messages EXCEPT ![i].content = Append(messages[i].content, k)]
              PROVE  Rewritten(messages, nx, k) /\ nx[i].content = Append(messages[i].content, k)
          <6>1. k \in Nat /\ messages \in Seq(Shown) /\ i \in 1 .. Len(messages)
            BY <1>0, <1>1, <5>1
          <6> QED
            BY <5>a, <6>1, WritesContent, Zenon
        <5>2. Rewritten(messages, messages', k) /\ messages'[i].content = Append(messages[i].content, k)
          BY <5>1, <5>a, Zenon
        <5>3. log[k].type \notin Ends /\ log[k].type # "response_completed"
          BY <2>2 DEF Ends
        <5> QED
          BY <1>8, <3>1, <5>2, <5>3, Zenon DEF Writes, i
      <4> QED
        BY <4>1, <4>2
    <3> QED
      BY <1>3, <3>2, WriteStep
  <2>3. CASE log[k].type = "response_completed"
    <3>1. /\ isStreaming' = FALSE
          /\ messages' = IF i = 0 \/ messages[i].content # <<>> THEN messages
                         ELSE [messages EXCEPT ![i].full = TRUE]
      BY <1>2, <2>3 DEF OnMessage, ResponseCompleted, i
    <3>2. Writes(k)
      <4>1. CASE i = 0 \/ messages[i].content # <<>>
        <5>1. messages' = messages
          BY <3>1, <4>1
        <5> QED
          BY <1>0, <1>8, <2>3, <3>1, <4>1, <5>1 DEF Writes, Rewritten, i
      <4>2. CASE i # 0 /\ ~(messages[i].content # <<>>)
        <5>1. i \in 1 .. Len(messages) /\ messages' = [messages EXCEPT ![i].full = TRUE]
          BY <2>1, <3>1, <4>2
        <5>a. ASSUME NEW nx, nx = [messages EXCEPT ![i].full = TRUE]
              PROVE  Rewritten(messages, nx, k) /\ nx[i].full
          <6>1. messages \in Seq(Shown) /\ i \in 1 .. Len(messages)
            BY <1>0, <5>1
          <6> QED
            BY <5>a, <6>1, WritesFull, Zenon
        <5>2. Rewritten(messages, messages', k) /\ messages'[i].full
          BY <5>1, <5>a, Zenon
        <5> QED
          BY <1>8, <2>3, <3>1, <5>2, Zenon DEF Writes, i
      <4> QED
        BY <4>1, <4>2
    <3> QED
      BY <1>3, <3>2, WriteStep
  <2>4. CASE log[k].type \notin {"response_chunk", "response_completed"}
    <3>1. messages' = messages /\ (isStreaming' => isStreaming /\ log[k].type \notin Ends)
      BY <1>2, <1>8, <2>4 DEF OnMessage, Shows, Ends, view
    <3>2. Writes(k)
      BY <1>0, <1>8, <2>4, <3>1 DEF Writes, Rewritten
    <3> QED
      BY <1>3, <3>2, WriteStep
  <2> QED
    BY <2>2, <2>3, <2>4
<1> QED
  BY <1>5, <1>6, <1>7, <1>8 DEF Shows

LEMMA PanelStep ==
  ASSUME IInv, Panel
  PROVE  IInv'
<1>0. /\ StreamInv /\ low \in Nat /\ log \in Seq(Entries) /\ "made" \in DOMAIN agent /\ agent.made \in Nat
      /\ "pos" \in DOMAIN panel /\ panel.pos \in Nat
  BY DEF IInv, StreamInv, PanelInv
<1>1. CASE OpenPanel \/ TokenFails \/ Accepted \/ Fails \/ HideAndShow \/ Closes
  <2>1. /\ UNCHANGED <<log, low, agent, messages>>
        /\ isStreaming' = isStreaming \/ isStreaming' = FALSE
    BY <1>1 DEF OpenPanel, TokenFails, Accepted, Fails, HideAndShow, Closes, stream, view
  <2>2. "pos" \in DOMAIN panel' /\ panel'.pos = panel.pos
    <3>1. CASE OpenPanel
      BY <1>0, <3>1 DEF OpenPanel
    <3>2. CASE TokenFails
      BY <1>0, <3>2 DEF TokenFails
    <3>3. CASE Accepted
      BY <1>0, <3>3 DEF Accepted
    <3>4. CASE Fails
      BY <1>0, <3>4 DEF Fails
    <3>5. CASE HideAndShow
      BY <1>0, <3>5 DEF HideAndShow
    <3>6. CASE Closes
      BY <1>0, <3>6 DEF Closes
    <3> QED
      BY <1>1, <3>1, <3>2, <3>3, <3>4, <3>5, <3>6
  <2>3. StreamInv' /\ Grows
    BY <1>0, <2>1 DEF StreamInv, Grows
  <2>4. isStreaming' => isStreaming
    BY <2>1
  <2> QED
    BY <2>1, <2>2, <2>3, <2>4, QuietStep
<1>2. CASE Connect
  <2>1. "pos" \in DOMAIN panel' /\ panel'.pos = 0
    BY <1>0, <1>2 DEF Connect
  <2> QED
    BY <1>0, <1>2, <2>1, Cleared DEF Connect, stream
<1>3. CASE ClosePanel
  <2>1. "pos" \in DOMAIN panel' /\ panel'.pos = 0
    BY <1>0, <1>3 DEF ClosePanel
  <2>2. "made" \in DOMAIN agent' /\ agent'.made \in Nat
    BY <1>0, <1>3 DEF ClosePanel
  <2> QED
    BY <1>3, <2>1, <2>2, Cleared DEF ClosePanel
<1>4. CASE Deliver
  BY <1>4, DeliverStep
<1>5. CASE HandleSendMessage
  <2>1. /\ messages' = Append(messages, Message("user", Nobody, 0))
        /\ UNCHANGED <<log, low, agent, isStreaming>>
    BY <1>5 DEF HandleSendMessage, stream
  <2>2. "pos" \in DOMAIN panel' /\ panel'.pos = panel.pos
    BY <1>0, <1>5 DEF HandleSendMessage
  <2>3. /\ Message("user", Nobody, 0) \in Shown
        /\ Message("user", Nobody, 0).entry = 0 /\ Message("user", Nobody, 0).content = <<>>
        /\ Message("user", Nobody, 0).role # "agent"
    BY UserMessage
  <2>4. Adds(Message("user", Nobody, 0))
    BY <2>1, <2>2, <2>3, Zenon DEF Adds
  <2> QED
    BY <2>3, <2>4, AddStep
<1>6. ASSUME NEW reached \in BOOLEAN, Sent(reached) PROVE IInv'
  <2>1. UNCHANGED <<log, low, messages, isStreaming>>
    BY <1>6 DEF Sent, view
  <2>2. "pos" \in DOMAIN panel' /\ panel'.pos = panel.pos
    BY <1>0, <1>6 DEF Sent
  <2>3. "made" \in DOMAIN agent' /\ agent'.made \in Nat
    BY <1>0, <1>6 DEF Sent
  <2>4. StreamInv' /\ Grows
    BY <1>0, <2>1, <2>3 DEF StreamInv, Grows
  <2> QED
    BY <2>1, <2>2, <2>4, QuietStep, Zenon
<1> QED
  BY <1>1, <1>2, <1>3, <1>4, <1>5, <1>6 DEF Panel

-----------------------------------------------------------------------------
(* The theorems                                                            *)

LEMMA Invariant == Spec => []IInv
<1>1. Init => IInv
  BY InitAll
<1>2. IInv /\ [Next]_vars => IInv'
  <2> SUFFICES ASSUME IInv, [Next]_vars PROVE IInv'
    OBVIOUS
  <2>0. StreamInv /\ "pos" \in DOMAIN panel
    BY DEF IInv, PanelInv
  <2>1. CASE Bridge \/ Flush \/ CleanIdle
    <3>1. StreamInv' /\ Grows /\ UNCHANGED <<panel, messages, isStreaming>>
      BY <2>0, <2>1, BridgeKeeps, FlusherKeeps
    <3> QED
      BY <2>0, <3>1, QuietStep
  <2>2. CASE Panel
    BY <2>2, PanelStep
  <2>3. CASE UNCHANGED vars
    <3>1. UNCHANGED <<log, low, agent, panel, messages, isStreaming>>
      BY <2>3 DEF vars
    <3>2. StreamInv' /\ Grows
      BY <2>0, <3>1 DEF StreamInv, Grows
    <3> QED
      BY <2>0, <3>1, <3>2, QuietStep
  <2> QED
    BY <2>1, <2>2, <2>3 DEF Next
<1> QED
  BY <1>1, <1>2, PTL DEF Spec

\* However often the connection is lost, resumed or opened again, and batches
\* are posted again, the panel shows every entry at most once and in the order
\* of the stream.
THEOREM EntriesOnce == Spec => []ShownOnce
<1>1. IInv => ShownOnce
  BY DEF IInv, ViewInv
<1> QED
  BY <1>1, Invariant, PTL

\* What the panel passed and the stream still has is on the screen, whatever
\* is trimmed while it reads.
THEOREM EntriesAll == Spec => []NothingSkipped
<1>1. IInv => NothingSkipped
  BY DEF IInv, ViewInv
<1> QED
  BY <1>1, Invariant, PTL

\* The dots stand for an answer that nothing the panel has seen since ended.
THEOREM DotsTrue == Spec => []SpinnerTrue
<1>1. IInv => SpinnerTrue
  BY DEF IInv, ViewInv
<1> QED
  BY <1>1, Invariant, PTL

\* An answer whose completion the panel saw has a text.
THEOREM AnswersHaveText == Spec => []CompletedNotBlank
<1>1. IInv => CompletedNotBlank
  BY DEF IInv, ViewInv
<1> QED
  BY <1>1, Invariant, PTL

-----------------------------------------------------------------------------
(* The page: what its rows say                                              *)

LEMMA LesserOf ==
    ASSUME NEW a \in Int, NEW b \in Int
    PROVE  /\ Min({a, b}) \in {a, b}
           /\ Min({a, b}) <= a /\ Min({a, b}) <= b
<1>1. \E x \in {a, b} : \A y \in {a, b} : x <= y
  <2>1. CASE a >= b
    BY <2>1
  <2>2. CASE b >= a
    BY <2>2
  <2> QED
    BY <2>1, <2>2
<1> QED
  BY <1>1 DEF Min

LEMMA LeastOf ==
    ASSUME NEW S \in SUBSET Nat, S # {}
    PROVE  \E x \in S : \A y \in S : x <= y
<1> DEFINE LessThan == OpToRel(<, Nat)
<1>1. PICK m \in S : \A k \in S : <<k, m>> \notin LessThan
  BY WFMin, NatLessThanWellFounded, Zenon
<1>2. \A k \in S : ~(k < m)
  BY <1>1, Zenon DEF OpToRel
<1>3. ASSUME NEW y \in S PROVE m <= y
  BY <1>2
<1> QED
  BY <1>3

\* Rows that have the same number have a first one.
LEMMA FirstRow ==
    ASSUME NEW S, S # {}, NEW n \in Nat,
           \A x \in S : x.batch \in 0 .. n /\ x.entry \in Nat,
           \A x, y \in S : x.seq = y.seq /\ x.seq \in Nat
    PROVE  \E c \in S : \A d \in S : ~Precedes(d, c)
<1> DEFINE B == {x.batch + 1 : x \in S}
<1>1. B \in SUBSET (1 .. (n + 1)) /\ B # {} /\ n + 1 \in Nat
  OBVIOUS
<1>2. PICK top \in B : \A y \in B : top >= y
  <2> HIDE DEF B
  <2> QED
    BY <1>1, GreatestOf, Zenon
<1> DEFINE T == {x \in S : x.batch + 1 = top}
           E == {x.entry : x \in T}
<1>3. E \in SUBSET Nat /\ E # {}
  <2>1. \A x \in T : x.entry \in Nat
    OBVIOUS
  <2>2. T # {}
    BY <1>2
  <2> HIDE DEF T
  <2> QED
    BY <2>1, <2>2, Zenon
<1>4. PICK e \in E : \A y \in E : e <= y
  <2> HIDE DEF E
  <2> QED
    BY <1>3, LeastOf, Zenon
<1>5. PICK c \in T : c.entry = e
  BY <1>4, Zenon
<1>6. ASSUME NEW d \in S, Precedes(d, c) PROVE FALSE
  <2>1. d.seq = c.seq /\ d.seq \in Nat /\ c.seq \in Nat
    BY <1>5
  <2>2. d.batch \in Nat /\ c.batch \in Nat /\ d.entry \in Nat /\ c.entry \in Nat
    BY <1>5
  <2>3. c.batch + 1 = top /\ d.batch + 1 <= top
    BY <1>2, <1>5
  <2>4. d.batch <= c.batch
    BY <2>2, <2>3
  <2>5. d.batch = c.batch /\ d.entry < c.entry
    BY <1>6, <2>1, <2>2, <2>4 DEF Precedes
  <2>6. d \in T
    BY <2>3, <2>5
  <2>7. e <= d.entry
    BY <1>4, <2>6
  <2> QED
    BY <1>5, <2>2, <2>5, <2>7
<1> QED
  BY <1>5, <1>6

LEMMA PageOfRows == \A w \in Windows(rows) : w \subseteq rows
BY DEF Windows, kSubset

\* An event as Bridge makes them.
MadeBy(e) ==
  \/ e.type \in {"response_started", "response_chunk", "response_completed"}
     /\ e.ref \in Responses /\ e.res = "none"
  \/ e.type = "tool_call_started" /\ e.ref \in Tools /\ e.res = "none"
  \/ e.type = "tool_call_completed" /\ e.ref \in Tools /\ e.res \in Results
  \/ e.type \in {"message_received", "turn_completed", "agent_error", "done"}
     /\ e.ref = Nobody /\ e.res = "none"

AgentInv ==
  {"used", "running"} \subseteq DOMAIN agent /\ agent.running \subseteq agent.used

Finished(e) == e.type = "tool_call_completed"

\* A call that ended is not running, will not start again, and has one end,
\* however often it was posted.
CallsInv ==
  \A k \in DOMAIN log :
    /\ MadeBy(log[k])
    /\ Finished(log[k]) => log[k].ref \in agent.used \ agent.running
    /\ \A j \in DOMAIN log :
         Finished(log[j]) /\ Finished(log[k]) /\ log[j].ref = log[k].ref => log[j] = log[k]

\* A row is a copy of an entry, or made for an answer that never ended.
CopyOf(r) ==
  /\ r.entry \in 1 .. Len(log) /\ r.batch \in 0 .. Len(log)
  /\ r.type = log[r.entry].type /\ r.ref = log[r.entry].ref
  /\ r.seq = log[r.entry].seq /\ r.res = log[r.entry].res
MadeFor(r) == r.type = "response_completed" /\ r.ref \in Responses /\ r.res = "none"

RowsInv == read \in Nat /\ held \subseteq Responses /\ \A r \in rows : CopyOf(r) \/ MadeFor(r)

PageInv == AgentInv /\ CallsInv /\ RowsInv

-----------------------------------------------------------------------------
(* Every step keeps it                                                      *)

\* An event that ends no call is added.
LEMMA EventAdded ==
  ASSUME StreamInv, AgentInv, CallsInv, NEW type, NEW ref, NEW res,
         Publish(type, ref, res), MadeBy(Event(type, ref, agent.made + 1, res)),
         type # "tool_call_completed", agent.used \subseteq agent'.used,
         \A t \in agent'.running : t \in agent.running \/ t \notin agent.used
  PROVE  CallsInv'
<1> DEFINE e == Event(type, ref, agent.made + 1, res)
<1>1. log' = Append(log, e)
  BY DEF Publish
<1>2. ~Finished(e)
  BY DEF Finished, Event
<1> HIDE DEF e
<1>3. Len(log') = Len(log) + 1 /\ log'[Len(log) + 1] = e
      /\ \A k \in 1 .. Len(log) : log'[k] = log[k]
  BY <1>1 DEF StreamInv
<1>4. DOMAIN log' = 1 .. (Len(log) + 1) /\ DOMAIN log = 1 .. Len(log)
  BY <1>1, <1>3 DEF StreamInv
<1> SUFFICES ASSUME NEW k \in DOMAIN log'
             PROVE /\ MadeBy(log'[k])
                   /\ Finished(log'[k]) => log'[k].ref \in agent'.used \ agent'.running
                   /\ \A j \in DOMAIN log' :
                        Finished(log'[j]) /\ Finished(log'[k]) /\ log'[j].ref = log'[k].ref
                          => log'[j] = log'[k]
  BY Zenon DEF CallsInv, MadeBy, Finished
<1>5. CASE k = Len(log) + 1
  BY <1>2, <1>3, <1>5, Zenon DEF e
<1>6. CASE k \in 1 .. Len(log)
  <2>1. MadeBy(log'[k])
    BY <1>3, <1>4, <1>6 DEF CallsInv
  <2>2. Finished(log'[k]) => log'[k].ref \in agent'.used \ agent'.running
    BY <1>3, <1>4, <1>6 DEF CallsInv
  <2>3. ASSUME NEW j \in DOMAIN log', Finished(log'[j]), Finished(log'[k]),
               log'[j].ref = log'[k].ref
        PROVE  log'[j] = log'[k]
    <3>1. j \in 1 .. Len(log)
      BY <1>2, <1>3, <1>4, <2>3, StreamInv DEF StreamInv
    <3> QED
      BY <1>3, <1>4, <1>6, <2>3, <3>1 DEF CallsInv
  <2> QED
    BY <2>1, <2>2, <2>3
<1> QED
  BY <1>4, <1>5, <1>6, StreamInv DEF StreamInv

LEMMA CallEnded ==
  ASSUME StreamInv, AgentInv, CallsInv, NEW t \in Tools, NEW res \in Results, CompleteTool(t, res)
  PROVE  CallsInv'
<1> DEFINE e == Event("tool_call_completed", t, agent.made + 1, res)
<1>1. log' = Append(log, e)
  BY DEF CompleteTool, Publish
<1>2. Finished(e) /\ e.ref = t /\ MadeBy(e)
  BY DEF Finished, Event, MadeBy
<1>3. agent'.used = agent.used /\ agent'.running = agent.running \ {t} /\ t \in agent.running
  BY DEF CompleteTool, AgentInv
<1> HIDE DEF e
<1>4. Len(log') = Len(log) + 1 /\ log'[Len(log) + 1] = e
      /\ \A k \in 1 .. Len(log) : log'[k] = log[k]
  BY <1>1 DEF StreamInv
<1>5. DOMAIN log' = 1 .. (Len(log) + 1) /\ DOMAIN log = 1 .. Len(log)
  BY <1>1, <1>4 DEF StreamInv
<1>6. \A k \in 1 .. Len(log) : Finished(log[k]) => log[k].ref # t
  BY <1>3, <1>5 DEF CallsInv
<1>7. \A k \in DOMAIN log' : k \in 1 .. Len(log) \/ k = Len(log) + 1
  BY <1>5 DEF StreamInv
<1> SUFFICES ASSUME NEW k \in DOMAIN log'
             PROVE /\ MadeBy(log'[k])
                   /\ Finished(log'[k]) => log'[k].ref \in agent'.used \ agent'.running
                   /\ \A j \in DOMAIN log' :
                        Finished(log'[j]) /\ Finished(log'[k]) /\ log'[j].ref = log'[k].ref
                          => log'[j] = log'[k]
  BY Zenon DEF CallsInv, MadeBy, Finished
<1>8. MadeBy(log'[k])
  BY <1>2, <1>4, <1>5, <1>7 DEF CallsInv
<1>9. Finished(log'[k]) => log'[k].ref \in agent'.used \ agent'.running
  <2>1. CASE k \in 1 .. Len(log)
    BY <1>3, <1>4, <1>5, <2>1 DEF CallsInv
  <2>2. CASE k = Len(log) + 1
    BY <1>2, <1>3, <1>4, <2>2 DEF AgentInv
  <2> QED
    BY <1>7, <2>1, <2>2
<1>10. ASSUME NEW j \in DOMAIN log', Finished(log'[j]), Finished(log'[k]),
              log'[j].ref = log'[k].ref
       PROVE  log'[j] = log'[k]
  BY <1>2, <1>4, <1>5, <1>6, <1>7, <1>10 DEF CallsInv
<1> QED
  BY <1>8, <1>9, <1>10

\* A batch that is posted again brings no event that was not there.
LEMMA EventsAgain ==
  ASSUME StreamInv, CallsInv, NEW n \in 1 .. MaxEvents, Redeliver(n)
  PROVE  CallsInv'
<1>1. n \in 1 .. Len(log) /\ log' = log \o SubSeq(log, Len(log) - n + 1, Len(log))
      /\ agent' = agent
  BY DEF Redeliver
<1>2. \A k \in DOMAIN log' : \E j \in DOMAIN log : log'[k] = log[j]
  <2> DEFINE tail == SubSeq(log, Len(log) - n + 1, Len(log))
  <2>1. tail \in Seq(Entries) /\ Len(tail) = n
        /\ \A i \in 1 .. n : tail[i] = log[Len(log) - n + i]
    BY <1>1 DEF StreamInv
  <2> HIDE DEF tail
  <2>2. log' = log \o tail
    BY <1>1 DEF tail
  <2>3. \A k \in DOMAIN log' : k \in 1 .. Len(log) \/ k - Len(log) \in 1 .. n
    BY <2>1, <2>2 DEF StreamInv
  <2> SUFFICES ASSUME NEW k \in DOMAIN log'
               PROVE  \E j \in DOMAIN log : log'[k] = log[j]
    OBVIOUS
  <2>4. CASE k \in 1 .. Len(log)
    BY <2>1, <2>2, <2>4 DEF StreamInv
  <2>5. CASE k - Len(log) \in 1 .. n /\ k \notin 1 .. Len(log)
    <3>1. k \in 1 .. (Len(log) + n)
      BY <2>1, <2>2 DEF StreamInv
    <3>2. log'[k] = tail[k - Len(log)]
      BY <2>1, <2>2, <2>5, <3>1 DEF StreamInv
    <3>3. log'[k] = log[Len(log) - n + (k - Len(log))]
      BY <2>1, <2>5, <3>2
    <3>4. Len(log) - n + (k - Len(log)) \in DOMAIN log
      BY <1>1, <2>5, <3>1 DEF StreamInv
    <3> QED
      BY <3>3, <3>4
  <2> QED
    BY <2>3, <2>4, <2>5
<1> SUFFICES ASSUME NEW k \in DOMAIN log'
             PROVE /\ MadeBy(log'[k])
                   /\ Finished(log'[k]) => log'[k].ref \in agent'.used \ agent'.running
                   /\ \A j \in DOMAIN log' :
                        Finished(log'[j]) /\ Finished(log'[k]) /\ log'[j].ref = log'[k].ref
                          => log'[j] = log'[k]
  BY Zenon DEF CallsInv, MadeBy, Finished
<1>3. PICK i \in DOMAIN log : log'[k] = log[i]
  BY <1>2, Zenon
<1>4. MadeBy(log'[k]) /\ (Finished(log'[k]) => log'[k].ref \in agent'.used \ agent'.running)
  BY <1>1, <1>3 DEF CallsInv
<1>5. ASSUME NEW j \in DOMAIN log', Finished(log'[j]), Finished(log'[k]),
             log'[j].ref = log'[k].ref
      PROVE  log'[j] = log'[k]
  <2>1. PICK h \in DOMAIN log : log'[j] = log[h]
    BY <1>2, Zenon
  <2> QED
    BY <1>3, <1>5, <2>1 DEF CallsInv
<1> QED
  BY <1>4, <1>5

LEMMA BridgePage ==
  ASSUME StreamInv, AgentInv, CallsInv, Bridge
  PROVE  AgentInv' /\ CallsInv'
<1> USE DEF Refs
<1>1. CASE Receive
  <2>1. AgentInv' /\ agent'.used = agent.used /\ agent'.running = agent.running
    BY <1>1 DEF Receive, AgentInv
  <2>2. MadeBy(Event("message_received", Nobody, agent.made + 1, "none"))
    BY DEF MadeBy, Event
  <2> QED
    BY <1>1, <2>1, <2>2, EventAdded DEF Receive
<1>2. ASSUME NEW r \in Responses, Start(r) PROVE AgentInv' /\ CallsInv'
  <2>1. AgentInv' /\ agent'.used = agent.used \cup {r} /\ agent'.running = agent.running
    BY <1>2 DEF Start, AgentInv
  <2>2. MadeBy(Event("response_started", r, agent.made + 1, "none"))
    BY DEF MadeBy, Event
  <2> QED
    BY <1>2, <2>1, <2>2, EventAdded DEF Start
<1>3. ASSUME NEW r \in Responses, Chunk(r) PROVE AgentInv' /\ CallsInv'
  <2>1. AgentInv' /\ agent'.used = agent.used /\ agent'.running = agent.running
    BY <1>3 DEF Chunk, AgentInv
  <2>2. MadeBy(Event("response_chunk", r, agent.made + 1, "none"))
    BY DEF MadeBy, Event
  <2> QED
    BY <1>3, <2>1, <2>2, EventAdded DEF Chunk
<1>4. ASSUME NEW r \in Responses, Complete(r) PROVE AgentInv' /\ CallsInv'
  <2>1. AgentInv' /\ agent'.used = agent.used /\ agent'.running = agent.running
    BY <1>4 DEF Complete, AgentInv
  <2>2. MadeBy(Event("response_completed", r, agent.made + 1, "none"))
    BY DEF MadeBy, Event
  <2> QED
    BY <1>4, <2>1, <2>2, EventAdded DEF Complete
<1>5. ASSUME NEW t \in Tools, StartTool(t) PROVE AgentInv' /\ CallsInv'
  <2>1. AgentInv' /\ agent'.used = agent.used \cup {t}
        /\ agent'.running = agent.running \cup {t} /\ t \notin agent.used
    BY <1>5 DEF StartTool, AgentInv
  <2>2. MadeBy(Event("tool_call_started", t, agent.made + 1, "none"))
    BY DEF MadeBy, Event
  <2> QED
    BY <1>5, <2>1, <2>2, EventAdded DEF StartTool
<1>6. ASSUME NEW t \in Tools, NEW res \in Results, CompleteTool(t, res)
      PROVE  AgentInv' /\ CallsInv'
  <2>1. AgentInv'
    BY <1>6 DEF CompleteTool, AgentInv
  <2> QED
    BY <1>6, <2>1, CallEnded
<1>7. CASE EndTurn
  <2>1. AgentInv' /\ agent'.used = agent.used /\ agent'.running = agent.running
    BY <1>7 DEF EndTurn, AgentInv
  <2>2. MadeBy(Event("turn_completed", Nobody, agent.made + 1, "none"))
    BY DEF MadeBy, Event
  <2> QED
    BY <1>7, <2>1, <2>2, EventAdded DEF EndTurn
<1>8. CASE AgentError
  <2>1. AgentInv' /\ agent'.used = agent.used /\ agent'.running = {}
    BY <1>8 DEF AgentError, AgentInv
  <2>2. MadeBy(Event("agent_error", Nobody, agent.made + 1, "none"))
    BY DEF MadeBy, Event
  <2> QED
    BY <1>8, <2>1, <2>2, EventAdded DEF AgentError
<1>9. CASE Done
  <2>1. agent'.used = agent.used /\ agent'.running = {}
    BY <1>9 DEF Done, AgentInv
  <2>2. DOMAIN agent' = DOMAIN agent
    BY <1>9, Zenon DEF Done
  <2>3. MadeBy(Event("done", Nobody, agent.made + 1, "none"))
    BY DEF MadeBy, Event
  <2> QED
    BY <1>9, <2>1, <2>2, <2>3, EventAdded DEF Done, AgentInv
<1>10. ASSUME NEW n \in 1 .. MaxEvents, Redeliver(n) PROVE AgentInv' /\ CallsInv'
  BY <1>10, EventsAgain DEF Redeliver, AgentInv
<1> QED
  BY <1>1, <1>2, <1>3, <1>4, <1>5, <1>6, <1>7, <1>8, <1>9, <1>10 DEF Bridge

\* The flusher copies entries, and makes a row for what it holds.
LEMMA FlushPage ==
  ASSUME StreamInv, CallsInv, RowsInv, Flush
  PROVE  RowsInv'
<1> DEFINE from  == Max({read, low})
           to    == Min({from + Batch, Len(log)})
           seen  == (from + 1) .. to
           kept  == Kept(seen)
           ended == \E k \in seen : log[k].type = "done"
<1>1. /\ from < Len(log)
      /\ rows' = rows \cup {Row(k, to) : k \in {j \in seen : log[j].type # "response_chunk"}}
                      \cup (IF ended THEN {Recovered(r, to) : r \in kept} ELSE {})
      /\ held' = IF ended THEN {} ELSE kept
      /\ read' = to /\ log' = log
  BY DEF Flush
<1>2. from \in Nat
  <2>1. read \in Int /\ low \in Int /\ read \in Nat /\ low \in Nat
    BY DEF StreamInv, RowsInv
  <2>2. from \in {read, low}
    BY <2>1, GreaterOf, Zenon
  <2> QED
    BY <2>1, <2>2
<1>3. to \in Nat /\ to <= Len(log)
  <2> HIDE DEF from
  <2>1. from + Batch \in Nat /\ Len(log) \in Nat
    BY <1>2, ConversationAssumption DEF StreamInv
  <2>2. to \in {from + Batch, Len(log)} /\ to <= Len(log)
    <3>1. from + Batch \in Int /\ Len(log) \in Int
      BY <2>1
    <3> QED
      BY <3>1, LesserOf, Zenon
  <2> QED
    BY <2>1, <2>2
<1>4. kept \subseteq Responses
  BY DEF Kept
<1> HIDE DEF from, to, kept, ended
<1>5. ASSUME NEW k \in seen PROVE CopyOf(Row(k, to))
  <2>1. k \in 1 .. Len(log)
    BY <1>2, <1>3 DEF StreamInv
  <2> QED
    BY <1>3, <2>1 DEF CopyOf, Row, StreamInv
<1>6. ASSUME NEW r \in kept PROVE MadeFor(Recovered(r, to))
  BY <1>4 DEF MadeFor, Recovered
<1>7. \A r \in rows' : CopyOf(r) \/ MadeFor(r)
  <2> TAKE x \in rows'
  <2>1. CASE x \in rows
    BY <2>1 DEF RowsInv
  <2>2. CASE \E k \in seen : x = Row(k, to)
    BY <1>5, <2>2
  <2>3. CASE \E r \in kept : x = Recovered(r, to)
    BY <1>6, <2>3
  <2> QED
    BY <1>1, <2>1, <2>2, <2>3
<1>8. \A r : (CopyOf(r) => CopyOf(r)') /\ (MadeFor(r) => MadeFor(r)')
  BY <1>1 DEF CopyOf, MadeFor
<1> QED
  BY <1>1, <1>3, <1>4, <1>7, <1>8 DEF RowsInv

LEMMA RowsStay ==
  ASSUME StreamInv, RowsInv, Grows, log' \in Seq(Entries), UNCHANGED flusher
  PROVE  RowsInv'
<1>1. \A r : CopyOf(r) => CopyOf(r)'
  BY DEF CopyOf, Grows, StreamInv
<1> QED
  BY <1>1 DEF RowsInv, MadeFor, flusher

\* The panel touches only the inbox of the agent.
LEMMA PanelPage ==
  ASSUME AgentInv, Panel
  PROVE  /\ agent'.used = agent.used /\ agent'.running = agent.running
         /\ DOMAIN agent' = DOMAIN agent /\ log' = log /\ UNCHANGED flusher
<1>1. CASE \/ OpenPanel \/ TokenFails \/ Connect \/ Accepted \/ Fails \/ Closes
           \/ HideAndShow \/ Deliver \/ HandleSendMessage
  <2>1. UNCHANGED stream /\ UNCHANGED flusher
    BY <1>1, Zenon DEF OpenPanel, TokenFails, Connect, Accepted, Fails, Closes, HideAndShow,
                       Deliver, HandleSendMessage
  <2> QED
    BY <2>1 DEF stream
<1> DEFINE Sends == agent' = [agent EXCEPT !.inbox = @ + 1]
<1>2. ASSUME Sends \/ UNCHANGED agent
      PROVE  agent'.used = agent.used /\ agent'.running = agent.running
             /\ DOMAIN agent' = DOMAIN agent
  BY <1>2 DEF AgentInv
<1>3. CASE ClosePanel
  <2>1. (Sends \/ UNCHANGED agent) /\ log' = log /\ UNCHANGED flusher
    BY <1>3 DEF ClosePanel
  <2> QED
    BY <1>2, <2>1
<1>4. ASSUME NEW reached \in BOOLEAN, Sent(reached)
      PROVE  (Sends \/ UNCHANGED agent) /\ log' = log /\ UNCHANGED flusher
  BY <1>4 DEF Sent
<1> QED
  BY <1>1, <1>2, <1>3, <1>4 DEF Panel

LEMMA CallsStay ==
  ASSUME AgentInv, CallsInv, log' = log, DOMAIN agent' = DOMAIN agent,
         agent'.used = agent.used, agent'.running = agent.running
  PROVE  AgentInv' /\ CallsInv'
BY DEF AgentInv, CallsInv, MadeBy, Finished

LEMMA PageStep == IInv /\ PageInv /\ [Next]_vars => PageInv'
<1> SUFFICES ASSUME IInv, PageInv, [Next]_vars PROVE PageInv'
  OBVIOUS
<1>0. StreamInv /\ AgentInv /\ CallsInv /\ RowsInv
  BY DEF IInv, PageInv
<1>1. CASE Bridge
  <2>1. AgentInv' /\ CallsInv' /\ Grows /\ StreamInv'
    BY <1>0, <1>1, BridgePage, BridgeKeeps
  <2>2. UNCHANGED flusher
    BY <1>1, Zenon DEF Bridge, Receive, EndTurn, AgentError, Done, Start, Chunk, Complete,
                       StartTool, CompleteTool, Redeliver, Publish
  <2> QED
    BY <1>0, <2>1, <2>2, RowsStay DEF PageInv, StreamInv
<1>2. CASE Flush
  <2>1. log' = log /\ agent' = agent
    BY <1>2 DEF Flush
  <2> QED
    BY <1>0, <1>2, <2>1, FlushPage, CallsStay DEF PageInv
<1> DEFINE Stays == /\ agent'.used = agent.used /\ agent'.running = agent.running
                    /\ DOMAIN agent' = DOMAIN agent /\ log' = log /\ UNCHANGED flusher
<1>3. CASE CleanIdle
  <2>1. Stays
    BY <1>3 DEF CleanIdle
  <2> QED
    BY <1>0, <2>1, CallsStay DEF PageInv, RowsInv, flusher, CopyOf, MadeFor
<1>4. CASE Panel
  <2>1. Stays
    BY <1>0, <1>4, PanelPage
  <2> QED
    BY <1>0, <2>1, CallsStay DEF PageInv, RowsInv, flusher, CopyOf, MadeFor
<1>5. CASE UNCHANGED vars
  <2>1. Stays
    BY <1>5 DEF vars, flusher
  <2> QED
    BY <1>0, <2>1, CallsStay DEF PageInv, RowsInv, flusher, CopyOf, MadeFor
<1> QED
  BY <1>1, <1>2, <1>3, <1>4, <1>5 DEF Next

LEMMA PageInvariant == Spec => []PageInv
<1>1. Init => PageInv
  BY DEF Init, PageInv, AgentInv, CallsInv, RowsInv
<1>2. IInv /\ PageInv /\ [Next]_vars => PageInv'
  BY PageStep
<1> QED
  BY <1>1, <1>2, Invariant, PTL DEF Spec

-----------------------------------------------------------------------------
(* The cards of a page                                                      *)

LEMMA RowsMade ==
  ASSUME CallsInv, RowsInv, NEW r \in rows
  PROVE  MadeBy(r) /\ (Finished(r) => CopyOf(r))
<1>1. CASE CopyOf(r)
  <2>1. r.entry \in DOMAIN log
    BY <1>1 DEF CopyOf
  <2>2. MadeBy(log[r.entry])
    BY <2>1 DEF CallsInv
  <2> QED
    BY <1>1, <2>2 DEF CopyOf, MadeBy
<1>2. CASE MadeFor(r)
  BY <1>2 DEF MadeFor, MadeBy, Finished
<1> QED
  BY <1>1, <1>2 DEF RowsInv

\* The rows of the end of a call say the same, whichever of them a page has.
LEMMA OneEnd ==
  ASSUME StreamInv, CallsInv, RowsInv, NEW r \in rows, NEW s \in rows,
         Finished(r), Finished(s), r.ref = s.ref
  PROVE  r.res = s.res /\ r.seq = s.seq /\ r.seq \in Nat
<1>1. CopyOf(r) /\ CopyOf(s)
  BY RowsMade
<1>2. r.entry \in DOMAIN log /\ s.entry \in DOMAIN log
  BY <1>1 DEF CopyOf
<1>3. log[r.entry] = log[s.entry]
  <2>1. /\ Finished(log[r.entry]) /\ Finished(log[s.entry])
        /\ log[r.entry].ref = log[s.entry].ref
    BY <1>1 DEF CopyOf, Finished
  <2> QED
    BY <1>2, <2>1 DEF CallsInv
<1>4. log[r.entry].seq \in Nat
  <2>1. log[r.entry] \in Entries
    BY <1>2 DEF StreamInv
  <2> QED
    BY <2>1 DEF Entries
<1> QED
  BY <1>1, <1>3, <1>4 DEF CopyOf

\* The completion a page finds for a call is one of its rows.
LEMMA Found ==
  ASSUME StreamInv, CallsInv, RowsInv, NEW w \in SUBSET rows, NEW id,
         Of(w, "tool_call_completed", id) # {}
  PROVE  FindCompletion(w, id) \in Of(w, "tool_call_completed", id)
<1> DEFINE found == Of(w, "tool_call_completed", id)
<1>1. \A x \in found : x \in rows /\ Finished(x) /\ x.ref = id
  BY DEF Of, Finished
<1>2. \A x \in found : CopyOf(x)
  BY <1>1, RowsMade
<1>3. \A x, y \in found : x.seq = y.seq /\ x.seq \in Nat
  BY <1>1, OneEnd
<1>4. Len(log) \in Nat /\ \A x \in found : x.batch \in 0 .. Len(log) /\ x.entry \in Nat
  BY <1>2 DEF CopyOf, StreamInv
<1>5. found # {}
  OBVIOUS
<1> HIDE DEF found
<1>6. \E c \in found : \A d \in found : ~Precedes(d, c)
  BY <1>3, <1>4, <1>5, FirstRow
<1> QED
  BY <1>6 DEF FindCompletion, found

\* What a card of a call says, when the page has an end of the call.
LEMMA CardSays ==
  ASSUME StreamInv, CallsInv, RowsInv, NEW w \in SUBSET rows, NEW x \in w, NEW r \in w,
         x.type \in {"tool_call_started", "tool_call_completed"},
         Finished(r), r.ref = x.ref
  PROVE  /\ Item(w, x).kind = "tool_call" /\ Item(w, x).row = x
         /\ Item(w, x).status = IF x.ref \in Bash THEN BashOutcome(r.res) ELSE ToolOutcome(r.res)
<1>1. r \in Of(w, "tool_call_completed", x.ref)
  BY DEF Of, Finished
<1>2. CASE x.type = "tool_call_started"
  <2> DEFINE c == FindCompletion(w, x.ref)
  <2>1. c \in Of(w, "tool_call_completed", x.ref)
    BY <1>1, Found
  <2>2. c.res = r.res
    BY <2>1, OneEnd DEF Of, Finished
  <2>3. Item(w, x) = [kind |-> "tool_call", row |-> x, status |-> Outcome(x, c)]
    BY <1>1, <1>2 DEF Item
  <2> QED
    BY <2>2, <2>3 DEF Outcome
<1>3. CASE x.type = "tool_call_completed"
  <2>1. x.res = r.res
    BY <1>3, OneEnd DEF Finished
  <2>2. Item(w, x) = [kind |-> "tool_call", row |-> x, status |-> OrphanOutcome(x)]
    BY <1>3 DEF Item
  <2> QED
    BY <2>1, <2>2 DEF OrphanOutcome
<1> QED
  BY <1>2, <1>3

\* An item is the item of a row of the page that was not dropped.
LEMMA ItemOfRow ==
  ASSUME NEW items \in Timelines(rows), NEW a \in items
  PROVE  \E w \in Windows(rows) :
           /\ items = BuildTimeline(w)
           /\ \E x \in w : ~Dropped(w, x) /\ a = Item(w, x)
BY DEF Timelines, BuildTimeline

\* The kind of an item tells the type of its row.
LEMMA KindOf ==
  ASSUME NEW w, NEW x
  PROVE  /\ Item(w, x).row = x
         /\ Item(w, x).kind = "tool_call"
              => x.type \in {"tool_call_started", "tool_call_completed", "tool_call"}
         /\ AgentResponseItem(Item(w, x)) => x.type = "response_started"
         /\ ToolCallItem(Item(w, x)) =>
              /\ x.type = "tool_call_started" \/ x.type = "tool_call"
              /\ x.type = "tool_call_started" => Of(w, "tool_call_completed", x.ref) = {}
BY DEF Item, AgentResponseItem, ToolCallItem, OrphanOutcome, Outcome, BashOutcome, ToolOutcome

\* A card of a call is of a start or an end of it.
LEMMA CardRow ==
  ASSUME CallsInv, RowsInv, NEW items \in Timelines(rows), NEW a \in items, a.kind = "tool_call"
  PROVE  \E w \in Windows(rows) :
           /\ items = BuildTimeline(w)
           /\ a.row \in w /\ a = Item(w, a.row)
           /\ a.row.type \in {"tool_call_started", "tool_call_completed"}
<1>1. PICK w \in Windows(rows) : /\ items = BuildTimeline(w)
                                 /\ \E x \in w : ~Dropped(w, x) /\ a = Item(w, x)
  BY ItemOfRow
<1>2. PICK x \in w : ~Dropped(w, x) /\ a = Item(w, x)
  BY <1>1
<1>3. a.row = x /\ x \in rows
  BY <1>2, KindOf, PageOfRows
<1>4. MadeBy(x)
  BY <1>3, RowsMade
<1>5. x.type # "tool_call"
  BY <1>4 DEF MadeBy
<1> QED
  BY <1>1, <1>2, <1>3, <1>5, KindOf

LEMMA CardsOfPage ==
  ASSUME StreamInv, CallsInv, RowsInv, NEW w \in SUBSET rows, NEW x \in w, NEW y \in w,
         x.type \in {"tool_call_started", "tool_call_completed"},
         y.type \in {"tool_call_started", "tool_call_completed"}, x.ref = y.ref
  PROVE  Item(w, x).status = Item(w, y).status
<1>1. CASE \E r \in w : Finished(r) /\ r.ref = x.ref
  BY <1>1, CardSays
<1>2. CASE ~\E r \in w : Finished(r) /\ r.ref = x.ref
  <2>1. x.type = "tool_call_started" /\ y.type = "tool_call_started"
    BY <1>2 DEF Finished
  <2>2. Of(w, "tool_call_completed", x.ref) = {}
    BY <1>2 DEF Of, Finished
  <2> QED
    BY <2>1, <2>2 DEF Item
<1> QED
  BY <1>1, <1>2

\* Whatever page of the rows it gets, the page shows every card of a call in
\* the same state, for any number of calls, batches posted again, rows of a
\* page and rows that are stored.
THEOREM CallsAgree == Spec => []CardsAgree
<1>1. IInv /\ PageInv => CardsAgree
  <2> SUFFICES ASSUME StreamInv, CallsInv, RowsInv,
                      NEW items \in Timelines(rows), NEW a \in items, NEW b \in items,
                      a.kind = "tool_call", b.kind = "tool_call", a.row.ref = b.row.ref
               PROVE  a.status = b.status
    BY DEF CardsAgree, IInv, PageInv
  <2>1. PICK w \in Windows(rows) :
          /\ items = BuildTimeline(w) /\ a.row \in w /\ a = Item(w, a.row)
          /\ a.row.type \in {"tool_call_started", "tool_call_completed"}
    BY CardRow
  <2>2. PICK x \in w : ~Dropped(w, x) /\ b = Item(w, x)
    BY <2>1 DEF BuildTimeline
  <2>3. b.row = x /\ w \in SUBSET rows
    BY <2>2, KindOf, PageOfRows
  <2>4. MadeBy(x)
    BY <2>3, RowsMade
  <2>5. x.type \in {"tool_call_started", "tool_call_completed"}
    BY <2>2, <2>4, KindOf DEF MadeBy
  <2> QED
    BY <2>1, <2>2, <2>3, <2>5, CardsOfPage
<1> QED
  BY <1>1, Invariant, PageInvariant, PTL

\* A page of every row shows no dots for what has its end stored, and a bash
\* command that failed as failed.
THEOREM EndsShown == Spec => []ResolvedShown
<1>1. IInv /\ PageInv => ResolvedShown
  <2> SUFFICES ASSUME StreamInv, CallsInv, RowsInv, Cardinality(rows) <= Limit,
                      NEW items \in Timelines(rows), NEW a \in items, NEW r \in rows,
                      r.type \in {"response_completed", "tool_call_completed"},
                      r.ref = a.row.ref
               PROVE  /\ ~Busy(a)
                      /\ r.res = "exit" /\ r.ref \in Bash => a.status = "failed"
    BY DEF ResolvedShown, IInv, PageInv
  <2>1. Windows(rows) = {rows}
    BY DEF Windows
  <2>2. PICK x \in rows : ~Dropped(rows, x) /\ a = Item(rows, x)
    BY <2>1, ItemOfRow
  <2>3. a.row = x /\ r.ref = x.ref
    BY <2>2, KindOf
  <2>4. MadeBy(x) /\ MadeBy(r)
    BY RowsMade
  <2>5. ~AgentResponseItem(a)
    <3> SUFFICES ASSUME AgentResponseItem(a) PROVE FALSE
      OBVIOUS
    <3>1. x.type = "response_started"
      BY <2>2, KindOf
    <3>2. Of(rows, "response_completed", x.ref) = {}
      BY <2>2, <3>1 DEF Dropped
    <3>3. r.type = "tool_call_completed"
      BY <2>3, <3>2 DEF Of
    <3> QED
      BY <2>3, <2>4, <3>1, <3>3, IdsApart DEF MadeBy
  <2>6. ~ToolCallItem(a)
    <3> SUFFICES ASSUME ToolCallItem(a) PROVE FALSE
      OBVIOUS
    <3>1. x.type = "tool_call_started" /\ Of(rows, "tool_call_completed", x.ref) = {}
      BY <2>2, <2>4, KindOf DEF MadeBy
    <3>2. r.type = "response_completed"
      BY <2>3, <3>1 DEF Of
    <3> QED
      BY <2>3, <2>4, <3>1, <3>2, IdsApart DEF MadeBy
  <2>7. ASSUME r.res = "exit", r.ref \in Bash PROVE a.status = "failed"
    <3>1. r.type = "tool_call_completed" /\ r.ref \in Tools
      BY <2>4, <2>7 DEF MadeBy
    <3>2. x.type \in {"tool_call_started", "tool_call_completed"}
      BY <2>3, <2>4, <3>1, IdsApart DEF MadeBy
    <3>3. a.status = BashOutcome("exit")
      BY <2>2, <2>3, <2>7, <3>1, <3>2, CardSays DEF Finished
    <3> QED
      BY <3>3 DEF BashOutcome, ParseBashResult
  <2> QED
    BY <2>5, <2>6, <2>7 DEF Busy
<1> QED
  BY <1>1, Invariant, PageInvariant, PTL
=============================================================================
