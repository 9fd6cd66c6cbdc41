--------------------------- MODULE MCEventFlusher ---------------------------
(***************************************************************************)
(* Small instances of EventFlusher.                                        *)
(***************************************************************************)
EXTENDS EventFlusher

CONSTANTS f1, f2, m1, m2,
  TurnLength  \* bound: events in a turn

Chunk(m) == [type |-> "response_chunk", mid |-> m]
Done(m) == [type |-> "response_completed", mid |-> m]
Plain(t) == [type |-> t, mid |-> NoMessage]

\* Events of every type in no sensible order, for what holds of any sequence.
AnyScripts ==
  {<<Chunk(m1), Plain("terminal"), Plain("other")>>,
   <<Plain("unparsable"), Done(m1), Plain("other"), Plain("terminal")>>,
   <<Chunk(NoMessage), Plain("other"), Plain("other")>>}

\* Every sequence of TurnLength events of one turn: of each message chunks, then
\* at most one completion, and none of this after the turn's first terminal event.
TurnEvents ==
  {Chunk(m) : m \in Messages} \cup {Done(m) : m \in Messages}
    \cup {Plain("terminal"), Plain("other")}
Closes(e, m) == e = Done(m) \/ e = Plain("terminal")
TurnScripts ==
  {s \in [1 .. TurnLength -> TurnEvents] :
     \A j \in 1 .. TurnLength :
       /\ s[j].mid # NoMessage => \A i \in 1 .. (j - 1) : ~Closes(s[i], s[j].mid)
       \* m1 is the message that comes first.
       /\ s[j].mid = m2 => \E i \in 1 .. (j - 1) : s[i].mid = m1}

\* One message and its turn, completed or not.
OneTurn == {<<Chunk(m1), Chunk(m1), Done(m1), Plain("terminal")>>,
            <<Chunk(m1), Chunk(m1), Plain("other"), Plain("terminal")>>}

=============================================================================
