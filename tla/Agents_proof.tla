----------------------------- MODULE Agents_proof -----------------------------
(***************************************************************************)
(* Proofs about AgentPanel: for any agents, keys, models and resources, and *)
(* any number of saves under way, no agent gets the text of another, the   *)
(* panel and the resources dialog do not undo each other, and the panel    *)
(* offers no pair of its own making that its provider lacks.  And about    *)
(* AgentDrafts: for any connections, actions, events, keys and models, no  *)
(* stray action, no incomplete summary and no shared filter.               *)
(***************************************************************************)
EXTENDS AgentDrafts, AgentPanel, FiniteSetTheorems, SequenceTheorems, TLAPS

-----------------------------------------------------------------------------
(* The invariant                                                           *)

\* An agent as its own: with a text that was written for it.
Own == {f \in [Agents -> Agent] : \A a \in Agents : f[a].text.of = a}

Copies == server \in Own /\ listed \in Own /\ live \in Own

\* What is edited: the panel's copy and its form are of the agent it shows.
Editing ==
  /\ page \in Agents \cup {"list"}
  /\ resourcing \in Agents \cup {None}
  /\ picks \subseteq Resources
  /\ form = None \/ form \in Form
  /\ panel # None =>
       /\ panel.id \in Agents /\ panel.data \in Agent
       /\ form \in Form /\ form.text.of = panel.id
       /\ page \in Agents => page = panel.id

\* A request is a whole form of its agent, or its resources and nothing else.
WholeForm(q) == q.body.text \in Text /\ q.body.text.of = q.agent /\ q.body.resources = None

OnlyResources(q) == q.body.text = None /\ q.body.key = None /\ q.body.model = None

Sound(q) == q.at = "answered" \/ (q.agent \in Agents /\ (WholeForm(q) \/ OnlyResources(q)))

Requests == {q \in Put : Sound(q)}

IInv == Copies /\ Editing /\ puts \in Seq(Requests) /\ PairOnOffer

LEMMA InitAll == Init => IInv
<1> SUFFICES ASSUME Init PROVE IInv
  OBVIOUS
<1>1. Copies
  <2>1. ASSUME NEW a \in Agents
        PROVE  /\ [key |-> Created[1], model |-> Created[2], text |-> Original(a), resources |-> {}] \in Agent
               /\ Original(a).of = a
    BY CreatedAssumption DEF Agent, Text, Original
  <2> QED
    BY <2>1 DEF Init, Copies, Own
<1>2. Editing /\ PairOnOffer
  BY DEF Init, Editing, PairOnOffer
<1>3. puts \in Seq(Requests)
  BY DEF Init
<1> QED
  BY <1>1, <1>2, <1>3 DEF IInv

-----------------------------------------------------------------------------
(* The form                                                                *)

LEMMA Shows ==
  ASSUME NEW a \in Agents, NEW data \in Agent, data.text.of = a, page' = page,
         ShowAgent(a, data), resourcing' = resourcing, picks' = picks,
         page \in Agents => page = a, Editing
  PROVE  Editing' /\ PairOnOffer'
<1>1. /\ panel' = [id |-> a, data |-> data]
      /\ form' = [key |-> data.key, model |-> data.model, text |-> data.text]
  BY DEF ShowAgent
<1>2. /\ panel'.id = a /\ panel'.data = data
      /\ form'.key = data.key /\ form'.model = data.model /\ form'.text = data.text
  BY <1>1
<1>3. form' \in Form
  BY <1>1 DEF Agent, Form
<1> QED
  BY <1>2, <1>3, Zenon DEF Editing, PairOnOffer

LEMMA EditsForm ==
  ASSUME IInv, EditForm
  PROVE  IInv'
<1>1. /\ UNCHANGED <<server, listed, live, page, panel, resourcing, picks, puts>>
      /\ panel # None /\ panel.id \in Agents
      /\ form \in Form /\ form.text.of = panel.id
  BY DEF EditForm, IInv, Editing
<1>2. /\ form' \in Form /\ form'.text.of = panel.id
      /\ \/ form'.model = None
         \/ Fits(form'.key, form'.model)
         \/ form'.key = panel.data.key /\ form'.model = panel.data.model
  <2>1. ASSUME NEW k \in Keys, form' = [form EXCEPT !.key = k, !.model = None]
        PROVE  form' \in Form /\ form'.text.of = panel.id /\ form'.model = None
    BY <1>1, <2>1 DEF Form
  <2>2. CASE form' = form
    BY <1>1, <2>2 DEF IInv, PairOnOffer
  <2>3. ASSUME NEW m \in ModelsOf[form.key], form' = [form EXCEPT !.model = m]
        PROVE  /\ form' \in Form /\ form'.text.of = panel.id
               /\ form'.key = form.key /\ form'.model = m
    BY <1>1, <2>3, ModelsOfAssumption DEF Form
  <2>4. CASE form' = [form EXCEPT !.text = [of |-> panel.id, edited |-> TRUE]]
    <3>1. [of |-> panel.id, edited |-> TRUE] \in Text
      BY <1>1 DEF Text
    <3>2. /\ form' \in Form /\ form'.key = form.key /\ form'.model = form.model
          /\ form'.text = [of |-> panel.id, edited |-> TRUE]
      <4> DEFINE t == [of |-> panel.id, edited |-> TRUE]
      <4> HIDE DEF t
      <4> QED
        BY <1>1, <2>4, <3>1 DEF Form, t
    <3> QED
      BY <1>1, <3>2 DEF IInv, PairOnOffer
  <2>5. ASSUME NEW k \in Keys, SelectKey(k)
        PROVE  form' = form \/ form' = [form EXCEPT !.key = k, !.model = None]
    BY <2>5 DEF SelectKey
  <2> QED
    BY <2>1, <2>2, <2>3, <2>4, <2>5, Zenon DEF EditForm, Fits
<1> QED
  BY <1>1, <1>2, Zenon DEF IInv, Copies, Editing, PairOnOffer

-----------------------------------------------------------------------------
(* Requests                                                                *)

LEMMA IsBody ==
  ASSUME NEW k \in Keys \cup {None}, NEW m \in Models \cup {None}, NEW t \in Text \cup {None},
         NEW r \in (SUBSET Resources) \cup {None}
  PROVE  [key |-> k, model |-> m, text |-> t, resources |-> r] \in Body
BY Zenon DEF Body

LEMMA SendsSound ==
  ASSUME puts \in Seq(Requests), NEW a \in Agents, NEW body \in Body,
         NEW from \in {"panel", "resources"}, Send(a, body, from),
         \/ body.text \in Text /\ body.text.of = a /\ body.resources = None
         \/ body.text = None /\ body.key = None /\ body.model = None
  PROVE  puts' \in Seq(Requests)
<1> DEFINE q == [agent |-> a, body |-> body, from |-> from, at |-> "sent"]
<1>1. q \in Put
  BY DEF Put
<1>2. q.agent = a /\ q.body = body
  OBVIOUS
<1>3. q \in Requests
  BY <1>1, <1>2, Zenon DEF Requests, Sound, WholeForm, OnlyResources
<1> HIDE DEF q
<1> QED
  BY <1>3 DEF Send, q

LEMMA Moves ==
  ASSUME puts \in Seq(Requests), NEW i \in DOMAIN puts,
         NEW from, NEW to \in {"sent", "checked", "refused", "stored"},
         from # "answered", Step(i, from, to)
  PROVE  puts' \in Seq(Requests)
<1> DEFINE q == [puts[i] EXCEPT !.at = to]
<1>1. puts[i] \in Requests /\ puts[i].at # "answered" /\ puts' = [puts EXCEPT ![i] = q]
  BY DEF Step
<1>2. puts[i] \in Put /\ Sound(puts[i])
  BY <1>1 DEF Requests
<1>3. q \in Put /\ q.agent = puts[i].agent /\ q.body = puts[i].body
  BY <1>2 DEF Put
<1> HIDE DEF q
<1>4. q \in Requests
  BY <1>1, <1>2, <1>3, Zenon DEF Requests, Sound, WholeForm, OnlyResources
<1> QED
  BY <1>1, <1>4

LEMMA Settles ==
  ASSUME puts \in Seq(Requests), NEW i \in DOMAIN puts, NEW from, Settle(i, from)
  PROVE  puts' \in Seq(Requests)
<1>1. Over \in Put /\ Over.at = "answered"
  <2>1. NoBody \in Body
    BY IsBody, Zenon DEF NoBody
  <2> QED
    BY <2>1 DEF Over, Put
<1>2. Over \in Requests
  BY <1>1 DEF Requests, Sound
<1> QED
  BY <1>2 DEF Settle

\* What a request writes in a row.
LEMMA Writes ==
  ASSUME NEW q \in Requests, q.at # "answered", NEW row \in Agent, row.text.of = q.agent
  PROVE  LET new == Updated(row, q.body)
         IN  /\ new \in Agent /\ new.text.of = q.agent
             /\ IF q.body.text = None THEN new = [row EXCEPT !.resources = new.resources]
                                      ELSE new.resources = row.resources
<1> DEFINE new == Updated(row, q.body)
           b == q.body
<1>1. q \in Put /\ Sound(q)
  BY DEF Requests
<1>2. b \in Body
  BY <1>1 DEF Put
<1> HIDE DEF b
<1>3. /\ Or(b.key, row.key) \in Keys /\ Or(b.model, row.model) \in Models
      /\ Or(b.text, row.text) \in Text /\ Or(b.resources, row.resources) \in SUBSET Resources
  <2>1. /\ b.key \in Keys \cup {None} /\ b.model \in Models \cup {None}
        /\ b.text \in Text \cup {None} /\ b.resources \in (SUBSET Resources) \cup {None}
    BY <1>2 DEF Body
  <2>2. /\ row.key \in Keys /\ row.model \in Models
        /\ row.text \in Text /\ row.resources \in SUBSET Resources
    BY DEF Agent
  <2>3. /\ Or(b.key, row.key) \in Keys /\ Or(b.model, row.model) \in Models
        /\ Or(b.text, row.text) \in Text
    BY <2>1, <2>2 DEF Or
  <2>4. Or(b.resources, row.resources) \in SUBSET Resources
    <3>1. CASE b.resources = None
      BY <2>2, <3>1 DEF Or
    <3>2. CASE b.resources # None
      <4>1. b.resources \in SUBSET Resources
        BY <2>1, <3>2, Zenon
      <4> QED
        BY <3>2, <4>1 DEF Or
    <3> QED
      BY <3>1, <3>2
  <2> QED
    BY <2>3, <2>4
<1>4. new \in Agent
  BY <1>3 DEF Agent, Updated, b
<1>5. /\ new.key = Or(b.key, row.key) /\ new.model = Or(b.model, row.model)
      /\ new.text = Or(b.text, row.text) /\ new.resources = Or(b.resources, row.resources)
  BY DEF Updated, b
<1>6. WholeForm(q) \/ OnlyResources(q)
  BY <1>1 DEF Sound
<1> HIDE DEF new
<1>7. CASE WholeForm(q)
  <2>1. b.text \in Text /\ b.text.of = q.agent /\ b.resources = None
    BY <1>7 DEF WholeForm, b
  <2>2. b.text # None
    BY <2>1, NoneAssumption DEF Text
  <2>3. new.text = b.text /\ new.resources = row.resources
    BY <1>5, <2>1, <2>2 DEF Or
  <2> QED
    BY <1>4, <2>1, <2>2, <2>3 DEF new, b
<1>8. CASE OnlyResources(q)
  <2>1. b.text = None /\ b.key = None /\ b.model = None
    BY <1>8 DEF OnlyResources, b
  <2>2. new.text = row.text /\ new.key = row.key /\ new.model = row.model
    BY <1>5, <2>1 DEF Or
  <2>3. new = [row EXCEPT !.resources = new.resources]
    BY <1>4, <2>2 DEF Agent
  <2> QED
    BY <1>4, <2>1, <2>2, <2>3 DEF new, b
<1> QED
  BY <1>6, <1>7, <1>8
-----------------------------------------------------------------------------
(* Every step                                                              *)

LEMMA VisitStep == ASSUME IInv, NEW p \in Agents \cup {"list"}, Visit(p) PROVE IInv'
<1>1. /\ page' = p /\ panel' = None /\ form' = None /\ resourcing' = None /\ picks' = {}
      /\ UNCHANGED <<server, listed, live>>
      /\ puts' = [i \in DOMAIN puts |-> [puts[i] EXCEPT !.from = "none"]]
  BY DEF Visit
<1>2. puts' \in Seq(Requests)
  <2>1. ASSUME NEW i \in DOMAIN puts
        PROVE  [puts[i] EXCEPT !.from = "none"] \in Requests
    <3> DEFINE q == [puts[i] EXCEPT !.from = "none"]
    <3>1. puts[i] \in Requests
      BY DEF IInv
    <3>2. puts[i] \in Put /\ Sound(puts[i])
      BY <3>1 DEF Requests
    <3>3. q \in Put /\ q.agent = puts[i].agent /\ q.body = puts[i].body /\ q.at = puts[i].at
      BY <3>2 DEF Put
    <3> HIDE DEF q
    <3>4. q \in Requests
      BY <3>2, <3>3, Zenon DEF Requests, Sound, WholeForm, OnlyResources
    <3> QED
      BY <3>4 DEF q
  <2>2. puts \in Seq(Requests)
    BY DEF IInv
  <2> QED
    BY <1>1, <2>1, <2>2
<1>3. Editing' /\ PairOnOffer'
  BY <1>1 DEF Editing, PairOnOffer
<1> QED
  BY <1>1, <1>2, <1>3 DEF IInv, Copies

LEMMA ReadStep == ASSUME IInv, ReadList \/ ReadAgent PROVE IInv'
<1>1. CASE ReadList
  BY <1>1, Zenon DEF ReadList, IInv, Copies, Editing, PairOnOffer
<1>2. CASE ReadAgent
  <2>1. /\ page \in Agents /\ live' = [live EXCEPT ![page] = server[page]]
        /\ UNCHANGED <<server, listed, page, resourcing, picks, puts>>
    BY <1>2 DEF ReadAgent
  <2>2. server[page] \in Agent /\ server[page].text.of = page
    BY <2>1 DEF IInv, Copies, Own
  <2>3. Copies'
    BY <2>1, <2>2 DEF IInv, Copies, Own
  <2>4. Editing' /\ PairOnOffer'
    <3>1. CASE panel = None
      <4>1. UNCHANGED <<panel, form>>
        BY <1>2, <3>1 DEF ReadAgent
      <4> QED
        BY <2>1, <4>1, Zenon DEF IInv, Editing, PairOnOffer
    <3>2. CASE panel # None
      <4>1. ShowAgent(page, server[page])
        BY <1>2, <3>2 DEF ReadAgent
      <4> QED
        BY <2>1, <2>2, <4>1, Shows DEF IInv
    <3> QED
      BY <3>1, <3>2
  <2> QED
    BY <2>1, <2>3, <2>4 DEF IInv
<1> QED
  BY <1>1, <1>2

LEMMA PanelStep == ASSUME IInv, EditAgentPanel PROVE IInv'
<1>1. ASSUME NEW a \in Agents, OpenPanel(a) PROVE IInv'
  <2>1. UNCHANGED <<server, listed, live, page, resourcing, picks, puts>>
    BY <1>1 DEF OpenPanel
  <2>2. Editing' /\ PairOnOffer'
    <3>1. /\ listed[a] \in Agent /\ listed[a].text.of = a
          /\ live[a] \in Agent /\ live[a].text.of = a
      BY DEF IInv, Copies, Own
    <3>2. CASE page = "list" /\ ShowAgent(a, listed[a])
      <4>1. page \in Agents => page = a
        BY <3>2, ListIsNoAgent
      <4> QED
        BY <2>1, <3>1, <3>2, <4>1, Shows DEF IInv
    <3>3. CASE page = a /\ ShowAgent(a, live[a])
      BY <2>1, <3>1, <3>3, Shows DEF IInv
    <3> QED
      BY <1>1, <3>2, <3>3 DEF OpenPanel
  <2> QED
    BY <2>1, <2>2 DEF IInv, Copies
<1>2. CASE ClosePanel
  BY <1>2, Zenon DEF ClosePanel, IInv, Copies, Editing, PairOnOffer
<1>3. CASE EditForm
  BY <1>3, EditsForm
<1>4. CASE HandleSave
  <2> DEFINE body == [key |-> form.key, model |-> form.model, text |-> form.text, resources |-> None]
  <2>1. /\ panel # None /\ Send(panel.id, body, "panel")
        /\ UNCHANGED <<server, listed, live, page, panel, form, resourcing, picks>>
    BY <1>4 DEF HandleSave
  <2>2. panel.id \in Agents /\ form \in Form /\ form.text.of = panel.id
    BY <2>1 DEF IInv, Editing
  <2>3. body \in Body /\ body.text \in Text /\ body.text.of = panel.id /\ body.resources = None
    <3>1. form.key \in Keys /\ form.model \in Models \cup {None} /\ form.text \in Text
      BY <2>2 DEF Form
    <3>2. body \in Body
      BY <3>1, IsBody, Zenon
    <3> QED
      BY <2>2, <3>1, <3>2
  <2> HIDE DEF body
  <2>4. puts' \in Seq(Requests)
    BY <2>1, <2>2, <2>3, SendsSound DEF IInv
  <2> QED
    BY <2>1, <2>4, Zenon DEF IInv, Copies, Editing, PairOnOffer
<1> QED
  BY <1>1, <1>2, <1>3, <1>4 DEF EditAgentPanel

LEMMA ResourcesStep == ASSUME IInv, ConfigureResourcesDialog PROVE IInv'
<1>1. ASSUME NEW a \in Agents, OpenResources(a) PROVE IInv'
  <2>1. listed[a].resources \subseteq Resources
    BY DEF IInv, Copies, Own, Agent
  <2> QED
    BY <1>1, <2>1, Zenon DEF OpenResources, IInv, Copies, Editing, PairOnOffer
<1>2. ASSUME NEW x \in Resources, ToggleResource(x) PROVE IInv'
  <2>1. picks' \subseteq Resources
    BY <1>2 DEF ToggleResource, IInv, Editing
  <2> QED
    BY <1>2, <2>1, Zenon DEF ToggleResource, IInv, Copies, Editing, PairOnOffer
<1>3. CASE CloseResources
  <2>1. picks' \subseteq Resources /\ resourcing' \in Agents \cup {None}
    BY <1>3 DEF CloseResources
  <2> QED
    BY <1>3, <2>1, Zenon DEF CloseResources, IInv, Copies, Editing, PairOnOffer
<1>4. CASE SaveResources
  <2> DEFINE body == [NoBody EXCEPT !.resources = picks]
  <2>1. /\ resourcing # None /\ Send(resourcing, body, "resources")
        /\ UNCHANGED <<server, listed, live, page, panel, form, resourcing, picks>>
    BY <1>4 DEF SaveResources
  <2>2. resourcing \in Agents /\ picks \in SUBSET Resources
    BY <2>1 DEF IInv, Editing
  <2>3. body = [key |-> None, model |-> None, text |-> None, resources |-> picks]
    BY DEF NoBody
  <2>4. body \in Body /\ body.text = None /\ body.key = None /\ body.model = None
    BY <2>2, <2>3 DEF Body
  <2> HIDE DEF body
  <2>5. puts' \in Seq(Requests)
    BY <2>1, <2>2, <2>4, SendsSound DEF IInv
  <2> QED
    BY <2>1, <2>5, Zenon DEF IInv, Copies, Editing, PairOnOffer
<1> QED
  BY <1>1, <1>2, <1>3, <1>4 DEF ConfigureResourcesDialog, ResourceViews

LEMMA UpdateStep == ASSUME IInv, Update PROVE IInv'
<1>0. puts \in Seq(Requests)
  BY DEF IInv
<1>1. ASSUME NEW i \in DOMAIN puts, Check(i) PROVE IInv'
  <2>1. /\ UNCHANGED <<server, listed, live, page, panel, form, resourcing, picks>>
        /\ Step(i, "sent", "checked") \/ Step(i, "sent", "refused")
    BY <1>1, Zenon DEF Check
  <2>2. puts' \in Seq(Requests)
    BY <1>0, <2>1, Moves
  <2> QED
    BY <2>1, <2>2, Zenon DEF IInv, Copies, Editing, PairOnOffer
<1>2. ASSUME NEW i \in DOMAIN puts, Store(i) PROVE IInv'
  <2>1. /\ UNCHANGED <<listed, live, page, panel, form, resourcing, picks>>
        /\ Step(i, "checked", "stored") /\ puts[i].at # "answered"
        /\ server' = [server EXCEPT ![puts[i].agent] = Updated(@, puts[i].body)]
    BY <1>2 DEF Store, Step
  <2>2. puts' \in Seq(Requests)
    BY <1>0, <2>1, Moves
  <2> DEFINE a == puts[i].agent
             new == Updated(server[a], puts[i].body)
  <2>3. puts[i] \in Requests /\ a \in Agents
    BY <1>0, <2>1 DEF Requests, Sound
  <2>4. server[a] \in Agent /\ server[a].text.of = a
    BY <2>3 DEF IInv, Copies, Own
  <2>5. new \in Agent /\ new.text.of = a
    BY <2>1, <2>3, <2>4, Writes
  <2>6. server' = [server EXCEPT ![a] = new]
    BY <2>1
  <2> HIDE DEF a, new
  <2>7. server' \in Own
    BY <2>3, <2>5, <2>6 DEF IInv, Copies, Own
  <2> QED
    BY <2>1, <2>2, <2>7, Zenon DEF IInv, Copies, Editing, PairOnOffer
<1>3. ASSUME NEW i \in DOMAIN puts, Succeed(i) PROVE IInv'
  <2>1. /\ UNCHANGED <<server, listed, live, page, form>> /\ Settle(i, "stored")
        /\ panel' = None \/ panel' = panel
        /\ resourcing' = None \/ resourcing' = resourcing
        /\ picks' = {} \/ picks' = picks
    BY <1>3, Zenon DEF Succeed
  <2>2. puts' \in Seq(Requests)
    BY <1>0, <2>1, Settles
  <2>3. resourcing' \in Agents \cup {None} /\ picks' \subseteq Resources
    BY <2>1 DEF IInv, Editing
  <2> QED
    BY <2>1, <2>2, <2>3, Zenon DEF IInv, Copies, Editing, PairOnOffer
<1>4. ASSUME NEW i \in DOMAIN puts, Fail(i) PROVE IInv'
  <2>1. /\ UNCHANGED <<server, listed, live, page, panel, form, resourcing, picks>>
        /\ \E from \in {"refused", "sent", "stored"} : Settle(i, from)
    BY <1>4 DEF Fail
  <2>2. puts' \in Seq(Requests)
    BY <1>0, <2>1, Settles
  <2> QED
    BY <2>1, <2>2, Zenon DEF IInv, Copies, Editing, PairOnOffer
<1> QED
  BY <1>1, <1>2, <1>3, <1>4 DEF Update

-----------------------------------------------------------------------------
(* The theorems                                                            *)

LEMMA Invariant == Spec => []IInv
<1>1. Init => IInv
  BY InitAll
<1>2. IInv /\ [Next]_panelVars => IInv'
  <2> SUFFICES ASSUME IInv, [Next]_panelVars PROVE IInv'
    OBVIOUS
  <2>1. CASE UNCHANGED panelVars
    BY <2>1, Zenon DEF panelVars, IInv, Copies, Editing, PairOnOffer
  <2> QED
    BY <2>1, VisitStep, ReadStep, PanelStep, ResourcesStep, UpdateStep DEF Next
<1> QED
  BY <1>1, <1>2, PTL DEF Spec

\* No agent is given the text that was written for another, whichever panels
\* were opened, closed by a late answer and opened again.
THEOREM TextsStayHome == Spec => []TextOfItsAgent
<1>1. IInv => TextOfItsAgent
  BY DEF IInv, Copies, Own, TextOfItsAgent
<1> QED
  BY <1>1, Invariant, PTL

\* The panel offers no key with a model its provider lacks, unless the agent
\* it shows has them.
THEOREM OffersPairs == Spec => []PairOnOffer
<1>1. IInv => PairOnOffer
  BY DEF IInv
<1> QED
  BY <1>1, Invariant, PTL

\* A panel's save leaves the resources of the row as they are by then, and a
\* save of resources everything else.
THEOREM NeitherUndoes == Spec => SavesApart
<1> DEFINE A == \A i \in DOMAIN puts : Store(i) =>
                 LET a == puts[i].agent
                 IN  IF puts[i].body.text = None
                     THEN server'[a] = [server[a] EXCEPT !.resources = server'[a].resources]
                     ELSE server'[a].resources = server[a].resources
<1>1. IInv => A
  <2> SUFFICES ASSUME IInv, NEW i \in DOMAIN puts, Store(i)
               PROVE  LET a == puts[i].agent
                      IN  IF puts[i].body.text = None
                          THEN server'[a] = [server[a] EXCEPT !.resources = server'[a].resources]
                          ELSE server'[a].resources = server[a].resources
    OBVIOUS
  <2> DEFINE a == puts[i].agent
             new == Updated(server[a], puts[i].body)
  <2>1. puts[i].at # "answered" /\ server' = [server EXCEPT ![a] = new]
    BY DEF Store, Step
  <2>2. puts[i] \in Requests /\ a \in Agents
    BY <2>1 DEF IInv, Requests, Sound
  <2>3. server \in [Agents -> Agent] /\ server[a] \in Agent /\ server[a].text.of = a
    BY <2>2 DEF IInv, Copies, Own
  <2>4. IF puts[i].body.text = None THEN new = [server[a] EXCEPT !.resources = new.resources]
                                    ELSE new.resources = server[a].resources
    BY <2>1, <2>2, <2>3, Writes
  <2>5. server'[a] = new
    <3> HIDE DEF new
    <3> QED
      BY <2>1, <2>2, <2>3
  <2> QED
    BY <2>4, <2>5
<1>2. Spec => [][A]_panelVars
  <2>1. IInv /\ [Next]_panelVars => [A]_panelVars
    BY <1>1
  <2> QED
    BY <2>1, Invariant, PTL DEF Spec
<1> QED
  BY <1>2 DEF SavesApart

-----------------------------------------------------------------------------
(***************************************************************************)
(* AgentDrafts: the selection of connections and actions.                  *)
(***************************************************************************)
PickerSound == PickerTypeOK /\ (detail # None => detail \in chosen) /\ NoStrayActions

PickerMoves ==
  \/ UNCHANGED pickerVars
  \/ ClearPicker
  \/ \E c \in Connections : OpenDetail(c)
  \/ ActionDetailView
  \/ \E g \in Integrations : Seed(g)

\* Whatever happens to the selection, it goes through one of its operations.
LEMMA PickerStep == ASSUME PickerSound, PickerMoves PROVE PickerSound'
<1> USE DEF PickerSound, PickerTypeOK, NoStrayActions
<1>1. CASE UNCHANGED pickerVars
  BY <1>1 DEF pickerVars
<1>2. CASE ClearPicker
  BY <1>2 DEF ClearPicker, NoActions
<1>3. ASSUME NEW c \in Connections, OpenDetail(c) PROVE PickerSound'
  BY <1>3 DEF OpenDetail
<1>4. CASE CloseDetail
  BY <1>4 DEF CloseDetail
<1>5. CASE RemoveIntegration
  BY <1>5 DEF RemoveIntegration, Remove
<1>6. ASSUME NEW a \in Actions, ToggleAction(a) PROVE PickerSound'
  BY <1>6 DEF ToggleAction
<1>7. CASE ToggleAll
  BY <1>7 DEF ToggleAll
<1>8. ASSUME NEW g \in Integrations, Seed(g) PROVE PickerSound'
  <2>1. PICK C \in SUBSET Connections : g \in [C -> SUBSET Actions]
    BY DEF Integrations
  <2> QED
    BY <1>8, <2>1 DEF Seed
<1> QED
  BY <1>1, <1>2, <1>3, <1>4, <1>5, <1>6, <1>7, <1>8 DEF PickerMoves, ActionDetailView

\* The wizard's steps, and the dialogs', do no more to it than that.
LEMMA WizardPicks == WizardNext => PickerMoves
<1> USE DEF PickerMoves, draftVars, pickerVars, GoTo
<1>1. OpenWizard \/ CloseWizard => PickerMoves
  BY DEF OpenWizard, CloseWizard, Forget
<1>2. StepChooseMode \/ StepMarketplaceBrowse \/ StepMarketplaceDetail \/ StepSandboxType => PickerMoves
  BY DEF StepChooseMode, SetMode, StepMarketplaceBrowse, StepMarketplaceDetail, StepSandboxType
<1>3. StepIntegrations => PickerMoves
  BY DEF StepIntegrations
<1>4. StepTrigger => PickerMoves
  BY DEF StepTrigger
<1>5. StepLlmKey \/ StepBasics => PickerMoves
  BY DEF StepLlmKey, HandleSelect, StepBasics, LeaveBasics
<1>6. StepSystemPrompt \/ StepInstructions \/ StepSkills \/ StepSubagents \/ StepSummary => PickerMoves
  BY DEF StepSystemPrompt, StepInstructions, StepSkills, StepSubagents, StepSummary, HandleCreate
<1>7. CloseKeyDialog \/ AddLlmKeyDialog => PickerMoves
  BY DEF CloseKeyDialog, AddLlmKeyDialog
<1>8. \A k \in Keys : HandleSubmit(k) \/ KeyAdded(k) \/ KeyRefused(k) => PickerMoves
  BY DEF HandleSubmit, KeyAdded, KeyRefused
<1>9. AgentCreated \/ AgentRefused => PickerMoves
  BY DEF AgentCreated, AgentRefused, Forget
<1> QED
  BY <1>1, <1>2, <1>3, <1>4, <1>5, <1>6, <1>7, <1>8, <1>9 DEF WizardNext, StepRouter

LEMMA EditPicks ==
  ASSUME given \in Integrations, PickerSound, EditNext
  PROVE  PickerMoves /\ given' \in Integrations
<1> USE DEF PickerMoves, pickerVars, dialogVars
<1>1. CASE ShowPanel \/ HidePanel \/ RemoveFromPanel
  <2>1. NoIntegrations \in Integrations
    BY DEF NoIntegrations, Integrations
  <2>2. ASSUME NEW c \in DOMAIN given PROVE [x \in DOMAIN given \ {c} |-> given[x]] \in Integrations
    <3>1. PICK C \in SUBSET Connections : given \in [C -> SUBSET Actions]
      BY DEF Integrations
    <3>2. [x \in DOMAIN given \ {c} |-> given[x]] \in [C \ {c} -> SUBSET Actions]
      BY <3>1
    <3>3. C \ {c} \in SUBSET Connections
      OBVIOUS
    <3> QED
      BY <3>2, <3>3 DEF Integrations
  <2> QED
    BY <1>1, <2>1, <2>2 DEF ShowPanel, HidePanel, RemoveFromPanel, FillForm
<1>2. CASE AgentReadAgain
  BY <1>2 DEF AgentReadAgain, FillForm
<1>3. CASE OpenManage
  BY <1>3 DEF OpenManage
<1>4. CASE ManageIntegrationsDialog
  BY <1>4 DEF ManageIntegrationsDialog, OpenActions, ToggleActions, LeaveActions, ActionDetailView
<1>5. CASE LeaveManage
  <2>1. [c \in chosen |-> actions[c]] \in [chosen -> SUBSET Actions] /\ chosen \in SUBSET Connections
    BY DEF PickerSound, PickerTypeOK
  <2>2. [c \in chosen |-> actions[c]] \in Integrations
    BY <2>1 DEF Integrations
  <2> QED
    BY <1>5, <2>2 DEF LeaveManage
<1>6. CASE OpenTriggers \/ EditTriggersDialog \/ CloseTriggers
  BY <1>6 DEF OpenTriggers, EditTriggersDialog, CloseTriggers
<1> QED
  BY <1>1, <1>2, <1>3, <1>4, <1>5, <1>6 DEF EditNext

Selections == given \in Integrations /\ PickerSound

LEMMA PickerNext == Selections /\ [DraftsNext]_draftsVars => Selections'
<1> SUFFICES ASSUME given \in Integrations, PickerSound, [DraftsNext]_draftsVars
             PROVE  given' \in Integrations /\ PickerMoves
  BY PickerStep DEF Selections
<1>1. CASE WizardNext /\ UNCHANGED dialogVars
  BY <1>1, WizardPicks DEF dialogVars
<1>2. CASE EditNext
  BY <1>2, EditPicks
<1>3. CASE /\ AgentCreated \/ AgentRefused \/ \E k \in Keys : KeyAdded(k) \/ KeyRefused(k)
           /\ UNCHANGED dialogVars
  BY <1>3, WizardPicks DEF WizardNext, dialogVars
<1>4. CASE UNCHANGED draftsVars
  BY <1>4 DEF draftsVars, wizardVars, draftVars, dialogVars, PickerMoves
<1> QED
  BY <1>1, <1>2, <1>3, <1>4 DEF DraftsNext

\* No request ever carries an action of a connection that is not selected, whatever
\* the order in which connections and actions are opened, toggled and removed, in
\* the wizard and in the edit panel's dialog (context.tsx toggleIntegration).
THEOREM StrayActionsNever == DraftsSpec => []NoStrayActions
<1>1. DraftsInit => Selections
  BY DEF Selections, DraftsInit, WizardInit, BlankDraft, EmptyPicker, NoActions, EditInit, NoIntegrations, Integrations,
         PickerSound, PickerTypeOK, NoStrayActions
<1>2. Selections => NoStrayActions
  BY DEF Selections, PickerSound
<1> QED
  BY <1>1, <1>2, PickerNext, PTL DEF DraftsSpec

-----------------------------------------------------------------------------
(***************************************************************************)
(* AgentDrafts: what the draft has, by the step that is shown.  A request  *)
(* for a key is listened to on its step alone, and only the last of them;  *)
(* its dialog is over that step, and the request for the agent is listened *)
(* to while the wizard is open.                                            *)
(***************************************************************************)
AfterPrompt == {"instructions", "skills", "subagents", "summary"}
AfterBasics == {"system-prompt"} \cup AfterPrompt
AfterKey == {"basics"} \cup AfterBasics

Filled ==
  /\ step \in AfterKey => key \in Keys /\ keys[key] = "there"
  /\ step \in AfterBasics => named = TRUE /\ model # None
  /\ step \in AfterPrompt => prompts # {}

Listening ==
  /\ keys \in [Keys -> {"absent", "asked", "orphan", "there"}]
  /\ named \in BOOLEAN /\ create \in BOOLEAN
  /\ \A k \in Keys : keys[k] = "asked" => step = "llm-key"
  /\ \A k, l \in Keys : keys[k] = "asked" /\ keys[l] = "asked" => k = l
  /\ keyDialog # "closed" => step = "llm-key"
  /\ create => step # "closed"

DraftSound == Filled /\ Listening

LEMMA WizardFills == ASSUME DraftSound, WizardNext PROVE DraftSound'
<1> USE DEF DraftSound, Filled, Listening, AfterKey, AfterBasics, AfterPrompt, GoTo,
        draftVars, formVars, keyVars, callVars
<1>0. /\ Unheard \in [Keys -> {"absent", "asked", "orphan", "there"}]
      /\ \A k \in Keys : Unheard[k] # "asked" /\ (keys[k] = "there" => Unheard[k] = "there")
  BY DEF Unheard
<1>1. CASE OpenWizard
  BY <1>1 DEF OpenWizard
<1>2. CASE CloseWizard
  BY <1>0, <1>2 DEF CloseWizard, Forget
<1>3. CASE StepChooseMode \/ StepMarketplaceBrowse \/ StepMarketplaceDetail \/ StepSandboxType
  BY <1>3 DEF StepChooseMode, SetMode, StepMarketplaceBrowse, StepMarketplaceDetail, StepSandboxType
<1>4. CASE StepIntegrations
  BY <1>4 DEF StepIntegrations
<1>5. CASE StepTrigger
  BY <1>5 DEF StepTrigger
<1>6. CASE StepLlmKey
  BY <1>0, <1>6 DEF StepLlmKey, HandleSelect
<1>7. CASE StepBasics
  BY <1>7 DEF StepBasics, LeaveBasics
<1>8. CASE StepSystemPrompt
  BY <1>8 DEF StepSystemPrompt
<1>9. CASE StepInstructions \/ StepSkills \/ StepSubagents \/ StepSummary
  BY <1>9 DEF StepInstructions, StepSkills, StepSubagents, StepSummary, HandleCreate
<1>10. CASE CloseKeyDialog \/ AddLlmKeyDialog
  BY <1>10 DEF CloseKeyDialog, AddLlmKeyDialog
<1>11. ASSUME NEW k \in Keys, HandleSubmit(k) PROVE DraftSound'
  BY <1>0, <1>11 DEF HandleSubmit
<1>12. ASSUME NEW k \in Keys, KeyAdded(k) PROVE DraftSound'
  BY <1>12 DEF KeyAdded
<1>13. ASSUME NEW k \in Keys, KeyRefused(k) PROVE DraftSound'
  BY <1>13 DEF KeyRefused
<1>14. CASE AgentCreated
  <2>1. CASE /\ create' = FALSE /\ step' = "closed" /\ Forget
             /\ keys' = Unheard /\ keyDialog' = "closed"
    BY <1>0, <2>1 DEF Forget
  <2>2. CASE UNCHANGED <<step, draftVars, keyVars, create>>
    BY <2>2
  <2> QED
    BY <1>14, <2>1, <2>2 DEF AgentCreated
<1>15. CASE AgentRefused
  <2>1. /\ UNCHANGED <<step, draftVars, keyVars>>
        /\ create' = FALSE \/ UNCHANGED create
    BY <1>15, Zenon DEF AgentRefused
  <2>2. CASE create' = FALSE
    BY <2>1, <2>2
  <2>3. CASE UNCHANGED create
    BY <2>1, <2>3
  <2> QED
    BY <2>1, <2>2, <2>3
<1> QED
  BY <1>1, <1>2, <1>3, <1>4, <1>5, <1>6, <1>7, <1>8, <1>9, <1>10, <1>11, <1>12, <1>13, <1>14, <1>15
  DEF WizardNext, StepRouter

LEMMA DraftsFill == DraftSound /\ [DraftsNext]_draftsVars => DraftSound'
<1> SUFFICES ASSUME DraftSound, [DraftsNext]_draftsVars PROVE DraftSound'
  OBVIOUS
<1>1. CASE WizardNext
  BY <1>1, WizardFills
<1>2. CASE UNCHANGED <<step, formVars, listVars, keyVars, callVars>>
  BY <1>2 DEF DraftSound, Filled, Listening, formVars, keyVars, callVars
<1>3. CASE AgentCreated \/ AgentRefused \/ \E k \in Keys : KeyAdded(k) \/ KeyRefused(k)
  BY <1>3, WizardFills DEF WizardNext
<1>4. CASE UNCHANGED draftsVars
  BY <1>2, <1>4 DEF draftsVars, wizardVars, draftVars
<1> QED
  BY <1>1, <1>2, <1>3, <1>4 DEF DraftsNext

\* "Create agent" always sends something the API accepts: the summary is reached, by
\* whichever way and past whichever late answer of the key dialog, only with a name, a
\* key that is stored, a model and a prompt (context.tsx handleCreate).
THEOREM SummariesComplete == DraftsSpec => []SummaryIsComplete
<1>1. DraftsInit => DraftSound
  BY DEF DraftsInit, WizardInit, BlankDraft, DraftSound, Filled, Listening, AfterKey, AfterBasics, AfterPrompt
<1>2. DraftSound => SummaryIsComplete
  BY NoneIsNoKey
     DEF DraftSound, Filled, AfterKey, AfterBasics, AfterPrompt, SummaryIsComplete, Accepted, CreateBody
<1> QED
  BY <1>1, <1>2, DraftsFill, PTL DEF DraftsSpec

-----------------------------------------------------------------------------
(***************************************************************************)
(* AgentDrafts: the triggers.  In the wizard every trigger with a filter   *)
(* has one event; the events picked are finitely many, so that a list of   *)
(* triggers is as long as they are many; no dialog of the panel outlives   *)
(* it, and neither does its form.                                          *)
(***************************************************************************)
Single(t) == t.filter # None => Cardinality(t.keys) = 1

Singles(ts) ==
  /\ ts \in Seq({ts[i] : i \in DOMAIN ts})
  /\ \A i \in DOMAIN ts : Single(ts[i])

FlowSound ==
  /\ ~panelOpen => dialog = "none" /\ Singles(triggers)
  /\ dialog # "triggers" => IsFiniteSet(DOMAIN events)

\* An event with a filter gets a trigger of its own; the others share one without.
LEMMA SplitSingles ==
  ASSUME IsFiniteSet(DOMAIN events)
  PROVE  IsFiniteSet(SplitTriggers) /\ \A t \in SplitTriggers : Single(t)
<1> DEFINE D == DOMAIN events \ Unfiltered
           T == {TriggerOf({e}, events[e]) : e \in D}
           f == [e \in D |-> TriggerOf({e}, events[e])]
<1>1. ASSUME NEW t \in SplitTriggers PROVE Single(t)
  <2>1. CASE t = TriggerOf(Unfiltered, None)
    BY <2>1 DEF TriggerOf, Single
  <2>2. CASE \E e : t = TriggerOf({e}, events[e])
    <3>1. PICK e : t.keys = {e}
      BY <2>2 DEF TriggerOf
    <3> QED
      BY <3>1, FS_Singleton DEF Single
  <2> QED
    BY <2>1, <2>2 DEF SplitTriggers
<1>2. IsFiniteSet(D)
  BY FS_Subset
<1>3. f \in Surjection(D, T)
  BY DEF Surjection
<1>4. IsFiniteSet(T)
  <2> HIDE DEF D, T, f
  <2> QED
    BY <1>2, <1>3, FS_Surjection
<1>5. IsFiniteSet({}) /\ IsFiniteSet({TriggerOf(Unfiltered, None)})
  BY FS_EmptySet, FS_Singleton
<1> QED
  BY <1>1, <1>4, <1>5, FS_Union DEF SplitTriggers

LEMMA NoTriggers == Singles(<<>>)
BY DEF Singles

LEMMA RemovesTrigger ==
  ASSUME Singles(triggers), NEW i \in DOMAIN triggers, RemoveTrigger(i)
  PROVE  Singles(triggers')
<1> DEFINE S == {triggers[j] : j \in DOMAIN triggers}
           n == Len(triggers) - 1
<1>1. triggers \in Seq(S) /\ DOMAIN triggers = 1 .. Len(triggers) /\ Len(triggers) \in Nat /\ n \in Nat
  BY DEF Singles
<1>2. /\ DOMAIN triggers' = 1 .. n
      /\ \A j \in 1 .. n : triggers'[j] \in S
      /\ triggers' = [j \in 1 .. n |-> triggers'[j]]
  BY <1>1 DEF RemoveTrigger
<1>3. \A j \in DOMAIN triggers' : Single(triggers'[j])
  BY <1>2 DEF Singles
<1>4. triggers' \in Seq({triggers'[j] : j \in DOMAIN triggers'})
  <2> DEFINE R == {triggers'[j] : j \in 1 .. n}
  <2>1. triggers' \in [1 .. n -> R]
    BY <1>2
  <2> HIDE DEF R, n
  <2>2. triggers' \in Seq(R)
    BY <1>1, <2>1
  <2> QED
    BY <1>2, <2>2 DEF R
<1> QED
  BY <1>3, <1>4 DEF Singles

LEMMA ListsSplit ==
  ASSUME Singles(triggers), IsFiniteSet(DOMAIN events), NEW s \in Listed(SplitTriggers)
  PROVE  Singles(triggers \o s)
<1> DEFINE n == Cardinality(SplitTriggers)
           ts == triggers \o s
           S == {triggers[j] : j \in DOMAIN triggers} \cup SplitTriggers
<1>1. n \in Nat
  BY SplitSingles, FS_CardinalityType
<1>2. s \in [1 .. n -> SplitTriggers]
  BY DEF Listed
<1>3. \A t \in S : Single(t)
  BY SplitSingles DEF Singles
<1>4. triggers \in Seq(S)
  <2>1. triggers \in Seq({triggers[j] : j \in DOMAIN triggers})
    BY DEF Singles
  <2> QED
    BY <2>1
<1>5. s \in Seq(S)
  <2> HIDE DEF n
  <2> QED
    BY <1>1, <1>2
<1> HIDE DEF S
<1>6. ts \in Seq(S)
  BY <1>4, <1>5, ConcatProperties
<1> HIDE DEF ts
<1>7. \A j \in DOMAIN ts : ts[j] \in S
  BY <1>6
<1>8. ts \in Seq({ts[j] : j \in DOMAIN ts})
  BY <1>6
<1> QED
  BY <1>3, <1>7, <1>8 DEF Singles, ts

\* What the wizard does to the triggers, and to the events picked.
WizardFlows ==
  /\ \/ UNCHANGED triggers
     \/ triggers' = <<>>
     \/ \E i \in DOMAIN triggers : RemoveTrigger(i)
     \/ \E s \in Listed(SplitTriggers) : triggers' = triggers \o s
  /\ \/ DOMAIN events' \subseteq DOMAIN events
     \/ \E e : DOMAIN events' = DOMAIN events \cup {e}

LEMMA TriggerStep == StepTrigger => WizardFlows
<1> USE DEF WizardFlows, flowVars, FlowReset, NoEvents
<1>1. ChoiceView \/ BackInFlow => WizardFlows
  BY DEF ChoiceView, BackInFlow
<1>2. HandlePickConnection(chosen) \/ BackFromConditions => WizardFlows
  BY DEF HandlePickConnection, BackFromConditions
<1>3. ASSUME NEW e, ToggleEvent(e) \/ RemoveEvent(e) \/ HandleOpenConditions(e) PROVE WizardFlows
  BY <1>3 DEF ToggleEvent, RemoveEvent, HandleOpenConditions
<1>4. ConditionBuilderView => WizardFlows
  BY DEF ConditionBuilderView, AddCondition, RemoveCondition, HandlePathSelect, TypePath, InBuilder
<1>5. HandleConfirmConditions => WizardFlows
  BY DEF HandleConfirmConditions
<1>6. \A s \in Listed(SplitTriggers) : HandleConfirmSelection(s) => WizardFlows
  BY DEF HandleConfirmSelection
<1> QED
  BY <1>1, <1>2, <1>3, <1>4, <1>5, <1>6 DEF StepTrigger, TriggerPickerView

LEMMA WizardStep == WizardNext => WizardFlows
<1> DEFINE rests == UNCHANGED <<flowVars, triggers>> \/ (FlowReset /\ triggers' = <<>>)
<1>1. rests => WizardFlows
  BY DEF WizardFlows, flowVars, FlowReset, NoEvents
<1> USE DEF draftVars, GoTo
<1>2. OpenWizard \/ CloseWizard => rests
  BY DEF OpenWizard, CloseWizard, Forget
<1>3. StepChooseMode \/ StepMarketplaceBrowse \/ StepMarketplaceDetail \/ StepSandboxType => rests
  BY DEF StepChooseMode, SetMode, StepMarketplaceBrowse, StepMarketplaceDetail, StepSandboxType
<1>4. StepIntegrations \/ StepLlmKey \/ StepBasics => rests
  BY DEF StepIntegrations, StepLlmKey, HandleSelect, StepBasics, LeaveBasics
<1>5. StepSystemPrompt \/ StepInstructions \/ StepSkills \/ StepSubagents \/ StepSummary => rests
  BY DEF StepSystemPrompt, StepInstructions, StepSkills, StepSubagents, StepSummary, HandleCreate
<1>6. CloseKeyDialog \/ AddLlmKeyDialog \/ AgentCreated \/ AgentRefused => rests
  BY DEF CloseKeyDialog, AddLlmKeyDialog, AgentCreated, AgentRefused, Forget
<1>7. \A k \in Keys : HandleSubmit(k) \/ KeyAdded(k) \/ KeyRefused(k) => rests
  BY DEF HandleSubmit, KeyAdded, KeyRefused
<1> HIDE DEF rests
<1> QED
  BY <1>1, <1>2, <1>3, <1>4, <1>5, <1>6, <1>7, TriggerStep, Zenon DEF WizardNext, StepRouter

LEMMA WizardSingles == ASSUME FlowSound, WizardFlows, UNCHANGED dialogVars PROVE FlowSound'
<1> USE DEF dialogVars
<1>1. dialog # "triggers" => IsFiniteSet(DOMAIN events')
  BY FS_Subset, FS_AddElement DEF FlowSound, WizardFlows
<1>2. ASSUME ~panelOpen PROVE Singles(triggers')
  <2>1. Singles(triggers) /\ IsFiniteSet(DOMAIN events)
    BY <1>2 DEF FlowSound
  <2> QED
    BY <2>1, NoTriggers, RemovesTrigger, ListsSplit DEF WizardFlows
<1> QED
  BY <1>1, <1>2 DEF FlowSound

LEMMA EditSingles == ASSUME FlowSound, EditNext PROVE FlowSound'
<1> USE DEF FlowSound, flowVars, dialogVars
<1>1. CASE ShowPanel \/ AgentReadAgain \/ RemoveFromPanel
  BY <1>1 DEF ShowPanel, AgentReadAgain, RemoveFromPanel
<1>2. CASE HidePanel
  BY <1>2, NoTriggers DEF HidePanel
<1>3. CASE OpenManage \/ ManageIntegrationsDialog \/ LeaveManage
  BY <1>3 DEF OpenManage, ManageIntegrationsDialog, LeaveManage
<1>4. CASE OpenTriggers \/ EditTriggersDialog
  BY <1>4 DEF OpenTriggers, EditTriggersDialog
<1>5. CASE CloseTriggers
  <2>1. DOMAIN events' = {} /\ IsFiniteSet({})
    BY <1>5, FS_EmptySet DEF CloseTriggers, ResetFlowState, NoEvents
  <2> QED
    BY <1>5, <2>1 DEF CloseTriggers
<1> QED
  BY <1>1, <1>2, <1>3, <1>4, <1>5 DEF EditNext

LEMMA FlowNext == FlowSound /\ [DraftsNext]_draftsVars => FlowSound'
<1> SUFFICES ASSUME FlowSound, [DraftsNext]_draftsVars PROVE FlowSound'
  OBVIOUS
<1>1. CASE WizardNext /\ UNCHANGED dialogVars
  BY <1>1, WizardStep, WizardSingles
<1>2. CASE EditNext
  BY <1>2, EditSingles
<1>3. CASE /\ AgentCreated \/ AgentRefused \/ \E k \in Keys : KeyAdded(k) \/ KeyRefused(k)
           /\ UNCHANGED dialogVars
  BY <1>3, WizardStep, WizardSingles DEF WizardNext
<1>4. CASE UNCHANGED draftsVars
  BY <1>4 DEF draftsVars, wizardVars, draftVars, flowVars, dialogVars, FlowSound, Singles
<1> QED
  BY <1>1, <1>2, <1>3, <1>4 DEF DraftsNext

\* In the wizard no event is filtered by what was set for another one: "Events with
\* filters get their own trigger each" (trigger-flow's handleConfirmSelection), for any
\* events picked, any filters, and any triggers added and removed before.
THEOREM FiltersStayApart == DraftsSpec => []FilterHasOneEvent
<1>1. DraftsInit => FlowSound
  BY NoTriggers, FS_EmptySet
     DEF DraftsInit, WizardInit, BlankDraft, FlowAtRest, NoEvents, EditInit, FlowSound
<1>2. FlowSound => FilterHasOneEvent
  BY DEF FlowSound, Singles, Single, FilterHasOneEvent
<1> QED
  BY <1>1, <1>2, FlowNext, PTL DEF DraftsSpec

=============================================================================
