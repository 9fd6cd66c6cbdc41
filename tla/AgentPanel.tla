----------------------------- MODULE AgentPanel -----------------------------
(***************************************************************************)
(* Editing agents that exist: the edit panel, opened from the list with a  *)
(* captured copy of an agent or from the agent's own page with the query's *)
(* current one; the resources dialog of the list; the cached reads both    *)
(* pages show; and the PUT handler, which checks a request against the row *)
(* it read and stores it in a later step.                                  *)
(*                                                                         *)
(* The panel's fields are its LLM key, its model, and one text standing    *)
(* for the others; a text is written for one agent.                        *)
(***************************************************************************)
EXTENDS Naturals, Sequences, AgentParts

CONSTANTS
    Agents,
    ModelsOf,       \* the models the provider of a key has
    Created,        \* the key and the model the agents were created with
    Resources,
    MaxSaves        \* requests sent

ASSUME ModelsOfAssumption == ModelsOf \in [Keys -> SUBSET Models]

ASSUME NoneAssumption == None \notin [of : Agents, edited : BOOLEAN]

ASSUME ListIsNoAgent == "list" \notin Agents

ASSUME CreatedAssumption == Created \in Keys \X Models /\ Created[2] \in ModelsOf[Created[1]]

VARIABLES
    server,     \* the agents the API holds
    listed,     \* what the list's query read last
    live,       \* what each agent's own query read last
    page,       \* "list", or the agent whose page is shown
    panel,      \* editingAgent, or the page's agent while the panel is open; None when closed
    form,
    resourcing, \* resourcesAgent
    picks,      \* the resources ticked in its dialog
    puts        \* the requests sent, in order

panelVars == <<server, listed, live, page, panel, form, resourcing, picks, puts>>

Text == [of : Agents, edited : BOOLEAN]

Agent == [key : Keys, model : Models, text : Text, resources : SUBSET Resources]

Form == [key : Keys, model : Models \cup {None}, text : Text]

\* A field a request does not carry is None.
Body ==
    [key : Keys \cup {None}, model : Models \cup {None}, text : Text \cup {None},
     resources : (SUBSET Resources) \cup {None}]

NoBody == [key |-> None, model |-> None, text |-> None, resources |-> None]

\* from is the dialog that waits for the answer, "none" once it was unmounted.
Put ==
    [agent : Agents \cup {None}, body : Body, from : {"panel", "resources", "none"},
     at : {"sent", "checked", "refused", "stored", "answered"}]

TypeOK ==
    /\ server \in [Agents -> Agent] /\ listed \in [Agents -> Agent] /\ live \in [Agents -> Agent]
    /\ page \in Agents \cup {"list"}
    /\ panel = None \/ (panel.id \in Agents /\ panel.data \in Agent)
    /\ form = None \/ form \in Form
    /\ resourcing \in Agents \cup {None}
    /\ picks \subseteq Resources
    /\ \A i \in DOMAIN puts : puts[i] \in Put

Fits(k, m) == m \in ModelsOf[k]

Original(a) == [of |-> a, edited |-> FALSE]

Init ==
    /\ server = [a \in Agents |->
            [key |-> Created[1], model |-> Created[2], text |-> Original(a), resources |-> {}]]
    /\ listed = server /\ live = server
    /\ page = "list" /\ panel = None /\ form = None
    /\ resourcing = None /\ picks = {}
    /\ puts = <<>>

Busy(from) == \E i \in DOMAIN puts : puts[i].at # "answered" /\ puts[i].from = from

-----------------------------------------------------------------------------
(* Pages and queries                                                       *)

\* Leaving a page unmounts its dialogs: their requests go on, unheard.
Visit(p) ==
    /\ p # page /\ page' = p
    /\ panel' = None /\ form' = None /\ resourcing' = None /\ picks' = {}
    /\ puts' = [i \in DOMAIN puts |-> [puts[i] EXCEPT !.from = "none"]]
    /\ UNCHANGED <<server, listed, live>>

ReadList ==
    /\ page = "list" /\ listed # server /\ listed' = server
    /\ UNCHANGED <<server, live, page, panel, form, resourcing, picks, puts>>

\* A bug to catch: a form that was filled once keeps what it holds.
KeepsDraft(a, data) ==
    /\ panel' = [id |-> a, data |-> data]
    /\ form' = IF form = None THEN [key |-> data.key, model |-> data.model, text |-> data.text] ELSE form

\* The effect on [open, agent]: the form is the agent's, whatever it was before.
ShowAgent(a, data) ==
    /\ panel' = [id |-> a, data |-> data]
    /\ form' = [key |-> data.key, model |-> data.model, text |-> data.text]

\* An agent's own page keeps reading it, and an open panel follows.
ReadAgent ==
    /\ page \in Agents /\ live[page] # server[page]
    /\ live' = [live EXCEPT ![page] = server[page]]
    /\ IF panel = None THEN UNCHANGED <<panel, form>> ELSE ShowAgent(page, server[page])
    /\ UNCHANGED <<server, listed, page, resourcing, picks, puts>>

-----------------------------------------------------------------------------
(* The panel                                                               *)

OpenPanel(a) ==
    /\ panel = None /\ resourcing = None
    /\ \/ page = "list" /\ ShowAgent(a, listed[a])
       \/ page = a /\ ShowAgent(a, live[a])
    /\ UNCHANGED <<server, listed, live, page, resourcing, picks, puts>>

\* The form is not emptied; the effect fills it before it is seen again.
ClosePanel ==
    /\ panel # None /\ panel' = None
    /\ UNCHANGED <<server, listed, live, page, form, resourcing, picks, puts>>

\* A bug to catch: another key keeps the model.
SelectKeyOnly(k) == form' = [form EXCEPT !.key = k]

SelectKey(k) == form' = IF k = form.key THEN form ELSE [form EXCEPT !.key = k, !.model = None]

\* The models offered are those of the key's provider.
EditForm ==
    /\ panel # None
    /\ \/ \E k \in Keys : SelectKey(k)
       \/ \E m \in ModelsOf[form.key] : form' = [form EXCEPT !.model = m]
       \/ form' = [form EXCEPT !.text = [of |-> panel.id, edited |-> TRUE]]
    /\ UNCHANGED <<server, listed, live, page, panel, resourcing, picks, puts>>

Send(a, body, from) ==
    /\ ~Busy(from) /\ Len(puts) < MaxSaves
    /\ puts' = Append(puts, [agent |-> a, body |-> body, from |-> from, at |-> "sent"])

\* A bug to catch: the panel sends the agent back as it was read, with the form's fields.
SaveWholeAgent ==
    /\ panel # None
    /\ Send(panel.id, [key |-> form.key, model |-> form.model, text |-> form.text,
                       resources |-> panel.data.resources], "panel")
    /\ UNCHANGED <<server, listed, live, page, panel, form, resourcing, picks>>

\* handleSave: the form's fields and no other; an empty model is left out.
HandleSave ==
    /\ panel # None
    /\ Send(panel.id, [key |-> form.key, model |-> form.model, text |-> form.text,
                       resources |-> None], "panel")
    /\ UNCHANGED <<server, listed, live, page, panel, form, resourcing, picks>>

EditAgentPanel == (\E a \in Agents : OpenPanel(a)) \/ ClosePanel \/ EditForm \/ HandleSave

-----------------------------------------------------------------------------
(* ConfigureResourcesDialog, over the list                                 *)

OpenResources(a) ==
    /\ page = "list" /\ panel = None /\ resourcing = None
    /\ resourcing' = a /\ picks' = listed[a].resources
    /\ UNCHANGED <<server, listed, live, page, panel, form, puts>>

ToggleResource(r) ==
    /\ resourcing # None
    /\ picks' = IF r \in picks THEN picks \ {r} ELSE picks \cup {r}
    /\ UNCHANGED <<server, listed, live, page, panel, form, resourcing, puts>>

CloseResources ==
    /\ resourcing # None /\ resourcing' = None /\ picks' = {}
    /\ UNCHANGED <<server, listed, live, page, panel, form, puts>>

SaveResources ==
    /\ resourcing # None
    /\ Send(resourcing, [NoBody EXCEPT !.resources = picks], "resources")
    /\ UNCHANGED <<server, listed, live, page, panel, form, resourcing, picks>>

\* Connections, their types of resources, and the resources of one of them.
ResourceViews == \E r \in Resources : ToggleResource(r)

ConfigureResourcesDialog ==
    \/ \E a \in Agents : OpenResources(a)
    \/ ResourceViews
    \/ CloseResources \/ SaveResources

-----------------------------------------------------------------------------
(* PUT /v1/agents/{id}                                                     *)

Or(field, value) == IF field = None THEN value ELSE field

Updated(row, body) ==
    [key |-> Or(body.key, row.key), model |-> Or(body.model, row.model),
     text |-> Or(body.text, row.text), resources |-> Or(body.resources, row.resources)]

Step(i, from, to) == puts[i].at = from /\ puts' = [puts EXCEPT ![i].at = to]

\* Of an answered request nothing is kept but that it was sent.
Over == [agent |-> None, body |-> NoBody, from |-> "none", at |-> "answered"]

Settle(i, from) == puts[i].at = from /\ puts' = [puts EXCEPT ![i] = Over]

\* The key and the model are checked together when either is sent, against the row read.
Check(i) ==
    LET row == Updated(server[puts[i].agent], puts[i].body)
        unchecked == puts[i].body.key = None /\ puts[i].body.model = None
    IN  /\ IF unchecked \/ Fits(row.key, row.model) THEN Step(i, "sent", "checked") ELSE Step(i, "sent", "refused")
        /\ UNCHANGED <<server, listed, live, page, panel, form, resourcing, picks>>

\* Only the columns sent are written.
Store(i) ==
    /\ Step(i, "checked", "stored")
    /\ server' = [server EXCEPT ![puts[i].agent] = Updated(@, puts[i].body)]
    /\ UNCHANGED <<listed, live, page, panel, form, resourcing, picks>>

\* onSuccess closes the dialog that waits, whichever agent it shows by now.
Succeed(i) ==
    /\ Settle(i, "stored")
    /\ panel' = IF puts[i].from = "panel" THEN None ELSE panel
    /\ resourcing' = IF puts[i].from = "resources" THEN None ELSE resourcing
    /\ picks' = IF puts[i].from = "resources" THEN {} ELSE picks
    /\ UNCHANGED <<server, listed, live, page, form>>

\* An error, or an answer that never arrives, is told and changes nothing.
Fail(i) ==
    /\ Settle(i, "refused") \/ Settle(i, "sent") \/ Settle(i, "stored")
    /\ UNCHANGED <<server, listed, live, page, panel, form, resourcing, picks>>

Update == \E i \in DOMAIN puts : Check(i) \/ Store(i) \/ Succeed(i) \/ Fail(i)

Next ==
    \/ \E p \in Agents \cup {"list"} : Visit(p)
    \/ ReadList \/ ReadAgent
    \/ EditAgentPanel \/ ConfigureResourcesDialog \/ Update

Spec == Init /\ [][Next]_panelVars

-----------------------------------------------------------------------------
(***************************************************************************)
(* No agent is given what was written for another one, whichever panels    *)
(* were opened, closed by a late answer, and opened again over drafts that *)
(* were abandoned.                                                         *)
(***************************************************************************)
TextOfItsAgent == \A a \in Agents : server[a].text.of = a

(***************************************************************************)
(* The panel and the resources dialog never undo each other, though both   *)
(* work on old copies of the agent: a panel's save leaves the resources as *)
(* they are by then, a save of resources everything else.                  *)
(***************************************************************************)
SavesApart ==
    [][\A i \in DOMAIN puts : Store(i) =>
        LET a == puts[i].agent
        IN  IF puts[i].body.text = None
            THEN server'[a] = [server[a] EXCEPT !.resources = server'[a].resources]
            ELSE server'[a].resources = server[a].resources]_panelVars

(***************************************************************************)
(* The panel never offers to save a key with a model its provider lacks,   *)
(* unless that is what the agent it shows has: so that a save that is      *)
(* refused was refused for what changed elsewhere.                         *)
(***************************************************************************)
PairOnOffer ==
    panel # None =>
        \/ form.model = None
        \/ Fits(form.key, form.model)
        \/ form.key = panel.data.key /\ form.model = panel.data.model

=============================================================================
