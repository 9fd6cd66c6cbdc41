------------------------------ MODULE ListPage ------------------------------
(***************************************************************************)
(* A list page of the admin or of the web console: the rows as the API     *)
(* holds them, the list the page shows, the requests under way, and what   *)
(* the page keeps of them: which row is busy, whether a save is under way, *)
(* which dialog is open.  Which page it is is chosen in the initial state; *)
(* AdminPages and SettingsPages describe the pages.                        *)
(*                                                                         *)
(* Requests are answered in any order, refused, or lost on the way there   *)
(* or back.  The list is a query of TanStack Query: invalidating it        *)
(* cancels and restarts a GET under way, unless it is the first one.       *)
(***************************************************************************)
EXTENDS SettingsPages, Naturals, FiniteSets

CONSTANTS
    Row, None,
    MaxRequests,    \* requests a behaviour sends
    MaxElsewhere    \* rows someone else deletes

Slot == 1 .. MaxRequests

ASSUME PageAssumption == MaxRequests \in Nat /\ None \notin Row

Query ==
    [users |-> UsersQuery, orgs |-> OrgsQuery, agents |-> AgentsQuery, skills |-> SkillsQuery,
     templates |-> TemplatesQuery, integrations |-> IntegrationsQuery,
     sandboxes |-> SandboxesQuery, credentials |-> CredentialsQuery, apiKeys |-> ApiKeysQuery,
     tokens |-> TokensQuery, conversations |-> ConversationsQuery, domains |-> DomainsQuery,
     storage |-> StorageQuery, keys |-> KeysQuery, llmKeys |-> KeysQuery,
     ownSkills |-> KeysQuery, ownTemplates |-> KeysQuery, connections |-> KeysQuery,
     agentTable |-> KeysQuery]

Menu ==
    [users |-> UsersMenu, orgs |-> OrgsMenu, agents |-> AgentsMenu, skills |-> SkillsMenu,
     templates |-> TemplatesMenu, integrations |-> IntegrationsMenu,
     sandboxes |-> SandboxesMenu, credentials |-> CredentialsMenu, apiKeys |-> ApiKeysMenu,
     tokens |-> TokensMenu, conversations |-> ConversationsMenu, domains |-> DomainsMenu,
     storage |-> StorageMenu, keys |-> KeysMenu, llmKeys |-> LlmKeysMenu,
     ownSkills |-> OwnSkillsMenu, ownTemplates |-> OwnTemplatesMenu,
     connections |-> ConnectionsMenu, agentTable |-> AgentTableMenu]

Calls ==
    [users |-> UsersCalls, orgs |-> OrgsCalls, agents |-> AgentsCalls, skills |-> SkillsCalls,
     templates |-> TemplatesCalls, integrations |-> IntegrationsCalls,
     sandboxes |-> SandboxesCalls, credentials |-> CredentialsCalls, apiKeys |-> ApiKeysCalls,
     tokens |-> TokensCalls, conversations |-> ConversationsCalls, domains |-> DomainsCalls,
     storage |-> StorageCalls, keys |-> KeysCalls, llmKeys |-> LlmKeysCalls,
     ownSkills |-> OwnSkillsCalls, ownTemplates |-> OwnTemplatesCalls,
     connections |-> ConnectionsCalls, agentTable |-> AgentTableCalls]

Form ==
    [users |-> UsersForm, orgs |-> OrgsForm, agents |-> AgentsForm, skills |-> SkillsForm,
     templates |-> TemplatesForm, integrations |-> IntegrationsForm]

VARIABLES
    page,
    \* the API
    there,      \* the rows that exist
    flags,      \* the state of a row
    text,       \* the row whose edit form its text was read from
    version,    \* how often a row changed
    applied,    \* the last save applied to a row (history)
    elsewhere,
    \* the query
    tab,
    list,       \* what the page shows: None, or the rows of the tab
    get,        \* "idle", "sent", "read"
    carried,    \* the rows the answer carries
    broken,
    \* the requests
    act, on, body, phase,
    latest,     \* whether a request is the last of its mutation
    reached,    \* the version its change made
    sends,
    \* the page's own state
    busy,       \* mutating, deletingId, revokingId
    saving,     \* editSaving
    ask,        \* the dialog that is open, and its row
    editing, draft,
    owed        \* the version a row was known to have (history)

apiVars  == <<there, flags, text, version, applied, elsewhere>>
getVars  == <<tab, list, get, carried, broken>>
reqVars  == <<act, on, body, phase, latest, reached, sends>>
pageVars == <<busy, saving, ask, editing, draft>>
vars == <<page, apiVars, getVars, reqVars, pageVars, owed>>

Tabs == DOMAIN Query[page]

Holds(when, f) == when.needs \subseteq f /\ when.bars \cap f = {}

\* The states of a row the tabs and the menu of a page tell apart.
Possible(p) ==
    LET tests == {Query[p][t] : t \in DOMAIN Query[p]} \cup {m.when : m \in Menu[p]}
    IN  {{}} \cup {w.needs : w \in tests} \cup {{f} : f \in UNION {w.bars : w \in tests}}

\* What the API answers to the GET of a tab.
Selected(t) ==
    [r \in Row |->
        [flags |-> flags[r], text |-> text[r], version |-> version[r],
         shown |-> r \in there /\ Holds(Query[page][t], flags[r])]]

Init ==
    /\ page \in DOMAIN Query
    /\ there = Row
    /\ \E f \in Possible(page) : flags = [r \in Row |-> f]
    /\ text = [r \in Row |-> r]
    /\ version = [r \in Row |-> 0]
    /\ applied = [r \in Row |-> 0]
    /\ elsewhere = 0
    /\ tab = "all" /\ list = None /\ get = "sent" /\ carried = None /\ broken = FALSE
    /\ act = [s \in Slot |-> None]
    /\ on = [s \in Slot |-> None]
    /\ body = [s \in Slot |-> None]
    /\ phase = [s \in Slot |-> "unsent"]
    /\ latest = [s \in Slot |-> FALSE]
    /\ reached = [s \in Slot |-> 0]
    /\ sends = 0
    /\ busy = None /\ saving = FALSE /\ ask = None /\ editing = None
    /\ draft = [text |-> None, flags |-> {}]
    /\ owed = [r \in Row |-> 0]

-----------------------------------------------------------------------------
(* The query                                                               *)

\* The API reads the rows of the tab.
Read ==
    /\ get = "sent"
    /\ get' = "read" /\ carried' = Selected(tab)
    /\ UNCHANGED <<page, apiVars, tab, list, broken, reqVars, pageVars, owed>>

Arrive ==
    /\ get = "read"
    /\ list' = carried /\ get' = "idle" /\ carried' = None /\ broken' = FALSE
    /\ UNCHANGED <<page, apiVars, tab, reqVars, pageVars, owed>>

\* The GET fails: what was loaded before stays loaded.
Break ==
    /\ get # "idle"
    /\ get' = "idle" /\ carried' = None /\ broken' = TRUE
    /\ UNCHANGED <<page, apiVars, tab, list, reqVars, pageVars, owed>>

\* Another tab is another query, loaded anew.
SwitchTab(t) ==
    /\ ask = None /\ editing = None
    /\ t # tab
    /\ tab' = t /\ list' = None /\ get' = "sent" /\ carried' = None /\ broken' = FALSE
    /\ UNCHANGED <<page, apiVars, reqVars, pageVars, owed>>

\* Mutated: a GET under way is taken for the refetch.
InvalidateJoins == IF get # "idle" THEN get ELSE "sent"

\* invalidateQueries: a GET under way is cancelled and sent again, unless
\* nothing is loaded yet.
Invalidate == IF list = None /\ get # "idle" THEN get ELSE "sent"

-----------------------------------------------------------------------------
(* The user                                                                *)

InFlight(s) == phase[s] \in {"sent", "applied", "refused"}

\* The requests a mutation's isPending knows of: the last one it sent.
Pending(a) == \E s \in Slot : InFlight(s) /\ latest[s] /\ act[s] = a

Shows(r, when) == list # None /\ list[r].shown /\ Holds(when, list[r].flags)

Enabled(a, r) ==
    CASE Calls[page][a].flag = "row"  -> busy # r
      [] Calls[page][a].flag = "act"  -> ~Pending(a)
      [] Calls[page][a].flag = "none" -> TRUE

\* A request leaves the browser; the ones of the same mutation before it lose
\* the callbacks that were given to mutate.
Send(a, r, b) ==
    /\ sends < MaxRequests
    /\ LET s == sends + 1
       IN  /\ act' = [act EXCEPT ![s] = a]
           /\ on' = [on EXCEPT ![s] = r]
           /\ body' = [body EXCEPT ![s] = b]
           /\ phase' = [phase EXCEPT ![s] = "sent"]
           /\ latest' = [t \in Slot |-> t = s \/ (latest[t] /\ act[t] # a)]
           /\ sends' = s
    /\ UNCHANGED reached

\* The row is marked busy before its request is sent.
Request(a, r) ==
    /\ Enabled(a, r)
    /\ Send(a, r, None)
    /\ busy' = IF Calls[page][a].flag = "row" THEN r ELSE busy
    /\ UNCHANGED <<page, apiVars, getVars, saving, editing, draft, owed>>

\* An item that acts at once.
Press(r, m) ==
    /\ ask = None /\ editing = None
    /\ m.ask = "no" /\ Shows(r, m.when)
    /\ Request(m.act, r)
    /\ UNCHANGED ask

\* An item that asks first.  The dialog keeps the row.
Ask(r, m) ==
    /\ ask = None /\ editing = None
    /\ m.ask \in {"click", "stays"} /\ Shows(r, m.when)
    /\ Calls[page][m.act].flag = "row" => busy # r
    /\ ask' = [item |-> m, row |-> r]
    /\ UNCHANGED <<page, apiVars, getVars, reqVars, busy, saving, editing, draft, owed>>

\* The dialog's own button.
Confirm ==
    /\ ask # None
    /\ Request(ask.item.act, ask.row)
    /\ ask' = IF ask.item.ask = "click" THEN None ELSE ask

Cancel ==
    /\ ask # None \/ editing # None
    /\ ask' = None /\ editing' = None
    /\ UNCHANGED <<page, apiVars, getVars, reqVars, busy, saving, draft, owed>>

\* The fields of the edit dialog, the row's state among them where it is sent.
Filled(r) ==
    [text |-> list[r].text, flags |-> IF Form[page].carries THEN list[r].flags ELSE {}]

\* openEditDialog
OpenEdit(r) ==
    /\ ask = None /\ editing = None
    /\ \E m \in Menu[page] : m.ask = "form"
    /\ Shows(r, Always)
    /\ Form[page].locked => busy # r
    /\ editing' = r
    /\ draft' = Filled(r)
    /\ saving' = (saving /\ ~Form[page].forgets)
    /\ UNCHANGED <<page, apiVars, getVars, reqVars, busy, ask, owed>>

\* Mutated: the Save button is not disabled while a save is under way.
SaveAgain ==
    /\ editing # None
    /\ Send("edit", editing, draft)
    /\ saving' = TRUE
    /\ UNCHANGED <<page, apiVars, getVars, busy, ask, editing, draft, owed>>

\* handleEdit: the PUT carries the form as it is.
Save ==
    /\ editing # None /\ ~saving
    /\ Send("edit", editing, draft)
    /\ saving' = TRUE
    /\ UNCHANGED <<page, apiVars, getVars, busy, ask, editing, draft, owed>>

-----------------------------------------------------------------------------
(* The API                                                                 *)

\* The request is carried out.
Apply(s) ==
    LET r == on[s]
        c == Calls[page][act[s]]
    IN  /\ phase[s] = "sent" /\ r \in there
        /\ phase' = [phase EXCEPT ![s] = "applied"]
        /\ version' = [version EXCEPT ![r] = @ + 1]
        /\ reached' = [reached EXCEPT ![s] = version[r] + 1]
        /\ IF act[s] = "edit"
           THEN /\ text' = [text EXCEPT ![r] = body[s].text]
                /\ flags' = IF Form[page].carries
                            THEN [flags EXCEPT ![r] = body[s].flags] ELSE flags
                /\ applied' = [applied EXCEPT ![r] = s]
                /\ UNCHANGED there
           ELSE /\ flags' = [flags EXCEPT ![r] = (@ \ c.clears) \cup c.sets]
                /\ there' = IF c.removes THEN there \ {r} ELSE there
                /\ UNCHANGED <<text, applied>>
        /\ UNCHANGED <<page, elsewhere, getVars, act, on, body, latest, sends, pageVars, owed>>

Refuse(s) ==
    /\ phase[s] = "sent"
    /\ phase' = [phase EXCEPT ![s] = "refused"]
    /\ UNCHANGED <<page, apiVars, getVars, act, on, body, latest, reached, sends, pageVars, owed>>

\* Someone else deletes a row the page may go on showing.
Elsewhere(r) ==
    /\ elsewhere < MaxElsewhere
    /\ r \in there
    /\ there' = there \ {r}
    /\ version' = [version EXCEPT ![r] = @ + 1]
    /\ elsewhere' = elsewhere + 1
    /\ UNCHANGED <<page, flags, text, applied, getVars, reqVars, pageVars, owed>>

-----------------------------------------------------------------------------
(* The answers                                                             *)

\* What is left of a request once its handler is through with it.
Forget(s) ==
    /\ act' = [act EXCEPT ![s] = None]
    /\ on' = [on EXCEPT ![s] = None]
    /\ body' = [body EXCEPT ![s] = None]
    /\ phase' = [phase EXCEPT ![s] = "over"]
    /\ latest' = [latest EXCEPT ![s] = FALSE]
    /\ reached' = [reached EXCEPT ![s] = 0]
    /\ UNCHANGED sends

Refetch(s, yes) ==
    /\ get' = IF yes THEN Invalidate ELSE get
    /\ carried' = IF get' = "read" THEN carried ELSE None
    /\ owed' = IF yes /\ list # None /\ reached[s] > owed[on[s]]
               THEN [owed EXCEPT ![on[s]] = reached[s]] ELSE owed

\* Mutated: what is busy is cleared only when the request is answered.
ClearedIfAnswered(c, how) == IF c.flag = "row" /\ how # "lost" THEN None ELSE busy

\* finally
Cleared(c, how) == IF c.flag = "row" /\ how \in c.settle THEN None ELSE busy

\* The handler of a row's action goes on with the answer.
AnswerCall(s, how) ==
    LET c == Calls[page][act[s]]
        does(what) == what \in c.ofLast => latest[s]
    IN  /\ act[s] # "edit"
        /\ busy' = Cleared(c, how)
        /\ ask' = IF /\ how \in c.settle /\ does("close")
                     /\ ask # None /\ ask.item.act \in c.closes
                  THEN None ELSE ask
        /\ Refetch(s, how \in c.refresh /\ does("refresh"))
        /\ list' = IF c.patches /\ how = "ok" /\ latest[s] /\ list # None
                   THEN [list EXCEPT ![on[s]].shown = FALSE] ELSE list
        /\ UNCHANGED <<saving, editing>>

\* handleEdit goes on: an error is shown in the dialog, which stays open.
AnswerSave(s, how) ==
    /\ act[s] = "edit"
    /\ saving' = (saving /\ Form[page].forgets /\ ~latest[s])
    /\ editing' = IF how = "ok" THEN None ELSE editing
    /\ Refetch(s, how = "ok")
    /\ UNCHANGED <<busy, ask, list>>

Answer(s, how) ==
    /\ AnswerCall(s, how) \/ AnswerSave(s, how)
    /\ Forget(s)
    /\ UNCHANGED <<page, apiVars, tab, broken, draft>>

Receive(s) ==
    \/ phase[s] = "applied" /\ Answer(s, "ok")
    \/ phase[s] = "refused" /\ Answer(s, "refused")

\* The connection fails, before the API has the request or after.
Lose(s) == phase[s] \in {"sent", "applied"} /\ Answer(s, "lost")

-----------------------------------------------------------------------------
Next ==
    \/ Read \/ Arrive \/ Break
    \/ \E t \in Tabs : SwitchTab(t)
    \/ \E r \in Row, m \in Menu[page] : Press(r, m) \/ Ask(r, m)
    \/ \E r \in Row : OpenEdit(r)
    \/ Confirm \/ Cancel \/ Save
    \/ \E s \in Slot : Apply(s) \/ Refuse(s) \/ Receive(s) \/ Lose(s)
    \/ \E r \in Row : Elsewhere(r)

Spec == Init /\ [][Next]_vars

-----------------------------------------------------------------------------
(* Properties                                                              *)

TypeOK ==
    /\ page \in DOMAIN Query
    /\ there \subseteq Row
    /\ text \in [Row -> Row]
    /\ tab \in Tabs
    /\ phase \in [Slot -> {"unsent", "sent", "applied", "refused", "over"}]
    /\ \A s \in Slot :
        InFlight(s) => act[s] \in DOMAIN Calls[page] \cup {"edit"} /\ on[s] \in Row
    /\ busy \in Row \cup {None} /\ editing \in Row \cup {None}
    /\ saving \in BOOLEAN

\* A row that is shown as busy, or a Save button that is disabled, stands for
\* a request that is under way: neither is left behind by a request that was
\* refused or lost, whatever was sent meanwhile.
BusyIsReal ==
    /\ busy # None => \E s \in Slot : InFlight(s) /\ on[s] = busy /\ act[s] # "edit"
    /\ saving => \E s \in Slot : InFlight(s) /\ act[s] = "edit"

\* On every page but the sandbox templates, whose openEditDialog forgets a
\* save under way, the saves of a row are applied in the order the user made
\* them: an older text never replaces a newer one.
SavesInOrder ==
    [][\A r \in Row : applied'[r] >= applied[r] \/ Form[page].forgets]_<<page, applied>>

\* A change the page refetched for is in the list once the page is at rest:
\* no answer of a GET that was sent before the change overwrites it.
ReadYourWrites ==
    list # None /\ get = "idle" /\ ~broken => \A r \in Row : list[r].version >= owed[r]

=============================================================================
