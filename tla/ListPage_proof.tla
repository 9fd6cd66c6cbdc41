---------------------------- MODULE ListPage_proof ----------------------------
(***************************************************************************)
(* Proofs about ListPage: on every page of both consoles, for any number of*)
(* rows and requests.                                                      *)
(***************************************************************************)
EXTENDS ListPage, TLAPS

-----------------------------------------------------------------------------
(* What the proofs need to know of the pages                               *)

\* Every item that does not open a form sends a request of the page, which is
\* not a save; one that guards its row frees it whatever the answer.
Served(menu, calls) ==
    \A m \in menu : m.ask # "form" => m.act \in DOMAIN calls \ {"edit"}

Frees(calls) ==
    \A a \in DOMAIN calls : calls[a].flag = "row" => calls[a].settle = Answers

LEMMA AdminConsole ==
    /\ Served(UsersMenu, UsersCalls) /\ Frees(UsersCalls)
    /\ Served(OrgsMenu, OrgsCalls) /\ Frees(OrgsCalls)
    /\ Served(AgentsMenu, AgentsCalls) /\ Frees(AgentsCalls)
    /\ Served(SkillsMenu, SkillsCalls) /\ Frees(SkillsCalls)
    /\ Served(TemplatesMenu, TemplatesCalls) /\ Frees(TemplatesCalls)
    /\ Served(IntegrationsMenu, IntegrationsCalls) /\ Frees(IntegrationsCalls)
    /\ Served(SandboxesMenu, SandboxesCalls) /\ Frees(SandboxesCalls)
    /\ Served(CredentialsMenu, CredentialsCalls) /\ Frees(CredentialsCalls)
    /\ Served(ApiKeysMenu, ApiKeysCalls) /\ Frees(ApiKeysCalls)
    /\ Served(TokensMenu, TokensCalls) /\ Frees(TokensCalls)
    /\ Served(ConversationsMenu, ConversationsCalls) /\ Frees(ConversationsCalls)
    /\ Served(DomainsMenu, DomainsCalls) /\ Frees(DomainsCalls)
    /\ Served(StorageMenu, StorageCalls) /\ Frees(StorageCalls)
<1> USE DEF Served, Frees, Item, Call, Removal
<1>1. Served(UsersMenu, UsersCalls) /\ Frees(UsersCalls)
  BY DEF UsersMenu, UsersCalls, UsersDialogs
<1>2. Served(OrgsMenu, OrgsCalls) /\ Frees(OrgsCalls)
  BY DEF OrgsMenu, OrgsCalls, OrgsDialogs
<1>3. Served(AgentsMenu, AgentsCalls) /\ Frees(AgentsCalls)
  BY DEF AgentsMenu, AgentsCalls, AgentsDialogs
<1>4. Served(SkillsMenu, SkillsCalls) /\ Frees(SkillsCalls)
  BY DEF SkillsMenu, SkillsCalls, SkillsDialogs
<1>5. Served(TemplatesMenu, TemplatesCalls) /\ Frees(TemplatesCalls)
  BY DEF TemplatesMenu, TemplatesCalls, TemplatesDialogs
<1>6. Served(IntegrationsMenu, IntegrationsCalls) /\ Frees(IntegrationsCalls)
  BY DEF IntegrationsMenu, IntegrationsCalls, IntegrationsDialogs
<1>7. Served(SandboxesMenu, SandboxesCalls) /\ Frees(SandboxesCalls)
  BY DEF SandboxesMenu, SandboxesCalls, SandboxesDialogs
<1>8. Served(CredentialsMenu, CredentialsCalls) /\ Frees(CredentialsCalls)
  BY DEF CredentialsMenu, CredentialsCalls
<1>9. Served(ApiKeysMenu, ApiKeysCalls) /\ Frees(ApiKeysCalls)
  BY DEF ApiKeysMenu, ApiKeysCalls
<1>10. Served(TokensMenu, TokensCalls) /\ Frees(TokensCalls)
  BY DEF TokensMenu, TokensCalls
<1>11. Served(ConversationsMenu, ConversationsCalls) /\ Frees(ConversationsCalls)
  BY DEF ConversationsMenu, ConversationsCalls, ConversationsDialogs
<1>12. Served(DomainsMenu, DomainsCalls) /\ Frees(DomainsCalls)
  BY DEF DomainsMenu, DomainsCalls
<1>13. Served(StorageMenu, StorageCalls) /\ Frees(StorageCalls)
  BY DEF StorageMenu, StorageCalls
<1> QED
  BY <1>1, <1>2, <1>3, <1>4, <1>5, <1>6, <1>7, <1>8, <1>9, <1>10, <1>11, <1>12, <1>13

\* No list of the web console guards its row.
LEMMA WebConsole ==
    /\ Served(KeysMenu, KeysCalls) /\ Frees(KeysCalls)
    /\ Served(LlmKeysMenu, LlmKeysCalls) /\ Frees(LlmKeysCalls)
    /\ Served(OwnSkillsMenu, OwnSkillsCalls) /\ Frees(OwnSkillsCalls)
    /\ Served(OwnTemplatesMenu, OwnTemplatesCalls) /\ Frees(OwnTemplatesCalls)
    /\ Served(ConnectionsMenu, ConnectionsCalls) /\ Frees(ConnectionsCalls)
    /\ Served(AgentTableMenu, AgentTableCalls) /\ Frees(AgentTableCalls)
<1>g. \A given : Guard(given) # "row"
  BY DEF Guard
<1>r. \A f, cl, st, rf :
        LET c == Removal(f, cl, st, rf)
        IN  OfLast(c).flag = f /\ ClosesOfLast(c).flag = f /\ Patching(c).flag = f
  BY DEF Removal, Call, OfLast, ClosesOfLast, Patching
<1>c. \A ss, cs, f, cl, st, rf :
        LET c == Call(ss, cs, f, cl, st, rf)
        IN  c.flag = f /\ OfLast(c).flag = f
  BY DEF Call, OfLast
<1> USE <1>g, <1>r, <1>c DEF Served, Frees, Item, ConfirmCloses
<1>1. Served(KeysMenu, KeysCalls) /\ Frees(KeysCalls)
  BY DEF KeysMenu, KeysCalls, ApiKeyActions
<1>2. Served(LlmKeysMenu, LlmKeysCalls) /\ Frees(LlmKeysCalls)
  BY DEF LlmKeysMenu, LlmKeysCalls, CredentialActions
<1>3. Served(OwnSkillsMenu, OwnSkillsCalls) /\ Frees(OwnSkillsCalls)
  BY DEF OwnSkillsMenu, OwnSkillsCalls, SkillActions
<1>4. Served(OwnTemplatesMenu, OwnTemplatesCalls) /\ Frees(OwnTemplatesCalls)
  BY DEF OwnTemplatesMenu, OwnTemplatesCalls
<1>5. Served(ConnectionsMenu, ConnectionsCalls) /\ Frees(ConnectionsCalls)
  BY DEF ConnectionsMenu, ConnectionsCalls, ConnectionActions, Disconnect, WebhookConfigDialog
<1>6. Served(AgentTableMenu, AgentTableCalls) /\ Frees(AgentTableCalls)
  BY DEF AgentTableMenu, AgentTableCalls
<1> QED
  BY <1>1, <1>2, <1>3, <1>4, <1>5, <1>6

LEMMA Pages ==
    ASSUME NEW p \in DOMAIN Query
    PROVE  Served(Menu[p], Calls[p]) /\ Frees(Calls[p])
<1> HIDE DEF Served, Frees
<1>1. p \in {"users", "orgs", "agents", "skills", "templates", "integrations", "sandboxes",
             "credentials", "apiKeys", "tokens", "conversations", "domains", "storage", "keys",
             "llmKeys", "ownSkills", "ownTemplates", "connections", "agentTable"}
  BY DEF Query
<1>2. CASE p \in {"users", "orgs", "agents", "skills", "templates", "integrations", "sandboxes"}
  BY <1>2, AdminConsole DEF Menu, Calls
<1>3. CASE p \in {"credentials", "apiKeys", "tokens", "conversations", "domains", "storage"}
  BY <1>3, AdminConsole DEF Menu, Calls
<1>4. CASE p \in {"keys", "llmKeys", "ownSkills", "ownTemplates", "connections", "agentTable"}
  BY <1>4, WebConsole DEF Menu, Calls
<1> QED
  BY <1>1, <1>2, <1>3, <1>4

-----------------------------------------------------------------------------
(* The invariant                                                           *)

ActName == {None, "edit"} \cup UNION {DOMAIN Calls[p] : p \in DOMAIN Query}

Requests ==
    /\ sends \in 0 .. MaxRequests
    /\ phase \in [Slot -> {"unsent", "sent", "applied", "refused", "over"}]
    /\ act \in [Slot -> ActName]
    /\ on \in [Slot -> Row \cup {None}]
    /\ latest \in [Slot -> BOOLEAN]
    /\ reached \in [Slot -> Nat]
    /\ \A s \in Slot : /\ InFlight(s) => on[s] \in Row
                       /\ s > sends => phase[s] = "unsent"

\* The dialogs are of rows, and of items that are asked about.
Dialogs ==
    /\ ask # None => ask.item \in Menu[page] /\ ask.item.ask # "form" /\ ask.row \in Row
    /\ editing \in Row \cup {None}

Versions == version \in [Row -> Nat] /\ owed \in [Row -> Nat]

TypeInv == page \in DOMAIN Query /\ Requests /\ Dialogs /\ Versions

\* A request that guards its row.
Guards(s) ==
    /\ InFlight(s) /\ act[s] # "edit"
    /\ act[s] \in DOMAIN Calls[page] /\ Calls[page][act[s]].flag = "row"

Busy ==
    /\ busy # None => \E s \in Slot : Guards(s) /\ on[s] = busy
    /\ saving => \E s \in Slot : InFlight(s) /\ act[s] = "edit" /\ latest[s]

\* Saves are made one at a time, and one that is not carried out yet is newer
\* than any that was.
Saves ==
    /\ applied \in [Row -> Nat]
    /\ \A r \in Row : applied[r] <= sends
    /\ ~Form[page].forgets =>
        /\ \A s \in Slot : InFlight(s) /\ act[s] = "edit" => saving
        /\ \A s, t \in Slot : InFlight(s) /\ act[s] = "edit" /\ InFlight(t) /\ act[t] = "edit" => s = t
        /\ \A s \in Slot : phase[s] = "sent" /\ act[s] = "edit" => \A r \in Row : applied[r] < s

LEMMA InitAll == Init => TypeInv /\ Busy /\ Saves
<1> SUFFICES ASSUME Init PROVE TypeInv /\ Busy /\ Saves
  OBVIOUS
<1>1. Requests
  BY PageAssumption DEF Init, Requests, InFlight, ActName
<1>2. page \in DOMAIN Query /\ Dialogs /\ Busy /\ Versions
  BY DEF Init, Dialogs, Busy, Versions
<1>3. Saves
  BY <1>1 DEF Init, Saves, InFlight, Requests
<1> QED
  BY <1>1, <1>2, <1>3 DEF TypeInv

\* Steps that touch neither the requests nor what is kept of them.
Quiet ==
    \/ Read \/ Arrive \/ Break \/ \E t \in Tabs : SwitchTab(t)
    \/ \E r \in Row, m \in Menu[page] : Ask(r, m)
    \/ Cancel \/ \E r \in Row : Elsewhere(r)

LEMMA QuietKeeps ==
    ASSUME Quiet
    PROVE  UNCHANGED <<page, text, applied, reqVars, busy, saving, owed>>
BY DEF Quiet, Read, Arrive, Break, SwitchTab, Ask, Cancel, Elsewhere, apiVars, getVars, pageVars

\* Whatever is pressed or confirmed sends a request of the page that is not a save.
LEMMA Sent ==
    ASSUME TypeInv, Confirm \/ \E r \in Row, m \in Menu[page] : Press(r, m)
    PROVE  \E a \in DOMAIN Calls[page], r \in Row :
              a # "edit" /\ Request(a, r) /\ (ask' = ask \/ ask' = None)
<1>1. \A m \in Menu[page] : m.ask # "form" => m.act \in DOMAIN Calls[page] /\ m.act # "edit"
  BY Pages DEF TypeInv, Served
<1>2. CASE Confirm
  BY <1>1, <1>2 DEF Confirm, TypeInv, Dialogs
<1>3. ASSUME NEW r \in Row, NEW m \in Menu[page], Press(r, m)
      PROVE  \E a \in DOMAIN Calls[page], q \in Row :
                a # "edit" /\ Request(a, q) /\ (ask' = ask \/ ask' = None)
  BY <1>1, <1>3 DEF Press
<1> QED
  BY <1>2, <1>3

\* A request leaves the browser.
LEMMA SendType ==
    ASSUME Requests, NEW a \in ActName, NEW r \in Row, NEW b, Send(a, r, b)
    PROVE  /\ Requests'
           /\ sends' \in Slot /\ sends' = sends + 1 /\ phase[sends'] = "unsent"
           /\ phase' = [phase EXCEPT ![sends'] = "sent"]
           /\ act' = [act EXCEPT ![sends'] = a]
           /\ on' = [on EXCEPT ![sends'] = r]
           /\ latest' = [t \in Slot |-> t = sends' \/ (latest[t] /\ act[t] # a)]
<1> USE PageAssumption
<1>1. /\ sends' \in Slot /\ sends' = sends + 1 /\ phase[sends'] = "unsent"
      /\ phase' = [phase EXCEPT ![sends'] = "sent"]
      /\ act' = [act EXCEPT ![sends'] = a]
      /\ on' = [on EXCEPT ![sends'] = r]
      /\ latest' = [t \in Slot |-> t = sends' \/ (latest[t] /\ act[t] # a)]
      /\ reached' = reached
  BY DEF Send, Requests, Slot
<1>2. latest' \in [Slot -> BOOLEAN]
  <2>1. \A t \in Slot : (t = sends' \/ (latest[t] /\ act[t] # a)) \in BOOLEAN
    OBVIOUS
  <2> QED
    BY <1>1, <2>1, Zenon
<1>3. /\ sends' \in 0 .. MaxRequests
      /\ phase' \in [Slot -> {"unsent", "sent", "applied", "refused", "over"}]
      /\ act' \in [Slot -> ActName]
      /\ on' \in [Slot -> Row \cup {None}]
      /\ reached' \in [Slot -> Nat]
  BY <1>1 DEF Requests, Slot
<1>4. \A s \in Slot : /\ InFlight(s)' => on'[s] \in Row
                      /\ s > sends' => phase'[s] = "unsent"
  BY <1>1 DEF Requests, InFlight, Slot
<1> QED
  BY <1>1, <1>2, <1>3, <1>4 DEF Requests

\* An answer, or its loss: the request is over.
LEMMA AnswerType ==
    ASSUME Requests, NEW s \in Slot, InFlight(s), Forget(s)
    PROVE  /\ Requests'
           /\ ~InFlight(s)'
           /\ \A t \in Slot \ {s} : /\ phase'[t] = phase[t] /\ act'[t] = act[t] /\ on'[t] = on[t]
                                    /\ latest'[t] = latest[t] /\ reached'[t] = reached[t]
<1>1. None \in ActName
  BY DEF ActName
<1>2. /\ act' = [act EXCEPT ![s] = None] /\ on' = [on EXCEPT ![s] = None]
      /\ phase' = [phase EXCEPT ![s] = "over"]
      /\ latest' = [latest EXCEPT ![s] = FALSE] /\ reached' = [reached EXCEPT ![s] = 0]
      /\ sends' = sends
  BY DEF Forget
<1>3. /\ act' \in [Slot -> ActName] /\ on' \in [Slot -> Row \cup {None}]
      /\ phase' \in [Slot -> {"unsent", "sent", "applied", "refused", "over"}]
      /\ latest' \in [Slot -> BOOLEAN] /\ reached' \in [Slot -> Nat]
  BY <1>1, <1>2 DEF Requests
<1>4. phase'[s] = "over"
  BY <1>2 DEF Requests
<1>5. \A t \in Slot \ {s} : /\ phase'[t] = phase[t] /\ act'[t] = act[t] /\ on'[t] = on[t]
                             /\ latest'[t] = latest[t] /\ reached'[t] = reached[t]
  BY <1>2 DEF Requests
<1>6. \A t \in Slot : /\ InFlight(t)' => on'[t] \in Row
                      /\ t > sends' => phase'[t] = "unsent"
  BY <1>2, <1>4, <1>5 DEF Requests, InFlight
<1> QED
  BY <1>2, <1>3, <1>4, <1>5, <1>6 DEF Requests, InFlight

LEMMA VersionsNext == TypeInv /\ [Next]_vars => Versions'
<1> SUFFICES ASSUME TypeInv, [Next]_vars PROVE Versions'
  OBVIOUS
<1> USE DEF TypeInv, Versions
<1>1. CASE UNCHANGED vars
  BY <1>1 DEF vars, apiVars
<1>2. CASE Quiet
  <2>1. owed' = owed
    BY <1>2, QuietKeeps
  <2>2. version' = version \/ \E r \in Row : version' = [version EXCEPT ![r] = @ + 1]
    BY <1>2 DEF Quiet, Read, Arrive, Break, SwitchTab, Ask, Cancel, Elsewhere, apiVars
  <2> QED
    BY <2>1, <2>2
<1>3. CASE Confirm \/ Save \/ (\E r \in Row, m \in Menu[page] : Press(r, m)) \/ \E r \in Row : OpenEdit(r)
  BY <1>3 DEF Confirm, Save, Press, Request, OpenEdit, apiVars
<1>4. ASSUME NEW s \in Slot, Apply(s) \/ Refuse(s)
      PROVE  Versions'
  BY <1>4 DEF Apply, Refuse, apiVars, pageVars
<1>5. ASSUME NEW s \in Slot, Receive(s) \/ Lose(s)
      PROVE  Versions'
  <2>1. on[s] \in Row /\ version' = version
    BY <1>5 DEF Receive, Lose, Answer, apiVars, Requests, InFlight
  <2>2. owed' = owed \/ owed' = [owed EXCEPT ![on[s]] = reached[s]]
    BY <1>5 DEF Receive, Lose, Answer, AnswerCall, AnswerSave, Refetch
  <2> QED
    BY <2>1, <2>2 DEF Requests
<1> QED
  BY <1>1, <1>2, <1>3, <1>4, <1>5 DEF Next, Quiet

LEMMA TypeNext == TypeInv /\ [Next]_vars => TypeInv'
<1> SUFFICES ASSUME TypeInv, [Next]_vars, Versions' PROVE TypeInv'
  BY VersionsNext
<1> USE DEF TypeInv
<1>1. CASE UNCHANGED vars
  BY <1>1 DEF vars, reqVars, pageVars, Requests, Dialogs, InFlight
<1>2. CASE Quiet
  <2>1. page' = page /\ Requests'
    BY <1>2, QuietKeeps DEF reqVars, Requests, InFlight
  <2>2. Dialogs'
    BY <1>2, <2>1 DEF Quiet, Read, Arrive, Break, SwitchTab, Ask, Cancel, Elsewhere, pageVars, Dialogs
  <2> QED
    BY <2>1, <2>2
<1>3. CASE Confirm \/ \E r \in Row, m \in Menu[page] : Press(r, m)
  <2>1. PICK a \in DOMAIN Calls[page], r \in Row : Request(a, r) /\ (ask' = ask \/ ask' = None)
    BY <1>3, Sent
  <2>2. page' = page /\ editing' = editing /\ a \in ActName
    BY <2>1 DEF Request, ActName
  <2>3. Requests'
    BY <2>1, <2>2, SendType DEF Request
  <2> QED
    BY <2>1, <2>2, <2>3 DEF Dialogs
<1>4. CASE Save
  <2>1. editing \in Row /\ "edit" \in ActName
    BY <1>4 DEF Save, Dialogs, ActName
  <2>2. Requests'
    BY <1>4, <2>1, SendType DEF Save
  <2> QED
    BY <1>4, <2>1, <2>2 DEF Save, Dialogs
<1>5. ASSUME NEW r \in Row, OpenEdit(r)
      PROVE  TypeInv'
  BY <1>5 DEF OpenEdit, reqVars, Requests, InFlight, Dialogs
<1>6. ASSUME NEW s \in Slot, Apply(s) \/ Refuse(s)
      PROVE  TypeInv'
  <2>1. /\ UNCHANGED <<page, act, on, latest, sends, pageVars>> /\ phase[s] = "sent"
        /\ \E w \in {"applied", "refused"} : phase' = [phase EXCEPT ![s] = w]
    BY <1>6 DEF Apply, Refuse
  <2>2. reached' \in [Slot -> Nat]
    <3>1. on[s] \in Row
      BY <2>1 DEF Requests, InFlight
    <3>2. reached' = reached \/ reached' = [reached EXCEPT ![s] = version[on[s]] + 1]
      BY <1>6 DEF Apply, Refuse
    <3> QED
      BY <3>1, <3>2 DEF Requests, Versions
  <2> QED
    BY <2>1, <2>2 DEF Requests, InFlight, Dialogs, pageVars
<1>7. ASSUME NEW s \in Slot, Receive(s) \/ Lose(s)
      PROVE  TypeInv'
  <2>1. Requests'
    BY <1>7, AnswerType DEF Receive, Lose, Answer, InFlight
  <2>2. page' = page /\ (ask' = ask \/ ask' = None) /\ (editing' = editing \/ editing' = None)
    BY <1>7 DEF Receive, Lose, Answer, AnswerCall, AnswerSave
  <2> QED
    BY <2>1, <2>2 DEF Dialogs
<1> QED
  BY <1>1, <1>2, <1>3, <1>4, <1>5, <1>6, <1>7 DEF Next, Quiet

-----------------------------------------------------------------------------
(* What is shown as busy is under way                                      *)

LEMMA BusyNext == TypeInv /\ Busy /\ [Next]_vars => Busy'
<1> SUFFICES ASSUME TypeInv, Busy, [Next]_vars PROVE Busy'
  OBVIOUS
<1>1. CASE UNCHANGED vars
  BY <1>1 DEF vars, reqVars, pageVars, Busy, Guards, InFlight
<1>2. CASE Quiet
  BY <1>2, QuietKeeps DEF reqVars, Busy, Guards, InFlight
<1>3. CASE Confirm \/ \E r \in Row, m \in Menu[page] : Press(r, m)
  <2>1. PICK a \in DOMAIN Calls[page], r \in Row : a # "edit" /\ Request(a, r)
    BY <1>3, Sent
  <2>2. a \in ActName /\ Send(a, r, None)
    BY <2>1 DEF Request, ActName, TypeInv
  <2>3. page' = page /\ saving' = saving
    BY <2>1 DEF Request
  <2>4. /\ sends' \in Slot /\ phase[sends'] = "unsent"
        /\ phase' = [phase EXCEPT ![sends'] = "sent"]
        /\ act' = [act EXCEPT ![sends'] = a]
        /\ on' = [on EXCEPT ![sends'] = r]
        /\ latest' = [t \in Slot |-> t = sends' \/ (latest[t] /\ act[t] # a)]
    BY <2>2, SendType DEF TypeInv
  <2>5. \A s \in Slot : InFlight(s) => /\ s # sends' /\ InFlight(s)' /\ act'[s] = act[s] /\ on'[s] = on[s]
                                       /\ act[s] = "edit" /\ latest[s] => latest'[s]
    BY <2>1, <2>4 DEF InFlight, TypeInv, Requests
  <2>6. \A s \in Slot : Guards(s) => Guards(s)' /\ on'[s] = on[s]
    BY <2>3, <2>5 DEF Guards
  <2>7. saving' => \E s \in Slot : InFlight(s)' /\ act'[s] = "edit" /\ latest'[s]
    BY <2>3, <2>5 DEF Busy
  <2>8. CASE Calls[page][a].flag = "row"
    <3>1. /\ phase'[sends'] = "sent" /\ act'[sends'] = a /\ on'[sends'] = r
      BY <2>4 DEF TypeInv, Requests
    <3>2. busy' = r
      BY <2>1, <2>8 DEF Request
    <3>3. \E s \in Slot : Guards(s)' /\ on'[s] = busy'
      BY <2>1, <2>3, <2>4, <2>8, <3>1, <3>2 DEF Guards, InFlight
    <3> QED
      BY <2>7, <3>3 DEF Busy
  <2>9. CASE Calls[page][a].flag # "row"
    <3>1. busy' = busy
      BY <2>1, <2>9 DEF Request
    <3> QED
      BY <2>6, <2>7, <3>1 DEF Busy
  <2> QED
    BY <2>8, <2>9
<1>4. CASE Save
  <2>1. /\ editing \in Row /\ "edit" \in ActName /\ Send("edit", editing, draft)
        /\ page' = page /\ busy' = busy
    BY <1>4 DEF Save, TypeInv, Dialogs, ActName
  <2>2. /\ sends' \in Slot /\ phase[sends'] = "unsent"
        /\ phase' = [phase EXCEPT ![sends'] = "sent"]
        /\ act' = [act EXCEPT ![sends'] = "edit"]
        /\ on' = [on EXCEPT ![sends'] = editing]
        /\ latest' = [t \in Slot |-> t = sends' \/ (latest[t] /\ act[t] # "edit")]
    BY <2>1, SendType DEF TypeInv
  <2>3. \A s \in Slot : Guards(s) => Guards(s)' /\ on'[s] = on[s]
    BY <2>1, <2>2 DEF Guards, InFlight, TypeInv, Requests
  <2>4. phase'[sends'] = "sent" /\ act'[sends'] = "edit"
    BY <2>2 DEF TypeInv, Requests
  <2>5. latest'[sends']
    BY <2>2
  <2>6. \E s \in Slot : InFlight(s)' /\ act'[s] = "edit" /\ latest'[s]
    BY <2>2, <2>4, <2>5 DEF InFlight
  <2> QED
    BY <2>1, <2>3, <2>6 DEF Busy
<1>5. ASSUME NEW r \in Row, OpenEdit(r)
      PROVE  Busy'
  BY <1>5 DEF OpenEdit, reqVars, Busy, Guards, InFlight
<1>6. ASSUME NEW s \in Slot, Apply(s) \/ Refuse(s)
      PROVE  Busy'
  <2>1. /\ UNCHANGED <<page, act, on, latest, busy, saving>> /\ phase[s] = "sent"
        /\ \E w \in {"applied", "refused"} : phase' = [phase EXCEPT ![s] = w]
    BY <1>6 DEF Apply, Refuse, pageVars
  <2>2. \A t \in Slot : InFlight(t) => InFlight(t)'
    BY <2>1 DEF InFlight, TypeInv, Requests
  <2> QED
    BY <2>1, <2>2 DEF Busy, Guards
<1>7. ASSUME NEW s \in Slot, NEW how \in Answers, InFlight(s), Answer(s, how)
      PROVE  Busy'
  <2>1. \A t \in Slot \ {s} : /\ phase'[t] = phase[t] /\ act'[t] = act[t] /\ on'[t] = on[t]
                              /\ latest'[t] = latest[t]
    BY <1>7, AnswerType DEF Answer, TypeInv
  <2>2. page' = page
    BY <1>7 DEF Answer
  <2>3. \A t \in Slot \ {s} : Guards(t) => Guards(t)' /\ on'[t] = on[t]
    BY <2>1, <2>2 DEF Guards, InFlight
  <2>4. CASE AnswerCall(s, how)
    <3>1. saving' = saving /\ act[s] # "edit"
      BY <2>4 DEF AnswerCall
    <3>2. saving' => \E t \in Slot : InFlight(t)' /\ act'[t] = "edit" /\ latest'[t]
      BY <2>1, <3>1 DEF Busy, InFlight
    <3>3. busy' # None => busy' = busy /\ ~Guards(s)
      <4>1. Guards(s) => how \in Calls[page][act[s]].settle /\ Calls[page][act[s]].flag = "row"
        BY Pages DEF Guards, Frees, TypeInv
      <4> QED
        BY <2>4, <4>1 DEF AnswerCall, Cleared
    <3>4. busy' # None => \E t \in Slot : Guards(t)' /\ on'[t] = busy'
      BY <2>3, <3>3 DEF Busy
    <3> QED
      BY <3>2, <3>4 DEF Busy
  <2>5. CASE AnswerSave(s, how)
    <3>1. busy' = busy /\ ~Guards(s)
      BY <2>5 DEF AnswerSave, Guards
    <3>2. busy' # None => \E t \in Slot : Guards(t)' /\ on'[t] = busy'
      BY <2>3, <3>1 DEF Busy
    <3>3. saving' => saving /\ ~latest[s]
      BY <2>5 DEF AnswerSave
    <3>4. saving' => \E t \in Slot : InFlight(t)' /\ act'[t] = "edit" /\ latest'[t]
      BY <2>1, <3>3 DEF Busy, InFlight
    <3> QED
      BY <3>2, <3>4 DEF Busy
  <2> QED
    BY <1>7, <2>4, <2>5 DEF Answer
<1> QED
  BY <1>1, <1>2, <1>3, <1>4, <1>5, <1>6, <1>7 DEF Next, Quiet, Receive, Lose, InFlight, Answers

-----------------------------------------------------------------------------
(* The saves of a row are carried out in their order                       *)

LEMMA SavesNext ==
    TypeInv /\ Saves /\ [Next]_vars =>
        Saves' /\ [\A r \in Row : applied'[r] >= applied[r] \/ Form[page].forgets]_<<page, applied>>
<1> SUFFICES ASSUME TypeInv, Saves, [Next]_vars
             PROVE  /\ Saves'
                    /\ \A r \in Row : applied'[r] >= applied[r] \/ Form[page].forgets
  OBVIOUS
<1>0. applied' = applied => \A r \in Row : applied'[r] >= applied[r]
  BY DEF Saves
<1>1. CASE UNCHANGED vars
  BY <1>0, <1>1 DEF vars, apiVars, reqVars, pageVars, Saves, InFlight
<1>2. CASE Quiet
  BY <1>0, <1>2, QuietKeeps DEF reqVars, Saves, InFlight
<1>3. CASE Confirm \/ \E r \in Row, m \in Menu[page] : Press(r, m)
  <2>1. PICK a \in DOMAIN Calls[page], r \in Row : a # "edit" /\ Request(a, r)
    BY <1>3, Sent
  <2>2. a \in ActName /\ Send(a, r, None) /\ UNCHANGED <<page, applied, saving>>
    BY <2>1 DEF Request, ActName, TypeInv, apiVars
  <2>3. /\ Requests' /\ sends' = sends + 1
        /\ phase' = [phase EXCEPT ![sends'] = "sent"] /\ act' = [act EXCEPT ![sends'] = a]
    BY <2>2, SendType DEF TypeInv
  <2>4. \A s \in Slot : act'[s] = "edit" => s # sends' /\ act[s] = "edit" /\ phase'[s] = phase[s]
    BY <2>1, <2>3 DEF TypeInv, Requests
  <2>5. \A r1 \in Row : applied'[r1] <= sends'
    BY <2>2, <2>3 DEF Saves, TypeInv, Requests
  <2> QED
    BY <1>0, <2>2, <2>4, <2>5 DEF Saves, InFlight
<1>4. CASE Save
  <2>1. /\ editing \in Row /\ "edit" \in ActName /\ Send("edit", editing, draft) /\ ~saving
        /\ UNCHANGED <<page, applied>> /\ saving' = TRUE
    BY <1>4 DEF Save, TypeInv, Dialogs, ActName, apiVars
  <2>2. /\ Requests' /\ sends' = sends + 1 /\ sends' \in Slot
        /\ phase' = [phase EXCEPT ![sends'] = "sent"] /\ act' = [act EXCEPT ![sends'] = "edit"]
    BY <2>1, SendType DEF TypeInv
  <2>3. \A r \in Row : applied'[r] < sends'
    BY <2>1, <2>2 DEF Saves, TypeInv, Requests
  <2>4. ~Form[page].forgets => \A s \in Slot : InFlight(s)' /\ act'[s] = "edit" => s = sends'
    BY <2>1, <2>2 DEF Saves, InFlight, TypeInv, Requests
  <2>5. \A r \in Row : applied'[r] <= sends'
    BY <2>3, <2>1, <2>2 DEF Saves, TypeInv, Requests
  <2> QED
    BY <1>0, <2>1, <2>3, <2>4, <2>5 DEF Saves, InFlight
<1>5. ASSUME NEW r \in Row, OpenEdit(r)
      PROVE  Saves' /\ applied' = applied
  BY <1>5 DEF OpenEdit, apiVars, reqVars, Saves, InFlight
<1>6. ASSUME NEW s \in Slot, Apply(s) \/ Refuse(s)
      PROVE  Saves' /\ \A r \in Row : applied'[r] >= applied[r] \/ Form[page].forgets
  <2>1. /\ UNCHANGED <<page, act, sends, saving>> /\ phase[s] = "sent"
        /\ phase' \in {[phase EXCEPT ![s] = "applied"], [phase EXCEPT ![s] = "refused"]}
    BY <1>6 DEF Apply, Refuse, pageVars
  <2>2. on[s] \in Row /\ s <= sends /\ s \in Nat
    BY <2>1 DEF TypeInv, Requests, InFlight, Slot
  <2>3. \/ applied' = applied
        \/ act[s] = "edit" /\ applied' = [applied EXCEPT ![on[s]] = s]
    BY <1>6 DEF Apply, Refuse, apiVars
  <2>4. applied' \in [Row -> Nat] /\ \A r \in Row : applied'[r] <= sends'
    BY <2>1, <2>2, <2>3 DEF Saves
  <2>5. \A r \in Row : applied'[r] >= applied[r] \/ Form[page].forgets
    BY <2>1, <2>2, <2>3 DEF Saves
  <2>6. \A t \in Slot : /\ InFlight(t)' => InFlight(t)
                        /\ phase'[t] = "sent" => phase[t] = "sent" /\ t # s
    BY <2>1 DEF InFlight, TypeInv, Requests
  <2>7. ASSUME ~Form[page].forgets, NEW t \in Slot, phase'[t] = "sent", act[t] = "edit"
        PROVE  applied' = applied
    BY <2>1, <2>3, <2>6, <2>7 DEF Saves, InFlight
  <2> QED
    BY <2>1, <2>4, <2>5, <2>6, <2>7 DEF Saves
<1>7. ASSUME NEW s \in Slot, NEW how \in Answers, InFlight(s), Answer(s, how)
      PROVE  Saves' /\ applied' = applied
  <2>1. /\ UNCHANGED <<page, applied, sends>> /\ ~InFlight(s)'
        /\ \A t \in Slot \ {s} : phase'[t] = phase[t] /\ act'[t] = act[t]
    BY <1>7, AnswerType DEF Answer, TypeInv, apiVars, Forget
  <2>2. \A t \in Slot : InFlight(t)' => t # s /\ InFlight(t) /\ act'[t] = act[t]
    BY <2>1 DEF InFlight
  <2>3. \A t \in Slot : phase'[t] = "sent" => InFlight(t)' /\ phase[t] = "sent"
    BY <2>1 DEF InFlight
  <2>4. ASSUME ~Form[page].forgets, NEW t \in Slot, InFlight(t)', act'[t] = "edit"
        PROVE  saving'
    <3>1. act[s] # "edit" /\ saving
      BY <1>7, <2>2, <2>4 DEF Saves
    <3> QED
      BY <1>7, <3>1 DEF Answer, AnswerCall, AnswerSave
  <2> QED
    BY <2>1, <2>2, <2>3, <2>4 DEF Saves
<1> QED
  BY <1>0, <1>1, <1>2, <1>3, <1>4, <1>5, <1>6, <1>7 DEF Next, Quiet, Receive, Lose, InFlight, Answers

-----------------------------------------------------------------------------
(* What was changed is read                                                *)

\* What a list, loaded or on its way, looks like.
Table(l) == l = [r \in Row |-> l[r]] /\ \A r \in Row : "version" \in DOMAIN l[r]

\* A version that is waited for exists; an answer on its way has it, for the GET
\* that carries it was sent again when the waiting began.
Fresh ==
    /\ \A r \in Row : owed[r] <= version[r]
    /\ \A s \in Slot : IF phase[s] = "applied" THEN reached[s] <= version[on[s]] ELSE reached[s] = 0
    /\ list # None => Table(list)
    /\ get = "read" => Table(carried) /\ \A r \in Row : carried[r].version >= owed[r]
    /\ ReadYourWrites

LEMMA InitFresh == Init => Fresh
BY DEF Init, Fresh, ReadYourWrites

\* A row filtered out of the list leaves the others, and its own version.
LEMMA Filtered ==
    ASSUME NEW l, Table(l), NEW x \in Row
    PROVE  LET k == [l EXCEPT ![x].shown = FALSE]
           IN  Table(k) /\ \A r \in Row : k[r].version = l[r].version
BY DEF Table

\* The answers of GETs.
LEMMA FreshQuery ==
    ASSUME TypeInv, Fresh, Read \/ Arrive \/ Break \/ \E t \in Tabs : SwitchTab(t)
    PROVE  Fresh'
<1> USE DEF apiVars, reqVars
<1>1. CASE Read
  <2>1. carried' = Selected(tab) /\ get' = "read" /\ UNCHANGED <<list, broken, version, owed, phase, reached, on>>
    BY <1>1 DEF Read
  <2>2. Table(Selected(tab)) /\ \A r \in Row : Selected(tab)[r].version = version[r]
    BY DEF Selected, Table
  <2> QED
    BY <2>1, <2>2 DEF Fresh, ReadYourWrites, TypeInv, Versions
<1>2. CASE Arrive
  BY <1>2 DEF Arrive, Fresh, ReadYourWrites
<1>3. CASE Break
  BY <1>3 DEF Break, Fresh, ReadYourWrites
<1>4. ASSUME NEW t \in Tabs, SwitchTab(t)
      PROVE  Fresh'
  BY <1>4 DEF SwitchTab, Fresh, ReadYourWrites
<1> QED
  BY <1>1, <1>2, <1>3, <1>4

\* An answer to a request: the list is read again, if it is loaded.
LEMMA FreshAnswer ==
    ASSUME TypeInv, Fresh, NEW s \in Slot, NEW how, InFlight(s), Answer(s, how)
    PROVE  Fresh'
<1>1. /\ version' = version /\ broken' = broken /\ Forget(s) /\ on[s] \in Row
      /\ \E yes \in BOOLEAN : Refetch(s, yes)
  <2>1. version' = version /\ broken' = broken /\ Forget(s) /\ on[s] \in Row
    BY DEF Answer, apiVars, TypeInv, Requests
  <2>2. CASE AnswerCall(s, how)
    <3> DEFINE c == Calls[page][act[s]]
               yes == how \in c.refresh /\ ("refresh" \in c.ofLast => latest[s])
    <3>1. yes \in BOOLEAN
      OBVIOUS
    <3>2. Refetch(s, yes)
      BY <2>2 DEF AnswerCall
    <3> QED
      BY <2>1, <3>1, <3>2
  <2>3. CASE AnswerSave(s, how)
    <3>1. (how = "ok") \in BOOLEAN /\ Refetch(s, how = "ok")
      BY <2>3 DEF AnswerSave
    <3> QED
      BY <2>1, <3>1
  <2> QED
    BY <2>2, <2>3 DEF Answer
<1>2. \/ get' = get /\ owed' = owed /\ (get = "read" => carried' = carried)
      \/ get' = "sent" /\ (owed' = owed \/ owed' = [owed EXCEPT ![on[s]] = reached[s]])
  BY <1>1 DEF Refetch, Invalidate
<1>3. reached[s] <= version[on[s]]
  <2>1. reached[s] = 0 \/ phase[s] = "applied"
    BY DEF Fresh
  <2> QED
    BY <1>1, <2>1 DEF Fresh, TypeInv, Versions
<1>4. \A r \in Row : owed'[r] <= version'[r]
  BY <1>1, <1>2, <1>3 DEF Fresh, TypeInv, Versions
<1>5. \A t \in Slot : IF phase'[t] = "applied" THEN reached'[t] <= version'[on'[t]] ELSE reached'[t] = 0
  <2>1. phase'[s] = "over" /\ reached'[s] = 0
    BY <1>1 DEF Forget, TypeInv, Requests
  <2>2. \A t \in Slot \ {s} : phase'[t] = phase[t] /\ on'[t] = on[t] /\ reached'[t] = reached[t]
    BY <1>1, AnswerType DEF TypeInv
  <2> QED
    BY <1>1, <2>1, <2>2 DEF Fresh
<1>6. /\ list' # None => Table(list')
      /\ list' # None => list # None /\ \A r \in Row : list'[r].version = list[r].version
  <2>1. \/ list' = list
        \/ list # None /\ list' = [list EXCEPT ![on[s]].shown = FALSE]
    BY DEF Answer, AnswerCall, AnswerSave
  <2>2. CASE list' = list
    BY <2>2 DEF Fresh
  <2>3. CASE list # None /\ list' = [list EXCEPT ![on[s]].shown = FALSE]
    <3>1. Table(list)
      BY <2>3 DEF Fresh
    <3>2. Table(list') /\ \A r \in Row : list'[r].version = list[r].version
      BY <1>1, <2>3, <3>1, Filtered
    <3> QED
      BY <2>3, <3>2
  <2> QED
    BY <2>1, <2>2, <2>3
<1>7. get' = "read" => Table(carried') /\ \A r \in Row : carried'[r].version >= owed'[r]
  BY <1>2 DEF Fresh
<1>8. ReadYourWrites'
  BY <1>1, <1>2, <1>6 DEF Fresh, ReadYourWrites
<1> QED
  BY <1>4, <1>5, <1>6, <1>7, <1>8 DEF Fresh

LEMMA FreshNext == TypeInv /\ Fresh /\ [Next]_vars => Fresh'
<1> SUFFICES ASSUME TypeInv, Fresh, [Next]_vars PROVE Fresh'
  OBVIOUS
<1>1. CASE UNCHANGED vars
  BY <1>1 DEF vars, apiVars, getVars, reqVars, Fresh, ReadYourWrites
<1>2. CASE Read \/ Arrive \/ Break \/ \E t \in Tabs : SwitchTab(t)
  BY <1>2, FreshQuery
<1>3. CASE \/ Cancel \/ \E r \in Row, m \in Menu[page] : Ask(r, m)
           \/ \E r \in Row : OpenEdit(r)
  BY <1>3 DEF Cancel, Ask, OpenEdit, apiVars, getVars, reqVars, Fresh, ReadYourWrites
<1>4. CASE Save \/ Confirm \/ \E r \in Row, m \in Menu[page] : Press(r, m)
  <2>1. /\ UNCHANGED <<apiVars, getVars, owed>>
        /\ \E a \in ActName, r \in Row : \E b : Send(a, r, b)
    <3>1. CASE Save
      <4>1. "edit" \in ActName /\ editing \in Row
        BY <3>1 DEF Save, ActName, TypeInv, Dialogs
      <4> QED
        BY <3>1, <4>1 DEF Save
    <3>2. CASE Confirm \/ \E r \in Row, m \in Menu[page] : Press(r, m)
      <4>1. PICK a \in DOMAIN Calls[page], r \in Row : Request(a, r)
        BY <3>2, Sent
      <4>2. a \in ActName
        BY DEF ActName, TypeInv
      <4> QED
        BY <4>1, <4>2 DEF Request
    <3> QED
      BY <1>4, <3>1, <3>2
  <2>2. PICK a \in ActName, r \in Row : \E b : Send(a, r, b)
    BY <2>1
  <2>3. PICK b : Send(a, r, b)
    BY <2>2
  <2>4. /\ phase[sends'] = "unsent" /\ phase' = [phase EXCEPT ![sends'] = "sent"]
        /\ on' = [on EXCEPT ![sends'] = r] /\ reached' = reached
    BY <2>3, SendType DEF TypeInv, Send
  <2>5. \A s \in Slot : IF phase'[s] = "applied" THEN reached'[s] <= version'[on'[s]] ELSE reached'[s] = 0
    BY <2>1, <2>4 DEF Fresh, TypeInv, Requests, apiVars
  <2> QED
    BY <2>1, <2>5 DEF Fresh, ReadYourWrites, apiVars, getVars
<1>5. ASSUME NEW s \in Slot, Refuse(s)
      PROVE  Fresh'
  BY <1>5 DEF Refuse, apiVars, getVars, Fresh, ReadYourWrites, TypeInv, Requests
<1>6. ASSUME NEW s \in Slot, Apply(s)
      PROVE  Fresh'
  <2>1. /\ UNCHANGED <<getVars, on, owed>> /\ phase[s] = "sent" /\ on[s] \in Row
        /\ phase' = [phase EXCEPT ![s] = "applied"]
        /\ version' = [version EXCEPT ![on[s]] = @ + 1]
        /\ reached' = [reached EXCEPT ![s] = version[on[s]] + 1]
    BY <1>6 DEF Apply, TypeInv, Requests, InFlight
  <2>2. \A r \in Row : version[r] \in Nat /\ version'[r] >= version[r] /\ version'[r] \in Nat
    BY <2>1 DEF TypeInv, Versions
  <2>3. \A r \in Row : owed'[r] <= version'[r]
    BY <2>1, <2>2 DEF Fresh, TypeInv, Versions
  <2>4. \A t \in Slot : phase[t] = "applied" => on[t] \in Row
    BY DEF TypeInv, Requests, InFlight
  <2>5. reached'[s] <= version'[on'[s]]
    BY <2>1 DEF TypeInv, Versions, Requests
  <2>6. \A t \in Slot : IF phase'[t] = "applied" THEN reached'[t] <= version'[on'[t]] ELSE reached'[t] = 0
    BY <2>1, <2>2, <2>4, <2>5 DEF Fresh, TypeInv, Requests
  <2> QED
    BY <2>1, <2>3, <2>6 DEF Fresh, ReadYourWrites, getVars
<1>7. ASSUME NEW r \in Row, Elsewhere(r)
      PROVE  Fresh'
  <2>1. /\ UNCHANGED <<getVars, reqVars, owed>> /\ version' = [version EXCEPT ![r] = @ + 1]
    BY <1>7 DEF Elsewhere
  <2>2. \A q \in Row : version[q] \in Nat /\ version'[q] >= version[q] /\ version'[q] \in Nat
    BY <2>1 DEF TypeInv, Versions
  <2>3. \A q \in Row : owed'[q] <= version'[q]
    BY <2>1, <2>2 DEF Fresh, TypeInv, Versions
  <2>4. \A t \in Slot : phase[t] = "applied" => on[t] \in Row
    BY DEF TypeInv, Requests, InFlight
  <2>5. \A t \in Slot : IF phase'[t] = "applied" THEN reached'[t] <= version'[on'[t]] ELSE reached'[t] = 0
    BY <2>1, <2>2, <2>4 DEF Fresh, TypeInv, Requests, reqVars
  <2> QED
    BY <2>1, <2>3, <2>5 DEF Fresh, ReadYourWrites, getVars
<1>8. ASSUME NEW s \in Slot, Receive(s) \/ Lose(s)
      PROVE  Fresh'
  BY <1>8, FreshAnswer DEF Receive, Lose, InFlight
<1> QED
  BY <1>1, <1>2, <1>3, <1>4, <1>5, <1>6, <1>7, <1>8 DEF Next

-----------------------------------------------------------------------------
\* The invariant is inductive, and no step applies a save out of its order.
LEMMA Inductive ==
    Spec => /\ [](TypeInv /\ Busy /\ Saves /\ Fresh)
            /\ SavesInOrder
<1> DEFINE IInv == TypeInv /\ Busy /\ Saves /\ Fresh
<1>1. Init => IInv
  BY InitAll, InitFresh
<1>2. IInv /\ [Next]_vars =>
        IInv' /\ [\A r \in Row : applied'[r] >= applied[r] \/ Form[page].forgets]_<<page, applied>>
  BY TypeNext, BusyNext, SavesNext, FreshNext
<1> QED
  BY <1>1, <1>2, PTL DEF Spec, SavesInOrder

\* A row shown as busy, and a Save button that is disabled, stand for a request
\* that is under way, on every page.
THEOREM BusyStandsForARequest == Spec => []BusyIsReal
<1>1. Busy => BusyIsReal
  BY DEF Busy, BusyIsReal, Guards
<1> QED
  BY <1>1, Inductive, PTL

\* On every page that does not forget a save under way, an older text never
\* replaces a newer one.
THEOREM OlderNeverReplacesNewer == Spec => SavesInOrder
BY Inductive, PTL

\* At rest, a list shows every change it was refetched for.
THEOREM ChangesAreShown == Spec => []ReadYourWrites
<1>1. Fresh => ReadYourWrites
  BY DEF Fresh
<1> QED
  BY <1>1, Inductive, PTL
=============================================================================
