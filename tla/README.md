# ZiraLoop: a TLA+ model

ZiraLoop is a multi-tenant platform for running agents. A Go backend (`src/internal`,
started by `src/cmd/server`) keeps customers' LLM credentials, issues proxy tokens for
them, forwards LLM requests, runs agents in sandboxes under the control of the *Bridge*
process, streams what the agents do to clients, and accounts for it. Several API
instances and asynq workers run at once and share one Postgres and one Redis; nothing
else coordinates them. Two Next.js applications, the web console (`src/apps/web`) and the
operators' console (`src/apps/admin`), talk to that API through a session proxy of their
own, and keep a good deal of state themselves: caches of queries, drafts, dialogs that
outlive their requests, a stream that reconnects.

Most of what can go wrong needs two parties: two instances and a failed call, two requests
of one browser, or a user who goes on while an answer is under way. That is what is
modelled here.

| Part | Modules | Run | Proofs |
|---|---|---|---|
| event stream: bus, flusher, cleanup | `EventFlusher`, abstract `EventJournal` | `flusher_faults`, `flusher_turns`, `flusher_live`, `bug_pending` | `EventFlusher_proof` |
| credential cache and request caps | `CredentialCache`, `RequestCap`, composed in `ProxyGuards` | `proxy_guards` | `ProxyGuards_proof` |
| session proxy of the web console | `SessionProxy` | `session_proxy` | `SessionProxy_proof` |
| signing in, identity, workspaces | `SignIn`, extended by `Workspace` | `workspace` | `Workspace_proof` |
| every list page of both consoles | `ListPage`, with the tables `AdminPages`, `SettingsPages` | `list_pages` | `ListPage_proof` |
| dialogs that make or show something | `CreateDialog` (tables: `CreateForms`), `ConnectDialog`, `TemplateModal`, `SkillViewer`, composed in `CreateDialogs` | `create_dialogs` | `CreateDialogs_proof` |
| a conversation as the web app shows it | `Timeline`, extended by `Conversation` | `conversation` | `Conversation_proof` |
| drafting an agent, its triggers and integrations | `IntegrationPicker`, `TriggerFlow`, `AgentWizard`, `EditDialogs`, composed in `AgentDrafts` | `agent_drafts` | `Agents_proof` |
| editing an agent | `AgentPanel` (with the wizard: `AgentParts`) | `agent_panel` | `Agents_proof` |

A run checks the module `MC...` of the same part: `tlc -config agent_panel.cfg
MCAgentPanel.tla`. A proof is checked by `tlapm Agents_proof.tla`. Each run ends within
a few minutes.

Conventions. One action is one call to Redis, Postgres or another service, one HTTP request
arriving or its answer being handled, or one thing the user does; what a process does in
its own memory between two of those belongs to one of them. React batches the state set in
one handler, so a handler is one step. Every request may be refused, lost on the way there
or back, or answered late, wherever the code has an `onError` or an `await`. `Faults` (or
nondeterministic refusal) chooses the failures of an instance; every counter that would
grow for ever has a `Max...` constant, named in the module that declares it. Definitions
whose comment says "Mutated", "Mutant" or "A bug to catch" are plausible mistakes in the
definition they precede; PROJECT.json says which property each one breaks.

## 1. Inventory

Paths are below `src/internal` unless they start with `src/` or `web/` (`src/apps/web`).
The parts down to *Creating and editing agents* are modelled, most of them not whole: each
section below, and PROJECT.json, says what was left out of it.

### Event stream (`streaming`, `handler/bridge_webhooks.go`)

*State.* Per conversation, in Redis: a stream of events, its consumer group `db-flusher`
with a pending list per instance, one accumulator of text chunks per message, membership in
`conv:active`. In Postgres: `conversation_events`. In each flusher: the batch it works on.
*Operations.* The webhook handler publishes Bridge's events (XADD, SADD) and falls back to
an INSERT of its own; each instance's flusher reads batches, accumulates chunks, inserts
rows, synthesizes a completion for a message whose turn ended without one, acknowledges,
trims; Cleanup deletes idle streams; Subscribe replays a stream to an SSE client.
*Interactions.* Everything is shared by all instances, without locks or transactions.
*Hard.* Batches of several flushers interleaving on the accumulators, a crash between any
two calls, redelivery, an error half-way, trimming and deleting under a reader.
*Correct when* every event that has a row gets exactly one, in order, and a message's
text survives once, whole.

### Credential cache (`cache`, `handler/credentials.go`)

*State.* Per instance a memory cache of decrypted credentials and a DEK cache; a Redis
cache of encrypted ones; the Postgres row with `revoked_at`; a pub/sub channel.
*Operations.* `GetDecryptedCredential` (memory, Redis, Postgres and KMS, under
singleflight, promoting upwards), `InvalidateCredential` on revocation.
*Hard.* A read that straddles the invalidation, lost messages, a partly failed
invalidation, lifetimes that add up.
*Correct when* a revoked credential is soon not served any more.

### Request caps (`counter`, `middleware/remaining.go`, `mcpserver/builder.go`)

*State.* A Redis counter per capped token and credential; `remaining`, `refill_amount`,
`refill_interval` and `last_refill_at` in their rows. *Operations.* `RemainingCheck`
decrements the token's counter and then the credential's, refills lazily under an
optimistic lock when one is exhausted, gives the token back when the credential rejects,
and lets a request through when Redis fails. *Hard.* Refills, decrements and undos of many
requests interleave; Postgres and Redis are updated in separate calls. *Correct when* caps
hold and a rejected request costs nothing.

### Session proxy (`web/app/api`, `web/lib/auth/session.ts`, `handler/auth.go`)

*State.* The cookies `__session` (the encrypted token pair), `__session_backup` and
`__impersonating` of a browser; `refreshPromise` of the proxy process; the refresh tokens
of the API. *Operations.* Forward a request, refresh before it or after a 401, hand out a
token for a stream, sign in and out, impersonate and stop. *Hard.* A refresh token works
once and every concurrent request wants to use it; cookies are set by whichever answer
arrives last; impersonation in two tabs. *Correct when* a pair is exchanged once, nobody is
stranded on an exchange, and stopping an impersonation restores an administrator.

### Signing in and workspaces (`web/app/auth`, `src/apps/admin/app/auth`, `web/lib/auth/auth-context.tsx`, `web/app/w/layout.tsx`, `handler/auth.go`, `handler/orgs.go`)

*State.* The steps of the page, its attempts, the codes alive; the cached `/auth/me`, the
active organisation in React and in a cookie, the lists cached under it. *Operations.* Ask
for a code, resend, verify, passwords of the admin application; load identity, switch,
create, impersonate, log out, be removed from a workspace. *Hard.* The user edits while a
code is checked; the cookie of a request is that of when it is sent, the header that of
when it is drawn. *Correct when* one attempt runs at a time, and after a switch everything
shown is of the workspace switched to.

### Lists of both consoles (`src/apps/admin/app/dashboard`, `web/app/w/settings`, `web/app/w/agents`, `web/app/w/connections`, `handler/admin.go`)

*State.* The rows of the API, the cached list, the requests under way, the row shown as
busy, the dialog and the form that are open. *Operations.* Nineteen pages' revoke, delete,
suspend, activate, publish, edit and so on, each with its own guard, confirmation, refetch
and clearing of the busy row. *Hard.* Answers in any order around refetches; a form filled
from an old list. *Correct when* nothing stays disabled, a refetch is not overtaken, saves
keep their order.

### Create dialogs, connections, template builds, skills

*State.* Per dialog the fields, the target they were typed for, its flags, the mutation it
listens to; for a template the build's status and the worker's task. *Operations.* Open,
type, choose, go back, submit, close; connect by OAuth popup or form; create, poll and
retry a build; browse a skill's files. *Hard.* Dialogs stay mounted while closed, so answers
arrive at a dialog that is about something else by then. *Correct when* a secret goes only
where it was typed for, a key shown once stays, a success is told once and is one.

### Conversation client (`web/hooks/use-conversation-stream.ts`, `web/app/w/agents/[id]`, `handler/conversations.go`)

*State.* The run panel's connection, last event id, messages and dots; the conversation
page's rows and the timeline built from them. *Operations.* Connect, resume, reconnect with
a new token, show events, send; build the timeline of a page of rows. *Hard.* Redelivered
batches, trimmed streams, replays, a window of rows that cuts a call in two. *Correct when*
every entry is shown once, in order, and what has ended is not shown as running.

### Creating and editing agents (`web/app/w/agents`, `handler/agents.go`)

*State.* A draft over thirteen steps; the edit panel's form; the agents as the API, the list
and the agent's own query hold them. *Operations.* Every step and view, the key dialog,
POST and PUT with their validation. *Hard.* Going back and forth over dependent choices;
late answers; PUTs of whole forms over stale copies. *Correct when* nothing is sent that was
not chosen, for the agent it was written for, and saves of different parts do not undo
each other.

### Not modelled

* *Conversations API* beyond the stream (`handler/conversations.go`): Create counts the free
  plan's conversations and then inserts; a failure after the Bridge call leaves a
  conversation only Bridge knows.
* *API-key cache* (`cache/apikey.go`): as the credential cache, with one tier less.
* *Request log writers* (`middleware/audit.go`, `generation.go`, `tool_usage.go`): a write
  after `Shutdown` closed the channel.
* *Sandboxes* (`sandbox`): counting and then assigning; provider calls that fail after a row
  is written; two rotations of an agent's token that revoke each other's.
* *Tasks, triggers, subscriptions, billing, webhooks*: at-least-once delivery against
  handlers that are not idempotent.
* The LLM proxy, MCP servers, cryptography, generated clients, the component library,
  marketing pages, start-up and deployment: I/O, formatting, single transactions, or not
  this system's logic.

Section 13 gives the reasons; PROJECT.json lists every part.

## 2. How the modules were ordered, and what would come next

The event stream, the cache and the caps came first: they are shared by all instances, and
an error in them loses data or money. The session proxy and the workspace are what every
request of the web console goes through. Lists and dialogs are modelled by one machine and a
table per page, because the code repeats one pattern with differences that matter (which
flag guards what, what is cleared when); the tables are the differences. The conversation
joins the backend's stream and flusher to the client; the agent pages came last.

Next would be a pool of sandboxes with an abstract specification of its promise, the
rotation of agents' tokens, and the writers of request logs with their shutdown.

## 3. Event stream

`EventFlusher` models one conversation: the webhook handler's publishing, any number of
flushers, and Cleanup. An event is its number in `script`, with a type and a message id;
the types are those `flushStream` tells apart. A stream entry is its position in `log`,
which stands for its Redis id: both grow. `low` is how far the stream is trimmed or
deleted, `group` the group's last-delivered id, `pel` the pending list of each consumer.
`pc`, `batch`, `left`, `found` and `syn` are the local state of `flushStream`. Its actions,
in order:

| Code (`streaming/flusher.go`) | Action |
|---|---|
| `flushAll` finds the conversation, `processPending` | `FlushAll`, `ProcessPending` |
| XGROUP CREATE, XREADGROUP | `CreateGroup`, `ReadNew` |
| SELECT of the conversation | `FindConversation`, `ConversationNotFound` |
| loop over the messages (AppendChunk, DropChunk) | `HandleMessage` |
| recovery of unfinished messages | `PeekChunks` |
| INSERTs of `CreateInBatches` | `CreateInBatches`, `InsertFails` |
| XACK, DropChunk, XTRIM | `Ack`, `DropChunk`, `Trim` |

`Publish` is `XAdd`, `TrackActive` and, with the handler's fallback, `PublishFails`;
`cleanup.go` is `CleanIdle`, `DeleteStream` and `Untrack`; `Crash` and `AccumulatorExpires`
may strike between any two calls. PeekChunks' SMEMBERS and GETs are one step, and so is a
whole batch of XACKs: no other call to those keys tells the difference for the properties.
gorm's default transaction is off (`db/db.go:16`), so each INSERT of `CreateInBatches`
commits by itself.

`EventJournal` is what Postgres may see: events are received in order, and an INSERT stores
received events that no INSERT has stored. `ImplementsJournal` maps `sent` and the events of
`inserts` to it.

### Runs

| Run | Instance | Shows |
|---|---|---|
| `flusher_faults` | two flushers, batches of two, three-event scripts in no sensible order, one failure of any kind but an ambiguous XADD | `AtMostOnce`, `AckAfterInsert`, `ImplementsJournal` |
| `flusher_turns` | one flusher, every one-turn sequence of four events with two messages, a crash, lookup, INSERT or accumulator failure | `NoSpuriousRecovery`, `InsertedInOrder`, `RecoveredWhole`, `RecoveredOnce`, `TurnKept` |
| `flusher_live` | two flushers, publishing fails or is ambiguous, an accumulator expires | `EventuallyStored` |
| `bug_pending` | one failed INSERT | `PendingRetried` fails: nothing ever reads the pending list again |

`bug_pending` is a disagreement between code and comments: `flusher.go:210` and `:271` say
that what was not acknowledged is retried, and `processPending` (`:299`) only counts the
pending entries before it calls `flushStream`, which reads new ones.

*Bounds.* Two flushers and three events in batches of two give two batches of different
flushers in flight over one accumulator; `InsertSize` 1 makes every batch several INSERTs,
so that one can fail after another; `TrimMaxLen` below the script's length makes trims
remove entries. `flusher_turns` keeps the trim above the batch (the code's 500 is above its
100), and enumerates the scripts themselves so that no order of events within a turn is
left out.

*Fairness.* `Flusher.Run` loops on two tickers, so a flusher that can take a step
eventually does (weak fairness of `FlushStep`), and its `select` serves the slower ticker
again and again (strong fairness of `ProcessPending`, which is enabled only between two
flushes). A handler finishes its SADD and a sweep its DEL and SREM. Bridge need not send
anything, failures need not happen, and no fairness is assumed of Cleanup's start. It is the
only specification here with fairness: elsewhere nothing makes a user go on, or a request
come back.

### Proofs

For any number of flushers, any scripts and any failures, `EventFlusher_proof` proves

* `TypeCorrect`: `TypeOK`.
* `StoredOnce`: `AtMostOnce`, assuming `"ambiguous"` is not among the failures: an XADD
  whose reply is lost has the handler store an event that the stream also holds, and then
  the code does store it twice. `AtMostOnce` is not inductive: one must know why the next
  INSERT holds nothing that is stored already. The inductive invariant `IInv` adds that
  the stream holds each event once and in order (`LogOrdered`), that rows are of received
  events (`RowsReceived`), that unread entries and the batches of the flushers are disjoint
  and behind the group's cursor (`BatchesPrivate`), and that what a flusher has still to
  insert, and what nobody has read, is in no row (`NotYetStored`). A group that is deleted
  and created again starts from the beginning, but of an empty stream.
* `JournalImplemented`: `ImplementsJournal`, from the same invariant and assumption.
* `AcknowledgedAfterStored`: `AckAfterInsert`, with no assumption: at `"ack"` every row of
  the batch is stored (`BatchStored`).

Recovery is proved for one instance, for two flushers do interleave on the accumulators
and two turns do meet in one batch (section 12). The hypotheses are named in the module and
hold in `flusher_turns`: `OneFlusher`; `SingleTurn` (nothing of a message comes after its
completion or the end of the turn); `NoPublishFault` (Redis takes every event);
`ShortTurn` (a trim leaves all of a turn but one entry: the code keeps 500). Scripts,
messages, batch and INSERT sizes stay arbitrary. Each theorem has the weakest set that it
needs:

* `StoredInOrder`: `InsertedInOrder`, with one instance and no publishing failure. `OrderInv`:
  rows are before what is unread and before what a batch has still to insert.
* `CompletedNotRecovered`: `NoSpuriousRecovery`, with a single turn and no Redis call whose
  error is ignored; crashes, lookups, INSERTs and expiries may fail. A completion may be
  handled but not yet stored, or stored in a batch that crashed, so `EndedInv` speaks of
  completions in a row or among the entries handled (`Completed`): their message has
  neither accumulator, found chunks nor recovered row. And once a row was recovered, a
  terminal event lies behind everything still to be handled (`TurnOver`), so no
  completion can follow.
* `RecoveredAreWhole`, `RecoveredByOne`: `RecoveredWhole`, `RecoveredOnce`, with a short single turn.
  `KeptInv` says why no entry is lost: the sweep cannot start, and a trim stays behind the
  group. `AccInv` then says what an accumulator holds: exactly the chunks among the entries
  handled (`Past`), in order, or nothing once the message ended. `OnceInv` follows a
  recovered message from the INSERT to the DropChunk that empties its accumulator.

All of them rest on `PhaseInv`, the place of a flusher in its batch: messages are handled in
order, and rows are synthesized only from a batch with a terminal event. Only model-checked:
liveness, `TurnKept` and `EventuallyStored`.

## 4. Credential cache

`CredentialCache` models one credential: its row, its Redis entry and the memory of every
instance. `GetDecryptedCredential` is `Hit`, or `Miss` and a *flight*: `RedisGet`, then
`Decrypt`, or `ReadDB`, `Unwrap`, `SetRedis`, and last `PromoteToL1`. Singleflight allows an
instance one flight of a credential; callers that join it get its answer. `Revoke` and
`InvalidateCredential` are `Revoke`, `DropMemory`, `DropRedis`, `PublishInvalidation`; every
subscriber runs `HandleInvalidation`. `Evict` is the LRU. The DEK cache only decides
whether `Decrypt` calls KMS and cannot make a revoked credential valid, so it is part of
`Decrypt` and `DropMemory`. The check of the organisation, which no step changes, is left
out.

Time passes in ticks. An entry carries how long it still lives and how long ago Postgres
was read for it; a flight carries the age of what it has read. The only assumption on time
is `Latency`: a flight (a request to Redis, Postgres and KMS) takes at most so many ticks.
Clients and drivers have timeouts, but the code sets no bound of its own; the bound of
`BoundedStaleness` is therefore stated in terms of it.

`proxy_guards` checks two instances, alike under symmetry, with one failure of Redis,
KMS or Postgres or one message lost by some subscribers. Memory lives two ticks, Redis
three, flights one: enough for an entry to be promoted at the end of its life, twice.

* `BoundedStaleness`: after the revocation the credential is served for at most
  `RedisTTL + MemLife + 2 * Latency`, whatever fails. With the code's defaults this is
  30 + 5 minutes; the hard expiry of 15 minutes never binds, because memory entries live 5.
* `ClearedEverywhere`: an invalidation that nothing disturbs and that no flight overtakes
  clears all tiers for good. `overtaken` records that some instance carried the credential
  between two calls while a tier was cleared.

`ProxyGuards_proof` proves `CacheTypeCorrect`, `StalenessBounded` and `InvalidationClears`
for any number of instances, lifetimes and failures. The first needs `AgesBounded`: an
entry's age and its remaining life together never exceed what its tier allows, and nothing
in the system was read from Postgres after the revocation. The second needs `Cleared`:
behind the DEL no flight is about to write Redis, and behind its message no instance holds
or carries the credential.

## 5. Request caps

`RequestCap` models the requests of the tokens of one credential. A key is a token or the
credential, with its counter (`counter`; `NoKey` when Redis has none, "no cap") and its row
(`lastRefill`, `interval`). `last_refill_at` is only compared with the clock and with the
value read before, so it is modelled as the number of the interval a key was refilled in:
`IntervalEnds` lets the next one end once the last is refilled, as intervals count from the
last refill. A request runs the steps of `RemainingCheck` for its token (`phase` "token")
and then for the credential: `Decrement` (the Lua script is one step), and when exhausted
`LoadRow`, `UpdateRow`, `Seed`, and `Decrement` again; on the way out `Undo`. The two
`CheckAndRefill` functions differ only in the counter's TTL. A tool call decrements the
token and does nothing else (`ToolCall`).

`proxy_guards` checks four requests and a tool call on two tokens, one of them without a
cap, two intervals, a refill of two for the credential, and one failure of Redis, of
Postgres, or of a reply. Three requests at the same exhausted token are enough for two
refills to race, and two more for the credential to reject one that holds a token.

* `ServedWithinCap`: no key serves more requests than its cap, a refill per interval that
  has ended, and one per failure. It depends on the optimistic lock: without it two
  requests both apply one refill.
* `RejectedPaysNothing`: without failures and before a refill, a counter accounts exactly
  for the requests served or under way.

The same module proves `CapTypeCorrect`, `CapEnforced` (`ServedWithinCap`) and
`RejectionFree` (`RejectedPaysNothing`) for any requests, tokens, caps and failures. The
inductive invariant behind `CapEnforced` is a ledger per key: what the counter holds, plus the
requests that have taken one, plus a refill for every UPDATE whose SET is still to come,
never exceeds the cap plus the refills in the row (`Ledgers`); a refill about to be written
is for an interval that has ended (`RefillsDue`); and a request that is served without
having paid is the work of a failure (`TokenPaid`, `Excused`). `RejectionFree` needs to
know what a request may hold at each step (`Held`: nothing before its token is decremented,
the credential only when it is about to be served, nothing once it is rejected) and that no
counter is SET before an interval has ended (`RefillsLate`). The cardinalities are of
subsets of the finite set of requests, so the proof rests on the library's theorems about
finite sets.

`ProxyGuards` composes the two: neither reads the other's state, so a behaviour is about
one of them and no interleaving is lost; `GuardsSafe` carries the invariants of both to it. When all requests are answered nothing is left to
do, hence no deadlock check.

Not in the model: a counter that expires with its token (a minute after the token, which
no request outlives in practice), the Redis client's own retries, and a counter that was
never seeded because the error of the SET at creation was ignored: such a key has no cap.

## 6. Session proxy

`SessionProxy` models every route of the web console that reads or writes a session cookie.
A token pair is an element of `Token`: `age` is that of its access token, `live` says
whether its refresh token works, `parent` which pair it was exchanged for. A request is one
slot: it is sent with the cookie of its browser (`Send`), handled by its route (`Works`),
may start or join an exchange (`Exchange`) and is received by the browser, which stores the
cookies it carries (`Receive`) — in whatever order answers arrive.

| Code | Action |
|---|---|
| `proxy/[...path]/route.ts`: proactive refresh, forward, 401, refresh, retry, 502 | `Handle`, `SafeRefresh`, `ForwardAccepted`, `ForwardRejected`, `ForwardLogin`, `Retry`, `Unreachable`, `Settle` |
| the same: body of a logout, built before the forward | `LogoutBody` |
| `handler/auth.go` Refresh: SELECT, UPDATE, INSERT | `Check`, `Rotate`, `LoseToken`, `Land`, `Refuse` |
| `refreshPromise` and its `finally` | `StartExchange`, `Settle`, `Throw` |
| `stream-token`, `impersonate`, `stop-impersonate` | `StreamToken`, `Impersonate`, `ImpersonateRefused`, `StopImpersonate` |
| the clock; the process restarts | `Expires`, `Restart` |

The API's SELECT of a refresh token and the UPDATE that revokes it are two actions, so two
exchanges of one token can both succeed: only `refreshPromise` prevents it.

`session_proxy` runs two requests of one browser over three pairs, with the margins of the
code in their order (the stream's is the larger). Two requests race for one exchange, and
slots are used again, so a third can join a flight begun by another; three pairs are a
sign-in, a rotation, and an impersonation or a second rotation.

* `OneSuccessor`: the shared flight exchanges a refresh token at most once.
* `SpentIsDead`: a pair that was exchanged, by either route, cannot be exchanged again.
* `BackupIsAdmin`: the session put aside is an administrator's, in however many tabs.
* `NobodyStranded`: nobody awaits an exchange that is over; a throw, an answer lost, a restart
  included.

`SessionProxy_proof` proves the four and `TypeOK` for any requests, browsers, users, pairs and
lifetimes. `OneSuccessor` is not inductive: one must know that a token being exchanged under
the lock has not been exchanged under it before and that nobody else exchanges it. `IInv`
adds `OwnExchange` (whoever has an exchange under way awaits it, with the pair it exchanges,
and one that went through `safeRefresh` is the one of `refreshPromise`, of which there is
one), `Succession` (a token the API has found alive for the shared flight has not been exchanged
by a shared flight yet) and `Administered` (an impersonation never refreshes, and one that
succeeded was asked for with an administrator's pair).

## 7. Signing in and workspaces

`SignIn` is the page: steps of the web application (options, e-mail, code), the password
form of the operators', the attempts under way, and the API's codes. Typing the last digit
submits (`TypeDigits`), and so does a press; the attempt runs through `FindCode`,
`SpendCode` or `Login`, `Register`, and is answered (`SignedIn`), refused or lost while the
user goes back, resends or types. `Workspace` extends it: `AuthProvider` (`MeRead`,
`MeAnswered`, `MeFails`), the effect that replaces an organisation the user is not in
(`Flip`), the header's `Switch`, creating a workspace, impersonation with the reload it
does, `Logout`, and a list of the page as one representative query (`AskList`,
`ListAnswered`), read for the cookie its request carries. Effects run before anything else
can happen: `Ready` guards the user's actions with `~FlipDue`.

`workspace` starts from an administrator in two workspaces and a user in none, over
either site, with one code, two attempts and one sign-out or deletion (`MaxTurns`).

* `OneSignIn`: one attempt at a time whatever the user does meanwhile, and a refusal erases
  no code but the refused one.
* `SwitchShowsItsOwn`: after a switch, until something else moves them, the cookie and the
  header agree, and once requests are answered the list is of that workspace.

One code is enough because an attempt is refused nondeterministically whatever its code.
`Logout` and `Impersonate` are one step each: their window is in `SessionProxy`.

`Workspace_proof` proves both (`OneAttempt`, `SwitchHolds`) for any users, workspaces, codes,
attempts and `MaxTurns`. `SignInInv`: the attempt under way is the one the page waits for
(`Awaited`), and the operators' steps never show a code (`OwnSteps`); None must not be the
name of an attempt. `SwitchInv` adds that `/auth/me` answers with a user (`Known`), and
`Together`: while a switch stands, header and cookie name one workspace, and a list that is
shown or on its way is of it.

## 8. Lists

`ListPage` is one machine for nineteen pages; the page is chosen in the initial state. A
page is five tables: `Query` (its tabs, and which rows each shows), `Menu` (the items a row
offers in the state it is shown in, and how an item is confirmed), `Calls` (what a request
does to the row, what is disabled while it runs, when its dialog closes and when the list is
refetched), `Form` (what the edit dialog sends) and `Dialogs` (how a dialog closes). `AdminPages` and `SettingsPages` fill them in from the code, where nearly every
page differs from the next in one of these.

A request is `Apply`ed or refused by the API and then received (or lost). TanStack Query is
modelled from its use: an invalidation cancels and restarts a GET under way, except the
first; a mutation's callbacks given to `mutate` are heard only if it is the last of its
mutation (`latest`), those given to `useMutation` always.

`list_pages` checks every page with two rows, two requests and one change made elsewhere.
Two requests are what overtaking and the single busy slot need.

* `BusyIsReal`: what is shown as busy, or as being saved, stands for a request under way.
* `SavesInOrder`: an older text of a row never replaces a newer one. It leaves out the
  pages whose form forgets a save under way: on the sandbox templates `openEditDialog`
  resets the mutation, which enables Save again, and there two saves do overtake.
* `ReadYourWrites`: at rest the list shows every change the page refetched for.

`ListPage_proof` proves all three for any rows and requests. The lemma `Pages` goes
through the tables of all pages once and states what the proofs need of them (a request
that guards its row frees it whatever the answer, and so on): a new page that obeys them is
covered. The invariant is `TypeInv` (only as much of the types as is needed), `Busy` (each flag
names its request), `Saves` (one save under way, newer than any applied) and `Fresh` (an
answer on its way is as new as what the row is known to have had, because the GET that
carries it was sent again when that became known).

## 9. Dialogs

`CreateDialogs` composes four machines that share nothing; a behaviour is about one.

* `CreateDialog` with the tables of `CreateForms` is seven dialogs (API keys, LLM keys, own
  and admin skills, workspaces, integrations, templates): which fields closing, choosing and
  succeeding clear, whether the button has a flag of its own or follows the mutation's
  `isPending`, what an answer closes or shows.
* `ConnectDialog` is the connections page: suggestions, the dialog, a form or an OAuth
  popup, the session, the popup and the POST that saves, in either branch of the page; each
  branch mounts a dialog of its own.
* `TemplateModal` is the template dialog with the API's `TriggerBuild` and `RetryBuild`, the
  worker's `Build` (asynq task), the poll every three seconds and the timer that closes.
* `SkillViewer` is the tree of a skill's files. Its dialog is mounted once for the list.

`create_dialogs` bounds: two providers and three POSTs; three integrations, one without
credentials, three connects; two templates, two builds; two skills, five bundles. Three
POSTs let a late answer meet a dialog closed, opened and submitted again.

* `SecretForItsTarget`, `ConnectingIsReal`: a secret goes to the provider, or the integration, it was
  typed for; what is shown as connecting is the last thing started and still under way.
* `OneAtATime`: a dialog with a flag of its own makes one thing at a time.
* `ShownUntilClosed`: a key that cannot be seen again stays until the user closes it.
* `ToldOnce`: a template's success is announced once, after a build of it succeeded.
* `ShownIsMarked`: exactly one row of the tree is marked, the file whose text is shown, and
  the rows are the files.

`CreateDialogs_proof` proves all six. Each machine has an invariant of its own
(`FormInv`, `PageInv`, `ModalInv`, `ViewerInv`), kept by its own steps, and the composition
conjoins them. `Flagged` is what `OneAtATime` needs (the flag is up while anything runs);
`Settled` is what `ShownUntilClosed` needs (nothing is waited for while a key is shown);
`ReadyIsTrue` and `AboutOnce` what `ToldOnce` needs (a cached or carried "ready" came from
a build that succeeded; a template told of is not announced again while the dialog is about
it, nor later, for it is never created twice). `ShownIsMarked` rests on `BundlesAreTrees`:
bundles are unpacked from a tarball, where a path is not a file and a folder at once.

## 10. A conversation in the web app

`Conversation` joins Bridge's publishing (`Receive`, `Start`, `Chunk`, ... `Done`), the
redelivery of a batch (`Redeliver`), the flusher as far as its rows go (`Flush`), the stream
handler and hook (`Connect`, `Accepted`, `Fails`, `Closes`, `HideAndShow`, `Deliver`) and the
panel. `Deliver` is one message with everything `onmessage` does: by type it appends a
message, a chunk, a completion's full text if no chunk came, or an error, and sets or clears
the dots. A new access token clears the screen and replays from the start; showing the
document again resumes at the last id. `Timeline` is the pure part, checked on every page of
rows the run reaches: `BuildTimeline` is the set of items that `buildTimeline` makes of the rows of
a page (its loop only appends, so an item is known by the row it comes from), and a card's
status is looked up among all rows of its call (`FindCompletion`). Rows of one number are in the
order of their batches (`Precedes`). `Kept` says in one formula which chunks the flusher's
loop over a batch has accumulated at its end.

`conversation` has one answer and one bash call, four entries, one batch posted again, a trim
that keeps two, batches of three, two tokens, one message sent, and a page of three rows. Four
entries are a start, a chunk and a completion with one of them, or the call's start, posted
twice; a tail of two makes a panel miss the beginning of an answer, and its chunks.

* `ShownOnce`, `NothingSkipped`: every entry is shown at most once and in order, and what the
  panel passed and the stream still has is on the screen.
* `SpinnerTrue`: dots only after the start of an answer that nothing seen since ended.
* `CompletedNotBlank`: an answer whose completion was seen has a text, whatever was missed.
* `CardsAgree`, `ResolvedShown`: on any page of rows all cards of a call agree; a page with
  every row shows no end that is stored as still running.

`Conversation_proof` proves all six for any events, tokens, trims, redeliveries and pages.
The invariant relates screen and stream: everything on the screen comes from entries the
panel passed (`PanelInv`), entries are ordered and trimmed from the front (`StreamInv`). The
step lemmas (`WriteStep`, `AddStep`, `QuietStep`, `SpinnerStep`) follow the branches of `onmessage`.
The latest entry of an answer is found with the library's `WFMin` (lemma `GreatestOf`).

The timeline's two (`CallsAgree`, `EndsShown`) rest on `PageInv`: Bridge starts a call once and
does not start it again after its end (`AgentInv`, `CallsInv`), so all ends of a call in the
stream are copies of one event; and a row is a copy of an entry, or was made for an answer,
never for a call (`RowsInv`). What a window cuts off, it cuts off for every card of the
call. `IdsApart` is assumed: an answer and a call have different ids.

## 11. Agents

### Drafts

`IntegrationPicker` is the selection of connections and their actions, `TriggerFlow` the
configuration of triggers (pick a connection, its events, filters, confirm); both are used by
the wizard and by the edit panel's dialogs, with their differences as parameters.
`AgentWizard` is the thirteen steps, the dialog that adds an LLM key on the way, POST
`/v1/agents` with the validation of `handler/agents.go`, and the callbacks lost when a step or
the wizard is closed ("orphan"). `EditDialogs` is the panel's dialogs over an agent that may be read
again under them. `AgentDrafts` composes wizard and panel: one is open at a time, and requests
of a closed wizard may be answered while the panel is.

`agent_drafts` has one connection with two events and two triggers, two keys of which one
is added on the way, and one of everything else: two events in two triggers are what
splitting by filter, editing and removing need.

* `NoStrayActions`: no action is granted through a connection that is not selected.
* `SummaryIsComplete`: the summary stands only over a draft the API accepts.
* `FilterHasOneEvent`: in the wizard an event with a filter has a trigger of its own.

`Agents_proof` proves the three for any connections, actions, events, filters, keys and models
(`StrayActionsNever`, `SummariesComplete`, `FiltersStayApart`). `Selections`: the picker, and the dialog
that starts from the agent as it was given, select every connection of which they grant an
action. `DraftSound`: on each step what the earlier steps ask for is filled in (`Filled`:
`AfterKey`, `AfterBasics`, `AfterPrompt`), and a late answer of the key dialog is heard only where
it leaves that so (`Listening`); None is no key (`AgentParts`). `FlowSound`: a trigger with a filter
has one event, in the list, in the one being configured and in what confirming makes of
it.

### Panel

`AgentPanel` has two copies of every agent besides the API's (the list and the agent's
own query), the panel's form, the resources dialog and the PUTs under way, each `Check`ed and
`Store`d in separate steps (the handler reads, validates and then saves). A text carries
the agent it was written for. `agent_panel` has two agents, two keys whose providers share one model, one
resource and two requests.

* `TextOfItsAgent`: no agent is given what was written for another.
* `PairOnOffer`: the panel offers no key with a model its provider lacks, unless the agent
  has them.
* `SavesApart`: a save of the panel leaves the resources as they are by then, and a save of
  resources everything else.

`Agents_proof` proves the three (`TextsStayHome`, `OffersPairs`, `NeitherUndoes`) for any
agents, keys and requests. The invariant: every
copy of an agent has its own text (`Copies`), the form is of the agent shown (`Editing`), and
each request is a whole form of its agent or resources alone.

## 12. Divergences and limits of the code the models show

These behaviours are in the models (or just outside an instance, as said); no property
excludes them. `bug_pending` (section 3) is the one with a run of its own.

*Event stream.* A trim to 500 loses entries nobody has read (`flusher.go:226`). Any database
error of the conversation lookup acknowledges the batch as if the conversation did not exist
(`:128`). With two flushers, or a turn that follows in the same batch, a message can be both
completed and recovered (`:186`, `:198`); `flusher_turns` is about one flusher and one turn.
A recovered row has no sequence number and sorts first (`:262`). A publish that falls back
to Postgres leaves the accumulator of its message, and a later terminal event recovers it.
Two flushers may append chunks out of order. A crash between the INSERT of a synthesized
row and its DropChunk synthesizes it again. An error of XREVRANGE is read as an empty
stream, and a live one is deleted; an SADD before Cleanup's SREM, with an XADD after its
DEL, leaves entries in a stream no flusher looks at.

*Cache and caps.* A flight that read the row before a revocation writes it to Redis after
the DEL, and the key is served from there for up to the bound of `BoundedStaleness`
(`cache.go:167`). `InvalidateCredential` returns at an error of the DEL before it publishes
(`:254`); `Revoke` ignores that, and a second `Revoke` answers 404; it runs under the
request's context. `cache.go:319` says `InvalidateAPIKey` removes the key from the local
cache; it only publishes, and its caller drops the entry. `IsTokenRevoked` says it checks
every token; only tests call it. An undo after a refill leaves `refill_amount + 1`
(`remaining.go:85`); the cap over all intervals still holds. The loser of a refill race
answers 429 from a counter it read before the winner refilled it. A counter that was never
seeded means no cap.

*Session.* Requests of two users that refresh at once share one `refreshPromise` and get one
user's pair (`route.ts:52`): the model has `from` and one promise, and states nothing about
whose pair is stored. A 502, or an uncaught throw, after a proactive refresh loses the
rotated pair (`:169`). `Refresh` ignores the error of its UPDATE (`auth.go:431`). The pair a
logout's own request refreshed survives it. The stream's refresh is outside the shared
flight. Logging out clears `__session` only, not the backup and the banner.

*Sign-in and workspaces.* The e-mail input stays editable while Send is pending, so the code
step can name an address the code was not sent to. A code's use is checked and then
marked. Two requests at once leave two live codes. A created workspace is activated before
it is in the list, and the effect flips to the first. Lists are not invalidated by that
flip. A failed `/auth/me` with a session cookie leaves the loader for ever. Signing in as somebody else
within a minute of a sign-out shows the cached identity first.

*Lists.* Removed rows reappear if the first GET was in flight. A completion of one row's
action closes the dialog of another; the one busy slot names one row of several. A form
filled before another administrator's change undoes it, for the PUT carries the status
too. A failed DELETE closes its dialog silently. Pressing the confirm button twice sends two
requests (`button.tsx:59`), and the 404 of the second replaces the first's callbacks. A typed
confirmation is cleared only when the user dismisses it. The integrations' edit always sends
credentials; a ban's reason is never sent. `credentials/page.tsx` of the operators' console
does not compile at this commit: only its revocation is modelled.

*Dialogs.* The workspace dialog's flag stays up after a network error. An API key whose answer is
overtaken by a second press is created and never shown. A late success shows, or closes, a
dialog reopened for something else. The connections page keeps a form selected after a
success, and its button looks only at its own integration, so two connections can be under
way; hence `ConnectingIsReal` says what is shown, not that there is one. Create has no
uniqueness (`in_connections.go:212`). A template's 1500 ms timer closes a reopened dialog;
its create is not guarded; a cached "failed" is not read again for a minute after a retry;
`TriggerBuild` enqueues before it writes "building". The buttons that open the template modal
are disabled at this commit (`sandbox-templates-list.tsx:124`). The skill dialog's reset of
the selection never happens, for skill and `open` change together.

*Conversation.* After `onerror` the panel says connected and reads nothing until its token
changes (`use-conversation-stream.ts:249`). A hidden panel whose `done` was trimmed keeps
its dots. A message sent is on the screen twice, as the optimistic one and as
`message_received`, and a failed one stays. `response_completed` is dropped if its start was
trimmed; the full text is ignored when only some chunks were missed. `deriveStatus` says
"ended" after any completed response. The page's events are never read again.

*Agents.* The agent read again under the triggers dialog leaves an `editingIndex` that
replaces another trigger. A save on the agent's own page invalidates the list only. A
late answer closes whichever panel is open. A refetch resets the form being edited. Two
PUTs, each valid when checked, leave a model its key's provider lacks (`agents.go:928`,
`:1024`). The wizard keeps the model of a previous key. Cleared fields are not cleared on the
server. A late answer of a key resets the form of a second one. The Save of variables and of set-up commands, and the
marketplace's install, do nothing.

## 13. What is model-checked only, and what is not modelled

*Model-checked only.* Liveness and ENABLED are out of the prover's reach: `EventuallyStored`
and `TurnKept` (and the violation `bug_pending`). Every invariant and every action property
that a run checks is stated by a theorem; those of the flusher's order and recovery, under
the hypotheses of section 3. Larger bounds than those of the configurations were explored by
random simulation without an error. A type invariant stands in every module with state
(`TypeOK`, or `...TypeOK` where modules are composed); what the proofs need of it is part
of the inductive invariants, or a theorem of its own (`TypeCorrect`, `CacheTypeCorrect`, `CapTypeCorrect`).

*Abstractions.* Search, filters and pages of lists; token counts; sort order and rendering;
names, descriptions and the text typed, except whose it is; animations; heartbeats and
read-ahead of the SSE handler; the chunks' time to live in `Conversation`; a second browser
tab in `Workspace`. `HideAndShow` is one step, for nothing reaches a hidden panel between the
two. What is lost on its way to the API and what is lost on its way back are told apart
wherever the effect differs.

*Not modelled.* The OAuth sign-in and e-mail confirmation (redirects of other services);
invitations; the admin application's near copy of the session proxy; reconnecting an
integration; the embed widget `connect.ts` (one iframe, one object); approvals, browser and
terminal panels, which nothing mounts at this commit; the sandbox orchestrator and the agent
pusher, whose state is a provider's, not this code's; task handlers, whose delivery is
asynq's; trigger rules and routing, pure functions with tables of tests and a language
model; billing and incoming webhooks; the proxy's forwarding, the MCP servers, cryptography
and generated code. PROJECT.json names each with its reason.
