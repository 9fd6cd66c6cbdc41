---------------------------- MODULE SessionProxy ----------------------------
(***************************************************************************)
(* The session of the web console.  The browser holds no token: a cookie   *)
(* carries the encrypted pair (access token, refresh token), and the Next  *)
(* route apps/web/app/api/proxy adds the access token to every request it  *)
(* forwards to the Go API.  A pair is refreshed by the proxy, before the   *)
(* request when it is about to expire or after a 401; refreshing rotates:  *)
(* the API revokes the refresh token it is given and issues a new pair.    *)
(* All requests of a proxy process that need a refresh share one flight    *)
(* (safeRefresh); the route that hands out tokens for event streams has a  *)
(* refresh of its own.  A platform administrator can impersonate a user:   *)
(* the administrator's own session waits in a backup cookie.               *)
(*                                                                         *)
(* A pair is an element of Token.  Its access token ages; its refresh      *)
(* token lives until it is revoked.                                        *)
(***************************************************************************)
EXTENDS Naturals, FiniteSets

CONSTANTS
    Request,    \* requests a browser can have under way, used again and again
    Token,      \* the pairs the API can issue, numbered (the bound of the model)
    Browser,
    Admin,      \* the users who are platform administrators
    Human,      \* the user sitting at each browser
    Target,     \* the user an administrator asks to impersonate
    None

CONSTANTS
    Life,           \* steps of the clock an access token is good for
    ProxyMargin,    \* what the proxy wants left of it (60 s)
    StreamMargin    \* what a stream wants left of it (MIN_TTL, five minutes)

ASSUME MarginAssumption ==
    /\ Life \in Nat /\ ProxyMargin \in Nat /\ StreamMargin \in Nat
    /\ ProxyMargin <= StreamMargin /\ StreamMargin < Life

ASSUME TokenAssumption == Token \subseteq Nat /\ None \notin Nat
ASSUME RequestAssumption == None \notin Request

VARIABLES
    \* the API
    issued,     \* the pairs issued so far
    live,       \* those whose refresh token is not revoked
    age,        \* of the access token
    owner,      \* the user a pair acts as
    parent,     \* the pair whose refresh token was exchanged for it
    lock,       \* whether that exchange went through safeRefresh (history)
    \* a browser's cookies
    jar,        \* __session
    backup,     \* __session_backup
    banner,     \* __impersonating
    \* the proxy process
    promise,    \* refreshPromise: the request whose exchange is shared
    flight,     \* of the exchange a request started: idle, sent, checked,
                \* answered
    fresh,      \* the pair it brings back
    \* the requests
    pc, kind, from,
    sent,       \* the pair in the cookie it came with
    sess,       \* the pair it is forwarded with
    awaits,     \* the request whose exchange it waits for
    refreshed, status

apiVars     == <<issued, live, age, owner, parent, lock>>
browserVars == <<jar, backup, banner>>
flightVars  == <<promise, flight, fresh>>
requestVars == <<pc, kind, from, sent, sess, awaits, refreshed, status>>
vars == <<apiVars, browserVars, flightVars, requestVars>>

Kinds    == {"auth", "api", "logout", "stream", "impersonate", "stop"}
Awaiting == {"joined", "rejoined", "exchange"}
AtProxy  == {"arrived", "forward", "retry"} \cup Awaiting
User     == {Human[b] : b \in Browser} \cup {Target}

Init ==
    /\ issued = {} /\ live = {}
    /\ age = [t \in Token |-> 0]
    /\ owner = [t \in Token |-> None]
    /\ parent = [t \in Token |-> None]
    /\ lock = [t \in Token |-> FALSE]
    /\ jar = [b \in Browser |-> None]
    /\ backup = [b \in Browser |-> None]
    /\ banner = [b \in Browser |-> None]
    /\ promise = None
    /\ flight = [q \in Request |-> "idle"]
    /\ fresh = [q \in Request |-> None]
    /\ pc = [q \in Request |-> "idle"]
    /\ kind = [q \in Request |-> "api"]
    /\ from \in [Request -> Browser]
    /\ sent = [q \in Request |-> None]
    /\ sess = [q \in Request |-> None]
    /\ awaits = [q \in Request |-> None]
    /\ refreshed = [q \in Request |-> FALSE]
    /\ status = [q \in Request |-> "none"]

-----------------------------------------------------------------------------
(* The API                                                                 *)

\* issueTokensAndRespond: a new pair for user u, recorded as exchanged for p.
Issue(t, u, p, locked) ==
    /\ t \notin issued
    /\ \A s \in Token \ issued : t <= s
    /\ issued' = issued \cup {t}
    /\ owner' = [owner EXCEPT ![t] = u]
    /\ parent' = [parent EXCEPT ![t] = p]
    /\ lock' = [lock EXCEPT ![t] = locked]
    /\ UNCHANGED age

Revoke(p) == live \ {p}

\* What the router in front of a handler makes of the bearer token.
Accepted(s) == s # None /\ age[s] < Life

\* An access token ages; those issued before it are at least as old.  (The
\* proxy's expires_at is computed from expires_in and ages with it.)
Expires(t) ==
    /\ t \in issued
    /\ age[t] < Life
    /\ \A s \in issued : s < t => age[t] < age[s]
    /\ age' = [age EXCEPT ![t] = @ + 1]
    /\ UNCHANGED <<issued, live, owner, parent, lock>>
    /\ UNCHANGED <<browserVars, flightVars, requestVars>>

-----------------------------------------------------------------------------
(* The browser sends requests and obeys Set-Cookie                         *)

\* getSession, getSessionFromHeader, getBackupSession: the pair in the cookie
\* the route reads.
Session(k, b) == IF k = "stop" THEN backup[b] ELSE jar[b]

\* The middleware keeps a browser that has the cookie off the login page; an
\* open tab goes on calling the API and asking for streams without it.  The
\* cookies are those of the moment the request leaves.
Send(q, b, k) ==
    /\ pc[q] = "idle"
    /\ k = "auth" => jar[b] = None
    /\ k \in {"logout", "impersonate"} => jar[b] # None
    /\ k = "impersonate" => Human[b] \in Admin
    /\ k = "stop" => banner[b] # None
    /\ pc' = [pc EXCEPT ![q] = "arrived"]
    /\ kind' = [kind EXCEPT ![q] = k]
    /\ from' = [from EXCEPT ![q] = b]
    /\ sent' = [sent EXCEPT ![q] = Session(k, b)]
    /\ sess' = [sess EXCEPT ![q] = Session(k, b)]
    /\ UNCHANGED <<apiVars, browserVars, flightVars, awaits, refreshed, status>>

\* The answer leaves the proxy with a status; its cookies follow from it.
Answer(q, st) ==
    /\ pc' = [pc EXCEPT ![q] = "answered"]
    /\ status' = [status EXCEPT ![q] = st]

\* The Set-Cookie headers of the proxy's answer: a pair brought by a refresh
\* is stored; a logout that succeeded, and a 401 that no refresh could mend,
\* clear the cookie (the last header wins).  An answer made up by the proxy
\* because the API could not be reached carries no cookie at all.
SetSession(q) ==
    LET old == jar[from[q]] IN
    IF status[q] = "unreachable" \/ sess[q] = None THEN old
    ELSE IF kind[q] = "logout" /\ status[q] = "ok" THEN None
    ELSE IF status[q] = "401" /\ ~refreshed[q] THEN None
    ELSE IF sess[q] # sent[q] THEN sess[q]
    ELSE old

\* The handlers of these requests are gone, and their locals with them.
Forget(Q) ==
    /\ pc' = [q \in Request |-> IF q \in Q THEN "idle" ELSE pc[q]]
    /\ kind' = [q \in Request |-> IF q \in Q THEN "api" ELSE kind[q]]
    /\ sent' = [q \in Request |-> IF q \in Q THEN None ELSE sent[q]]
    /\ sess' = [q \in Request |-> IF q \in Q THEN None ELSE sess[q]]
    /\ awaits' = [q \in Request |-> IF q \in Q THEN None ELSE awaits[q]]
    /\ refreshed' = [q \in Request |-> q \notin Q /\ refreshed[q]]
    /\ status' = [q \in Request |-> IF q \in Q THEN "none" ELSE status[q]]
    /\ UNCHANGED from

\* The answer of a route reaches the browser, which applies its cookies.
ReceiveProxied(q) ==
    /\ pc[q] = "answered"
    /\ kind[q] \in {"auth", "api", "logout"}
    /\ jar' = [jar EXCEPT ![from[q]] = SetSession(q)]
    /\ Forget({q})
    /\ UNCHANGED <<apiVars, backup, banner, flightVars>>

\* The stream-token route stores the pair it refreshed, and only that.
ReceiveStreamToken(q) ==
    /\ pc[q] = "answered"
    /\ kind[q] = "stream"
    /\ jar' = [jar EXCEPT ![from[q]] =
                   IF status[q] = "ok" /\ sess[q] # sent[q] THEN sess[q] ELSE @]
    /\ Forget({q})
    /\ UNCHANGED <<apiVars, backup, banner, flightVars>>

\* Mutated: the backup is the session the browser holds when the answer comes.
ReceiveImpersonationLate(q) ==
    /\ pc[q] = "answered"
    /\ kind[q] = "impersonate"
    /\ IF status[q] = "ok"
       THEN /\ backup' = [backup EXCEPT ![from[q]] = jar[from[q]]]
            /\ jar' = [jar EXCEPT ![from[q]] = sess[q]]
            /\ banner' = [banner EXCEPT ![from[q]] = owner[sess[q]]]
       ELSE UNCHANGED <<jar, backup, banner>>
    /\ Forget({q})
    /\ UNCHANGED <<apiVars, flightVars>>

\* Impersonation keeps the session that asked for it as the backup.
ReceiveImpersonation(q) ==
    /\ pc[q] = "answered"
    /\ kind[q] = "impersonate"
    /\ IF status[q] = "ok"
       THEN /\ backup' = [backup EXCEPT ![from[q]] = sent[q]]
            /\ jar' = [jar EXCEPT ![from[q]] = sess[q]]
            /\ banner' = [banner EXCEPT ![from[q]] = owner[sess[q]]]
       ELSE UNCHANGED <<jar, backup, banner>>
    /\ Forget({q})
    /\ UNCHANGED <<apiVars, flightVars>>

\* Stopping restores the backup and drops the two cookies of impersonation.
ReceiveStop(q) ==
    /\ pc[q] = "answered"
    /\ kind[q] = "stop"
    /\ IF status[q] = "ok"
       THEN /\ jar' = [jar EXCEPT ![from[q]] = sess[q]]
            /\ backup' = [backup EXCEPT ![from[q]] = None]
            /\ banner' = [banner EXCEPT ![from[q]] = None]
       ELSE UNCHANGED <<jar, backup, banner>>
    /\ Forget({q})
    /\ UNCHANGED <<apiVars, flightVars>>

-----------------------------------------------------------------------------
(* The proxy's handler                                                     *)

AboutToExpire(s, margin) == Life - age[s] <= margin

\* refreshTokens: POST /auth/refresh with the refresh token of sess[q].
StartExchange(q) == flight' = [flight EXCEPT ![q] = "sent"]

\* Mutated: refreshTokens is called without a look at refreshPromise.
UnsafeRefresh(q, waiting) ==
    /\ pc' = [pc EXCEPT ![q] = waiting]
    /\ awaits' = [awaits EXCEPT ![q] = q]
    /\ promise' = q
    /\ StartExchange(q)
    /\ UNCHANGED fresh

\* safeRefresh: join the exchange that is out, or start one.
SafeRefresh(q, waiting) ==
    /\ pc' = [pc EXCEPT ![q] = waiting]
    /\ IF promise # None
       THEN /\ awaits' = [awaits EXCEPT ![q] = promise]
            /\ UNCHANGED flightVars
       ELSE /\ awaits' = [awaits EXCEPT ![q] = q]
            /\ promise' = q
            /\ StartExchange(q)
            /\ UNCHANGED fresh

\* The request is read; a pair about to expire is refreshed first, unless
\* the path is one that logs in.
Handle(q) ==
    /\ pc[q] = "arrived"
    /\ kind[q] \in {"auth", "api", "logout"}
    /\ IF kind[q] # "auth" /\ sess[q] # None /\ AboutToExpire(sess[q], ProxyMargin)
       THEN SafeRefresh(q, "joined")
       ELSE /\ pc' = [pc EXCEPT ![q] = "forward"]
            /\ UNCHANGED <<awaits, flightVars>>
    /\ UNCHANGED <<apiVars, browserVars>>
    /\ UNCHANGED <<kind, from, sent, sess, refreshed, status>>

\* The refresh token a logout carries: put into the body before the handler
\* looks at the age of the pair.
LogoutBody(q) == sent[q]

\* The first forward of a request the API accepts.
ForwardAccepted(q) ==
    /\ pc[q] = "forward"
    /\ kind[q] \in {"api", "logout"}
    /\ Accepted(sess[q])
    /\ live' = IF kind[q] = "logout" THEN Revoke(LogoutBody(q)) ELSE live
    /\ Answer(q, "ok")
    /\ UNCHANGED <<issued, age, owner, parent, lock, browserVars, flightVars>>
    /\ UNCHANGED <<kind, from, sent, sess, awaits, refreshed>>

\* The API answers 401: refresh and retry, except a logout or a request that
\* had no session.
ForwardRejected(q) ==
    /\ pc[q] = "forward"
    /\ kind[q] \in {"api", "logout"}
    /\ ~Accepted(sess[q])
    /\ IF kind[q] = "api" /\ sess[q] # None
       THEN SafeRefresh(q, "rejoined") /\ UNCHANGED status
       ELSE Answer(q, "401") /\ UNCHANGED <<awaits, flightVars>>
    /\ UNCHANGED <<apiVars, browserVars, kind, from, sent, sess, refreshed>>

\* A login path: the pair of the API's answer becomes the session.
ForwardLogin(q, t) ==
    /\ pc[q] = "forward"
    /\ kind[q] = "auth"
    /\ Issue(t, Human[from[q]], None, FALSE)
    /\ live' = live \cup {t}
    /\ sess' = [sess EXCEPT ![q] = t]
    /\ Answer(q, "ok")
    /\ UNCHANGED <<browserVars, flightVars, kind, from, sent, awaits, refreshed>>

\* The retry, once, with the new pair; whatever comes is the answer.
Retry(q) ==
    /\ pc[q] = "retry"
    /\ Answer(q, IF Accepted(sess[q]) THEN "ok" ELSE "401")
    /\ UNCHANGED <<apiVars, browserVars, flightVars>>
    /\ UNCHANGED <<kind, from, sent, sess, awaits, refreshed>>

\* The API cannot be reached: 502 from the first forward, an uncaught error
\* from the retry; no cookie in either answer.
Unreachable(q) ==
    /\ pc[q] \in {"forward", "retry"}
    /\ Answer(q, "unreachable")
    /\ UNCHANGED <<apiVars, browserVars, flightVars>>
    /\ UNCHANGED <<kind, from, sent, sess, awaits, refreshed>>

-----------------------------------------------------------------------------
(* The exchange of a refresh token                                         *)

\* The exchange request q started settles.  If it was the shared one, finally
\* clears refreshPromise; everyone who awaits it goes on, with the pair r or
\* without one.  The stream-token route answers at once.
Settle(q, r) ==
    LET waiting == {w \in Request : pc[w] \in Awaiting /\ awaits[w] = q} IN
    /\ promise' = IF promise = q THEN None ELSE promise
    /\ flight' = [flight EXCEPT ![q] = "idle"]
    /\ fresh' = [fresh EXCEPT ![q] = None]
    /\ awaits' = [w \in Request |-> IF w \in waiting THEN None ELSE awaits[w]]
    /\ sess' = [w \in Request |-> IF w \in waiting /\ r # None THEN r ELSE sess[w]]
    /\ refreshed' = [w \in Request |->
                       refreshed[w] \/ (w \in waiting /\ pc[w] = "rejoined" /\ r # None)]
    /\ pc' = [w \in Request |->
                CASE w \notin waiting -> pc[w]
                  [] w \in waiting /\ pc[w] = "joined" -> "forward"
                  [] w \in waiting /\ pc[w] = "rejoined" /\ r # None -> "retry"
                  [] OTHER -> "answered"]
    /\ status' = [w \in Request |->
                    CASE w \notin waiting \/ pc[w] = "joined" -> status[w]
                      [] w \in waiting /\ r = None -> "401"
                      [] w \in waiting /\ r # None /\ pc[w] = "exchange" -> "ok"
                      [] OTHER -> status[w]]
    /\ UNCHANGED <<kind, from, sent>>

\* The handler of /auth/refresh finds the token not revoked.
Check(q) ==
    /\ flight[q] = "sent"
    /\ sess[q] \in live
    /\ flight' = [flight EXCEPT ![q] = "checked"]
    /\ UNCHANGED <<promise, fresh, apiVars, browserVars, requestVars>>

\* Mutated: the old refresh token is not revoked.
RotateUnrevoked(q, t) ==
    /\ flight[q] = "checked"
    /\ Issue(t, owner[sess[q]], sess[q], pc[q] # "exchange")
    /\ live' = live \cup {t}
    /\ flight' = [flight EXCEPT ![q] = "answered"]
    /\ fresh' = [fresh EXCEPT ![q] = t]
    /\ UNCHANGED <<promise, browserVars, requestVars>>

\* It revokes it and issues another.
Rotate(q, t) ==
    /\ flight[q] = "checked"
    /\ Issue(t, owner[sess[q]], sess[q], pc[q] # "exchange")
    /\ live' = Revoke(sess[q]) \cup {t}
    /\ flight' = [flight EXCEPT ![q] = "answered"]
    /\ fresh' = [fresh EXCEPT ![q] = t]
    /\ UNCHANGED <<promise, browserVars, requestVars>>

\* It fails after the revocation: the user has no membership left, or the
\* new token cannot be stored.
LoseToken(q) ==
    /\ flight[q] = "checked"
    /\ live' = Revoke(sess[q])
    /\ Settle(q, None)
    /\ UNCHANGED <<issued, age, owner, parent, lock, browserVars>>

Land(q) ==
    /\ flight[q] = "answered"
    /\ Settle(q, fresh[q])
    /\ UNCHANGED <<apiVars, browserVars>>

\* 401 for a revoked token, 429 for any: refreshTokens returns null.
Refuse(q) ==
    /\ flight[q] = "sent"
    /\ Settle(q, None)
    /\ UNCHANGED <<apiVars, browserVars>>

\* Mutated: refreshPromise is cleared in then and not in finally.
ThrowKeepsPromise(q) ==
    /\ flight[q] \in {"sent", "answered"}
    /\ flight' = [flight EXCEPT ![q] = "idle"]
    /\ fresh' = [fresh EXCEPT ![q] = None]
    /\ LET waiting == {w \in Request : pc[w] \in Awaiting /\ awaits[w] = q} IN
       /\ pc' = [w \in Request |-> IF w \in waiting THEN "answered" ELSE pc[w]]
       /\ awaits' = [w \in Request |-> IF w \in waiting THEN None ELSE awaits[w]]
       /\ status' = [w \in Request |->
                       IF w \in waiting THEN "unreachable" ELSE status[w]]
    /\ UNCHANGED <<apiVars, browserVars, promise, kind, from, sent, sess, refreshed>>

\* The fetch throws, before the API saw it or after it answered: the handlers
\* of all who await it throw, and their answers carry no cookie.
Throw(q) ==
    /\ flight[q] \in {"sent", "answered"}
    /\ promise' = IF promise = q THEN None ELSE promise
    /\ flight' = [flight EXCEPT ![q] = "idle"]
    /\ fresh' = [fresh EXCEPT ![q] = None]
    /\ LET waiting == {w \in Request : pc[w] \in Awaiting /\ awaits[w] = q} IN
       /\ pc' = [w \in Request |-> IF w \in waiting THEN "answered" ELSE pc[w]]
       /\ awaits' = [w \in Request |-> IF w \in waiting THEN None ELSE awaits[w]]
       /\ status' = [w \in Request |->
                       IF w \in waiting THEN "unreachable" ELSE status[w]]
    /\ UNCHANGED <<apiVars, browserVars, kind, from, sent, sess, refreshed>>

-----------------------------------------------------------------------------
(* GET /api/auth/stream-token, and the two routes of impersonation         *)

\* A pair without enough life for a stream is exchanged, outside the lock.
StreamToken(q) ==
    /\ pc[q] = "arrived"
    /\ kind[q] = "stream"
    /\ IF sess[q] # None /\ AboutToExpire(sess[q], StreamMargin)
       THEN /\ pc' = [pc EXCEPT ![q] = "exchange"]
            /\ awaits' = [awaits EXCEPT ![q] = q]
            /\ StartExchange(q)
            /\ UNCHANGED status
       ELSE /\ Answer(q, IF sess[q] = None THEN "401" ELSE "ok")
            /\ UNCHANGED <<awaits, flight>>
    /\ UNCHANGED <<apiVars, browserVars, promise, fresh>>
    /\ UNCHANGED <<kind, from, sent, sess, refreshed>>

\* POST /api/auth/impersonate: the API issues a pair for the target to a
\* platform administrator; an expired access token is not refreshed.
Impersonate(q, t) ==
    /\ pc[q] = "arrived"
    /\ kind[q] = "impersonate"
    /\ Accepted(sess[q])
    /\ owner[sess[q]] \in Admin
    /\ Issue(t, Target, None, FALSE)
    /\ live' = live \cup {t}
    /\ sess' = [sess EXCEPT ![q] = t]
    /\ Answer(q, "ok")
    /\ UNCHANGED <<browserVars, flightVars, kind, from, sent, awaits, refreshed>>

ImpersonateRefused(q) ==
    /\ pc[q] = "arrived"
    /\ kind[q] = "impersonate"
    /\ Answer(q, "401")
    /\ UNCHANGED <<apiVars, browserVars, flightVars>>
    /\ UNCHANGED <<kind, from, sent, sess, awaits, refreshed>>

StopImpersonate(q) ==
    /\ pc[q] = "arrived"
    /\ kind[q] = "stop"
    /\ Answer(q, IF sent[q] = None THEN "400" ELSE "ok")
    /\ UNCHANGED <<apiVars, browserVars, flightVars>>
    /\ UNCHANGED <<kind, from, sent, sess, awaits, refreshed>>

\* The proxy process restarts: refreshPromise and the handlers are gone, and
\* the browsers see their requests fail.  A handler of the API that has
\* checked a token is done with it long before the process is up again.
Restart ==
    /\ \A q \in Request : flight[q] # "checked"
    /\ \E q \in Request : pc[q] \in AtProxy
    /\ promise' = None
    /\ flight' = [q \in Request |-> "idle"]
    /\ fresh' = [q \in Request |-> None]
    /\ Forget({q \in Request : pc[q] \in AtProxy})
    /\ UNCHANGED <<apiVars, browserVars>>

-----------------------------------------------------------------------------
Receive(q) == \/ ReceiveProxied(q) \/ ReceiveStreamToken(q)
              \/ ReceiveImpersonation(q) \/ ReceiveStop(q)

Exchange(q) ==
    \/ Check(q) \/ LoseToken(q) \/ Land(q) \/ Refuse(q) \/ Throw(q)
    \/ \E t \in Token : Rotate(q, t)

Works(q) ==
    \/ Handle(q) \/ ForwardAccepted(q) \/ ForwardRejected(q) \/ Retry(q)
    \/ Unreachable(q) \/ StreamToken(q)
    \/ ImpersonateRefused(q) \/ StopImpersonate(q)
    \/ \E t \in Token : ForwardLogin(q, t) \/ Impersonate(q, t)

Next ==
    \/ \E q \in Request, b \in Browser, k \in Kinds : Send(q, b, k)
    \/ \E q \in Request : Works(q) \/ Exchange(q) \/ Receive(q)
    \/ \E t \in Token : Expires(t)
    \/ Restart

Spec == Init /\ [][Next]_vars

-----------------------------------------------------------------------------
(* Properties                                                              *)

\* Every variable has its type: the cookies and the requests hold pairs the
\* API issued, or none.
ApiTypes ==
    /\ issued \subseteq Token /\ live \subseteq issued
    /\ age \in [Token -> 0..Life]
    /\ owner \in [Token -> User \cup {None}]
    /\ parent \in [Token -> issued \cup {None}]
    /\ lock \in [Token -> BOOLEAN]

CookieTypes ==
    /\ jar \in [Browser -> issued \cup {None}]
    /\ backup \in [Browser -> issued \cup {None}]
    /\ banner \in [Browser -> User \cup {None}]

FlightTypes ==
    /\ promise \in Request \cup {None}
    /\ flight \in [Request -> {"idle", "sent", "checked", "answered"}]
    /\ fresh \in [Request -> issued \cup {None}]

RequestTypes ==
    /\ pc \in [Request -> AtProxy \cup {"idle", "answered"}]
    /\ kind \in [Request -> Kinds]
    /\ from \in [Request -> Browser]
    /\ sent \in [Request -> issued \cup {None}]
    /\ sess \in [Request -> issued \cup {None}]
    /\ awaits \in [Request -> Request \cup {None}]
    /\ refreshed \in [Request -> BOOLEAN]
    /\ status \in [Request -> {"none", "ok", "400", "401", "unreachable"}]

TypeOK == ApiTypes /\ CookieTypes /\ FlightTypes /\ RequestTypes

\* However many requests find the same pair expired, and although the API
\* checks a refresh token in one statement and revokes it in another, the
\* shared flight (safeRefresh) exchanges a refresh token at most once.
OneSuccessor ==
    \A s, t \in issued :
        lock[s] /\ lock[t] /\ parent[s] = parent[t] => s = t

\* Rotation: a refresh token that was exchanged, by whichever route, is dead.
SpentIsDead ==
    \A t \in issued : parent[t] # None => parent[t] \notin live

\* The session put aside by an impersonation, which stopping it restores, is
\* an administrator's: never the impersonated user's, in however many tabs
\* impersonation is started and stopped.
BackupIsAdmin ==
    \A b \in Browser : backup[b] # None => owner[backup[b]] \in Admin

\* No request waits for an exchange that is over: whoever awaits one, or has
\* yet to join the one in refreshPromise, awaits a fetch that is under way, so
\* that every request is answered when the fetches settle.
NobodyStranded ==
    /\ promise # None => flight[promise] # "idle"
    /\ \A q \in Request :
           pc[q] \in Awaiting => awaits[q] # None /\ flight[awaits[q]] # "idle"

=============================================================================
