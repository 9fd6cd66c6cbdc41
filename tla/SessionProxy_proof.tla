------------------------- MODULE SessionProxy_proof -------------------------
(***************************************************************************)
(* Proofs about SessionProxy, for any number of requests, browsers, users  *)
(* and pairs, and any lifetimes.                                           *)
(***************************************************************************)
EXTENDS SessionProxy, TLAPS

(***************************************************************************)
(* The inductive invariant.  Whoever has an exchange under way waits for   *)
(* it, with the pair it exchanges, and one that went through safeRefresh   *)
(* is the one of refreshPromise: there is only one of them at a time.      *)
(***************************************************************************)
OwnExchange ==
    \A q \in Request : flight[q] # "idle" =>
        /\ pc[q] \in Awaiting /\ awaits[q] = q /\ sess[q] \in issued
        /\ pc[q] # "exchange" => promise = q

Flights == OwnExchange /\ NobodyStranded

(***************************************************************************)
(* A refresh token that the API has found alive, for the shared flight,    *)
(* has not been exchanged by a shared flight yet.                          *)
(***************************************************************************)
Unspent ==
    \A q \in Request : flight[q] = "checked" /\ pc[q] # "exchange" =>
        \A t \in issued : lock[t] => parent[t] # sess[q]

Succession == Unspent /\ SpentIsDead /\ OneSuccessor

(***************************************************************************)
(* An impersonation goes from arrived to answered and never refreshes; one *)
(* that succeeded was asked for with an administrator's pair.              *)
(***************************************************************************)
Granted(q) == sess[q] \in issued /\ sent[q] \in issued /\ owner[sent[q]] \in Admin

AskedByAdmin ==
    \A q \in Request : kind[q] = "impersonate" =>
        /\ pc[q] \in {"arrived", "answered"}
        /\ pc[q] = "arrived" => sess[q] = sent[q]
        /\ pc[q] = "answered" /\ status[q] = "ok" => Granted(q)

Administered == AskedByAdmin /\ BackupIsAdmin

IInv == TypeOK /\ Flights /\ Succession /\ Administered

-----------------------------------------------------------------------------
\* The constants of every proof below.
LEMMA Constants ==
    /\ Life \in Nat /\ Token \subseteq Nat /\ None \notin Nat /\ None \notin Request
    /\ \A b \in Browser : Human[b] \in User
    /\ Target \in User
BY MarginAssumption, TokenAssumption, RequestAssumption DEF User

\* In the initial states nothing is issued and nothing is under way.
LEMMA InitAll == Init => IInv
<1> SUFFICES ASSUME Init PROVE IInv
  OBVIOUS
<1> USE Constants
<1>1. TypeOK
  BY DEF Init, TypeOK, ApiTypes, CookieTypes, FlightTypes, RequestTypes, Kinds
<1>2. Flights
  BY DEF Init, Flights, OwnExchange, NobodyStranded, Awaiting
<1>3. Succession
  BY DEF Init, Succession, Unspent, SpentIsDead, OneSuccessor
<1>4. Administered
  BY DEF Init, Administered, AskedByAdmin, BackupIsAdmin
<1> QED
  BY <1>1, <1>2, <1>3, <1>4 DEF IInv

-----------------------------------------------------------------------------
(* Types.                                                                  *)

\* A new pair keeps the types of the API's variables.
LEMMA IssueTypes ==
    ASSUME ApiTypes, NEW t \in Token, NEW u \in User \cup {None}, NEW p \in issued \cup {None},
           NEW l \in BOOLEAN, Issue(t, u, p, l), live' \subseteq live \cup {t}
    PROVE  ApiTypes' /\ issued \subseteq issued' /\ t \in issued'
BY DEF ApiTypes, Issue

\* The end of an exchange keeps the types of the proxy and its requests.
LEMMA SettleTypes ==
    ASSUME TypeOK, NEW q \in Request, NEW r \in issued \cup {None}, Settle(q, r),
           issued' = issued
    PROVE  FlightTypes' /\ RequestTypes'
<1>1. FlightTypes'
  BY DEF TypeOK, FlightTypes, Settle
<1>2. /\ kind' \in [Request -> Kinds] /\ from' \in [Request -> Browser]
      /\ sent' \in [Request -> issued' \cup {None}]
  BY DEF TypeOK, RequestTypes, Settle
<1>3. /\ sess' \in [Request -> issued' \cup {None}]
      /\ awaits' \in [Request -> Request \cup {None}]
      /\ refreshed' \in [Request -> BOOLEAN]
  BY DEF TypeOK, RequestTypes, Settle
<1>4. pc' \in [Request -> AtProxy \cup {"idle", "answered"}]
  BY DEF TypeOK, RequestTypes, Settle, AtProxy
<1>5. status' \in [Request -> {"none", "ok", "400", "401", "unreachable"}]
  BY DEF TypeOK, RequestTypes, Settle
<1> QED
  BY <1>1, <1>2, <1>3, <1>4, <1>5 DEF RequestTypes

\* Handlers that are gone leave their requests blank.
LEMMA ForgetTypes ==
    ASSUME RequestTypes, NEW Q, Forget(Q), issued' = issued
    PROVE  RequestTypes'
BY DEF RequestTypes, Forget, Kinds

\* Sending, receiving and restarting keep the types.
LEMMA BrowserTypes ==
    ASSUME IInv, NEW q \in Request,
           \/ Receive(q)
           \/ \E b \in Browser, k \in Kinds : Send(q, b, k)
           \/ Restart
    PROVE  TypeOK'
<1> USE Constants DEF IInv, TypeOK
<1>1. ASSUME NEW b \in Browser, NEW k \in Kinds, Send(q, b, k) PROVE TypeOK'
  <2>1. Session(k, b) \in issued \cup {None}
    BY DEF Session, CookieTypes
  <2>2. RequestTypes'
    BY <1>1, <2>1 DEF Send, RequestTypes, AtProxy, apiVars
  <2> QED
    BY <1>1, <2>2 DEF Send, apiVars, browserVars, flightVars, ApiTypes, CookieTypes, FlightTypes
<1>2. CASE Restart
  <2>1. RequestTypes'
    BY <1>2, ForgetTypes DEF Restart, apiVars
  <2> QED
    BY <1>2, <2>1 DEF Restart, apiVars, browserVars, ApiTypes, CookieTypes, FlightTypes
<1>3. CASE ReceiveProxied(q)
  <2>1. SetSession(q) \in issued \cup {None}
    BY DEF SetSession, CookieTypes, RequestTypes
  <2>2. RequestTypes'
    BY <1>3, ForgetTypes DEF ReceiveProxied, apiVars
  <2> QED
    BY <1>3, <2>1, <2>2
       DEF ReceiveProxied, apiVars, flightVars, ApiTypes, CookieTypes, FlightTypes
<1>4. CASE ReceiveStreamToken(q)
  <2>1. RequestTypes'
    BY <1>4, ForgetTypes DEF ReceiveStreamToken, apiVars
  <2> QED
    BY <1>4, <2>1
       DEF ReceiveStreamToken, apiVars, flightVars, ApiTypes, CookieTypes, FlightTypes, RequestTypes
<1>5. CASE ReceiveImpersonation(q)
  <2>1. RequestTypes'
    BY <1>5, ForgetTypes DEF ReceiveImpersonation, apiVars
  <2>2. status[q] = "ok" => owner[sess[q]] \in User \cup {None}
    BY <1>5 DEF ReceiveImpersonation, Administered, AskedByAdmin, Granted, ApiTypes
  <2>3. CookieTypes'
    BY <1>5, <2>2 DEF ReceiveImpersonation, apiVars, CookieTypes, RequestTypes
  <2> QED
    BY <1>5, <2>1, <2>3 DEF ReceiveImpersonation, apiVars, flightVars, ApiTypes, FlightTypes
<1>6. CASE ReceiveStop(q)
  <2>1. RequestTypes'
    BY <1>6, ForgetTypes DEF ReceiveStop, apiVars
  <2> QED
    BY <1>6, <2>1
       DEF ReceiveStop, apiVars, flightVars, ApiTypes, CookieTypes, FlightTypes, RequestTypes
<1> QED
  BY <1>1, <1>2, <1>3, <1>4, <1>5, <1>6 DEF Receive

\* The steps of a handler keep the types.
LEMMA WorksTypes ==
    ASSUME IInv, NEW q \in Request, Works(q)
    PROVE  TypeOK'
<1> USE Constants DEF IInv, TypeOK
<1> USE DEF apiVars, browserVars, flightVars
<1>1. CASE Handle(q)
  BY <1>1 DEF Handle, SafeRefresh, StartExchange, ApiTypes, CookieTypes, FlightTypes, RequestTypes,
              AtProxy, Awaiting
<1>2. CASE ForwardAccepted(q)
  BY <1>2 DEF ForwardAccepted, Revoke, Answer, ApiTypes, CookieTypes, FlightTypes, RequestTypes
<1>3. CASE ForwardRejected(q)
  BY <1>3 DEF ForwardRejected, SafeRefresh, StartExchange, Answer, ApiTypes, CookieTypes, FlightTypes,
              RequestTypes, AtProxy, Awaiting
<1>4. CASE Retry(q)
  BY <1>4 DEF Retry, Answer, ApiTypes, CookieTypes, FlightTypes, RequestTypes
<1>5. CASE Unreachable(q)
  BY <1>5 DEF Unreachable, Answer, ApiTypes, CookieTypes, FlightTypes, RequestTypes
<1>6. CASE StreamToken(q)
  BY <1>6 DEF StreamToken, StartExchange, Answer, ApiTypes, CookieTypes, FlightTypes, RequestTypes,
              AtProxy, Awaiting
<1>7. CASE ImpersonateRefused(q)
  BY <1>7 DEF ImpersonateRefused, Answer, ApiTypes, CookieTypes, FlightTypes, RequestTypes
<1>8. CASE StopImpersonate(q)
  BY <1>8 DEF StopImpersonate, Answer, ApiTypes, CookieTypes, FlightTypes, RequestTypes
<1>9. ASSUME NEW t \in Token, ForwardLogin(q, t) PROVE TypeOK'
  <2>1. Human[from[q]] \in User
    BY DEF RequestTypes
  <2>2. ApiTypes' /\ issued \subseteq issued' /\ t \in issued'
    BY <1>9, <2>1, IssueTypes DEF ForwardLogin
  <2> QED
    BY <1>9, <2>2 DEF ForwardLogin, Answer, CookieTypes, FlightTypes, RequestTypes
<1>10. ASSUME NEW t \in Token, Impersonate(q, t) PROVE TypeOK'
  <2>1. ApiTypes' /\ issued \subseteq issued' /\ t \in issued'
    BY <1>10, IssueTypes DEF Impersonate
  <2> QED
    BY <1>10, <2>1 DEF Impersonate, Answer, CookieTypes, FlightTypes, RequestTypes
<1> QED
  BY <1>1, <1>2, <1>3, <1>4, <1>5, <1>6, <1>7, <1>8, <1>9, <1>10 DEF Works

\* The steps of an exchange keep the types.
LEMMA ExchangeTypes ==
    ASSUME IInv, NEW q \in Request, Exchange(q)
    PROVE  TypeOK'
<1> USE Constants DEF IInv, TypeOK
<1> USE DEF apiVars, browserVars, requestVars
<1>1. CASE Check(q)
  BY <1>1 DEF Check, ApiTypes, CookieTypes, FlightTypes, RequestTypes
<1>2. CASE LoseToken(q)
  <2>1. FlightTypes' /\ RequestTypes'
    BY <1>2, SettleTypes DEF LoseToken
  <2> QED
    BY <1>2, <2>1 DEF LoseToken, Revoke, ApiTypes, CookieTypes
<1>3. CASE Land(q)
  <2>1. fresh[q] \in issued \cup {None}
    BY DEF FlightTypes
  <2>2. FlightTypes' /\ RequestTypes'
    BY <1>3, <2>1, SettleTypes DEF Land
  <2> QED
    BY <1>3, <2>2 DEF Land, ApiTypes, CookieTypes
<1>4. CASE Refuse(q)
  <2>1. FlightTypes' /\ RequestTypes'
    BY <1>4, SettleTypes DEF Refuse
  <2> QED
    BY <1>4, <2>1 DEF Refuse, ApiTypes, CookieTypes
<1>5. CASE Throw(q)
  BY <1>5 DEF Throw, ApiTypes, CookieTypes, FlightTypes, RequestTypes
<1>6. ASSUME NEW t \in Token, Rotate(q, t) PROVE TypeOK'
  <2>1. sess[q] \in issued
    BY <1>6 DEF Rotate, Flights, OwnExchange
  <2>2. owner[sess[q]] \in User \cup {None}
    BY <2>1 DEF ApiTypes
  <2>3. ApiTypes' /\ issued \subseteq issued' /\ t \in issued'
    BY <1>6, <2>1, <2>2, IssueTypes DEF Rotate, Revoke
  <2> QED
    BY <1>6, <2>3 DEF Rotate, CookieTypes, FlightTypes, RequestTypes
<1> QED
  BY <1>1, <1>2, <1>3, <1>4, <1>5, <1>6 DEF Exchange

\* Every step keeps the types.
LEMMA TypeNext == IInv /\ [Next]_vars => TypeOK'
<1> SUFFICES ASSUME IInv, [Next]_vars PROVE TypeOK'
  OBVIOUS
<1>1. ASSUME NEW t \in Token, Expires(t) PROVE TypeOK'
  BY <1>1, Constants DEF Expires, IInv, TypeOK, ApiTypes, CookieTypes, FlightTypes, RequestTypes,
     browserVars, flightVars, requestVars
<1>2. CASE UNCHANGED vars
  BY <1>2 DEF vars, apiVars, browserVars, flightVars, requestVars, IInv, TypeOK, ApiTypes, CookieTypes,
     FlightTypes, RequestTypes
<1>3. CASE Restart
  <2>1. PICK q \in Request : pc[q] \in AtProxy
    BY <1>3 DEF Restart
  <2> QED
    BY <1>3, BrowserTypes
<1> QED
  BY <1>1, <1>2, <1>3, BrowserTypes, WorksTypes, ExchangeTypes DEF Next

-----------------------------------------------------------------------------
(* Exchanges.                                                              *)

\* Whoever waited for an exchange that ends waits no longer; the others wait as
\* they did.
LEMMA SettleFlights ==
    ASSUME TypeOK, Flights, NEW q \in Request, flight[q] # "idle", issued' = issued,
           flight' = [flight EXCEPT ![q] = "idle"],
           promise' = IF promise = q THEN None ELSE promise,
           \A w \in Request :
               IF pc[w] \in Awaiting /\ awaits[w] = q
               THEN pc'[w] \notin Awaiting
               ELSE pc'[w] = pc[w] /\ awaits'[w] = awaits[w] /\ sess'[w] = sess[w]
    PROVE  Flights'
<1> USE Constants DEF Flights
<1>1. pc[q] \in Awaiting /\ awaits[q] = q
  BY DEF OwnExchange
<1>2. OwnExchange'
  <2> SUFFICES ASSUME NEW w \in Request, flight'[w] # "idle"
               PROVE  /\ pc'[w] \in Awaiting /\ awaits'[w] = w /\ sess'[w] \in issued
                      /\ pc'[w] # "exchange" => promise' = w
    BY DEF OwnExchange
  <2>1. w # q /\ flight[w] # "idle"
    BY DEF TypeOK, FlightTypes
  <2>2. awaits[w] = w
    BY <2>1 DEF OwnExchange
  <2> QED
    BY <2>1, <2>2 DEF OwnExchange
<1>3. NobodyStranded'
  <2>1. ASSUME promise' # None PROVE flight'[promise'] # "idle"
    BY <2>1 DEF NobodyStranded, TypeOK, FlightTypes
  <2>2. ASSUME NEW w \in Request, pc'[w] \in Awaiting
        PROVE  awaits'[w] # None /\ flight'[awaits'[w]] # "idle"
    <3>1. pc[w] \in Awaiting /\ awaits[w] # q /\ awaits'[w] = awaits[w]
      BY <2>2
    <3>2. awaits[w] \in Request /\ flight[awaits[w]] # "idle"
      BY <3>1 DEF NobodyStranded, TypeOK, RequestTypes
    <3> QED
      BY <3>1, <3>2 DEF TypeOK, FlightTypes
  <2> QED
    BY <2>1, <2>2 DEF NobodyStranded
<1> QED
  BY <1>2, <1>3

\* A request that joins an exchange, or starts one, is not left without one.
LEMMA RefreshFlights ==
    ASSUME TypeOK, Flights, NEW q \in Request, pc[q] \notin Awaiting, sess[q] # None,
           NEW waiting \in {"joined", "rejoined"}, SafeRefresh(q, waiting),
           UNCHANGED <<issued, sess>>
    PROVE  Flights'
<1> USE Constants DEF Flights
<1>1. flight[q] = "idle" /\ sess[q] \in issued
  BY DEF OwnExchange, TypeOK, RequestTypes
<1>2. CASE promise # None
  <2>1. UNCHANGED <<promise, flight>> /\ flight[promise] # "idle" /\ promise \in Request
    BY <1>2 DEF SafeRefresh, flightVars, NobodyStranded, TypeOK, FlightTypes
  <2>2. \A w \in Request \ {q} : pc'[w] = pc[w] /\ awaits'[w] = awaits[w]
    BY DEF SafeRefresh, TypeOK, RequestTypes
  <2>3. awaits'[q] = promise
    BY <1>2 DEF SafeRefresh, TypeOK, RequestTypes
  <2>4. OwnExchange'
    BY <1>1, <2>1, <2>2 DEF OwnExchange
  <2>5. NobodyStranded'
    BY <1>2, <2>1, <2>2, <2>3 DEF NobodyStranded
  <2> QED
    BY <2>4, <2>5
<1>3. CASE promise = None
  <2>1. /\ promise' = q /\ flight' = [flight EXCEPT ![q] = "sent"]
        /\ pc'[q] = waiting /\ awaits'[q] = q
    BY <1>3 DEF SafeRefresh, StartExchange, TypeOK, RequestTypes
  <2>2. \A w \in Request \ {q} : pc'[w] = pc[w] /\ awaits'[w] = awaits[w]
    BY DEF SafeRefresh, TypeOK, RequestTypes
  <2>3. \A w \in Request \ {q} : flight'[w] = flight[w]
    BY <2>1 DEF TypeOK, FlightTypes
  <2>4. flight'[q] = "sent"
    BY <2>1 DEF TypeOK, FlightTypes
  <2>5. OwnExchange'
    BY <1>1, <1>3, <2>1, <2>2, <2>3 DEF OwnExchange, Awaiting
  <2>6. NobodyStranded'
    BY <2>1, <2>2, <2>3, <2>4 DEF NobodyStranded, TypeOK, RequestTypes
  <2> QED
    BY <2>5, <2>6
<1> QED
  BY <1>2, <1>3

\* Requests that await nothing, before and after, concern no exchange.
LEMMA IdleFlights ==
    ASSUME TypeOK, Flights, UNCHANGED <<promise, flight>>, issued \subseteq issued',
           \A w \in Request :
               \/ pc[w] \notin Awaiting /\ pc'[w] \notin Awaiting
               \/ pc'[w] = pc[w] /\ awaits'[w] = awaits[w] /\ sess'[w] = sess[w]
    PROVE  Flights'
<1>1. OwnExchange'
  BY DEF Flights, OwnExchange
<1>2. NobodyStranded'
  BY DEF Flights, NobodyStranded
<1> QED
  BY <1>1, <1>2 DEF Flights

\* Only the requests that are forgotten change.
LEMMA ForgetOnly ==
    ASSUME RequestTypes, NEW Q, Forget(Q)
    PROVE  \A w \in Request :
               IF w \in Q
               THEN pc'[w] = "idle" /\ kind'[w] = "api"
               ELSE UNCHANGED <<pc[w], kind[w], sent[w], sess[w], awaits[w], status[w]>>
BY DEF RequestTypes, Forget

\* A browser that sends or receives disturbs no exchange.
LEMMA BrowserFlights ==
    ASSUME IInv, NEW q \in Request,
           \/ Receive(q)
           \/ \E b \in Browser, k \in Kinds : Send(q, b, k)
    PROVE  Flights'
<1> USE DEF IInv, apiVars, flightVars, browserVars
<1>1. CASE Receive(q)
  <2>1. Forget({q}) /\ pc[q] = "answered" /\ UNCHANGED <<promise, flight, issued>>
    BY <1>1 DEF Receive, ReceiveProxied, ReceiveStreamToken, ReceiveImpersonation, ReceiveStop
  <2>2. RequestTypes
    BY DEF TypeOK
  <2>3. \A w \in Request :
            \/ pc[w] \notin Awaiting /\ pc'[w] \notin Awaiting
            \/ pc'[w] = pc[w] /\ awaits'[w] = awaits[w] /\ sess'[w] = sess[w]
    BY <2>1, <2>2, ForgetOnly DEF Awaiting
  <2> QED
    BY <2>1, <2>3, IdleFlights
<1>2. ASSUME NEW b \in Browser, NEW k \in Kinds, Send(q, b, k) PROVE Flights'
  <2>1. \A w \in Request :
            \/ pc[w] \notin Awaiting /\ pc'[w] \notin Awaiting
            \/ pc'[w] = pc[w] /\ awaits'[w] = awaits[w] /\ sess'[w] = sess[w]
    BY <1>2 DEF Send, Awaiting, TypeOK, RequestTypes
  <2>2. UNCHANGED <<promise, flight, issued>>
    BY <1>2 DEF Send
  <2> QED
    BY <2>1, <2>2, IdleFlights
<1> QED
  BY <1>1, <1>2

\* A handler that refreshes joins or starts an exchange; no other step of a
\* handler awaits one.
LEMMA WorksFlights ==
    ASSUME IInv, NEW q \in Request, Works(q)
    PROVE  Flights'
<1> USE DEF IInv, apiVars, flightVars, browserVars
<1> DEFINE Unconcerned ==
        \A w \in Request :
            \/ pc[w] \notin Awaiting /\ pc'[w] \notin Awaiting
            \/ pc'[w] = pc[w] /\ awaits'[w] = awaits[w] /\ sess'[w] = sess[w]
<1>1. CASE Handle(q)
  <2>1. CASE sess[q] # None /\ SafeRefresh(q, "joined")
    <3>1. pc[q] \notin Awaiting /\ UNCHANGED <<issued, sess>>
      BY <1>1 DEF Handle, Awaiting
    <3> QED
      BY <2>1, <3>1, RefreshFlights
  <2>2. CASE pc' = [pc EXCEPT ![q] = "forward"] /\ UNCHANGED <<awaits, promise, flight>>
    <3>1. Unconcerned /\ UNCHANGED issued
      BY <1>1, <2>2 DEF Handle, Awaiting, TypeOK, RequestTypes
    <3> QED
      BY <2>2, <3>1, IdleFlights
  <2> QED
    BY <1>1, <2>1, <2>2 DEF Handle
<1>2. CASE ForwardAccepted(q) \/ Retry(q) \/ Unreachable(q) \/ ImpersonateRefused(q) \/ StopImpersonate(q)
  <2>1. Unconcerned
    BY <1>2 DEF ForwardAccepted, Retry, Unreachable, ImpersonateRefused, StopImpersonate, Answer,
                Awaiting, TypeOK, RequestTypes
  <2>2. UNCHANGED <<promise, flight, issued>>
    BY <1>2 DEF ForwardAccepted, Retry, Unreachable, ImpersonateRefused, StopImpersonate
  <2> QED
    BY <2>1, <2>2, IdleFlights
<1>3. CASE ForwardRejected(q)
  <2>1. CASE sess[q] # None /\ SafeRefresh(q, "rejoined")
    <3>1. pc[q] \notin Awaiting /\ UNCHANGED <<issued, sess>>
      BY <1>3 DEF ForwardRejected, Awaiting
    <3> QED
      BY <2>1, <3>1, RefreshFlights
  <2>2. CASE Answer(q, "401") /\ UNCHANGED <<awaits, promise, flight>>
    <3>1. Unconcerned /\ UNCHANGED issued
      BY <1>3, <2>2 DEF ForwardRejected, Answer, Awaiting, TypeOK, RequestTypes
    <3> QED
      BY <2>2, <3>1, IdleFlights
  <2> QED
    BY <1>3, <2>1, <2>2 DEF ForwardRejected
<1>4. ASSUME NEW t \in Token, ForwardLogin(q, t) \/ Impersonate(q, t) PROVE Flights'
  <2>1. Unconcerned
    BY <1>4 DEF ForwardLogin, Impersonate, Answer, Awaiting, TypeOK, RequestTypes
  <2>2. UNCHANGED <<promise, flight>> /\ issued \subseteq issued'
    BY <1>4 DEF ForwardLogin, Impersonate, Issue
  <2> QED
    BY <2>1, <2>2, IdleFlights
<1>5. CASE StreamToken(q)
  <2>1. pc[q] = "arrived" /\ UNCHANGED <<promise, issued, sess>>
    BY <1>5 DEF StreamToken
  <2>2. CASE UNCHANGED <<awaits, flight>> /\ pc' = [pc EXCEPT ![q] = "answered"]
    <3>1. Unconcerned
      BY <2>1, <2>2 DEF Awaiting, TypeOK, RequestTypes
    <3> QED
      BY <2>1, <2>2, <3>1, IdleFlights
  <2>3. CASE /\ sess[q] # None /\ pc' = [pc EXCEPT ![q] = "exchange"]
             /\ awaits' = [awaits EXCEPT ![q] = q] /\ StartExchange(q)
    <3>1. \A w \in Request \ {q} : pc'[w] = pc[w] /\ awaits'[w] = awaits[w] /\ flight'[w] = flight[w]
      BY <2>3 DEF StartExchange, TypeOK, RequestTypes, FlightTypes
    <3>2. pc'[q] = "exchange" /\ awaits'[q] = q /\ flight'[q] = "sent" /\ sess[q] \in issued
      BY <2>3 DEF StartExchange, TypeOK, RequestTypes, FlightTypes
    <3>3. OwnExchange'
      BY <2>1, <3>1, <3>2 DEF Flights, OwnExchange, Awaiting
    <3>4. NobodyStranded'
      BY <2>1, <3>1, <3>2, Constants DEF Flights, NobodyStranded, TypeOK, RequestTypes, FlightTypes
    <3> QED
      BY <3>3, <3>4 DEF Flights
  <2> QED
    BY <1>5, <2>2, <2>3 DEF StreamToken, Answer
<1> QED
  BY <1>1, <1>2, <1>3, <1>4, <1>5 DEF Works

\* What Settle and Throw have in common: nobody waits any more.
LEMMA SettleReleases ==
    ASSUME TypeOK, NEW q \in Request, NEW r, Settle(q, r)
    PROVE  \A w \in Request :
               IF pc[w] \in Awaiting /\ awaits[w] = q
               THEN pc'[w] \notin Awaiting
               ELSE pc'[w] = pc[w] /\ awaits'[w] = awaits[w] /\ sess'[w] = sess[w]
BY DEF TypeOK, RequestTypes, Settle, Awaiting

\* An exchange ends for all who await it.
LEMMA ExchangeFlights ==
    ASSUME IInv, NEW q \in Request, Exchange(q)
    PROVE  Flights'
<1> USE DEF IInv, apiVars, requestVars, browserVars
<1>1. CASE LoseToken(q) \/ Land(q) \/ Refuse(q)
  <2>1. PICK r : Settle(q, r)
    BY <1>1 DEF LoseToken, Land, Refuse
  <2>2. flight[q] # "idle" /\ UNCHANGED issued
    BY <1>1 DEF LoseToken, Land, Refuse
  <2>3. /\ flight' = [flight EXCEPT ![q] = "idle"]
        /\ promise' = IF promise = q THEN None ELSE promise
    BY <2>1 DEF Settle
  <2> QED
    BY <2>1, <2>2, <2>3, SettleReleases, SettleFlights
<1>2. CASE Throw(q)
  <2>1. \A w \in Request :
            IF pc[w] \in Awaiting /\ awaits[w] = q
            THEN pc'[w] \notin Awaiting
            ELSE pc'[w] = pc[w] /\ awaits'[w] = awaits[w] /\ sess'[w] = sess[w]
    BY <1>2 DEF Throw, Awaiting, TypeOK, RequestTypes
  <2>2. flight[q] # "idle" /\ UNCHANGED issued
    BY <1>2 DEF Throw
  <2>3. /\ flight' = [flight EXCEPT ![q] = "idle"]
        /\ promise' = IF promise = q THEN None ELSE promise
    BY <1>2 DEF Throw
  <2> QED
    BY <2>1, <2>2, <2>3, SettleFlights
<1>3. CASE Check(q) \/ \E t \in Token : Rotate(q, t)
  <2>1. /\ UNCHANGED <<promise, pc, awaits, sess>> /\ issued \subseteq issued'
        /\ flight[q] # "idle" /\ flight'[q] # "idle"
        /\ \A w \in Request \ {q} : flight'[w] = flight[w]
    BY <1>3 DEF Check, Rotate, Issue, TypeOK, FlightTypes
  <2>2. OwnExchange'
    BY <2>1 DEF Flights, OwnExchange
  <2>3. NobodyStranded'
    BY <2>1 DEF Flights, NobodyStranded, TypeOK, RequestTypes, FlightTypes
  <2> QED
    BY <2>2, <2>3 DEF Flights
<1> QED
  BY <1>1, <1>2, <1>3 DEF Exchange

\* Every step keeps the invariant of the exchanges; a restart ends them all.
LEMMA FlightsNext == IInv /\ [Next]_vars => Flights'
<1> SUFFICES ASSUME IInv, [Next]_vars PROVE Flights'
  OBVIOUS
<1> USE DEF IInv
<1>1. ASSUME NEW t \in Token, Expires(t) PROVE Flights'
  BY <1>1 DEF Expires, requestVars, flightVars, Flights, OwnExchange, NobodyStranded
<1>2. CASE UNCHANGED vars
  BY <1>2 DEF vars, requestVars, flightVars, apiVars, Flights, OwnExchange, NobodyStranded
<1>3. CASE Restart
  <2>1. promise' = None /\ \A w \in Request : flight'[w] = "idle" /\ pc'[w] \notin Awaiting
    BY <1>3 DEF Restart, Forget, AtProxy, Awaiting
  <2> QED
    BY <2>1 DEF Flights, OwnExchange, NobodyStranded
<1> QED
  BY <1>1, <1>2, <1>3, BrowserFlights, WorksFlights, ExchangeFlights DEF Next

-----------------------------------------------------------------------------
(* Rotation.                                                               *)

\* Without a new pair, and with nothing brought back to life, what was spent
\* stays spent.
LEMMA NothingIssued ==
    ASSUME Succession, UNCHANGED <<issued, parent, lock>>, live' \subseteq live,
           \A w \in Request : flight'[w] = "checked" =>
               flight[w] = "checked" /\ pc'[w] = pc[w] /\ sess'[w] = sess[w]
    PROVE  Succession'
<1>1. Unspent'
  BY DEF Succession, Unspent
<1>2. SpentIsDead' /\ OneSuccessor'
  BY DEF Succession, SpentIsDead, OneSuccessor
<1> QED
  BY <1>1, <1>2 DEF Succession

\* A login and an impersonation issue a pair that is exchanged for none.
LEMMA FirstPair ==
    ASSUME TypeOK, Succession, NEW t \in Token, NEW u, Issue(t, u, None, FALSE),
           live' = live \cup {t},
           \A w \in Request : flight'[w] = "checked" =>
               /\ flight[w] = "checked" /\ sess[w] \in issued
               /\ pc'[w] = pc[w] /\ sess'[w] = sess[w]
    PROVE  Succession'
<1> USE Constants DEF Succession
<1>1. t \notin issued /\ issued' = issued \cup {t} /\ parent'[t] = None /\ lock'[t] = FALSE
  BY DEF Issue, TypeOK, ApiTypes
<1>2. \A s \in issued : s # t /\ parent'[s] = parent[s] /\ lock'[s] = lock[s]
                          /\ parent[s] \in issued \cup {None}
  BY <1>1 DEF Issue, TypeOK, ApiTypes
<1>3. Unspent'
  BY <1>1, <1>2 DEF Unspent
<1>4. SpentIsDead'
  BY <1>1, <1>2 DEF SpentIsDead
<1>5. OneSuccessor'
  BY <1>1, <1>2 DEF OneSuccessor
<1> QED
  BY <1>3, <1>4, <1>5

\* An exchange ends the life of the token it was made with.  A shared one has
\* found it unspent, and no other shared one has been under way since.
LEMMA RotateSuccession ==
    ASSUME IInv, NEW q \in Request, NEW t \in Token, Rotate(q, t)
    PROVE  Succession'
<1> USE Constants DEF IInv, Succession
<1>1. sess[q] \in issued /\ t \notin issued /\ issued' = issued \cup {t}
  BY DEF Rotate, Issue, Flights, OwnExchange
<1>2. parent'[t] = sess[q] /\ lock'[t] = (pc[q] # "exchange")
  BY DEF Rotate, Issue, TypeOK, ApiTypes
<1>3. \A s \in issued : s # t /\ parent'[s] = parent[s] /\ lock'[s] = lock[s]
                          /\ parent[s] \in issued \cup {None}
  BY <1>1 DEF Rotate, Issue, TypeOK, ApiTypes
<1>4. SpentIsDead'
  <2>1. live' = (live \ {sess[q]}) \cup {t}
    BY DEF Rotate, Revoke
  <2> QED
    BY <1>1, <1>2, <1>3, <2>1 DEF SpentIsDead
<1>5. OneSuccessor'
  <2>1. pc[q] # "exchange" => \A s \in issued : lock[s] => parent[s] # sess[q]
    BY DEF Rotate, Unspent
  <2> SUFFICES ASSUME NEW r \in issued', NEW s \in issued',
                      lock'[r], lock'[s], parent'[r] = parent'[s]
               PROVE  r = s
    BY DEF OneSuccessor
  <2>2. CASE r \in issued /\ s \in issued
    BY <1>3, <2>2 DEF OneSuccessor
  <2>3. CASE r = t \/ s = t
    <3>1. pc[q] # "exchange"
      BY <1>2, <2>3
    <3>2. \A x \in issued : lock'[x] => parent'[x] # parent'[t]
      BY <1>2, <1>3, <2>1, <3>1
    <3> QED
      BY <1>1, <2>3, <3>2
  <2> QED
    BY <1>1, <2>2, <2>3
<1>6. Unspent'
  <2> SUFFICES ASSUME NEW w \in Request, flight'[w] = "checked", pc'[w] # "exchange",
                      NEW s \in issued', lock'[s]
               PROVE  parent'[s] # sess'[w]
    BY DEF Unspent
  <2>1. flight[w] = "checked" /\ w # q /\ pc'[w] = pc[w] /\ sess'[w] = sess[w]
    BY DEF Rotate, requestVars, TypeOK, FlightTypes
  <2>2. promise = w
    BY <2>1 DEF Flights, OwnExchange
  <2>3. pc[q] = "exchange"
    BY <2>1, <2>2 DEF Rotate, Flights, OwnExchange
  <2>4. s \in issued
    BY <1>1, <1>2, <2>3
  <2> QED
    BY <1>3, <2>1, <2>4 DEF Unspent
<1> QED
  BY <1>4, <1>5, <1>6

\* A token that is found alive has not been exchanged.
LEMMA CheckSuccession ==
    ASSUME IInv, NEW q \in Request, Check(q)
    PROVE  Succession'
<1> USE Constants DEF IInv, Succession
<1>1. UNCHANGED <<issued, live, parent, lock, pc, sess>> /\ sess[q] \in live /\ sess[q] # None
  BY DEF Check, apiVars, requestVars, TypeOK, ApiTypes
<1>2. SpentIsDead' /\ OneSuccessor'
  BY <1>1 DEF SpentIsDead, OneSuccessor
<1>3. \A s \in issued : parent[s] # sess[q]
  BY <1>1 DEF SpentIsDead
<1>4. Unspent'
  BY <1>1, <1>3 DEF Check, Unspent, TypeOK, FlightTypes
<1> QED
  BY <1>2, <1>4

\* The end of an exchange leaves those of others as they were.
LEMMA OthersFlights ==
    ASSUME IInv, NEW q \in Request, LoseToken(q) \/ Land(q) \/ Refuse(q) \/ Throw(q)
    PROVE  \A w \in Request : flight'[w] = "checked" =>
               flight[w] = "checked" /\ pc'[w] = pc[w] /\ sess'[w] = sess[w]
<1> SUFFICES ASSUME NEW w \in Request, flight'[w] = "checked"
             PROVE  flight[w] = "checked" /\ pc'[w] = pc[w] /\ sess'[w] = sess[w]
  OBVIOUS
<1> USE DEF IInv, TypeOK, FlightTypes, RequestTypes
<1>1. flight' = [flight EXCEPT ![q] = "idle"]
  BY DEF LoseToken, Land, Refuse, Throw, Settle
<1>2. w # q /\ flight[w] = "checked"
  BY <1>1
<1>3. awaits[w] = w
  BY <1>2 DEF Flights, OwnExchange
<1>4. CASE LoseToken(q) \/ Land(q) \/ Refuse(q)
  <2>1. PICK r : Settle(q, r)
    BY <1>4 DEF LoseToken, Land, Refuse
  <2> QED
    BY <1>2, <1>3, <2>1, SettleReleases
<1>5. CASE Throw(q)
  BY <1>2, <1>3, <1>5 DEF Throw
<1> QED
  BY <1>2, <1>4, <1>5

\* The steps of a handler and of a browser do not meet an exchange that the API
\* has checked.
LEMMA Unchecked ==
    ASSUME IInv, NEW q \in Request,
           \/ Works(q)
           \/ Receive(q)
           \/ \E b \in Browser, k \in Kinds : Send(q, b, k)
    PROVE  \A w \in Request : flight'[w] = "checked" =>
               /\ flight[w] = "checked" /\ sess[w] \in issued
               /\ pc'[w] = pc[w] /\ sess'[w] = sess[w]
<1> SUFFICES ASSUME NEW w \in Request, flight'[w] = "checked"
             PROVE  /\ flight[w] = "checked" /\ sess[w] \in issued
                    /\ pc'[w] = pc[w] /\ sess'[w] = sess[w]
  OBVIOUS
<1> USE DEF IInv, TypeOK, FlightTypes, RequestTypes
<1>1. flight[w] = "checked"
  BY DEF Works, Handle, ForwardAccepted, ForwardRejected, Retry, Unreachable, StreamToken,
         ImpersonateRefused, StopImpersonate, ForwardLogin, Impersonate, SafeRefresh, StartExchange,
         flightVars, Receive, ReceiveProxied, ReceiveStreamToken, ReceiveImpersonation, ReceiveStop, Send
<1>2. pc[w] \in Awaiting /\ sess[w] \in issued
  BY <1>1 DEF Flights, OwnExchange
<1>3. pc[q] \in {"arrived", "forward", "retry", "answered", "idle"}
  BY DEF Works, Handle, ForwardAccepted, ForwardRejected, Retry, Unreachable, StreamToken,
         ImpersonateRefused, StopImpersonate, ForwardLogin, Impersonate,
         Receive, ReceiveProxied, ReceiveStreamToken, ReceiveImpersonation, ReceiveStop, Send
<1>4. w # q
  BY <1>2, <1>3 DEF Awaiting
<1>5. pc'[w] = pc[w] /\ sess'[w] = sess[w]
  <2>1. CASE Receive(q)
    <3>1. Forget({q}) /\ RequestTypes
      BY <2>1 DEF Receive, ReceiveProxied, ReceiveStreamToken, ReceiveImpersonation, ReceiveStop
    <3> QED
      BY <1>4, <3>1, ForgetOnly
  <2>2. CASE \E b \in Browser, k \in Kinds : Send(q, b, k)
    BY <1>4, <2>2 DEF Send
  <2>3. CASE Works(q)
    BY <1>4, <2>3 DEF Works, Handle, ForwardAccepted, ForwardRejected, Retry, Unreachable, StreamToken,
         ImpersonateRefused, StopImpersonate, ForwardLogin, Impersonate, SafeRefresh, Answer
  <2> QED
    BY <2>1, <2>2, <2>3
<1> QED
  BY <1>1, <1>2, <1>5

\* Every step keeps refresh tokens exchanged at most once, and dead when they were.
LEMMA SuccessionNext == IInv /\ [Next]_vars => Succession'
<1> SUFFICES ASSUME IInv, [Next]_vars PROVE Succession'
  OBVIOUS
<1> USE DEF IInv
<1>1. ASSUME NEW t \in Token, Expires(t) PROVE Succession'
  BY <1>1, NothingIssued DEF Expires, requestVars, flightVars
<1>2. CASE UNCHANGED vars
  BY <1>2, NothingIssued DEF vars, requestVars, flightVars, apiVars
<1>3. CASE Restart
  <2>1. UNCHANGED <<issued, parent, lock, live>> /\ \A w \in Request : flight'[w] = "idle"
    BY <1>3 DEF Restart, apiVars
  <2> QED
    BY <2>1, NothingIssued
<1>4. ASSUME NEW q \in Request, Receive(q) \/ \E b \in Browser, k \in Kinds : Send(q, b, k)
      PROVE  Succession'
  <2>1. UNCHANGED <<issued, parent, lock, live>>
    BY <1>4 DEF Receive, ReceiveProxied, ReceiveStreamToken, ReceiveImpersonation, ReceiveStop, Send,
                apiVars
  <2> QED
    BY <1>4, <2>1, Unchecked, NothingIssued
<1>5. ASSUME NEW q \in Request, Works(q) PROVE Succession'
  <2>1. CASE \E t \in Token : ForwardLogin(q, t) \/ Impersonate(q, t)
    <3>1. PICK t \in Token : \E u : Issue(t, u, None, FALSE) /\ live' = live \cup {t}
      BY <2>1 DEF ForwardLogin, Impersonate
    <3> QED
      BY <1>5, <3>1, Unchecked, FirstPair
  <2>2. CASE UNCHANGED <<issued, parent, lock>> /\ live' \subseteq live
    BY <1>5, <2>2, Unchecked, NothingIssued
  <2> QED
    BY <1>5, <2>1, <2>2 DEF Works, Handle, ForwardAccepted, ForwardRejected, Retry, Unreachable,
       StreamToken, ImpersonateRefused, StopImpersonate, Revoke, apiVars
<1>6. ASSUME NEW q \in Request, Exchange(q) PROVE Succession'
  <2>1. CASE LoseToken(q) \/ Land(q) \/ Refuse(q) \/ Throw(q)
    <3>1. UNCHANGED <<issued, parent, lock>> /\ live' \subseteq live
      BY <2>1 DEF LoseToken, Land, Refuse, Throw, Revoke, apiVars
    <3> QED
      BY <2>1, <3>1, OthersFlights, NothingIssued
  <2> QED
    BY <1>6, <2>1, CheckSuccession, RotateSuccession DEF Exchange
<1> QED
  BY <1>1, <1>2, <1>3, <1>4, <1>5, <1>6 DEF Next

-----------------------------------------------------------------------------
(* Impersonation.                                                          *)

\* A request that is not touched stays what it is: no pair changes its owner.
LEMMA OwnersKept ==
    ASSUME TypeOK, NEW t \in Token, NEW u, NEW p, NEW l, Issue(t, u, p, l)
    PROVE  issued \subseteq issued' /\ \A s \in issued : owner'[s] = owner[s]
BY DEF TypeOK, ApiTypes, Issue

\* No step of the API's changes an owner.
LEMMA OwnersNext ==
    ASSUME IInv, Next
    PROVE  issued \subseteq issued' /\ \A s \in issued : owner'[s] = owner[s]
<1> DEFINE kept == UNCHANGED <<issued, owner>>
           issues == \E t \in Token : \E u, p, l : Issue(t, u, p, l)
<1>1. CASE kept
  BY <1>1
<1>2. CASE issues
  BY <1>2, OwnersKept DEF IInv
<1>3. ASSUME NEW q \in Request, Works(q) PROVE kept \/ issues
  BY <1>3 DEF Works, Handle, ForwardAccepted, ForwardRejected, Retry, Unreachable, StreamToken,
     ImpersonateRefused, StopImpersonate, ForwardLogin, Impersonate, apiVars
<1>4. ASSUME NEW q \in Request, Exchange(q) PROVE kept \/ issues
  BY <1>4 DEF Exchange, Check, LoseToken, Land, Refuse, Throw, Rotate, apiVars
<1>5. ASSUME NEW q \in Request, Receive(q) PROVE kept
  BY <1>5 DEF Receive, ReceiveProxied, ReceiveStreamToken, ReceiveImpersonation, ReceiveStop, apiVars
<1> QED
  BY <1>1, <1>2, <1>3, <1>4, <1>5 DEF Next, Expires, Restart, Send, apiVars

\* The session put aside stays an administrator's, and so does the pair with which
\* an impersonation that succeeded was asked for.
LEMMA AdministeredNext == IInv /\ [Next]_vars => Administered'
<1> SUFFICES ASSUME IInv, [Next]_vars PROVE Administered'
  OBVIOUS
<1> USE DEF IInv
<1>1. CASE UNCHANGED vars
  BY <1>1 DEF vars, requestVars, browserVars, apiVars, Administered, AskedByAdmin, BackupIsAdmin, Granted
<1>2. CASE Next
  <2>1. issued \subseteq issued' /\ \A s \in issued : owner'[s] = owner[s]
    BY <1>2, OwnersNext
  <2> DEFINE Same(w) == /\ kind'[w] = kind[w] /\ pc'[w] = pc[w] /\ sess'[w] = sess[w]
                        /\ sent'[w] = sent[w] /\ status'[w] = status[w]
             Kept(w) == kind'[w] = "impersonate" =>
                            /\ pc'[w] \in {"arrived", "answered"}
                            /\ pc'[w] = "arrived" => sess'[w] = sent'[w]
                            /\ pc'[w] = "answered" /\ status'[w] = "ok" => Granted(w)'
  <2>2. ASSUME NEW w \in Request, Same(w) PROVE Kept(w)
    BY <2>1, <2>2 DEF Administered, AskedByAdmin, Granted
  <2>3. UNCHANGED backup => BackupIsAdmin'
    BY <2>1 DEF Administered, BackupIsAdmin, TypeOK, CookieTypes
  <2> HIDE DEF Kept
  <2>4. (\A w \in Request : Kept(w)) => AskedByAdmin'
    BY DEF Kept, AskedByAdmin
  <2> USE DEF TypeOK, RequestTypes
  <2>5. ASSUME NEW t \in Token, Expires(t) PROVE Administered'
    <3>1. \A w \in Request : Same(w)
      BY <2>5 DEF Expires, requestVars
    <3> QED
      BY <2>2, <2>3, <2>4, <2>5, <3>1 DEF Expires, browserVars, Administered
  <2>6. CASE Restart
    <3>1. ASSUME NEW w \in Request PROVE Kept(w)
      <4>1. Same(w) \/ kind'[w] = "api"
        BY <2>6, ForgetOnly DEF Restart
      <4> QED
        BY <2>2, <4>1 DEF Kept
    <3> QED
      BY <2>3, <2>4, <2>6, <3>1 DEF Restart, browserVars, Administered
  <2>7. ASSUME NEW q \in Request, NEW b \in Browser, NEW k \in Kinds, Send(q, b, k) PROVE Administered'
    <3>1. \A w \in Request \ {q} : Same(w)
      BY <2>7 DEF Send
    <3>2. pc'[q] = "arrived" /\ sess'[q] = sent'[q]
      BY <2>7 DEF Send
    <3>3. Kept(q)
      BY <3>2 DEF Kept
    <3> QED
      BY <2>2, <2>3, <2>4, <2>7, <3>1, <3>3 DEF Send, browserVars, Administered
  <2>8. ASSUME NEW q \in Request, Receive(q) PROVE Administered'
    <3>1. Forget({q})
      BY <2>8 DEF Receive, ReceiveProxied, ReceiveStreamToken, ReceiveImpersonation, ReceiveStop
    <3>2. ASSUME NEW w \in Request PROVE Kept(w)
      <4>1. Same(w) \/ kind'[w] = "api"
        BY <3>1, ForgetOnly
      <4> QED
        BY <2>2, <4>1 DEF Kept
    <3>3. BackupIsAdmin'
      <4>1. CASE UNCHANGED backup
        BY <2>3, <4>1
      <4>2. CASE ReceiveStop(q) /\ status[q] = "ok"
        BY <2>1, <4>2 DEF ReceiveStop, Administered, BackupIsAdmin, CookieTypes
      <4>3. CASE ReceiveImpersonation(q) /\ status[q] = "ok"
        <5>1. sent[q] \in issued /\ owner[sent[q]] \in Admin
          BY <4>3 DEF ReceiveImpersonation, Administered, AskedByAdmin, Granted
        <5> QED
          BY <2>1, <4>3, <5>1 DEF ReceiveImpersonation, Administered, BackupIsAdmin, CookieTypes
      <4> QED
        BY <2>8, <4>1, <4>2, <4>3
           DEF Receive, ReceiveProxied, ReceiveStreamToken, ReceiveImpersonation, ReceiveStop
    <3> QED
      BY <2>4, <3>2, <3>3 DEF Administered
  <2>9. ASSUME NEW q \in Request, Works(q) PROVE Administered'
    <3>1. \A w \in Request \ {q} : Same(w)
      BY <2>9 DEF Works, Handle, ForwardAccepted, ForwardRejected, Retry, Unreachable, StreamToken,
                  ImpersonateRefused, StopImpersonate, ForwardLogin, Impersonate, SafeRefresh, Answer
    <3>2. UNCHANGED backup
      BY <2>9 DEF Works, Handle, ForwardAccepted, ForwardRejected, Retry, Unreachable, StreamToken,
                  ImpersonateRefused, StopImpersonate, ForwardLogin, Impersonate, browserVars
    <3>3. Kept(q)
      <4>1. CASE kind[q] # "impersonate"
        BY <2>9, <4>1 DEF Works, Handle, ForwardAccepted, ForwardRejected, Retry, Unreachable, StreamToken,
           ImpersonateRefused, StopImpersonate, ForwardLogin, Impersonate, Kept
      <4>2. CASE kind[q] = "impersonate"
        <5>1. pc[q] = "arrived" /\ sess[q] = sent[q]
          BY <2>9, <4>2 DEF Works, Handle, ForwardAccepted, ForwardRejected, Retry, Unreachable,
             StreamToken, ImpersonateRefused, StopImpersonate, ForwardLogin, Impersonate, Administered,
             AskedByAdmin
        <5>2. CASE ImpersonateRefused(q)
          BY <5>2 DEF ImpersonateRefused, Answer, Kept
        <5>3. ASSUME NEW t \in Token, Impersonate(q, t) PROVE Kept(q)
          <6>1. sent[q] \in issued /\ owner[sent[q]] \in Admin
            BY <5>1, <5>3 DEF Impersonate, Accepted
          <6>2. sess'[q] = t /\ t \in issued' /\ sent'[q] = sent[q] /\ pc'[q] = "answered"
            BY <5>3 DEF Impersonate, Issue, Answer
          <6> QED
            BY <2>1, <6>1, <6>2 DEF Kept, Granted
        <5> QED
          BY <2>9, <4>2, <5>1, <5>2, <5>3 DEF Works, Handle, ForwardAccepted, ForwardRejected, Retry,
             Unreachable, StreamToken, StopImpersonate, ForwardLogin
      <4> QED
        BY <4>1, <4>2
    <3> QED
      BY <2>2, <2>3, <2>4, <3>1, <3>2, <3>3 DEF Administered
  <2>10. ASSUME NEW q \in Request, Exchange(q) PROVE Administered'
    <3>1. UNCHANGED <<backup, kind>>
      BY <2>10 DEF Exchange, Check, LoseToken, Land, Refuse, Throw, Rotate, Settle, browserVars, requestVars
    <3>2. ASSUME NEW w \in Request, kind[w] = "impersonate" PROVE Same(w)
      <4>1. pc[w] \notin Awaiting
        BY <3>2 DEF Administered, AskedByAdmin, Awaiting
      <4>2. CASE Check(q) \/ \E t \in Token : Rotate(q, t)
        BY <4>2 DEF Check, Rotate, requestVars
      <4>3. CASE LoseToken(q) \/ Land(q) \/ Refuse(q)
        <5>1. PICK r : Settle(q, r)
          BY <4>3 DEF LoseToken, Land, Refuse
        <5>2. status'[w] = status[w] /\ sent'[w] = sent[w]
          BY <4>1, <5>1 DEF Settle
        <5> QED
          BY <3>1, <4>1, <5>1, <5>2, SettleReleases
      <4>4. CASE Throw(q)
        BY <4>1, <4>4 DEF Throw
      <4> QED
        BY <2>10, <4>2, <4>3, <4>4 DEF Exchange
    <3>3. \A w \in Request : Kept(w)
      BY <2>2, <3>1, <3>2 DEF Kept
    <3> QED
      BY <2>3, <2>4, <3>1, <3>3 DEF Administered
  <2> QED
    BY <1>2, <2>5, <2>6, <2>7, <2>8, <2>9, <2>10 DEF Next
<1> QED
  BY <1>1, <1>2

-----------------------------------------------------------------------------
\* The invariant is inductive.
LEMMA Inductive == Spec => []IInv
<1>1. Init => IInv
  BY InitAll
<1>2. IInv /\ [Next]_vars => IInv'
  BY TypeNext, FlightsNext, SuccessionNext, AdministeredNext DEF IInv
<1> QED
  BY <1>1, <1>2, PTL DEF Spec

\* Cookies, requests and exchanges hold pairs the API issued.
THEOREM TypeCorrect == Spec => []TypeOK
<1>1. IInv => TypeOK
  BY DEF IInv
<1> QED
  BY <1>1, Inductive, PTL

\* However many requests of however many browsers find a pair expired, the shared
\* flight exchanges its refresh token at most once, although the API checks it in
\* one statement and revokes it in another.
THEOREM ExchangedOnce == Spec => []OneSuccessor
<1>1. IInv => OneSuccessor
  BY DEF IInv, Succession
<1> QED
  BY <1>1, Inductive, PTL

\* A refresh token that was exchanged is dead, through either refresh, for ever.
THEOREM RotationRevokes == Spec => []SpentIsDead
<1>1. IInv => SpentIsDead
  BY DEF IInv, Succession
<1> QED
  BY <1>1, Inductive, PTL

\* Nobody waits for an exchange that is over, however it ended.
THEOREM NoneStranded == Spec => []NobodyStranded
<1>1. IInv => NobodyStranded
  BY DEF IInv, Flights
<1> QED
  BY <1>1, Inductive, PTL

\* What stopping an impersonation restores is an administrator's session.
THEOREM BackupOfAdmin == Spec => []BackupIsAdmin
<1>1. IInv => BackupIsAdmin
  BY DEF IInv, Administered
<1> QED
  BY <1>1, Inductive, PTL

=============================================================================
