--------------------------- MODULE Workspace_proof ---------------------------
(***************************************************************************)
(* Proofs about Workspace and the sign-in it extends, for any users,       *)
(* workspaces, codes and attempts, any memberships to start from, and any  *)
(* number of sign-outs and deletions.                                      *)
(***************************************************************************)
EXTENDS Workspace, TLAPS

-----------------------------------------------------------------------------
(***************************************************************************)
(* The attempt that is under way is the one the page waits for, and the    *)
(* code on the screen is its own or none.  The page of the operators'      *)
(* application, which has other steps, never shows a code.                 *)
(***************************************************************************)
Attempts == phase = [a \in Attempt |-> phase[a]] /\ with = [a \in Attempt |-> with[a]]

Awaited ==
  \A a \in Attempt : phase[a] # "idle" => checking = a /\ code \in {None, with[a]}

OwnSteps ==
  /\ site = "web" => step \in {"buttons", "email", "code"}
  /\ site # "web" => step \in {"login", "register"} /\ ask.at = "idle" /\ code = None

SignInInv == Attempts /\ Awaited /\ OwnSteps

page == <<site, step, code, ask, checking, with, phase>>

LEMMA FreshPage == ASSUME UNCHANGED site, Fresh PROVE SignInInv'
BY DEF SignInInv, Attempts, Awaited, OwnSteps, Fresh, FirstStep, NoAsk

LEMMA PageKept == ASSUME SignInInv, UNCHANGED page PROVE SignInInv'
BY DEF SignInInv, Attempts, Awaited, OwnSteps, page

\* Nothing is under way when nothing is waited for.
LEMMA AllIdle == ASSUME SignInInv, checking = None, NEW a \in Attempt PROVE phase[a] = "idle"
BY NoneIsNoAttempt DEF SignInInv, Awaited

LEMMA Starts ==
  ASSUME SignInInv, checking = None, NEW a \in Attempt, NEW u, NEW c, NEW kind, Start(a, u, c, kind),
         code' \in {None, c}
  PROVE  Attempts' /\ Awaited'
<1>1. Attempts'
  BY DEF SignInInv, Attempts, Start
<1>2. \A b \in Attempt : phase[b] = "idle"
  BY AllIdle
<1> QED
  BY <1>1, <1>2 DEF SignInInv, Attempts, Awaited, Start

\* A step of the API's moves the attempt it is about.
LEMMA MovesOn ==
  ASSUME SignInInv, NEW a \in Attempt, phase[a] # "idle", NEW p, Handled(a, p)
  PROVE  SignInInv'
BY DEF SignInInv, Attempts, Awaited, OwnSteps, Handled

LEMMA Ends ==
  ASSUME SignInInv, NEW a \in Attempt, Over(a), code' = IF checking = a THEN None ELSE code,
         UNCHANGED <<site, step, ask>>
  PROVE  SignInInv'
BY DEF SignInInv, Attempts, Awaited, OwnSteps, Over

LEMMA PageStep == ASSUME SignInInv, SignInStep PROVE SignInInv' /\ UNCHANGED <<site, place>>
<1> USE DEF At
<1>1. CASE ContinueWithEmail \/ AllOptions \/ SwitchMode
  BY <1>1 DEF ContinueWithEmail, AllOptions, SwitchMode, SignInInv, Attempts, Awaited, OwnSteps
<1>2. CASE RequestOTP
  BY <1>2 DEF RequestOTP, SignInInv, Attempts, Awaited, OwnSteps
<1>3. CASE Requested
  BY <1>3 DEF Requested, NoAsk, SignInInv, Attempts, Awaited, OwnSteps
<1>4. CASE RequestFails
  BY <1>4 DEF RequestFails, NoAsk, SignInInv, Attempts, Awaited, OwnSteps
<1>5. CASE CoolsDown \/ \E u \in User : TypeEmail(u)
  BY <1>5, PageKept DEF CoolsDown, TypeEmail, page
<1>6. CASE UseDifferentEmail
  BY <1>6 DEF UseDifferentEmail, SignInInv, Attempts, Awaited, OwnSteps
<1>7. CASE TypeDigits
  <2>1. checking = None /\ site = "web"
    BY <1>7 DEF TypeDigits, TakesDigits, SignInInv, OwnSteps
  <2>2. \A a \in Attempt : phase[a] = "idle"
    BY <2>1, AllIdle
  <2> QED
    BY <1>7, <2>1, <2>2 DEF TypeDigits, SignInInv, Attempts, Awaited, OwnSteps
<1>8. ASSUME NEW c \in Code, Verify(c) PROVE SignInInv' /\ UNCHANGED <<site, place>>
  <2>1. checking = None /\ code' = c /\ UNCHANGED <<site, place, step, ask>>
    BY <1>8 DEF Verify, TakesDigits
  <2>2. PICK a \in Attempt : Start(a, email, c, "code")
    BY <1>8 DEF Verify
  <2>3. Attempts' /\ Awaited'
    BY <2>1, <2>2, Starts
  <2>4. OwnSteps'
    BY <1>8, <2>1 DEF Verify, SignInInv, OwnSteps
  <2> QED
    BY <2>1, <2>3, <2>4 DEF SignInInv
<1>9. CASE SubmitPassword
  <2>1. /\ checking = None /\ code' = code /\ code = None
        /\ UNCHANGED <<site, place, step, ask>>
    BY <1>9 DEF SubmitPassword, SignInInv, OwnSteps
  <2>2. PICK a \in Attempt : Start(a, email, None, step)
    BY <1>9 DEF SubmitPassword
  <2>3. Attempts' /\ Awaited'
    BY <2>1, <2>2, Starts
  <2>4. OwnSteps'
    BY <2>1 DEF SignInInv, OwnSteps
  <2> QED
    BY <2>1, <2>3, <2>4 DEF SignInInv
<1>10. CASE ClearCodes \/ \E c \in Code : StoreCode(c)
  <2>1. ask.at # "idle" /\ UNCHANGED <<site, place, step, code, checking, with, phase>>
    BY <1>10 DEF ClearCodes, StoreCode
  <2> QED
    BY <2>1 DEF SignInInv, Attempts, Awaited, OwnSteps
<1>11. ASSUME NEW a \in Attempt, FindCode(a) \/ SpendCode(a) \/ Login(a) \/ Register(a)
       PROVE  SignInInv' /\ UNCHANGED <<site, place>>
  <2>1. phase[a] # "idle" /\ \E p \in {"found", "refused", "ok"} : Handled(a, p)
    BY <1>11 DEF FindCode, SpendCode, Login, Register
  <2>2. UNCHANGED <<site, place>>
    BY <2>1 DEF Handled
  <2> QED
    BY <2>1, <2>2, MovesOn
<1>12. ASSUME NEW a \in Attempt, Refused(a) \/ LoseAnswer(a) PROVE SignInInv' /\ UNCHANGED <<site, place>>
  BY <1>12, Ends DEF Refused, LoseAnswer
<1> QED
  BY <1>1, <1>2, <1>3, <1>4, <1>5, <1>6, <1>7, <1>8, <1>9, <1>10, <1>11, <1>12 DEF SignInStep

\* The rest of the application leaves the page alone, or mounts it anew.
LEMMA PageNext == SignInInv /\ [Next]_vars => SignInInv'
<1> SUFFICES ASSUME SignInInv, [Next]_vars PROVE SignInInv'
  OBVIOUS
<1> USE DEF pageVars
<1>1. CASE SignInOnly
  BY <1>1, PageStep DEF SignInOnly
<1>2. CASE Enter \/ EnterAdmin
  BY <1>2, FreshPage DEF Enter, EnterAdmin, SignedIn
<1>3. CASE MeFails \/ Logout
  BY <1>3, FreshPage, PageKept DEF MeFails, Logout, SignedOut, page
<1>4. CASE Flip \/ MeRead \/ MeAnswered \/ ListAnswered \/ ListFails
  BY <1>4, PageKept DEF Flip, MeRead, MeAnswered, ListAnswered, ListFails, page
<1>5. CASE CreateOrg \/ AddOrg \/ CreateFails
  BY <1>5, PageKept DEF CreateOrg, AddOrg, CreateFails, page
<1>6. CASE Reload \/ StopImpersonating \/ \E u \in User : Impersonate(u)
  BY <1>6, PageKept DEF Reload, StopImpersonating, Impersonate, Loaded, page
<1>7. CASE \E o \in Org : Switch(o) \/ OrgMade(o) \/ OrgDeleted(o)
  BY <1>7, PageKept DEF Switch, OrgMade, OrgDeleted, page
<1>8. CASE UNCHANGED vars
  BY <1>8, PageKept DEF vars, page
<1> QED
  BY <1>1, <1>2, <1>3, <1>4, <1>5, <1>6, <1>7, <1>8 DEF Next

\* One attempt to sign in at a time, and a refusal erases the code that was refused,
\* never another, whichever way the user goes through the steps of the page while a
\* code is checked (auth/page.tsx handleVerify and the mutation's callbacks).
THEOREM OneAttempt == Spec => []OneSignIn
<1>1. Init => SignInInv
  BY DEF Init, SignInInit, PageInit, FirstStep, NoAsk, SignInInv, Attempts, Awaited, OwnSteps
<1>2. SignInInv => OneSignIn
  BY DEF SignInInv, Awaited, OneSignIn
<1> QED
  BY <1>1, <1>2, PageNext, PTL DEF Spec

-----------------------------------------------------------------------------
(***************************************************************************)
(* After a switch the header, the cookie and the requests under way name   *)
(* one workspace; the user stays known, whatever answers.                  *)
(***************************************************************************)
Known == meAsk.at = "read" => meAsk.user # None

Together ==
  switched =>
    /\ Shown /\ active = cookie
    /\ listAsk.at \in {"idle", "sent"}
    /\ listAsk.at = "idle" => list = cookie
    /\ listAsk.at = "sent" => listAsk.org = cookie

SwitchInv == Known /\ Together /\ SignInInv

LEMMA SwitchStep == SwitchInv /\ [Next]_vars => Known' /\ Together'
<1> SUFFICES ASSUME SwitchInv, [Next]_vars PROVE Known' /\ Together'
  OBVIOUS
<1> USE DEF SwitchInv, Known, Together, Shown, In, cacheVars, orgVars
<1>1. CASE SignInOnly
  BY <1>1, PageStep DEF SignInOnly
<1>2. CASE Enter
  <2>1. switched' = FALSE
    BY <1>2 DEF Enter
  <2>2. meAsk' = meAsk \/ meAsk'.at = "sent"
    BY <1>2 DEF Enter, Mounted, AskMe
  <2> QED
    BY <2>1, <2>2
<1>3. CASE EnterAdmin
  BY <1>3 DEF EnterAdmin, SignedIn
<1>4. CASE Flip
  BY <1>4 DEF Flip
<1>5. CASE MeRead
  BY <1>5 DEF MeRead
<1>6. CASE MeAnswered
  <2>1. meAsk.user # None /\ meAsk'.at = "idle" /\ me' # NoMe
    BY <1>6 DEF MeAnswered, NotAsked, NoMe
  <2> QED
    BY <1>6, <2>1 DEF MeAnswered
<1>7. CASE MeFails
  BY <1>7 DEF MeFails, NotAsked
<1>8. CASE Reload \/ StopImpersonating \/ \E u \in User : Impersonate(u)
  BY <1>8 DEF Reload, StopImpersonating, Impersonate, Loaded
<1>9. CASE ListAnswered
  BY <1>9 DEF ListAnswered, NoList
<1>10. CASE ListFails
  BY <1>10 DEF ListFails
<1>11. CASE CreateOrg \/ CreateFails
  BY <1>11 DEF CreateOrg, CreateFails
<1>12. CASE AddOrg
  BY <1>12 DEF AddOrg, AskMe
<1>13. CASE Logout
  BY <1>13 DEF Logout
<1>14. ASSUME NEW o \in Org, Switch(o) PROVE Known' /\ Together'
  BY <1>14 DEF Switch, Ready, Invalidated, AskMe
<1>15. ASSUME NEW o \in Org, OrgMade(o) \/ OrgDeleted(o) PROVE Known' /\ Together'
  <2>1. /\ UNCHANGED <<site, place, me, meAsk, list, listAsk, active, cookie>>
        /\ switched' = switched \/ switched' = FALSE
    BY <1>15, Zenon DEF OrgMade, OrgDeleted
  <2>2. CASE switched' = switched
    BY <2>1, <2>2
  <2>3. CASE switched' = FALSE
    BY <2>1, <2>3
  <2> QED
    BY <2>1, <2>2, <2>3
<1>16. CASE UNCHANGED vars
  BY <1>16 DEF vars
<1> QED
  BY <1>1, <1>2, <1>3, <1>4, <1>5, <1>6, <1>7, <1>8, <1>9, <1>10, <1>11, <1>12, <1>13, <1>14, <1>15, <1>16
  DEF Next

\* After a switch the cookie and the header name one workspace, and the list that is
\* on the screen once the requests are answered is of it, whatever was under way when
\* the user switched and whoever answers in which order (auth-context.tsx setActiveOrg).
THEOREM SwitchHolds == Spec => []SwitchShowsItsOwn
<1>1. Init => SwitchInv
  BY DEF Init, SignInInit, PageInit, FirstStep, NoAsk, SignInInv, Attempts, Awaited, OwnSteps,
         WorkspaceInit, NotAsked, SwitchInv, Known, Together
<1>2. SwitchInv /\ [Next]_vars => SwitchInv'
  BY PageNext, SwitchStep DEF SwitchInv
<1>3. SwitchInv => SwitchShowsItsOwn
  BY DEF SwitchInv, Together, SwitchShowsItsOwn, FlipDue
<1> QED
  BY <1>1, <1>2, <1>3, PTL DEF Spec
=============================================================================
