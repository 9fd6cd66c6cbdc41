------------------------------- MODULE SignIn -------------------------------
(***************************************************************************)
(* Signing in.  The web application's page asks for an address, has a code *)
(* sent to it and signs in with the code; the operators' page takes a      *)
(* password, or makes an account with one.  Each request may be refused,   *)
(* lost, or answered after the user has gone on to something else; leaving *)
(* the page unmounts it.  The handlers of the API that issue and spend the *)
(* codes are here too.                                                     *)
(***************************************************************************)
EXTENDS Naturals, Sequences

CONSTANTS
    User,           \* an address, and who signs in with it
    Admin,          \* the platform administrators among them
    Org, Code,
    None,
    Attempt         \* slots for the sign-in requests of a page

ASSUME AdminsAreUsers == Admin \subseteq User

ASSUME NoneIsNoAttempt == None \notin Attempt

Part == "part"      \* fewer than six digits

VARIABLES
    site,           \* "web" or "admin"
    place,          \* "auth", "in", or "loader": see Workspace
    step, email, code, cooldown,
    ask,            \* the request for a code, if one is under way
    checking,       \* the attempt the mutation's isPending is about, or None
    who, with, phase,   \* the attempts
    live,           \* the codes of an address not yet used
    accounts,
    member,         \* whose memberships, in the order the database keeps them
    gone,           \* the workspaces that were deleted
    session         \* whose session the browser's cookie holds

pageVars == <<step, email, code, cooldown, ask, checking, who, with, phase>>
serverVars == <<live, accounts, member, gone>>

NoAsk == [to |-> None, from |-> "email", at |-> "idle"]

SignInTypeOK ==
    /\ site \in {"web", "admin"}
    /\ place \in {"auth", "in", "loader"}
    /\ step \in {"buttons", "email", "code", "login", "register"}
    /\ email \in User \cup {None}
    /\ code \in Code \cup {None, Part}
    /\ cooldown \in BOOLEAN
    /\ ask \in [to : User \cup {None}, from : {"email", "code"},
                at : {"idle", "sent", "cleared", "sentout", "refused"}]
    /\ checking \in Attempt \cup {None}
    /\ who \in [Attempt -> User \cup {None}]
    /\ with \in [Attempt -> Code \cup {None}]
    /\ phase \in [Attempt -> {"idle", "code", "found", "login", "register", "ok", "refused"}]
    /\ live \in [User -> SUBSET Code]
    /\ accounts \subseteq User /\ gone \subseteq Org
    /\ session \in User \cup {None}

\* The page as it is mounted.
FirstStep == IF site = "web" THEN "buttons" ELSE "login"

Fresh ==
    /\ step' = FirstStep /\ email' = None /\ code' = None /\ cooldown' = FALSE
    /\ ask' = NoAsk /\ checking' = None
    /\ who' = [a \in Attempt |-> None] /\ with' = [a \in Attempt |-> None]
    /\ phase' = [a \in Attempt |-> "idle"]

PageInit ==
    /\ step = FirstStep /\ email = None /\ code = None /\ cooldown = FALSE
    /\ ask = NoAsk /\ checking = None
    /\ who = [a \in Attempt |-> None] /\ with = [a \in Attempt |-> None]
    /\ phase = [a \in Attempt |-> "idle"]

SignInInit ==
    /\ site \in {"web", "admin"} /\ place = "auth"
    /\ PageInit
    /\ live = [u \in User |-> {}] /\ gone = {}
    /\ accounts \subseteq User /\ member \in [User -> Seq(Org)]
    /\ session = None

At(s) == place = "auth" /\ step = s

-----------------------------------------------------------------------------
(* The page of the web application                                         *)

ContinueWithEmail ==
    /\ At("buttons")
    /\ step' = "email"
    /\ UNCHANGED <<site, place, email, code, cooldown, ask, checking, who, with, phase, serverVars, session>>

AllOptions ==
    /\ At("email")
    /\ step' = "buttons"
    /\ UNCHANGED <<site, place, email, code, cooldown, ask, checking, who, with, phase, serverVars, session>>

TypeEmail(u) ==
    /\ At("email") \/ At("login") \/ At("register")
    /\ email # u
    /\ email' = u
    /\ UNCHANGED <<site, place, step, code, cooldown, ask, checking, who, with, phase, serverVars, session>>

\* requestOTP, from the form and from "Resend code".  Its button is held while a
\* request is under way; the callback remembers the step it was pressed in.
RequestOTP ==
    /\ At("email") \/ (At("code") /\ ~cooldown)
    /\ email # None /\ ask.at = "idle"
    /\ ask' = [to |-> email, from |-> step, at |-> "sent"]
    /\ UNCHANGED <<site, place, step, email, code, cooldown, checking, who, with, phase, serverVars, session>>

Requested ==
    /\ place = "auth" /\ ask.at = "sentout"
    /\ cooldown' = TRUE
    /\ IF ask.from = "email" THEN step' = "code" /\ code' = None ELSE UNCHANGED <<step, code>>
    /\ ask' = NoAsk
    /\ UNCHANGED <<site, place, email, checking, who, with, phase, serverVars, session>>

\* An answer with an error, or none: what the API did of it stays.
RequestFails ==
    /\ place = "auth" /\ ask.at # "idle"
    /\ ask' = NoAsk
    /\ UNCHANGED <<site, place, step, email, code, cooldown, checking, who, with, phase, serverVars, session>>

CoolsDown ==
    /\ cooldown
    /\ cooldown' = FALSE
    /\ UNCHANGED <<site, place, step, email, code, ask, checking, who, with, phase, serverVars, session>>

UseDifferentEmail ==
    /\ At("code")
    /\ step' = "email" /\ code' = None
    /\ UNCHANGED <<site, place, email, cooldown, ask, checking, who, with, phase, serverVars, session>>

\* Mutated: the field stays open while a code is being checked.
AlwaysTakesDigits == TRUE

TakesDigits == checking = None

Start(a, u, c, kind) ==
    /\ phase[a] = "idle"
    /\ who' = [who EXCEPT ![a] = u]
    /\ with' = [with EXCEPT ![a] = c]
    /\ phase' = [phase EXCEPT ![a] = kind]
    /\ checking' = a

\* handleVerify, at each change of the field.
TypeDigits ==
    /\ At("code") /\ TakesDigits /\ code # Part
    /\ code' = Part
    /\ UNCHANGED <<site, place, step, email, cooldown, ask, checking, who, with, phase, serverVars, session>>

Verify(c) ==
    /\ At("code") /\ TakesDigits
    /\ code' = c
    /\ \E a \in Attempt : Start(a, email, c, "code")
    /\ UNCHANGED <<site, place, step, email, cooldown, ask, serverVars, session>>

-----------------------------------------------------------------------------
(* The page of the operators' application                                  *)

SwitchMode ==
    /\ At("login") \/ At("register")
    /\ step' = IF step = "login" THEN "register" ELSE "login"
    /\ UNCHANGED <<site, place, email, code, cooldown, ask, checking, who, with, phase, serverVars, session>>

SubmitPassword ==
    /\ At("login") \/ At("register")
    /\ email # None /\ checking = None
    /\ \E a \in Attempt : Start(a, email, None, step)
    /\ UNCHANGED <<site, place, step, email, code, cooldown, ask, serverVars, session>>

-----------------------------------------------------------------------------
(* The API                                                                 *)

\* OTPRequest: the earlier codes are spent, then the new one is stored.
ClearCodes ==
    /\ ask.at = "sent"
    /\ live' = [live EXCEPT ![ask.to] = {}]
    /\ ask' = [ask EXCEPT !.at = "cleared"]
    /\ UNCHANGED <<site, place, step, email, code, cooldown, checking, who, with, phase, accounts, member, gone, session>>

StoreCode(c) ==
    /\ ask.at = "cleared"
    /\ live' = [live EXCEPT ![ask.to] = @ \cup {c}]
    /\ ask' = [ask EXCEPT !.at = "sentout"]
    /\ UNCHANGED <<site, place, step, email, code, cooldown, checking, who, with, phase, accounts, member, gone, session>>

Handled(a, p) ==
    /\ phase' = [phase EXCEPT ![a] = p]
    /\ UNCHANGED <<site, place, step, email, code, cooldown, ask, checking, who, with, session>>

\* OTPVerify looks the code up; ten minutes may have passed.
FindCode(a) ==
    /\ phase[a] = "code"
    /\ \/ with[a] \in live[who[a]] /\ Handled(a, "found")
       \/ Handled(a, "refused")
    /\ UNCHANGED serverVars

Unused(o) == o \notin gone /\ \A u \in User : \A i \in DOMAIN member[u] : member[u][i] # o

\* A new account comes with a workspace of its own.
NewAccount(u) ==
    \E o \in Org :
        /\ Unused(o)
        /\ accounts' = accounts \cup {u}
        /\ member' = [member EXCEPT ![u] = <<o>>]
        /\ UNCHANGED gone

\* Then it spends the code, and finds or makes the account.
SpendCode(a) ==
    LET u == who[a] IN
    /\ phase[a] = "found"
    /\ live' = [live EXCEPT ![u] = @ \ {with[a]}]
    /\ IF u \in accounts
       THEN /\ Handled(a, IF member[u] = <<>> THEN "refused" ELSE "ok")
            /\ UNCHANGED <<accounts, member, gone>>
       ELSE NewAccount(u) /\ Handled(a, "ok")

Login(a) ==
    LET u == who[a] IN
    /\ phase[a] = "login"
    /\ \/ u \in accounts \cap Admin /\ member[u] # <<>> /\ Handled(a, "ok")
       \/ Handled(a, "refused")
    /\ UNCHANGED serverVars

Register(a) ==
    LET u == who[a] IN
    /\ phase[a] = "register"
    /\ \/ /\ u \in Admin \ accounts
          /\ NewAccount(u) /\ Handled(a, "ok")
          /\ UNCHANGED live
       \/ Handled(a, "refused") /\ UNCHANGED serverVars

-----------------------------------------------------------------------------
(* The answers                                                             *)

Over(a) ==
    /\ who' = [who EXCEPT ![a] = None]
    /\ with' = [with EXCEPT ![a] = None]
    /\ phase' = [phase EXCEPT ![a] = "idle"]
    /\ checking' = IF checking = a THEN None ELSE checking

\* The callbacks are those of the last call.
Refused(a) ==
    /\ place = "auth" /\ phase[a] = "refused"
    /\ code' = IF checking = a THEN None ELSE code
    /\ Over(a)
    /\ UNCHANGED <<site, place, step, email, cooldown, ask, serverVars, session>>

\* The API has done what it had done; the answer does not come.
LoseAnswer(a) ==
    /\ place = "auth" /\ phase[a] # "idle"
    /\ code' = IF checking = a THEN None ELSE code
    /\ Over(a)
    /\ UNCHANGED <<site, place, step, email, cooldown, ask, serverVars, session>>

\* The answer's cookie, and the page's redirect, which unmounts it.
SignedIn(a) ==
    /\ place = "auth" /\ phase[a] = "ok"
    /\ session' = who[a]
    /\ place' = "in"
    /\ Fresh
    /\ UNCHANGED <<site, serverVars>>

SignInStep ==
    \/ ContinueWithEmail \/ AllOptions \/ RequestOTP \/ Requested \/ RequestFails \/ CoolsDown
    \/ UseDifferentEmail \/ TypeDigits \/ SwitchMode \/ SubmitPassword \/ ClearCodes
    \/ \E u \in User : TypeEmail(u)
    \/ \E c \in Code : Verify(c) \/ StoreCode(c)
    \/ \E a \in Attempt :
          FindCode(a) \/ SpendCode(a) \/ Login(a) \/ Register(a) \/ Refused(a) \/ LoseAnswer(a)

-----------------------------------------------------------------------------
(* Properties                                                              *)

\* One attempt at a time, whichever way the user goes through the steps while it
\* runs; so the code on the screen, which its refusal erases, is blank or the
\* code that was refused, never another the user has typed meanwhile.
OneSignIn ==
    /\ \A a, b \in Attempt : phase[a] # "idle" /\ phase[b] # "idle" => a = b
    /\ \A a \in Attempt : phase[a] # "idle" => code \in {None, with[a]}
=============================================================================
