------------------------------ MODULE Workspace ------------------------------
(***************************************************************************)
(* The signed-in application: AuthProvider reads who the user is and the   *)
(* workspaces they are a member of, the header switches between them, and  *)
(* every page's lists are read for the workspace that the browser's cookie *)
(* names when the request is sent.  The cache of queries outlives the      *)
(* sign-out; a reload of the page, which impersonation does, empties it.   *)
(***************************************************************************)
EXTENDS SignIn

CONSTANT MaxTurns      \* sign-outs, and deletions of a workspace, in a run

VARIABLES
    me, meAsk,          \* the cached answer of /auth/me, and its request
    list, listAsk,      \* the workspace a page's list is of, and its request's
    active, cookie,     \* activeOrgId, and ziraloop_active_org
    creating,           \* POST /v1/orgs
    guise,              \* the administrator behind the session, or None
    turns,              \* for the bound
    switched            \* the user has switched, and nothing else moved them since

cacheVars == <<me, meAsk, list, listAsk>>
orgVars == <<active, cookie>>
headerVars == <<creating, guise>>
vars == <<site, place, pageVars, serverVars, session,
          cacheVars, orgVars, headerVars, turns, switched>>

NoMe == [user |-> None, orgs |-> <<>>]
NotAsked == [user |-> None, orgs |-> <<>>, at |-> "idle"]
NotCreating == [user |-> None, org |-> None, by |-> "none", at |-> "idle"]

Elems(q) == {q[i] : i \in DOMAIN q}

WorkspaceTypeOK ==
    /\ me.user \in User \cup {None} /\ Elems(me.orgs) \subseteq Org
    /\ meAsk.user \in User \cup {None} /\ Elems(meAsk.orgs) \subseteq Org
    /\ meAsk.at \in {"idle", "sent", "read"}
    /\ list \in Org \cup {None}
    /\ listAsk.at \in {"idle", "sent"} /\ listAsk.org \in Org \cup {None}
    /\ active \in Org \cup {None} /\ cookie \in Org \cup {None}
    /\ creating.user \in User \cup {None} /\ creating.org \in Org \cup {None} /\ creating.by \in {"none", "this", "gone"}
    /\ creating.at \in {"idle", "sent", "made"}
    /\ guise \in User \cup {None}
    /\ switched \in BOOLEAN
    /\ turns \in 0 .. MaxTurns

NoList == [org |-> None, at |-> "idle"]

WorkspaceInit ==
    /\ me = NoMe /\ meAsk = NotAsked /\ list = None /\ listAsk = NoList
    /\ active = None /\ cookie = None
    /\ creating = NotCreating /\ guise = None
    /\ turns = 0 /\ switched = FALSE

In == site = "web" /\ place = "in"

\* The header and the page are on the screen, not the full-page loader.
Shown == In /\ me # NoMe

-----------------------------------------------------------------------------
(* The provider                                                            *)

\* activeOrg
Header ==
    IF active \in Elems(me.orgs) THEN active
    ELSE IF me.orgs # <<>> THEN Head(me.orgs) ELSE None

AskMe == [user |-> session, orgs |-> <<>>, at |-> "sent"]
AskList == [org |-> cookie, at |-> "sent"]

\* A query that is mounted reads what the cache does not hold, and reads again
\* what it holds for too long.
Mounted(held, asked, request) ==
    IF asked.at # "idle" THEN {asked} ELSE IF held THEN {asked, request} ELSE {request}

\* After the answer that signed in, or a reload.  The page's list is mounted once
\* the provider knows who the user is.
Enter ==
    /\ site = "web"
    /\ \E a \in Attempt : SignedIn(a)
    /\ active' = cookie
    /\ meAsk' \in Mounted(me # NoMe, meAsk, [AskMe EXCEPT !.user = session'])
    /\ listAsk' \in IF me # NoMe THEN Mounted(list # None, listAsk, AskList) ELSE {listAsk}
    /\ switched' = FALSE
    /\ UNCHANGED <<me, list, cookie, headerVars, turns>>

\* The effect that moves a user to a workspace they are in: it is run before
\* anything the user does.
FlipDue == Shown /\ Header # None /\ Header # active

Flip ==
    /\ FlipDue
    /\ active' = Header /\ cookie' = Header
    /\ switched' = FALSE
    /\ UNCHANGED <<site, place, pageVars, serverVars, session, cacheVars, headerVars, turns>>

MeRead ==
    /\ meAsk.at = "sent" /\ meAsk.user # None
    /\ meAsk' = [meAsk EXCEPT !.orgs = member[meAsk.user], !.at = "read"]
    /\ UNCHANGED <<site, place, pageVars, serverVars, session, me, list, listAsk, orgVars, headerVars,
                   turns, switched>>

MeAnswered ==
    /\ meAsk.at = "read" /\ ~FlipDue
    /\ me' = [user |-> meAsk.user, orgs |-> meAsk.orgs]
    /\ meAsk' = NotAsked
    /\ listAsk' \in IF In /\ me = NoMe THEN Mounted(list # None, listAsk, AskList) ELSE {listAsk}
    /\ UNCHANGED <<site, place, pageVars, serverVars, session, list, orgVars, headerVars, turns, switched>>

\* A request of a dialog that is unmounted goes on.
Orphaned == IF creating.at # "idle" THEN [creating EXCEPT !.by = "gone"] ELSE NotCreating

\* The sign-in page, mounted anew.
SignedOut ==
    /\ turns < MaxTurns
    /\ turns' = turns + 1
    /\ place' = "auth" /\ Fresh

\* The effect redirects to the sign-in page.  With the session's cookie still
\* there the middleware sends the browser back, and the loader stays; the proxy
\* deletes the cookie when the session cannot be refreshed.
MeFails ==
    /\ meAsk.at # "idle" /\ ~FlipDue
    /\ meAsk' = NotAsked
    /\ IF ~In THEN UNCHANGED <<place, pageVars, session, active, creating, turns, switched>>
       ELSE /\ \/ session' = None /\ SignedOut
               \/ session' = session /\ place' = "loader" /\ UNCHANGED <<pageVars, turns>>
            /\ active' = None /\ creating' = Orphaned /\ switched' = FALSE
    /\ UNCHANGED <<site, serverVars, me, list, listAsk, cookie, guise>>

\* A reload: nothing is kept but the cookies.
Loaded(u) ==
    /\ session' = u
    /\ place' = "in"
    /\ me' = NoMe /\ list' = None /\ listAsk' = NoList
    /\ meAsk' = [user |-> u, orgs |-> <<>>, at |-> "sent"]
    /\ active' = cookie
    /\ creating' = NotCreating
    /\ switched' = FALSE
    /\ UNCHANGED <<site, pageVars, serverVars, cookie, turns>>

Reload ==
    /\ site = "web" /\ place = "loader" /\ session # None
    /\ Loaded(session)
    /\ UNCHANGED guise

-----------------------------------------------------------------------------
(* A page's list                                                           *)

Member(u, o) == u # None /\ o \in Elems(member[u])

\* The API refuses a request without a workspace, or of one who is not in it.
ListAnswered ==
    /\ listAsk.at = "sent" /\ ~FlipDue
    /\ Member(session, listAsk.org)
    /\ list' = listAsk.org
    /\ listAsk' = NoList
    /\ UNCHANGED <<site, place, pageVars, serverVars, session, me, meAsk, orgVars, headerVars, turns, switched>>

ListFails ==
    /\ listAsk.at = "sent" /\ ~FlipDue
    /\ listAsk' = NoList
    /\ switched' = FALSE
    /\ UNCHANGED <<site, place, pageVars, serverVars, session, me, meAsk, list, orgVars, headerVars, turns>>

-----------------------------------------------------------------------------
(* The header                                                              *)

Ready == Shown /\ ~FlipDue

\* invalidateQueries sends what is mounted again, with the cookie there is, and
\* cancels the request under way unless it is the first.
Invalidated(c) ==
    IF list = None /\ listAsk.at # "idle" THEN listAsk ELSE [org |-> c, at |-> "sent"]

\* Mutated: the queries are invalidated before the cookie is set.
SwitchTooLate(o) ==
    /\ Ready /\ o \in Elems(me.orgs)
    /\ active' = o /\ cookie' = o
    /\ listAsk' = Invalidated(cookie)
    /\ meAsk' = AskMe
    /\ switched' = (list # None \/ listAsk.at = "idle")
    /\ UNCHANGED <<site, place, pageVars, serverVars, session, me, list, headerVars, turns>>

\* setActiveOrg
Switch(o) ==
    /\ Ready /\ o \in Elems(me.orgs)
    /\ active' = o /\ cookie' = o
    /\ listAsk' = Invalidated(cookie')
    /\ meAsk' = AskMe
    /\ switched' = (list # None \/ listAsk.at = "idle")
    /\ UNCHANGED <<site, place, pageVars, serverVars, session, me, list, headerVars, turns>>

\* POST /v1/orgs, of the dialog in the header, whose button is held meanwhile.
CreateOrg ==
    /\ Ready /\ creating.at = "idle"
    /\ creating' = [user |-> session, org |-> None, by |-> "this", at |-> "sent"]
    /\ UNCHANGED <<site, place, pageVars, serverVars, session, cacheVars, orgVars, guise,
                   turns, switched>>

OrgMade(o) ==
    /\ creating.at = "sent" /\ creating.user # None
    /\ Unused(o)
    /\ member' = [member EXCEPT ![creating.user] = Append(@, o)]
    /\ creating' = [creating EXCEPT !.org = o, !.at = "made"]
    /\ UNCHANGED <<site, place, pageVars, live, accounts, gone, session, cacheVars, orgVars, guise,
                   turns, switched>>

\* addOrg.  When the provider that asked is gone, only the cookie changes.
AddOrg ==
    /\ creating.at = "made" /\ ~FlipDue
    /\ cookie' = creating.org
    /\ active' = IF In /\ creating.by = "this" THEN creating.org ELSE active
    /\ meAsk' = IF In /\ (me # NoMe \/ meAsk.at = "idle") THEN AskMe ELSE meAsk
    /\ creating' = NotCreating
    /\ switched' = FALSE
    /\ UNCHANGED <<site, place, pageVars, serverVars, session, me, list, listAsk, guise, turns>>

CreateFails ==
    /\ creating.at # "idle" /\ ~FlipDue
    /\ creating' = NotCreating
    /\ UNCHANGED <<site, place, pageVars, serverVars, session, cacheVars, orgVars, guise,
                   turns, switched>>

\* The impersonation dialog, offered to administrators who are themselves: the
\* route makes the chosen user's session the browser's, and the page reloads.  A
\* refusal leaves all as it was.
Impersonate(u) ==
    /\ Ready /\ me.user \in Admin /\ guise = None
    /\ session \in Admin /\ u \in accounts
    /\ guise' = session
    /\ Loaded(u)

\* The banner's button.
StopImpersonating ==
    /\ Ready /\ guise # None
    /\ Loaded(guise)
    /\ guise' = None

\* The redirect is of the sign-in page when the cookie is deleted; otherwise, as
\* when the request fails on its way, the user stays where they are.
Logout ==
    /\ Ready
    /\ session' = None /\ SignedOut
    /\ active' = None /\ creating' = Orphaned /\ switched' = FALSE
    /\ UNCHANGED <<site, serverVars, cacheVars, cookie, guise>>

-----------------------------------------------------------------------------

\* An operator deletes a workspace, and the database the memberships of it.
OrgDeleted(o) ==
    /\ turns < MaxTurns /\ ~Unused(o) /\ o \notin gone
    /\ member' = [u \in User |-> SelectSeq(member[u], LAMBDA p : p # o)]
    /\ gone' = gone \cup {o}
    /\ turns' = turns + 1
    /\ switched' = FALSE
    /\ UNCHANGED <<site, place, pageVars, live, accounts, session, cacheVars, orgVars, headerVars>>

\* The operators' application starts from its dashboard and ends there.
EnterAdmin ==
    /\ site = "admin"
    /\ \E a \in Attempt : SignedIn(a)
    /\ UNCHANGED <<cacheVars, orgVars, headerVars, turns, switched>>

Init == SignInInit /\ WorkspaceInit

SignInOnly ==
    SignInStep /\ UNCHANGED <<cacheVars, orgVars, headerVars, turns, switched>>

Next ==
    \/ SignInOnly \/ Enter \/ EnterAdmin \/ Flip
    \/ MeRead \/ MeAnswered \/ MeFails \/ Reload \/ ListAnswered \/ ListFails
    \/ CreateOrg \/ AddOrg \/ CreateFails
    \/ StopImpersonating \/ Logout
    \/ \E o \in Org : Switch(o) \/ OrgMade(o) \/ OrgDeleted(o)
    \/ \E u \in User : Impersonate(u)

Spec == Init /\ [][Next]_vars

-----------------------------------------------------------------------------
(* Properties                                                              *)

\* After the user switches, whatever requests were under way, and until something
\* else moves them: the cookie, which the next request will carry, and the header
\* name one workspace, unless the user is in none any more, and once the requests
\* are answered the list is of it.
SwitchShowsItsOwn ==
    switched /\ ~FlipDue =>
        /\ Header \in {cookie, None}
        /\ listAsk.at = "idle" => list = cookie
=============================================================================
