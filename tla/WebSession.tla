------------------------------ MODULE WebSession ------------------------------
(***************************************************************************)
(* The browser's side of a session: the tabs of one browser share a cookie *)
(* jar and nothing else.  Every request of a tab goes through req (or      *)
(* uploadReq) of api.ts: a 401 joins the tab's single refresh call, and    *)
(* the request is sent once more when the refresh succeeded.  The session  *)
(* store (store.ts) learns who is signed in from me, login and logout.     *)
(*                                                                         *)
(* Cookies are stored when the tab takes the answer; the requests waiting  *)
(* for a refresh resume in the same turn of the tab's event loop.          *)
(***************************************************************************)
EXTENDS RefreshTokens

CONSTANTS
    Tabs,
    Requests        \* requests to endpoints other than auth/*

ASSUME WebSessionAssumption == Tabs \subseteq Callers

VARIABLES
    jar,        \* [access, refresh]: serverhub_session, serverhub_refresh
    tab,        \* [Tabs -> [user, checked, auth, access, refresh, quiet]]
    tabOf,      \* [Requests -> Tabs]: whose they are, chosen once
    req,        \* [Requests -> [pc, access]]; settled: resolved or rejected
    loggedOut   \* logins a logout has revoked, no refresh being under way or lost

webVars == <<jar, tab, req, tabOf, loggedOut>>

AuthCalls == {"idle", "me", "login", "logout", "loggedOut", "refused"}

WebTypeOK ==
    /\ jar \in [access : BOOLEAN, refresh : 0..MaxTokens]
    /\ tab \in [Tabs -> [user : BOOLEAN, checked : BOOLEAN, auth : AuthCalls,
                         access : BOOLEAN, refresh : 0..MaxTokens,
                         quiet : BOOLEAN]]
    /\ req \in [Requests -> [pc : {"settled", "sent", "waiting", "resent"},
                             access : BOOLEAN]]
    /\ tabOf \in [Requests -> Tabs]
    /\ loggedOut \subseteq Tokens

EmptyJar == [access |-> FALSE, refresh |-> NoToken]
Settled == [pc |-> "settled", access |-> FALSE]

\* The store once it knows whether somebody is signed in.
SignedIn(user) == [user |-> user, checked |-> TRUE, auth |-> "idle",
                   access |-> FALSE, refresh |-> NoToken, quiet |-> FALSE]

\* The login of token 1 signed in this browser, in all its tabs.
WebInit ==
    /\ jar = [access |-> TRUE, refresh |-> 1]
    /\ tab = [t \in Tabs |-> SignedIn(TRUE)]
    /\ req = [r \in Requests |-> Settled]
    /\ tabOf \in [Requests -> Tabs]
    /\ loggedOut = {}

Refreshing == {c \in Callers : call[c].pc # "idle"}

(***************************************************************************)
(* Requests.                                                               *)
(***************************************************************************)

\* fetch with credentials, from a page under Protected: the access cookie of
\* this moment goes along.
WebSend(r) ==
    /\ tab[tabOf[r]].user
    /\ req[r].pc = "settled"
    /\ req' = [req EXCEPT ![r] = [pc |-> "sent", access |-> jar.access]]
    /\ UNCHANGED <<tokenVars, jar, tab, loggedOut, tabOf>>

WebOk(r) ==
    /\ req[r].pc \in {"sent", "resent"}
    /\ req[r].access
    /\ req' = [req EXCEPT ![r] = Settled]
    /\ UNCHANGED <<tokenVars, jar, tab, loggedOut, tabOf>>

\* The connection fails: fetch rejects, and so does req.
WebUnreachable(r) ==
    /\ req[r].pc \in {"sent", "resent"}
    /\ Fault
    /\ req' = [req EXCEPT ![r] = Settled]
    /\ UNCHANGED <<row, recent, call, events, over, jar, tab, loggedOut, tabOf>>

\* refreshSession: start the tab's refresh call unless there is one.
RefreshSession(t) ==
    IF call[t].pc = "idle"
    THEN /\ PostRefresh(t, jar.refresh)
         /\ tab' = [u \in Tabs |-> [tab[u] EXCEPT !.quiet = FALSE]]
    ELSE UNCHANGED <<call, tab>>

\* req and, for uploads, uploadReq: the first 401 asks for a refresh.
Web401(r) ==
    /\ req[r].pc \in {"sent", "resent"}
    /\ ~req[r].access
    /\ IF req[r].pc = "sent"
       THEN /\ req' = [req EXCEPT ![r].pc = "waiting"]
            /\ RefreshSession(tabOf[r])
       ELSE /\ req' = [req EXCEPT ![r] = Settled]
            /\ UNCHANGED <<call, tab>>
    /\ UNCHANGED <<row, recent, faults, events, over, jar, loggedOut, tabOf>>

\* What the answer's Set-Cookie headers make of the jar.
JarAfter(c) ==
    CASE call[c].cookies = "set"   -> [access |-> TRUE, refresh |-> call[c].tok]
      [] call[c].cookies = "clear" -> EmptyJar
      [] OTHER                     -> jar

\* A deviation: only a successful refresh wakes the requests.
WokenOnSuccess(r, ok, access) ==
    IF ok THEN [pc |-> "resent", access |-> access] ELSE req[r]

\* A request that waited for the refresh is sent again, or fails with the 401
\* it had.
Woken(r, ok, access) ==
    IF ok THEN [pc |-> "resent", access |-> access] ELSE Settled

\* The refresh settles: refreshPromise is forgotten.
WebRefreshSettles(t) ==
    /\ call[t].pc = "answered"
    /\ jar' = JarAfter(t)
    /\ req' = [r \in Requests |->
                 IF tabOf[r] = t /\ req[r].pc = "waiting"
                 THEN Woken(r, call[t].status = "200", jar'.access)
                 ELSE req[r]]
    /\ call' = [call EXCEPT ![t] = Idle]
    /\ UNCHANGED <<row, recent, faults, events, over, tab, loggedOut, tabOf>>

(***************************************************************************)
(* The session store.                                                      *)
(***************************************************************************)

\* The page is loaded anew: the store starts from nothing.
WebReload(t) ==
    /\ tab[t].auth = "idle" /\ tab[t].checked
    /\ call[t].pc = "idle"
    /\ \A r \in Requests : tabOf[r] = t => req[r] = Settled
    /\ Event
    /\ tab' = [tab EXCEPT ![t] = [SignedIn(FALSE) EXCEPT !.checked = FALSE]]
    /\ UNCHANGED <<row, recent, call, faults, over, jar, req, loggedOut, tabOf>>

\* Protected: an unchecked tab asks who it is; the answer is never retried.
WebCheck(t) ==
    /\ ~tab[t].checked
    /\ tab[t].auth = "idle"
    /\ tab' = [tab EXCEPT ![t].auth = "me", ![t].access = jar.access]
    /\ UNCHANGED <<tokenVars, jar, req, loggedOut, tabOf>>

WebChecked(t) ==
    /\ tab[t].auth = "me"
    /\ \/ /\ tab' = [tab EXCEPT ![t] = SignedIn(tab[t].access)]
          /\ UNCHANGED faults
       \/ /\ Fault
          /\ tab' = [tab EXCEPT ![t] = SignedIn(FALSE)]
    /\ UNCHANGED <<row, recent, call, events, over, jar, req, loggedOut, tabOf>>

\* LoginPage's submit and login of the store.
WebLogin(t) ==
    /\ tab[t].checked /\ ~tab[t].user
    /\ tab[t].auth = "idle"
    /\ Event
    /\ tab' = [tab EXCEPT ![t].auth = "login"]
    /\ UNCHANGED <<row, recent, call, faults, over, jar, req, loggedOut, tabOf>>

WebLoginAnswered(t) ==
    /\ tab[t].auth = "login"
    /\ \/ /\ CanMint
          /\ Store(0)
          /\ jar' = [access |-> TRUE, refresh |-> Next1]
          /\ tab' = [tab EXCEPT ![t] = SignedIn(TRUE)]
       \/ /\ tab' = [tab EXCEPT ![t] = SignedIn(FALSE)]     \* refused: error shown
          /\ UNCHANGED <<row, recent, jar>>
    /\ UNCHANGED <<call, faults, events, over, req, loggedOut, tabOf>>

\* The sign-out button of the chrome and logout of the store: the request
\* carries the cookies of this moment.
WebLogout(t) ==
    /\ tab[t].user
    /\ tab[t].auth = "idle"
    /\ Event
    /\ tab' = [tab EXCEPT ![t].auth = "logout", ![t].access = jar.access,
                          ![t].refresh = jar.refresh, ![t].quiet = (Refreshing = {})]
    /\ UNCHANGED <<row, recent, call, faults, over, jar, req, loggedOut, tabOf>>

\* A deviation: the handler only clears the cookies.
RevokesNothing(t) == row

RevokesPresented(t) == Revoke({tab[t].refresh})

\* The server: AuthRequired first, then Logout revokes what it was shown.
LogoutServed(t) ==
    /\ tab[t].auth = "logout"
    /\ IF tab[t].access
       THEN /\ row' = RevokesPresented(t)
            /\ over' = TRUE
            /\ loggedOut' = IF tab[t].quiet /\ faults = 0
                            THEN loggedOut \cup {row[k].login : k \in {tab[t].refresh} \cap Tokens}
                            ELSE loggedOut
            /\ tab' = [tab EXCEPT ![t].auth = "loggedOut"]
       ELSE /\ tab' = [tab EXCEPT ![t].auth = "refused"]
            /\ UNCHANGED <<row, over, loggedOut>>
    /\ UNCHANGED <<recent, call, faults, events, jar, req, tabOf>>

\* Whatever came back, the store forgets the user.
WebLoggedOut(t) ==
    /\ tab[t].auth \in {"loggedOut", "refused"}
    /\ jar' = IF tab[t].auth = "loggedOut" THEN EmptyJar ELSE jar
    /\ tab' = [tab EXCEPT ![t] = SignedIn(FALSE)]
    /\ UNCHANGED <<tokenVars, req, loggedOut, tabOf>>

\* The access cookie's Max-Age, 30 minutes, passes.
AccessExpires ==
    /\ jar.access
    /\ Event
    /\ jar' = [jar EXCEPT !.access = FALSE]
    /\ UNCHANGED <<row, recent, call, faults, over, tab, req, loggedOut, tabOf>>

WebServer ==
    \/ \E c \in Tabs : RefreshStep(c) /\ UNCHANGED webVars
    \/ \E t \in Tabs : LogoutServed(t)

WebEnvironment ==
    /\ \/ \E c \in Tabs : AnswerLost(c)
       \/ RevokeAllRefreshes
       \/ \E k \in Tokens : TokenExpires(k)
       \/ LeewayPasses
    /\ UNCHANGED webVars

\* What the tabs do without being asked.
WebProgress ==
    \/ \E r \in Requests : WebOk(r) \/ Web401(r)
    \/ \E t \in Tabs : \/ WebRefreshSettles(t) \/ WebCheck(t) \/ WebChecked(t)
                       \/ WebLoginAnswered(t) \/ WebLoggedOut(t)

WebUser ==
    \/ \E r \in Requests : WebSend(r) \/ WebUnreachable(r)
    \/ \E t \in Tabs : WebLogin(t) \/ WebLogout(t) \/ WebReload(t)

WebNext ==
    WebServer \/ WebEnvironment \/ WebProgress \/ WebUser \/ AccessExpires

\* The server serves, the answers arrive and the tabs' event loops turn; the
\* user and the clocks need not do anything.
WebFairness ==
    /\ \A t \in Tabs :
        /\ WF_<<tokenVars, webVars>>(device = "browser" /\ RefreshStep(t) /\ UNCHANGED webVars)
        /\ WF_<<tokenVars, webVars>>(device = "browser" /\ WebRefreshSettles(t))
    /\ \A r \in Requests :
        WF_<<tokenVars, webVars>>(device = "browser" /\ (WebOk(r) \/ Web401(r)))

(***************************************************************************)
(* Properties.                                                             *)
(***************************************************************************)

\* A logout that no refresh of this browser overlapped ends the login for
\* good: the cookie it carried was the login's current token (Logout).
LogoutEndsLogin == \A l \in loggedOut : LoginPhase(l) = "ended"

\* Every request of a page comes to an end: it is answered, or it fails after
\* one refresh and one more try (req, uploadReq and refreshSession of api.ts).
WebRequestsSettle ==
    \A r \in Requests :
        req[r].pc \in {"sent", "waiting", "resent"} ~> req[r].pc = "settled"

\* "The winner's session survives" (auth.go, Refresh): at rest, a browser
\* whose login goes on at the server still holds the login's token, however its
\* tabs raced for it.
WinnerKeepsSession ==
    (device = "browser" /\ faults = 0 /\ ~over /\ Refreshing = {})
        => \E t \in Valid : jar.refresh = t
==============================================================================
