------------------------------- MODULE Sessions -------------------------------
(***************************************************************************)
(* The sessions of one user: a browser with its tabs, or a phone, against  *)
(* the refresh tokens of the server.  The device not chosen stays away.    *)
(***************************************************************************)
EXTENDS WebSession, MobileSession

ASSUME SessionsAssumption == Phone \notin Tabs

vars == <<tokenVars, webVars, phoneVars, device>>

SessionInit == TokenInit /\ WebInit /\ PhoneInit

SessionNext ==
    \/ device = "browser" /\ WebNext /\ UNCHANGED <<phoneVars, device>>
    \/ device = "phone" /\ PhoneNext /\ UNCHANGED <<webVars, device>>

SessionSpec == SessionInit /\ [][SessionNext]_vars

\* The types, and: a refresh token that is presented, answered with, or held in
\* the cookie jar, by a tab's logout, in the keychain or by the app's calls is one
\* the server has stored (issuePair answers only after storeRefresh).
SessionTypeOK ==
    /\ TokenTypeOK /\ WebTypeOK /\ PhoneTypeOK
    /\ \A c \in Callers : call[c].tok \in Stored \cup {NoToken}
    /\ {jar.refresh, keychain.refresh, app.tok, promise.tok}
          \cup {tab[t].refresh : t \in Tabs} \subseteq Stored \cup {NoToken}

\* Every request of a page or a screen comes to an end, and so does the start
\* of the app.
RequestsSettle == WebRequestsSettle /\ AppRequestsSettle

AppStarts == device = "phone" => LeavesSplash
=============================================================================
