---------------------------- MODULE MobileSession ----------------------------
(***************************************************************************)
(* The phone's side of a session: the keychain (SecureStore) survives the  *)
(* app, the session store (authStore.ts) and the pending promises do not.  *)
(* The interceptors of client.ts put the stored access token on every      *)
(* request, and let a 401 join one refresh that reads the stored refresh   *)
(* token, posts it and writes the new pair back, access token first.       *)
(* Every keychain operation is a step of its own: hydrate, login, logout   *)
(* and the refresh interleave at each of them.                             *)
(*                                                                         *)
(* The app is killed only when no refresh is being served: a kill before   *)
(* the server got the request is a kill before it was made, and one during *)
(* its service is one that loses the answer.                               *)
(***************************************************************************)
EXTENDS RefreshTokens

CONSTANTS
    Phone,              \* the caller the app is
    AppRequests         \* requests to endpoints other than auth/*

ASSUME MobileSessionAssumption == Phone \in Callers

VARIABLES
    keychain,   \* [access, refresh, user]
    app,        \* [user, checked, op, access, tok]: authStore and its operation
    promise,    \* [pc, tok]: refreshPromise
    areq,       \* [AppRequests -> [pc, access]]
    raced       \* a refresh was under way while the keychain was emptied

phoneVars == <<keychain, app, promise, areq, raced>>

Ops == {"idle", "hydrate", "me", "saveUser", "login", "saveAccess",
        "saveRefresh", "saveLogin", "logout",
        "dropAccess", "dropRefresh", "dropUser"}

PhoneTypeOK ==
    /\ keychain \in [access : {"none", "good", "stale"},
                     refresh : 0..MaxTokens, user : BOOLEAN]
    /\ app \in [user : BOOLEAN, checked : BOOLEAN, op : Ops,
                access : {"none", "good", "stale"}, tok : 0..MaxTokens]
    /\ promise \in [pc : {"idle", "read", "posted", "saveAccess", "saveRefresh"},
                    tok : 0..MaxTokens]
    /\ areq \in [AppRequests -> [pc : {"settled", "sent", "waiting", "resent"},
                                 access : {"none", "good", "stale"}]]
    /\ raced \in BOOLEAN

Launched == [user |-> FALSE, checked |-> FALSE, op |-> "hydrate",
             access |-> "none", tok |-> NoToken]
NoPromise == [pc |-> "idle", tok |-> NoToken]
Answered == [pc |-> "settled", access |-> "none"]

\* The app starts with the login of token 1 in the keychain.
PhoneInit ==
    /\ keychain = [access |-> "good", refresh |-> 1, user |-> TRUE]
    /\ app = Launched
    /\ promise = NoPromise
    /\ areq = [r \in AppRequests |-> Answered]
    /\ raced = FALSE

\* The operation goes on; or it ends, leaving the store as given.
Goto(op) == app' = [app EXCEPT !.op = op]
Finish(user) ==
    app' = [user |-> user, checked |-> TRUE, op |-> "idle",
            access |-> "none", tok |-> NoToken]

NoFault == UNCHANGED <<row, recent, call, faults, events, over>>
OnlyFault == Fault /\ UNCHANGED <<row, recent, call, events, over>>

(***************************************************************************)
(* hydrate: what the app does when it starts.                              *)
(***************************************************************************)
\* A deviation: no catch around the keychain.
HydrateReadUncaught ==
    /\ app.op = "hydrate"
    /\ \/ /\ NoFault
          /\ IF keychain.access # "none" /\ keychain.user
             THEN app' = [app EXCEPT !.op = "me", !.access = keychain.access]
             ELSE Finish(FALSE)
       \/ OnlyFault /\ Goto("idle")
    /\ UNCHANGED <<keychain, promise, areq, raced>>

HydrateRead ==
    /\ app.op = "hydrate"
    /\ \/ /\ NoFault
          /\ IF keychain.access # "none" /\ keychain.user
             THEN app' = [app EXCEPT !.op = "me", !.access = keychain.access]
             ELSE Finish(FALSE)
       \/ OnlyFault /\ Finish(FALSE)
    /\ UNCHANGED <<keychain, promise, areq, raced>>

\* GET auth/me is an auth path: a 401 is not retried, and like any other
\* failure it empties the keychain.
HydrateMe ==
    /\ app.op = "me"
    /\ \/ NoFault /\ Goto(IF app.access = "good" THEN "saveUser" ELSE "dropAccess")
       \/ OnlyFault /\ Goto("dropAccess")
    /\ UNCHANGED <<keychain, promise, areq, raced>>

HydrateSaveUser ==
    /\ app.op = "saveUser"
    /\ \/ NoFault /\ keychain' = [keychain EXCEPT !.user = TRUE] /\ Finish(TRUE)
       \/ OnlyFault /\ Goto("dropAccess") /\ UNCHANGED keychain
    /\ UNCHANGED <<promise, areq, raced>>

\* The three deletions that end a failed hydrate and every logout.  When one
\* fails, hydrate gives up signed out; logout rejects with its user in place.
Drop(op, emptied, next) ==
    /\ app.op = op
    /\ \/ NoFault /\ keychain' = emptied /\ next
       \/ OnlyFault /\ Finish(app.user) /\ UNCHANGED keychain
    /\ raced' = (raced \/ promise.pc # "idle")
    /\ UNCHANGED <<promise, areq>>

\* A deviation: the refresh token stays.
DropNothing == Drop("dropRefresh", keychain, Goto("dropUser"))

DropAccess == Drop("dropAccess", [keychain EXCEPT !.access = "none"], Goto("dropRefresh"))
DropRefresh == Drop("dropRefresh", [keychain EXCEPT !.refresh = NoToken], Goto("dropUser"))
DropUser == Drop("dropUser", [keychain EXCEPT !.user = FALSE], Finish(FALSE))

(***************************************************************************)
(* login and logout.                                                       *)
(***************************************************************************)
PhoneLogin ==
    /\ app.op = "idle" /\ app.checked /\ ~app.user
    /\ Event
    /\ Goto("login")
    /\ UNCHANGED <<row, recent, call, faults, over, keychain, promise, areq, raced>>

\* POST auth/token: the pair comes in the body.
PhoneLoginAnswered ==
    /\ app.op = "login"
    /\ \/ /\ CanMint
          /\ Store(0)
          /\ app' = [app EXCEPT !.op = "saveAccess", !.tok = Next1]
       \/ Finish(FALSE) /\ UNCHANGED <<row, recent>>
    /\ UNCHANGED <<call, faults, events, over, keychain, promise, areq, raced>>

Save(op, stored, next) ==
    /\ app.op = op
    /\ \/ NoFault /\ keychain' = stored /\ next
       \/ OnlyFault /\ Finish(FALSE) /\ UNCHANGED keychain
    /\ UNCHANGED <<promise, areq, raced>>

LoginSaveAccess == Save("saveAccess", [keychain EXCEPT !.access = "good"], Goto("saveRefresh"))
LoginSaveRefresh == Save("saveRefresh", [keychain EXCEPT !.refresh = app.tok], Goto("saveLogin"))
LoginSaveUser == Save("saveLogin", [keychain EXCEPT !.user = TRUE], Finish(TRUE))

PhoneLogout ==
    /\ app.op = "idle" /\ app.user
    /\ Event
    /\ app' = [app EXCEPT !.op = "logout", !.access = keychain.access]
    /\ UNCHANGED <<row, recent, call, faults, over, keychain, promise, areq, raced>>

\* POST auth/logout without a body: the server finds no refresh token to
\* revoke.  Whatever it answers, the keychain is emptied.
PhoneLogoutAnswered ==
    /\ app.op = "logout"
    /\ Goto("dropAccess")
    /\ UNCHANGED <<tokenVars, keychain, promise, areq, raced>>

(***************************************************************************)
(* Requests and the refresh they share.                                    *)
(***************************************************************************)
AppSend(r) ==
    /\ app.user
    /\ areq[r].pc = "settled"
    /\ areq' = [areq EXCEPT ![r] = [pc |-> "sent", access |-> keychain.access]]
    /\ UNCHANGED <<tokenVars, keychain, app, promise, raced>>

AppOk(r) ==
    /\ areq[r].pc \in {"sent", "resent"}
    /\ areq[r].access = "good"
    /\ areq' = [areq EXCEPT ![r] = Answered]
    /\ UNCHANGED <<tokenVars, keychain, app, promise, raced>>

App401(r) ==
    /\ areq[r].pc \in {"sent", "resent"}
    /\ areq[r].access # "good"
    /\ IF areq[r].pc = "sent"       \* not _retried
       THEN /\ areq' = [areq EXCEPT ![r].pc = "waiting"]
            /\ promise' = IF promise.pc = "idle" THEN [promise EXCEPT !.pc = "read"]
                                                 ELSE promise
       ELSE /\ areq' = [areq EXCEPT ![r] = Answered]
            /\ UNCHANGED promise
    /\ raced' = (raced \/ app.op \in {"dropAccess", "dropRefresh", "dropUser"})
    /\ UNCHANGED <<tokenVars, keychain, app>>

\* 15 s pass without an answer, or the server cannot be reached.
AppTimeout(r) ==
    /\ areq[r].pc \in {"sent", "resent"}
    /\ OnlyFault
    /\ areq' = [areq EXCEPT ![r] = Answered]
    /\ UNCHANGED <<keychain, app, promise, raced>>

\* The promise settles and is forgotten; those who waited send again with the
\* token stored by now, or fail.
SettlePromise(ok, access) ==
    /\ promise' = NoPromise
    /\ areq' = [r \in AppRequests |->
                  IF areq[r].pc # "waiting" THEN areq[r]
                  ELSE IF ok THEN [pc |-> "resent", access |-> access]
                             ELSE Answered]

PromiseRead ==
    /\ promise.pc = "read"
    /\ IF keychain.refresh = NoToken
       THEN SettlePromise(FALSE, "none") /\ UNCHANGED call
       ELSE /\ PostRefresh(Phone, keychain.refresh)
            /\ promise' = [promise EXCEPT !.pc = "posted"]
            /\ UNCHANGED areq
    /\ UNCHANGED <<row, recent, faults, events, over, keychain, app, raced>>

PromiseAnswered ==
    /\ promise.pc = "posted"
    /\ call[Phone].pc = "answered"
    /\ call' = [call EXCEPT ![Phone] = Idle]
    /\ IF call[Phone].status = "200"
       THEN /\ promise' = [pc |-> "saveAccess", tok |-> call[Phone].tok]
            /\ UNCHANGED areq
       ELSE SettlePromise(FALSE, "none")
    /\ UNCHANGED <<row, recent, faults, events, over, keychain, app, raced>>

PromiseSaveAccess ==
    /\ promise.pc = "saveAccess"
    /\ \/ /\ NoFault
          /\ keychain' = [keychain EXCEPT !.access = "good"]
          /\ promise' = [promise EXCEPT !.pc = "saveRefresh"]
          /\ UNCHANGED areq
       \/ OnlyFault /\ SettlePromise(FALSE, "none") /\ UNCHANGED keychain
    /\ UNCHANGED <<app, raced>>

\* A deviation: the rotated token is not written back.
OldPair(tok) == keychain

NewPair(tok) == [keychain EXCEPT !.refresh = tok]

PromiseSaveRefresh ==
    /\ promise.pc = "saveRefresh"
    /\ \/ /\ NoFault
          /\ keychain' = NewPair(promise.tok)
          /\ SettlePromise(TRUE, keychain.access)
       \/ OnlyFault /\ SettlePromise(FALSE, "none") /\ UNCHANGED keychain
    /\ UNCHANGED <<app, raced>>

(***************************************************************************)
(* The system around the app.                                              *)
(***************************************************************************)

\* The stored access token's 30 minutes pass.
PhoneAccessExpires ==
    /\ keychain.access = "good"
    /\ Event
    /\ keychain' = [keychain EXCEPT !.access = "stale"]
    /\ UNCHANGED <<row, recent, call, faults, over, app, promise, areq, raced>>

\* The app is killed and started again.
PhoneKilled ==
    /\ call[Phone].pc \in {"idle", "answered"}
    /\ Fault
    /\ call' = [call EXCEPT ![Phone] = Idle]
    /\ app' = Launched
    /\ promise' = NoPromise
    /\ areq' = [r \in AppRequests |-> Answered]
    /\ UNCHANGED <<row, recent, events, over, keychain, raced>>

PhoneServer == RefreshStep(Phone) /\ UNCHANGED phoneVars

PhoneEnvironment ==
    /\ \/ AnswerLost(Phone) \/ RevokeAllRefreshes \/ LeewayPasses
       \/ \E k \in Tokens : TokenExpires(k)
    /\ UNCHANGED phoneVars

PhoneOperation ==
    \/ HydrateRead \/ HydrateMe \/ HydrateSaveUser
    \/ DropAccess \/ DropRefresh \/ DropUser
    \/ PhoneLoginAnswered \/ LoginSaveAccess \/ LoginSaveRefresh \/ LoginSaveUser
    \/ PhoneLogoutAnswered

PhonePromise ==
    PromiseRead \/ PromiseAnswered \/ PromiseSaveAccess \/ PromiseSaveRefresh

PhoneUser ==
    \/ PhoneLogin \/ PhoneLogout \/ PhoneKilled \/ PhoneAccessExpires
    \/ \E r \in AppRequests : AppSend(r) \/ AppTimeout(r)

PhoneNext ==
    \/ PhoneServer \/ PhoneEnvironment \/ PhoneOperation \/ PhonePromise
    \/ PhoneUser
    \/ \E r \in AppRequests : AppOk(r) \/ App401(r)

\* The server serves, the keychain answers and started promises run on.
PhoneFairness ==
    /\ WF_<<tokenVars, phoneVars>>(device = "phone" /\ PhoneServer)
    /\ WF_<<tokenVars, phoneVars>>(device = "phone" /\ PhoneOperation)
    /\ WF_<<tokenVars, phoneVars>>(device = "phone" /\ PhonePromise)
    /\ \A r \in AppRequests :
        WF_<<tokenVars, phoneVars>>(device = "phone" /\ (AppOk(r) \/ App401(r)))

(***************************************************************************)
(* Properties.                                                             *)
(***************************************************************************)

\* The phone never presents a token it has itself rotated away, so it does
\* not set off the reuse detection against its own user: requests share one
\* refresh, and its pair is stored before the next one starts.
NoSelfReuse ==
    (faults = 0 /\ ~over /\ call[Phone].pc = "sent")
        => row[call[Phone].tok].st # "revoked"

\* A phone that shows the login screen holds no credentials, unless a refresh
\* wrote them back while they were deleted (logout and hydrate of authStore).
SignedOutHoldsNothing ==
    (app.op = "idle" /\ app.checked /\ ~app.user /\ faults = 0 /\ ~raced)
        => keychain = [access |-> "none", refresh |-> NoToken, user |-> FALSE]

\* The splash screen is left: whatever the keychain and the server do,
\* hydrate ends with checked set (the guard of _layout.tsx).
LeavesSplash == (app.op = "hydrate") ~> app.checked

\* Every request of a screen is answered or rejected (client.ts).
AppRequestsSettle ==
    \A r \in AppRequests : areq[r].pc # "settled" ~> areq[r].pc = "settled"
==============================================================================
