----------------------------- MODULE SessionProofs -----------------------------
(***************************************************************************)
(* Proofs about the sessions of a browser with any number of tabs and      *)
(* requests, or of a phone with any number of requests, for any number of  *)
(* tokens, faults and events.                                              *)
(***************************************************************************)
EXTENDS Sessions, RefreshTokensProofs

TabState == [user : BOOLEAN, checked : BOOLEAN, auth : AuthCalls,
             access : BOOLEAN, refresh : 0..MaxTokens, quiet : BOOLEAN]
ReqState == [pc : {"settled", "sent", "waiting", "resent"}, access : BOOLEAN]
JarState == [access : BOOLEAN, refresh : 0..MaxTokens]

-----------------------------------------------------------------------------
(* Types, and the tokens that are held are tokens that were stored.        *)

HeldByWeb ==
    /\ jar.refresh \in Stored \cup {0}
    /\ \A b \in Tabs : tab[b].refresh \in Stored \cup {0}

HeldByPhone ==
    /\ keychain.refresh \in Stored \cup {0}
    /\ app.tok \in Stored \cup {0}
    /\ promise.tok \in Stored \cup {0}

\* The device that is not used makes no calls.
Away ==
    /\ device = "browser" => /\ \A c \in Callers \ Tabs : call[c].pc = "idle"
                             /\ app = Launched
    /\ device = "phone" => /\ \A c \in Callers \ {Phone} : call[c].pc = "idle"
                           /\ loggedOut = {}

Base ==
    /\ TableInv
    /\ CallsHold
    /\ CounterTypes
    /\ WebTypeOK /\ HeldByWeb
    /\ PhoneTypeOK /\ HeldByPhone
    /\ Away

\* Counters only grow.
Onward ==
    /\ CounterTypes'
    /\ faults' = 0 => faults = 0
    /\ ~over' => ~over

\* A logout request under way carries what it carried.
LogoutsKept ==
    \A b \in Tabs : tab'[b].auth = "logout" /\ tab'[b].quiet
        => /\ tab[b].auth = "logout" /\ tab[b].quiet
           /\ tab'[b].refresh = tab[b].refresh

WebBase == TableInv /\ CallsHold /\ CounterTypes /\ WebTypeOK /\ HeldByWeb

WebKeeps ==
    /\ BaseStep
    /\ Onward
    /\ WebTypeOK' /\ HeldByWeb'

LEMMA WebTypes ==
    WebTypeOK <=> /\ jar \in JarState
                  /\ tab \in [Tabs -> TabState]
                  /\ req \in [Requests -> ReqState]
                  /\ tabOf \in [Requests -> Tabs]
                  /\ loggedOut \subseteq Tokens
BY DEF WebTypeOK, JarState, TabState, ReqState

LEMMA CounterFacts ==
    ASSUME CounterTypes
    PROVE  /\ (UNCHANGED <<faults, events, over, device>>) => Onward
           /\ (Fault /\ UNCHANGED <<events, over, device>>) => Onward /\ faults' # 0
           /\ (Event /\ UNCHANGED <<faults, over, device>>) => Onward
           /\ (Event /\ over' = TRUE /\ UNCHANGED <<faults, device>>) => Onward
<1>1. MaxFaults \in Nat /\ MaxEvents \in Nat
    BY RefreshTokensAssumption
<1>2. (UNCHANGED <<faults, events, over, device>>) => Onward
    BY DEF CounterTypes, Onward
<1>3. ASSUME Fault, UNCHANGED <<events, over, device>> PROVE Onward /\ faults' # 0
    <2>1. faults' # 0 /\ faults' \in 0..MaxFaults
        BY <1>1, <1>3 DEF CounterTypes, Fault
    <2>2. QED
        BY <1>3, <2>1 DEF CounterTypes, Onward
<1>4. ASSUME Event, UNCHANGED <<faults, device>>, over' = over \/ over' = TRUE
      PROVE  Onward
    <2>1. events' \in 0..MaxEvents
        BY <1>1, <1>4 DEF CounterTypes, Event
    <2>2. CASE over' = over
        BY <1>4, <2>1, <2>2 DEF CounterTypes, Onward
    <2>3. CASE over' = TRUE
        BY <1>4, <2>1, <2>3 DEF CounterTypes, Onward
    <2>4. QED
        BY <1>4, <2>2, <2>3
<1>5. (Event /\ UNCHANGED <<faults, over, device>>) => Onward
    BY <1>4
<1>6. (Event /\ over' = TRUE /\ UNCHANGED <<faults, device>>) => Onward
    BY <1>4
<1>7. QED
    BY <1>2, <1>3, <1>5, <1>6

\* The tab b becomes p.
TabBecomes(b, p) ==
    /\ p \in TabState
    /\ tab' \in [Tabs -> TabState]
    /\ tab'[b] = p
    /\ \A t \in Tabs : t # b => tab'[t] = tab[t]

LEMMA TabFacts ==
    ASSUME WebTypeOK, NEW b \in Tabs, NEW p \in TabState, tab' = [tab EXCEPT ![b] = p]
    PROVE  TabBecomes(b, p)
BY WebTypes DEF TabBecomes

LEMMA SignedInFacts ==
    ASSUME NEW user \in BOOLEAN
    PROVE  /\ SignedIn(user) \in TabState
           /\ SignedIn(user).auth = "idle" /\ SignedIn(user).refresh = 0
           /\ ~SignedIn(user).quiet
<1>1. 0 \in 0..MaxTokens
    BY RefreshTokensAssumption
<1>2. QED
    BY <1>1 DEF SignedIn, TabState, AuthCalls, NoToken

\* A tab that sends no logout keeps the logouts.
LEMMA TabKeeps ==
    ASSUME WebTypeOK, HeldByWeb, NEW b \in Tabs, NEW p, TabBecomes(b, p),
           p.auth # "logout", p.refresh \in {tab[b].refresh, 0}
    PROVE  /\ LogoutsKept
           /\ \A t \in Tabs : tab'[t].refresh \in Stored \cup {0}
BY DEF TabBecomes, LogoutsKept, HeldByWeb

LEMMA SameTabs ==
    ASSUME HeldByWeb, tab' = tab
    PROVE  /\ LogoutsKept
           /\ \A t \in Tabs : tab'[t].refresh \in Stored \cup {0}
BY DEF LogoutsKept, HeldByWeb

\* The steps of the browser that change no row and no call.
LEMMA WebSameBase ==
    ASSUME WebBase, UNCHANGED <<row, recent, call>>, Onward, WebTypeOK',
           jar'.refresh \in {jar.refresh, 0},
           \A t \in Tabs : tab'[t].refresh \in Stored \cup {0}
    PROVE  WebKeeps
<1>1. BaseStep /\ Stored' = Stored
    BY SameBase DEF WebBase
<1>2. HeldByWeb'
    BY <1>1 DEF WebBase, HeldByWeb
<1>3. QED
    BY <1>1, <1>2 DEF WebKeeps

-----------------------------------------------------------------------------
(* The browser: requests.                                                  *)

LEMMA WebRequestBase ==
    ASSUME WebBase, NEW r \in Requests,
           WebSend(r) \/ WebOk(r) \/ WebUnreachable(r), device' = device
    PROVE  WebKeeps /\ LogoutsKept
<1>1. /\ UNCHANGED <<row, recent, call, jar, tab, loggedOut, tabOf>>
      /\ \/ UNCHANGED <<faults, events, over>>
         \/ Fault /\ UNCHANGED <<events, over>>
    BY DEF WebSend, WebOk, WebUnreachable, tokenVars
<1>2. Onward
    BY <1>1, CounterFacts DEF WebBase
<1>3. \E q \in ReqState : req' = [req EXCEPT ![r] = q]
    <2>1. Settled \in ReqState
        BY DEF Settled, ReqState
    <2>2. [pc |-> "sent", access |-> jar.access] \in ReqState
        BY WebTypes DEF WebBase, ReqState, JarState
    <2>3. QED
        BY <2>1, <2>2 DEF WebSend, WebOk, WebUnreachable
<1>4. WebTypeOK'
    BY <1>1, <1>3, WebTypes DEF WebBase, WebTypeOK, ReqState
<1>5. QED
    BY <1>1, <1>2, <1>4, WebSameBase, SameTabs DEF WebBase

LEMMA PostFacts ==
    ASSUME TableTypes, NEW c \in Callers, NEW tok \in 0..MaxTokens, PostRefresh(c, tok)
    PROVE  \E q \in CallState : CallBecomes(c, q) /\ q.pc = "sent" /\ q.tok = tok
<1> DEFINE q == [Idle EXCEPT !.pc = "sent", !.tok = tok]
<1>1. Idle \in CallState
    BY RefreshTokensAssumption DEF Idle, CallState, NoToken
<1>2. q \in CallState /\ q.pc = "sent" /\ q.tok = tok
    BY <1>1 DEF CallState
<1>3. call' = [call EXCEPT ![c] = q]
    BY DEF PostRefresh
<1> HIDE DEF q
<1>4. QED
    BY <1>2, <1>3, BecomesFacts

LEMMA IdleFacts == Idle \in CallState /\ Idle.pc = "idle" /\ Idle.tok = 0
BY RefreshTokensAssumption DEF Idle, CallState, NoToken

\* A 401 starts the tab's refresh, joins it, or ends the request.
LEMMA Web401Moves ==
    ASSUME WebBase, NEW r \in Requests, Web401(r)
    PROVE  /\ tabOf[r] \in Tabs /\ tabOf[r] \in Callers
           /\ UNCHANGED <<row, recent, jar, loggedOut, faults, events, over>>
           /\ \/ UNCHANGED <<call, tab>>
              \/ /\ call[tabOf[r]].pc = "idle"
                 /\ \E q \in CallState : /\ CallBecomes(tabOf[r], q)
                                         /\ q.pc = "sent" /\ q.tok = jar.refresh
                 /\ tab' \in [Tabs -> TabState]
                 /\ \A b \in Tabs : tab'[b].refresh = tab[b].refresh /\ ~tab'[b].quiet
           /\ \E q \in ReqState : req' = [req EXCEPT ![r] = q]
           /\ tabOf' = tabOf
<1>1. /\ tabOf[r] \in Tabs /\ tabOf[r] \in Callers /\ jar.refresh \in 0..MaxTokens
      /\ TableTypes /\ tab \in [Tabs -> TabState] /\ req[r] \in ReqState
    BY WebTypes, WebSessionAssumption DEF WebBase, JarState, TableInv
<1>2. UNCHANGED <<row, recent, jar, loggedOut, faults, events, over, tabOf>>
    BY DEF Web401
<1>3. \/ UNCHANGED <<call, tab>>
      \/ /\ call[tabOf[r]].pc = "idle"
         /\ PostRefresh(tabOf[r], jar.refresh)
         /\ tab' = [u \in Tabs |-> [tab[u] EXCEPT !.quiet = FALSE]]
    BY DEF Web401, RefreshSession
<1>4. ASSUME tab' = [u \in Tabs |-> [tab[u] EXCEPT !.quiet = FALSE]]
      PROVE  /\ tab' \in [Tabs -> TabState]
             /\ \A b \in Tabs : tab'[b].refresh = tab[b].refresh /\ ~tab'[b].quiet
    <2>1. \A b \in Tabs : LET p == [tab[b] EXCEPT !.quiet = FALSE]
                          IN  p \in TabState /\ p.refresh = tab[b].refresh /\ ~p.quiet
        BY <1>1 DEF TabState
    <2>2. QED
        BY <1>4, <2>1
<1>5. \E q \in ReqState : req' = [req EXCEPT ![r] = q]
    <2>1. Settled \in ReqState
        BY DEF Settled, ReqState
    <2>2. [req[r] EXCEPT !.pc = "waiting"] \in ReqState
        BY <1>1 DEF ReqState
    <2>3. \/ req' = [req EXCEPT ![r] = Settled]
          \/ req' = [req EXCEPT ![r] = [req[r] EXCEPT !.pc = "waiting"]]
        BY DEF Web401
    <2>4. QED
        BY <2>1, <2>2, <2>3
<1>6. QED
    BY <1>1, <1>2, <1>3, <1>4, <1>5, PostFacts

LEMMA Web401Base ==
    ASSUME WebBase, NEW r \in Requests, Web401(r), device' = device
    PROVE  WebKeeps /\ LogoutsKept
<1>1. /\ tabOf[r] \in Callers
      /\ UNCHANGED <<row, recent, jar, loggedOut, faults, events, over, tabOf>>
      /\ \E q \in ReqState : req' = [req EXCEPT ![r] = q]
    BY Web401Moves
<1>2. Onward
    BY <1>1, CounterFacts DEF WebBase
<1>3. req' \in [Requests -> ReqState]
    BY <1>1, WebTypes DEF WebBase
<1>4. CASE UNCHANGED <<call, tab>>
    <2>1. WebTypeOK'
        BY <1>1, <1>3, <1>4 DEF WebBase, WebTypeOK, ReqState
    <2>2. QED
        BY <1>1, <1>2, <1>4, <2>1, WebSameBase, SameTabs DEF WebBase
<1>5. CASE /\ \E q \in CallState : /\ CallBecomes(tabOf[r], q)
                                    /\ q.pc = "sent" /\ q.tok = jar.refresh
           /\ tab' \in [Tabs -> TabState]
           /\ \A b \in Tabs : tab'[b].refresh = tab[b].refresh /\ ~tab'[b].quiet
    <2>1. BaseStep /\ Stored' = Stored
        BY <1>1, <1>5, CallBase DEF WebBase, HeldByWeb
    <2>2. WebTypeOK'
        BY <1>1, <1>3, <1>5 DEF WebBase, WebTypeOK, ReqState, TabState
    <2>3. HeldByWeb' /\ LogoutsKept
        BY <1>1, <1>5, <2>1 DEF WebBase, HeldByWeb, LogoutsKept
    <2>4. QED
        BY <1>2, <2>1, <2>2, <2>3 DEF WebKeeps
<1>6. QED
    BY <1>4, <1>5, Web401Moves

\* A refresh settles: its tab forgets the call.
LEMMA SettlesMoves ==
    ASSUME WebBase, NEW b \in Tabs, WebRefreshSettles(b)
    PROVE  /\ b \in Callers /\ call[b].pc = "answered"
           /\ CallBecomes(b, Idle)
           /\ UNCHANGED <<row, recent, tab, loggedOut, faults, events, over>>
           /\ jar'.refresh = IF call[b].cookies = "set" THEN call[b].tok
                             ELSE IF call[b].cookies = "clear" THEN 0 ELSE jar.refresh
           /\ WebTypeOK'
<1>1. /\ b \in Callers /\ TableTypes /\ call[b] \in CallState /\ jar \in JarState
    BY WebTypes, WebSessionAssumption DEF WebBase, TableInv, TableTypes
<1>2. CallBecomes(b, Idle)
    BY <1>1, IdleFacts, BecomesFacts DEF WebRefreshSettles
<1>3. /\ jar' \in JarState
      /\ jar'.refresh = IF call[b].cookies = "set" THEN call[b].tok
                        ELSE IF call[b].cookies = "clear" THEN 0 ELSE jar.refresh
    <2>1. call[b].tok \in 0..MaxTokens /\ 0 \in 0..MaxTokens
          /\ call[b].cookies \in {"keep", "clear", "set"}
        BY <1>1, RefreshTokensAssumption DEF CallState
    <2>2. jar' = JarAfter(b)
        BY DEF WebRefreshSettles
    <2>3. CASE call[b].cookies = "set"
        <3>1. jar' = [access |-> TRUE, refresh |-> call[b].tok]
            BY <2>2, <2>3 DEF JarAfter
        <3>2. QED
            BY <2>1, <2>3, <3>1 DEF JarState
    <2>4. CASE call[b].cookies = "clear"
        <3>1. jar' = [access |-> FALSE, refresh |-> 0]
            BY <2>2, <2>4 DEF JarAfter, EmptyJar, NoToken
        <3>2. QED
            BY <2>1, <2>4, <3>1 DEF JarState
    <2>5. CASE call[b].cookies = "keep"
        <3>1. jar' = jar
            BY <2>2, <2>5 DEF JarAfter
        <3>2. QED
            BY <1>1, <2>5, <3>1
    <2>6. QED
        BY <2>1, <2>3, <2>4, <2>5
<1>4. req' \in [Requests -> ReqState]
    <2>1. jar'.access \in BOOLEAN
        BY <1>3 DEF JarState
    <2>2. \A r \in Requests, ok \in BOOLEAN : Woken(r, ok, jar'.access) \in ReqState
        BY <2>1 DEF Woken, Settled, ReqState
    <2>3. \A r \in Requests : req[r] \in ReqState
        BY WebTypes DEF WebBase
    <2>4. QED
        BY <2>2, <2>3 DEF WebRefreshSettles
<1>5. UNCHANGED <<row, recent, tab, loggedOut, faults, events, over, tabOf>>
    BY DEF WebRefreshSettles
<1>6. WebTypeOK'
    BY <1>3, <1>4, <1>5 DEF WebBase, WebTypeOK, JarState, ReqState
<1>7. QED
    BY <1>1, <1>2, <1>3, <1>5, <1>6 DEF WebRefreshSettles

LEMMA SettlesBase ==
    ASSUME WebBase, NEW b \in Tabs, WebRefreshSettles(b), device' = device
    PROVE  WebKeeps /\ LogoutsKept
<1>1. Onward
    BY SettlesMoves, CounterFacts DEF WebBase
<1>2. BaseStep /\ Stored' = Stored
    BY SettlesMoves, CallBase, IdleFacts DEF WebBase
<1>3. HeldByWeb' /\ LogoutsKept
    <2>1. b \in Callers /\ call[b].tok \in Stored \cup {0}
        BY SettlesMoves DEF WebBase, CallsHold
    <2>2. QED
        BY <1>2, <2>1, SettlesMoves DEF WebBase, HeldByWeb, LogoutsKept
<1>4. QED
    BY <1>1, <1>2, <1>3, SettlesMoves DEF WebKeeps

-----------------------------------------------------------------------------
(* The browser: the session store.                                         *)

\* The steps of one tab: it becomes p, which is no logout.
LEMMA TabBase ==
    ASSUME WebBase, NEW b \in Tabs, NEW p \in TabState,
           tab' = [tab EXCEPT ![b] = p],
           p.auth # "logout", p.refresh \in {tab[b].refresh, 0},
           UNCHANGED <<row, recent, call, req, loggedOut, tabOf>>,
           jar' \in JarState, jar'.refresh \in {jar.refresh, 0},
           Onward
    PROVE  WebKeeps /\ LogoutsKept
<1>1. TabBecomes(b, p)
    BY TabFacts DEF WebBase
<1>2. WebTypeOK'
    BY <1>1 DEF WebBase, WebTypeOK, TabBecomes, TabState, JarState
<1>3. LogoutsKept /\ \A t \in Tabs : tab'[t].refresh \in Stored \cup {0}
    BY <1>1, TabKeeps DEF WebBase
<1>4. QED
    BY <1>2, <1>3, WebSameBase

\* Changes of a tab that keep its token.
LEMMA TabEdits ==
    ASSUME NEW p \in TabState
    PROVE  /\ \A a \in AuthCalls :
                 LET e == [p EXCEPT !.auth = a]
                 IN  e \in TabState /\ e.auth = a /\ e.refresh = p.refresh
                     /\ (e.quiet <=> p.quiet)
           /\ \A a \in AuthCalls, x \in BOOLEAN :
                 LET e == [p EXCEPT !.auth = a, !.access = x]
                 IN  e \in TabState /\ e.auth = a /\ e.refresh = p.refresh
           /\ LET e == [p EXCEPT !.checked = FALSE]
              IN  e \in TabState /\ e.auth = p.auth /\ e.refresh = p.refresh
BY DEF TabState

LEMMA WebReloadBase ==
    ASSUME WebBase, NEW b \in Tabs, WebReload(b), device' = device
    PROVE  WebKeeps /\ LogoutsKept
<1> DEFINE p == [SignedIn(FALSE) EXCEPT !.checked = FALSE]
<1>1. p \in TabState /\ p.auth = "idle" /\ p.refresh = 0
    BY SignedInFacts, TabEdits
<1>2. tab' = [tab EXCEPT ![b] = p]
    BY DEF WebReload
<1> HIDE DEF p
<1>3. Onward /\ jar' \in JarState /\ jar'.refresh = jar.refresh
    BY CounterFacts, WebTypes DEF WebBase, WebReload
<1>4. QED
    BY <1>1, <1>2, <1>3, TabBase DEF WebReload

LEMMA WebCheckBase ==
    ASSUME WebBase, NEW b \in Tabs, WebCheck(b), device' = device
    PROVE  WebKeeps /\ LogoutsKept
<1> DEFINE p == [tab[b] EXCEPT !.auth = "me", !.access = jar.access]
<1>1. tab[b] \in TabState /\ jar.access \in BOOLEAN /\ jar \in JarState
    BY WebTypes DEF WebBase, JarState
<1>2. p \in TabState /\ p.auth = "me" /\ p.refresh = tab[b].refresh
    BY <1>1 DEF TabState, AuthCalls
<1>3. tab' = [tab EXCEPT ![b] = p]
    BY DEF WebCheck
<1> HIDE DEF p
<1>4. Onward /\ jar' = jar
    BY CounterFacts DEF WebBase, WebCheck, tokenVars
<1>5. QED
    BY <1>1, <1>2, <1>3, <1>4, TabBase DEF WebCheck, tokenVars

LEMMA WebCheckedBase ==
    ASSUME WebBase, NEW b \in Tabs, WebChecked(b), device' = device
    PROVE  WebKeeps /\ LogoutsKept
<1>1. tab[b].access \in BOOLEAN /\ jar \in JarState
    BY WebTypes DEF WebBase, TabState
<1>2. PICK user \in BOOLEAN : tab' = [tab EXCEPT ![b] = SignedIn(user)]
    BY <1>1 DEF WebChecked
<1>3. Onward /\ jar' = jar
    BY CounterFacts DEF WebBase, WebChecked
<1>4. QED
    BY <1>1, <1>2, <1>3, SignedInFacts, TabBase DEF WebChecked

LEMMA WebLoginBase ==
    ASSUME WebBase, NEW b \in Tabs, WebLogin(b), device' = device
    PROVE  WebKeeps /\ LogoutsKept
<1> DEFINE p == [tab[b] EXCEPT !.auth = "login"]
<1>1. tab[b] \in TabState /\ jar \in JarState
    BY WebTypes DEF WebBase
<1>2. p \in TabState /\ p.auth = "login" /\ p.refresh = tab[b].refresh
    BY <1>1, TabEdits DEF AuthCalls
<1>3. tab' = [tab EXCEPT ![b] = p]
    BY DEF WebLogin
<1> HIDE DEF p
<1>4. Onward /\ jar' = jar
    BY CounterFacts DEF WebBase, WebLogin
<1>5. QED
    BY <1>1, <1>2, <1>3, <1>4, TabBase DEF WebLogin

\* The login is refused, or it begins with the next token in the jar.
LEMMA WebLoginAnsweredBase ==
    ASSUME WebBase, NEW b \in Tabs, WebLoginAnswered(b), device' = device
    PROVE  WebKeeps /\ LogoutsKept
<1>1. Onward /\ jar \in JarState /\ UNCHANGED <<call, req, loggedOut, tabOf>>
    BY CounterFacts, WebTypes DEF WebBase, WebLoginAnswered
<1>2. CASE /\ CanMint /\ Store(0)
           /\ jar' = [access |-> TRUE, refresh |-> Next1]
           /\ tab' = [tab EXCEPT ![b] = SignedIn(TRUE)]
    <2>1. BaseStep /\ Stored' = Stored \cup {Next1}
        BY <1>1, <1>2, BeginBase DEF WebBase
    <2>2. TabBecomes(b, SignedIn(TRUE))
        BY <1>2, SignedInFacts, TabFacts DEF WebBase
    <2>3. LogoutsKept /\ \A t \in Tabs : tab'[t].refresh \in Stored \cup {0}
        BY <2>2, SignedInFacts, TabKeeps DEF WebBase
    <2>4. Next1 \in 0..MaxTokens
        BY <1>2, MintFacts DEF Tokens, WebBase
    <2>5. jar' \in JarState /\ jar'.refresh = Next1
        BY <1>2, <2>4 DEF JarState
    <2>6. WebTypeOK'
        BY <1>1, <2>2, <2>5 DEF WebBase, WebTypeOK, TabBecomes, TabState, JarState
    <2>7. HeldByWeb'
        BY <2>1, <2>3, <2>5 DEF HeldByWeb
    <2>8. QED
        BY <1>1, <2>1, <2>3, <2>6, <2>7 DEF WebKeeps
<1>3. CASE tab' = [tab EXCEPT ![b] = SignedIn(FALSE)] /\ UNCHANGED <<row, recent, jar>>
    BY <1>1, <1>3, SignedInFacts, TabBase
<1>4. QED
    BY <1>2, <1>3 DEF WebLoginAnswered

\* The logout request carries the jar's token.
LEMMA WebLogoutMoves ==
    ASSUME WebBase, NEW b \in Tabs, WebLogout(b)
    PROVE  \E p \in TabState : /\ TabBecomes(b, p)
                               /\ p.auth = "logout" /\ p.refresh = jar.refresh
                               /\ p.quiet <=> (Refreshing = {})
<1> DEFINE qu == Refreshing = {}
           p == [tab[b] EXCEPT !.auth = "logout", !.access = jar.access,
                               !.refresh = jar.refresh, !.quiet = qu]
<1>1. /\ tab[b] \in TabState /\ jar.access \in BOOLEAN /\ jar.refresh \in 0..MaxTokens
      /\ qu \in BOOLEAN
    BY WebTypes DEF WebBase, JarState
<1>2. tab' = [tab EXCEPT ![b] = p]
    BY DEF WebLogout
<1> HIDE DEF qu
<1>3. p \in TabState /\ p.auth = "logout" /\ p.refresh = jar.refresh /\ p.quiet = qu
    BY <1>1 DEF TabState, AuthCalls
<1> HIDE DEF p
<1>4. TabBecomes(b, p)
    BY <1>2, <1>3, TabFacts DEF WebBase
<1>5. QED
    BY <1>3, <1>4 DEF qu

LEMMA WebLogoutBase ==
    ASSUME WebBase, NEW b \in Tabs, WebLogout(b), device' = device
    PROVE  WebKeeps
<1>1. PICK p \in TabState : TabBecomes(b, p) /\ p.refresh = jar.refresh
    BY WebLogoutMoves
<1>2. Onward
    BY CounterFacts DEF WebBase, WebLogout
<1>3. WebTypeOK'
    BY <1>1 DEF WebBase, WebTypeOK, TabBecomes, TabState, WebLogout
<1>4. \A t \in Tabs : tab'[t].refresh \in Stored \cup {0}
    BY <1>1 DEF WebBase, HeldByWeb, TabBecomes
<1>5. QED
    BY <1>2, <1>3, <1>4, WebSameBase DEF WebLogout

LEMMA LogoutServedBase ==
    ASSUME WebBase, NEW b \in Tabs, LogoutServed(b), device' = device
    PROVE  WebKeeps /\ LogoutsKept
<1>1. tab[b] \in TabState /\ jar \in JarState
    BY WebTypes DEF WebBase
<1>2. PICK a \in {"loggedOut", "refused"} : tab' = [tab EXCEPT ![b].auth = a]
    BY DEF LogoutServed
<1> DEFINE p == [tab[b] EXCEPT !.auth = a]
<1>3. p \in TabState /\ p.auth = a /\ p.refresh = tab[b].refresh
    BY <1>1, <1>2 DEF TabState, AuthCalls
<1>4. tab' = [tab EXCEPT ![b] = p]
    BY <1>2
<1> HIDE DEF p
<1>5. TabBecomes(b, p)
    BY <1>3, <1>4, TabFacts DEF WebBase
<1>6. LogoutsKept /\ \A t \in Tabs : tab'[t].refresh \in Stored \cup {0}
    BY <1>3, <1>5, TabKeeps DEF WebBase
<1>7. UNCHANGED <<recent, call, faults, events, jar, req, tabOf>>
    BY DEF LogoutServed
<1>8. BaseStep /\ Stored' = Stored
    <2>1. (row' = Revoke({tab[b].refresh})) \/ row' = row
        BY DEF LogoutServed, RevokesPresented
    <2>2. QED
        BY <1>7, <2>1, RevokeBase, SameBase DEF WebBase
<1>9. over' = TRUE \/ over' = over
    BY DEF LogoutServed
<1>10. Onward
    <2>1. CASE over' = over
        BY <1>7, <2>1, CounterFacts DEF WebBase
    <2>2. CASE over' = TRUE
        BY <1>7, <2>2 DEF WebBase, CounterTypes, Onward
    <2>3. QED
        BY <1>9, <2>1, <2>2
<1>11. loggedOut' \subseteq Tokens
    <2>1. \A k \in {tab[b].refresh} \cap Tokens : row[k].login \in Tokens
        <3> SUFFICES ASSUME NEW k \in {tab[b].refresh} \cap Tokens
                     PROVE  row[k].login \in Tokens
            OBVIOUS
        <3>1. 0 \notin Tokens
            BY DEF Tokens
        <3>2. k \in Stored
            BY <3>1 DEF WebBase, HeldByWeb
        <3>3. QED
            BY <3>2 DEF WebBase, TableInv, Numbered, Stored
    <2>2. QED
        BY <2>1 DEF LogoutServed, WebBase, WebTypeOK
<1>12. WebTypeOK'
    BY <1>5, <1>7, <1>11 DEF WebBase, WebTypeOK, TabBecomes, TabState
<1>13. HeldByWeb'
    BY <1>6, <1>7, <1>8 DEF HeldByWeb, WebBase
<1>14. QED
    BY <1>6, <1>8, <1>10, <1>12, <1>13 DEF WebKeeps

LEMMA WebLoggedOutBase ==
    ASSUME WebBase, NEW b \in Tabs, WebLoggedOut(b), device' = device
    PROVE  WebKeeps /\ LogoutsKept
<1>1. EmptyJar \in JarState /\ EmptyJar.refresh = 0 /\ jar \in JarState
    BY RefreshTokensAssumption, WebTypes DEF EmptyJar, JarState, NoToken, WebBase
<1>2. jar' \in JarState /\ jar'.refresh \in {jar.refresh, 0}
    BY <1>1 DEF WebLoggedOut
<1>3. Onward
    BY CounterFacts DEF WebBase, WebLoggedOut, tokenVars
<1>4. QED
    BY <1>2, <1>3, SignedInFacts, TabBase DEF WebLoggedOut, tokenVars

LEMMA AccessExpiresBase ==
    ASSUME WebBase, AccessExpires, device' = device
    PROVE  WebKeeps /\ LogoutsKept
<1>1. jar \in JarState
    BY WebTypes DEF WebBase
<1>2. jar' \in JarState /\ jar'.refresh = jar.refresh
    BY <1>1 DEF AccessExpires, JarState
<1>3. Onward
    BY CounterFacts DEF WebBase, AccessExpires
<1>4. WebTypeOK'
    BY <1>2 DEF WebBase, WebTypeOK, JarState, AccessExpires
<1>5. QED
    BY <1>2, <1>3, <1>4, WebSameBase, SameTabs DEF WebBase, AccessExpires

\* The steps of the server and of the clocks, which no client sees.
Unseen(C) ==
    \/ \E c \in C : RefreshStep(c) \/ AnswerLost(c)
    \/ RevokeAllRefreshes \/ LeewayPasses
    \/ \E t \in Tokens : TokenExpires(t)

LEMMA UnseenBase ==
    ASSUME TableInv, CallsHold, CounterTypes, Unseen(Callers), device' = device
    PROVE  BaseStep /\ Onward
<1>1. CASE \E c \in Callers : RefreshStep(c)
    <2>1. PICK c \in Callers : RefreshStep(c)
        BY <1>1
    <2>2. BaseStep
        BY <2>1, RefreshBase
    <2>3. UNCHANGED <<events, over>> /\ faults' \in 0..MaxFaults /\ (faults' = 0 => faults = 0)
        BY <2>1, RefreshMoves
    <2>4. QED
        BY <2>2, <2>3 DEF CounterTypes, Onward
<1>2. CASE \E c \in Callers : AnswerLost(c)
    <2>1. PICK c \in Callers : AnswerLost(c)
        BY <1>2
    <2>2. Fault /\ UNCHANGED <<events, over, device>>
        BY <2>1 DEF AnswerLost
    <2>3. QED
        BY <2>1, <2>2, AnswerLostBase, CounterFacts
<1>3. CASE RevokeAllRefreshes
    <2>1. BaseStep
        BY <1>3, RevokeBase DEF RevokeAllRefreshes
    <2>2. QED
        BY <1>3, <2>1, CounterFacts DEF RevokeAllRefreshes
<1>4. CASE LeewayPasses
    <2>1. BaseStep
        BY <1>4, LeewayBase
    <2>2. Event /\ UNCHANGED <<faults, device>> /\ (over' = over \/ over' = TRUE)
        BY <1>4 DEF LeewayPasses
    <2>3. QED
        BY <2>1, <2>2, CounterFacts
<1>5. CASE \E t \in Tokens : TokenExpires(t)
    <2>1. PICK t \in Tokens : TokenExpires(t)
        BY <1>5
    <2>2. Event /\ over' = TRUE /\ UNCHANGED <<faults, device>>
        BY <2>1 DEF TokenExpires
    <2>3. QED
        BY <2>1, <2>2, ExpireBase, CounterFacts
<1>6. QED
    BY <1>1, <1>2, <1>3, <1>4, <1>5 DEF Unseen

LEMMA WebUnseenBase ==
    ASSUME WebBase, UNCHANGED webVars, device' = device, Unseen(Tabs)
    PROVE  WebKeeps /\ LogoutsKept
<1>1. BaseStep /\ Onward
    BY UnseenBase, WebSessionAssumption DEF WebBase, Unseen
<1>2. WebTypeOK'
    BY DEF WebBase, WebTypeOK, webVars
<1>3. HeldByWeb' /\ LogoutsKept
    BY <1>1 DEF BaseStep, WebBase, HeldByWeb, LogoutsKept, webVars
<1>4. QED
    BY <1>1, <1>2, <1>3 DEF WebKeeps

\* Every step of the browser keeps the types, and is a step of the table.
LEMMA WebNextBase ==
    ASSUME WebBase, WebNext, device' = device
    PROVE  WebKeeps
<1>1. CASE WebServer
    BY <1>1, WebUnseenBase, LogoutServedBase DEF WebServer, Unseen
<1>2. CASE WebEnvironment
    BY <1>2, WebUnseenBase DEF WebEnvironment, Unseen
<1>3. CASE WebProgress
    BY <1>3, WebRequestBase, Web401Base, SettlesBase, WebCheckBase, WebCheckedBase,
       WebLoginAnsweredBase, WebLoggedOutBase DEF WebProgress
<1>4. CASE WebUser
    BY <1>4, WebRequestBase, WebLoginBase, WebLogoutBase, WebReloadBase DEF WebUser
<1>5. CASE AccessExpires
    BY <1>5, AccessExpiresBase
<1>6. QED
    BY <1>1, <1>2, <1>3, <1>4, <1>5 DEF WebNext

-----------------------------------------------------------------------------
(* The phone: types.                                                       *)

KeyState == [access : {"none", "good", "stale"}, refresh : 0..MaxTokens, user : BOOLEAN]
AppState == [user : BOOLEAN, checked : BOOLEAN, op : Ops,
             access : {"none", "good", "stale"}, tok : 0..MaxTokens]
PromiseState == [pc : {"idle", "read", "posted", "saveAccess", "saveRefresh"},
                 tok : 0..MaxTokens]
AppReqState == [pc : {"settled", "sent", "waiting", "resent"},
                access : {"none", "good", "stale"}]

PhoneBase == TableInv /\ CallsHold /\ CounterTypes /\ PhoneTypeOK /\ HeldByPhone

PhoneKeeps ==
    /\ BaseStep
    /\ Onward
    /\ PhoneTypeOK' /\ HeldByPhone'

\* What a step makes of the phone: tokens move between its parts.
PhoneMoves ==
    /\ keychain' \in KeyState
    /\ keychain'.refresh \in {keychain.refresh, app.tok, promise.tok, 0}
    /\ app' \in AppState
    /\ app'.tok \in {app.tok, 0}
    /\ promise' \in PromiseState
    /\ promise'.tok \in {promise.tok, call[Phone].tok, 0}
    /\ areq' \in [AppRequests -> AppReqState]
    /\ raced' \in BOOLEAN

LEMMA PhoneTypes ==
    PhoneTypeOK <=> /\ keychain \in KeyState
                    /\ app \in AppState
                    /\ promise \in PromiseState
                    /\ areq \in [AppRequests -> AppReqState]
                    /\ raced \in BOOLEAN
BY DEF PhoneTypeOK, KeyState, AppState, PromiseState, AppReqState

LEMMA PhoneMovesBase ==
    ASSUME PhoneBase, BaseStep, Onward, PhoneMoves
    PROVE  PhoneKeeps
<1>1. PhoneTypeOK'
    BY DEF PhoneMoves, PhoneTypeOK, KeyState, AppState, PromiseState, AppReqState
<1>2. call[Phone].tok \in Stored \cup {0}
    BY MobileSessionAssumption DEF PhoneBase, CallsHold
<1>3. HeldByPhone'
    BY <1>2 DEF PhoneBase, HeldByPhone, PhoneMoves, BaseStep
<1>4. QED
    BY <1>1, <1>3 DEF PhoneKeeps

\* What stays is part of every step.
LEMMA PhoneStays ==
    ASSUME PhoneBase
    PROVE  /\ keychain' = keychain => /\ keychain' \in KeyState
                                      /\ keychain'.refresh = keychain.refresh
           /\ app' = app => app' \in AppState /\ app'.tok = app.tok
           /\ promise' = promise => promise' \in PromiseState /\ promise'.tok = promise.tok
           /\ areq' = areq => areq' \in [AppRequests -> AppReqState]
           /\ raced' = raced => raced' \in BOOLEAN
BY PhoneTypes DEF PhoneBase

LEMMA GotoFacts ==
    ASSUME PhoneBase, NEW op \in Ops, Goto(op)
    PROVE  /\ app' \in AppState
           /\ app'.op = op /\ app'.tok = app.tok /\ app'.access = app.access
           /\ app'.user = app.user /\ app'.checked = app.checked
<1>1. app \in AppState
    BY PhoneTypes DEF PhoneBase
<1>2. QED
    BY <1>1 DEF Goto, AppState

LEMMA FinishFacts ==
    ASSUME NEW user \in BOOLEAN, Finish(user)
    PROVE  /\ app' \in AppState
           /\ app'.op = "idle" /\ app'.tok = 0 /\ app'.access = "none"
           /\ app'.user = user /\ app'.checked = TRUE
<1>1. 0 \in 0..MaxTokens
    BY RefreshTokensAssumption
<1>2. QED
    BY <1>1 DEF Finish, AppState, Ops, NoToken

LEMMA SettlePromiseFacts ==
    ASSUME PhoneBase, NEW ok \in BOOLEAN, NEW access \in {"none", "good", "stale"},
           SettlePromise(ok, access)
    PROVE  /\ promise' \in PromiseState /\ promise'.pc = "idle" /\ promise'.tok = 0
           /\ areq' \in [AppRequests -> AppReqState]
           /\ \A r \in AppRequests : areq[r].pc = "settled" => areq'[r].pc = "settled"
<1>1. 0 \in 0..MaxTokens
    BY RefreshTokensAssumption
<1>2. promise' \in PromiseState /\ promise'.pc = "idle" /\ promise'.tok = 0
    BY <1>1 DEF SettlePromise, NoPromise, NoToken, PromiseState
<1>3. Answered \in AppReqState /\ [pc |-> "resent", access |-> access] \in AppReqState
    BY DEF Answered, AppReqState
<1>4. \A r \in AppRequests : areq[r] \in AppReqState
    BY PhoneTypes DEF PhoneBase
<1>5. areq' \in [AppRequests -> AppReqState]
    BY <1>3, <1>4 DEF SettlePromise
<1>6. \A r \in AppRequests : areq[r].pc = "settled" => areq'[r].pc = "settled"
    BY DEF SettlePromise
<1>7. QED
    BY <1>2, <1>5, <1>6

LEMMA QuietBase ==
    ASSUME PhoneBase, device' = device,
           \/ NoFault \/ OnlyFault
           \/ Event /\ UNCHANGED <<row, recent, call, faults, over>>
    PROVE  BaseStep /\ Stored' = Stored /\ Onward
<1>1. UNCHANGED <<row, recent, call>>
    BY DEF NoFault, OnlyFault
<1>2. BaseStep /\ Stored' = Stored
    BY <1>1, SameBase DEF PhoneBase
<1>3. Onward
    BY CounterFacts DEF PhoneBase, NoFault, OnlyFault
<1>4. QED
    BY <1>2, <1>3

-----------------------------------------------------------------------------
(* The phone: the operations of the store.                                 *)

LEMMA HydrateReadBase ==
    ASSUME PhoneBase, HydrateRead, device' = device
    PROVE  PhoneKeeps
<1>1. BaseStep /\ Onward
    BY QuietBase DEF HydrateRead
<1>2. app' \in AppState /\ app'.tok \in {app.tok, 0}
    <2>1. app \in AppState /\ keychain.access \in {"none", "good", "stale"}
        BY PhoneTypes DEF PhoneBase, KeyState
    <2>2. CASE app' = [app EXCEPT !.op = "me", !.access = keychain.access]
        BY <2>1, <2>2 DEF AppState, Ops
    <2>3. CASE Finish(FALSE)
        BY <2>3, FinishFacts
    <2>4. QED
        BY <2>2, <2>3 DEF HydrateRead
<1>3. PhoneMoves
    BY <1>2, PhoneStays DEF PhoneMoves, HydrateRead
<1>4. QED
    BY <1>1, <1>3, PhoneMovesBase

LEMMA HydrateMeBase ==
    ASSUME PhoneBase, HydrateMe, device' = device
    PROVE  PhoneKeeps
<1>1. BaseStep /\ Onward
    BY QuietBase DEF HydrateMe
<1>2. "saveUser" \in Ops /\ "dropAccess" \in Ops
    BY DEF Ops
<1>3. Goto("saveUser") \/ Goto("dropAccess")
    BY DEF HydrateMe
<1>4. app' \in AppState /\ app'.tok = app.tok
    BY <1>2, <1>3, GotoFacts
<1>5. PhoneMoves
    BY <1>4, PhoneStays DEF PhoneMoves, HydrateMe
<1>6. QED
    BY <1>1, <1>5, PhoneMovesBase

LEMMA HydrateSaveUserBase ==
    ASSUME PhoneBase, HydrateSaveUser, device' = device
    PROVE  PhoneKeeps
<1>1. BaseStep /\ Onward
    BY QuietBase DEF HydrateSaveUser
<1>2. "dropAccess" \in Ops /\ keychain \in KeyState
    BY PhoneTypes DEF Ops, PhoneBase
<1>3. app' \in AppState /\ app'.tok \in {app.tok, 0}
    BY <1>2, GotoFacts, FinishFacts DEF HydrateSaveUser
<1>4. keychain' \in KeyState /\ keychain'.refresh = keychain.refresh
    <2>1. CASE keychain' = [keychain EXCEPT !.user = TRUE]
        BY <1>2, <2>1 DEF KeyState
    <2>2. QED
        BY <1>2, <2>1 DEF HydrateSaveUser
<1>5. PhoneMoves
    BY <1>3, <1>4, PhoneStays DEF PhoneMoves, HydrateSaveUser
<1>6. QED
    BY <1>1, <1>5, PhoneMovesBase

\* The keychain is written or the operation gives up.
LEMMA WrittenBase ==
    ASSUME PhoneBase, device' = device, NEW k \in KeyState,
           k.refresh \in {keychain.refresh, app.tok, 0},
           app' \in AppState, app'.tok \in {app.tok, 0},
           \/ NoFault /\ keychain' = k
           \/ OnlyFault /\ UNCHANGED keychain,
           UNCHANGED <<promise, areq>>, raced' \in BOOLEAN
    PROVE  PhoneKeeps
<1>1. BaseStep /\ Onward
    BY QuietBase
<1>2. PhoneMoves
    BY PhoneStays DEF PhoneMoves
<1>3. QED
    BY <1>1, <1>2, PhoneMovesBase

LEMMA DropsBase ==
    ASSUME PhoneBase, DropAccess \/ DropRefresh \/ DropUser, device' = device
    PROVE  PhoneKeeps
<1>1. /\ keychain \in KeyState /\ app.user \in BOOLEAN /\ raced \in BOOLEAN
      /\ 0 \in 0..MaxTokens /\ "dropRefresh" \in Ops /\ "dropUser" \in Ops
    BY PhoneTypes, RefreshTokensAssumption DEF PhoneBase, AppState, Ops
<1>2. app' \in AppState /\ app'.tok \in {app.tok, 0}
    BY <1>1, GotoFacts, FinishFacts DEF DropAccess, DropRefresh, DropUser, Drop
<1>3. raced' \in BOOLEAN /\ UNCHANGED <<promise, areq>>
    BY <1>1 DEF DropAccess, DropRefresh, DropUser, Drop
<1>4. \E k \in KeyState : /\ k.refresh \in {keychain.refresh, app.tok, 0}
                          /\ \/ NoFault /\ keychain' = k
                             \/ OnlyFault /\ UNCHANGED keychain
    <2>1. CASE DropAccess
        <3>1. LET k == [keychain EXCEPT !.access = "none"]
              IN  k \in KeyState /\ k.refresh = keychain.refresh
            BY <1>1 DEF KeyState
        <3>2. QED
            BY <2>1, <3>1 DEF DropAccess, Drop
    <2>2. CASE DropRefresh
        <3>1. LET k == [keychain EXCEPT !.refresh = NoToken]
              IN  k \in KeyState /\ k.refresh = 0
            BY <1>1 DEF KeyState, NoToken
        <3>2. QED
            BY <2>2, <3>1 DEF DropRefresh, Drop
    <2>3. CASE DropUser
        <3>1. LET k == [keychain EXCEPT !.user = FALSE]
              IN  k \in KeyState /\ k.refresh = keychain.refresh
            BY <1>1 DEF KeyState
        <3>2. QED
            BY <2>3, <3>1 DEF DropUser, Drop
    <2>4. QED
        BY <2>1, <2>2, <2>3
<1>5. QED
    BY <1>2, <1>3, <1>4, WrittenBase

LEMMA SavesBase ==
    ASSUME PhoneBase, LoginSaveAccess \/ LoginSaveRefresh \/ LoginSaveUser,
           device' = device
    PROVE  PhoneKeeps
<1>1. /\ keychain \in KeyState /\ app.tok \in 0..MaxTokens /\ raced \in BOOLEAN
      /\ "saveRefresh" \in Ops /\ "saveLogin" \in Ops
    BY PhoneTypes DEF PhoneBase, AppState, Ops
<1>2. app' \in AppState /\ app'.tok \in {app.tok, 0}
    BY <1>1, GotoFacts, FinishFacts DEF LoginSaveAccess, LoginSaveRefresh, LoginSaveUser, Save
<1>3. raced' \in BOOLEAN /\ UNCHANGED <<promise, areq>>
    BY <1>1 DEF LoginSaveAccess, LoginSaveRefresh, LoginSaveUser, Save
<1>4. \E k \in KeyState : /\ k.refresh \in {keychain.refresh, app.tok, 0}
                          /\ \/ NoFault /\ keychain' = k
                             \/ OnlyFault /\ UNCHANGED keychain
    <2>1. CASE LoginSaveAccess
        <3>1. LET k == [keychain EXCEPT !.access = "good"]
              IN  k \in KeyState /\ k.refresh = keychain.refresh
            BY <1>1 DEF KeyState
        <3>2. QED
            BY <2>1, <3>1 DEF LoginSaveAccess, Save
    <2>2. CASE LoginSaveRefresh
        <3>1. LET k == [keychain EXCEPT !.refresh = app.tok]
              IN  k \in KeyState /\ k.refresh = app.tok
            BY <1>1 DEF KeyState
        <3>2. QED
            BY <2>2, <3>1 DEF LoginSaveRefresh, Save
    <2>3. CASE LoginSaveUser
        <3>1. LET k == [keychain EXCEPT !.user = TRUE]
              IN  k \in KeyState /\ k.refresh = keychain.refresh
            BY <1>1 DEF KeyState
        <3>2. QED
            BY <2>3, <3>1 DEF LoginSaveUser, Save
    <2>4. QED
        BY <2>1, <2>2, <2>3
<1>5. QED
    BY <1>2, <1>3, <1>4, WrittenBase

LEMMA PhoneStoreBase ==
    ASSUME PhoneBase, PhoneLogin \/ PhoneLogout \/ PhoneLogoutAnswered, device' = device
    PROVE  PhoneKeeps
<1>1. BaseStep /\ Onward
    BY QuietBase DEF PhoneLogin, PhoneLogout, PhoneLogoutAnswered, NoFault, tokenVars
<1>2. /\ app \in AppState /\ keychain.access \in {"none", "good", "stale"}
      /\ "login" \in Ops /\ "logout" \in Ops /\ "dropAccess" \in Ops
    BY PhoneTypes DEF PhoneBase, KeyState, Ops
<1>3. app' \in AppState /\ app'.tok = app.tok
    <2>1. CASE app' = [app EXCEPT !.op = "logout", !.access = keychain.access]
        BY <1>2, <2>1 DEF AppState
    <2>2. CASE Goto("login") \/ Goto("dropAccess")
        BY <1>2, <2>2, GotoFacts
    <2>3. QED
        BY <2>1, <2>2 DEF PhoneLogin, PhoneLogout, PhoneLogoutAnswered
<1>4. PhoneMoves
    BY <1>3, PhoneStays DEF PhoneMoves, PhoneLogin, PhoneLogout, PhoneLogoutAnswered
<1>5. QED
    BY <1>1, <1>4, PhoneMovesBase

\* The login is refused, or it begins with the next token in the app's hands.
LEMMA PhoneLoginAnsweredBase ==
    ASSUME PhoneBase, PhoneLoginAnswered, device' = device
    PROVE  PhoneKeeps
<1>1. UNCHANGED <<call, faults, events, over, keychain, promise, areq, raced>> /\ Onward
    BY CounterFacts DEF PhoneLoginAnswered, PhoneBase
<1>2. CASE /\ CanMint /\ Store(0)
           /\ app' = [app EXCEPT !.op = "saveAccess", !.tok = Next1]
    <2>1. BaseStep /\ Stored' = Stored \cup {Next1}
        BY <1>1, <1>2, BeginBase DEF PhoneBase
    <2>2. Next1 \in 0..MaxTokens /\ app \in AppState
        BY <1>2, MintFacts, PhoneTypes DEF Tokens, PhoneBase
    <2>3. app' \in AppState /\ app'.tok = Next1
        BY <1>2, <2>2 DEF AppState, Ops
    <2>4. PhoneTypeOK'
        BY <1>1, <2>3 DEF PhoneBase, PhoneTypeOK, AppState
    <2>5. HeldByPhone'
        BY <1>1, <2>1, <2>3 DEF PhoneBase, HeldByPhone
    <2>6. QED
        BY <1>1, <2>1, <2>4, <2>5 DEF PhoneKeeps
<1>3. CASE Finish(FALSE) /\ UNCHANGED <<row, recent>>
    <2>1. BaseStep
        BY <1>1, <1>3, SameBase DEF PhoneBase
    <2>2. PhoneMoves
        BY <1>1, <1>3, FinishFacts, PhoneStays DEF PhoneMoves
    <2>3. QED
        BY <1>1, <2>1, <2>2, PhoneMovesBase
<1>4. QED
    BY <1>2, <1>3 DEF PhoneLoginAnswered

-----------------------------------------------------------------------------
(* The phone: requests and the refresh they share.                         *)

LEMMA AppRequestBase ==
    ASSUME PhoneBase, NEW r \in AppRequests,
           AppSend(r) \/ AppOk(r) \/ App401(r) \/ AppTimeout(r), device' = device
    PROVE  PhoneKeeps
<1>1. BaseStep /\ Onward
    BY QuietBase DEF AppSend, AppOk, App401, AppTimeout, NoFault, tokenVars
<1>2. /\ areq \in [AppRequests -> AppReqState] /\ areq[r] \in AppReqState
      /\ promise \in PromiseState /\ keychain.access \in {"none", "good", "stale"}
      /\ raced \in BOOLEAN
    BY PhoneTypes DEF PhoneBase, KeyState
<1>3. areq' \in [AppRequests -> AppReqState]
    <2>1. Answered \in AppReqState /\ [pc |-> "sent", access |-> keychain.access] \in AppReqState
        BY <1>2 DEF Answered, AppReqState
    <2>2. [areq[r] EXCEPT !.pc = "waiting"] \in AppReqState
        BY <1>2 DEF AppReqState
    <2>3. \/ areq' = [areq EXCEPT ![r] = Answered]
          \/ areq' = [areq EXCEPT ![r] = [pc |-> "sent", access |-> keychain.access]]
          \/ areq' = [areq EXCEPT ![r] = [areq[r] EXCEPT !.pc = "waiting"]]
        BY DEF AppSend, AppOk, App401, AppTimeout
    <2>4. QED
        BY <1>2, <2>1, <2>2, <2>3
<1>4. promise' \in PromiseState /\ promise'.tok = promise.tok
    <2>1. promise' = promise \/ promise' = [promise EXCEPT !.pc = "read"]
        BY DEF AppSend, AppOk, App401, AppTimeout
    <2>2. QED
        BY <1>2, <2>1 DEF PromiseState
<1>5. raced' \in BOOLEAN /\ UNCHANGED <<keychain, app>>
    BY <1>2 DEF AppSend, AppOk, App401, AppTimeout
<1>6. PhoneMoves
    BY <1>3, <1>4, <1>5, PhoneStays DEF PhoneMoves
<1>7. QED
    BY <1>1, <1>6, PhoneMovesBase

LEMMA PromiseReadBase ==
    ASSUME PhoneBase, PromiseRead, device' = device
    PROVE  PhoneKeeps
<1>1. UNCHANGED <<row, recent, faults, events, over, keychain, app, raced>> /\ Onward
    BY CounterFacts DEF PromiseRead, PhoneBase
<1>2. CASE SettlePromise(FALSE, "none") /\ UNCHANGED call
    <2>1. BaseStep
        BY <1>1, <1>2, SameBase DEF PhoneBase
    <2>2. PhoneMoves
        BY <1>1, <1>2, SettlePromiseFacts, PhoneStays DEF PhoneMoves
    <2>3. QED
        BY <1>1, <2>1, <2>2, PhoneMovesBase
<1>3. CASE /\ PostRefresh(Phone, keychain.refresh)
           /\ promise' = [promise EXCEPT !.pc = "posted"]
           /\ UNCHANGED areq
    <2>1. keychain.refresh \in 0..MaxTokens /\ promise \in PromiseState
        BY PhoneTypes DEF PhoneBase, KeyState
    <2>2. PICK q \in CallState : CallBecomes(Phone, q) /\ q.pc = "sent" /\ q.tok = keychain.refresh
        BY <1>3, <2>1, PostFacts, MobileSessionAssumption DEF PhoneBase, TableInv
    <2>3. BaseStep
        BY <1>1, <2>2, CallBase, MobileSessionAssumption DEF PhoneBase, HeldByPhone
    <2>4. promise' \in PromiseState /\ promise'.tok = promise.tok
        BY <1>3, <2>1 DEF PromiseState
    <2>5. PhoneMoves
        BY <1>1, <1>3, <2>4, PhoneStays DEF PhoneMoves
    <2>6. QED
        BY <1>1, <2>3, <2>5, PhoneMovesBase
<1>4. QED
    BY <1>2, <1>3 DEF PromiseRead

\* The phone forgets its call.
LEMMA PhoneIdleBase ==
    ASSUME PhoneBase, call' = [call EXCEPT ![Phone] = Idle], UNCHANGED <<row, recent>>
    PROVE  BaseStep /\ CallBecomes(Phone, Idle)
<1>1. CallBecomes(Phone, Idle)
    BY IdleFacts, BecomesFacts, MobileSessionAssumption DEF PhoneBase, TableInv
<1>2. QED
    BY <1>1, IdleFacts, CallBase, MobileSessionAssumption DEF PhoneBase

LEMMA PromiseAnsweredBase ==
    ASSUME PhoneBase, PromiseAnswered, device' = device
    PROVE  PhoneKeeps
<1>1. UNCHANGED <<row, recent, faults, events, over, keychain, app, raced>> /\ Onward
    BY CounterFacts DEF PromiseAnswered, PhoneBase
<1>2. BaseStep
    BY <1>1, PhoneIdleBase DEF PromiseAnswered
<1>3. /\ promise' \in PromiseState /\ promise'.tok \in {call[Phone].tok, 0}
      /\ areq' \in [AppRequests -> AppReqState]
    <2>1. call[Phone].tok \in 0..MaxTokens
        BY MobileSessionAssumption DEF PhoneBase, TableInv, TableTypes, CallState
    <2>2. CASE promise' = [pc |-> "saveAccess", tok |-> call[Phone].tok] /\ UNCHANGED areq
        BY <2>1, <2>2, PhoneStays DEF PromiseState
    <2>3. CASE SettlePromise(FALSE, "none")
        BY <2>3, SettlePromiseFacts
    <2>4. QED
        BY <2>2, <2>3 DEF PromiseAnswered
<1>4. PhoneMoves
    BY <1>1, <1>3, PhoneStays DEF PhoneMoves
<1>5. QED
    BY <1>1, <1>2, <1>4, PhoneMovesBase

LEMMA PromiseSavesBase ==
    ASSUME PhoneBase, PromiseSaveAccess \/ PromiseSaveRefresh, device' = device
    PROVE  PhoneKeeps
<1>1. BaseStep /\ Onward
    BY QuietBase DEF PromiseSaveAccess, PromiseSaveRefresh
<1>2. /\ keychain \in KeyState /\ keychain.access \in {"none", "good", "stale"}
      /\ promise \in PromiseState /\ promise.tok \in 0..MaxTokens
    BY PhoneTypes DEF PhoneBase, KeyState, PromiseState
<1>3. keychain' \in KeyState /\ keychain'.refresh \in {keychain.refresh, promise.tok}
    <2>1. CASE keychain' = [keychain EXCEPT !.access = "good"]
        BY <1>2, <2>1 DEF KeyState
    <2>2. CASE keychain' = [keychain EXCEPT !.refresh = promise.tok]
        BY <1>2, <2>2 DEF KeyState
    <2>3. CASE keychain' = keychain
        BY <1>2, <2>3
    <2>4. QED
        BY <2>1, <2>2, <2>3 DEF PromiseSaveAccess, PromiseSaveRefresh, NewPair
<1>4. /\ promise' \in PromiseState /\ promise'.tok \in {promise.tok, 0}
      /\ areq' \in [AppRequests -> AppReqState]
    <2>1. CASE promise' = [promise EXCEPT !.pc = "saveRefresh"] /\ UNCHANGED areq
        BY <1>2, <2>1, PhoneStays DEF PromiseState
    <2>2. CASE SettlePromise(FALSE, "none") \/ SettlePromise(TRUE, keychain.access)
        BY <1>2, <2>2, SettlePromiseFacts
    <2>3. QED
        BY <2>1, <2>2 DEF PromiseSaveAccess, PromiseSaveRefresh
<1>5. PhoneMoves
    BY <1>3, <1>4, PhoneStays DEF PhoneMoves, PromiseSaveAccess, PromiseSaveRefresh
<1>6. QED
    BY <1>1, <1>5, PhoneMovesBase

-----------------------------------------------------------------------------
(* The phone: what happens around the app.                                 *)

LEMMA LaunchedFacts == Launched \in AppState /\ Launched.tok = 0 /\ Launched.op = "hydrate"
                       /\ ~Launched.user /\ ~Launched.checked
<1>1. 0 \in 0..MaxTokens
    BY RefreshTokensAssumption
<1>2. QED
    BY <1>1 DEF Launched, AppState, Ops, NoToken

LEMMA PhoneKilledBase ==
    ASSUME PhoneBase, PhoneKilled, device' = device
    PROVE  PhoneKeeps
<1>1. /\ Fault /\ UNCHANGED <<row, recent, events, over, keychain, raced, device>>
      /\ call' = [call EXCEPT ![Phone] = Idle]
      /\ app' = Launched /\ promise' = NoPromise
      /\ areq' = [r \in AppRequests |-> Answered]
    BY DEF PhoneKilled
<1>2. BaseStep /\ Onward
    BY <1>1, PhoneIdleBase, CounterFacts DEF PhoneBase
<1>3. promise' \in PromiseState /\ promise'.tok = 0
    BY <1>1, RefreshTokensAssumption DEF NoPromise, NoToken, PromiseState
<1>4. areq' \in [AppRequests -> AppReqState]
    BY <1>1 DEF Answered, AppReqState
<1>5. PhoneMoves
    BY <1>1, <1>3, <1>4, LaunchedFacts, PhoneStays DEF PhoneMoves
<1>6. QED
    BY <1>2, <1>5, PhoneMovesBase

LEMMA PhoneAccessExpiresBase ==
    ASSUME PhoneBase, PhoneAccessExpires, device' = device
    PROVE  PhoneKeeps
<1>1. BaseStep /\ Onward
    BY QuietBase DEF PhoneAccessExpires
<1>2. keychain' \in KeyState /\ keychain'.refresh = keychain.refresh
    BY PhoneTypes DEF PhoneBase, PhoneAccessExpires, KeyState
<1>3. PhoneMoves
    BY <1>2, PhoneStays DEF PhoneMoves, PhoneAccessExpires
<1>4. QED
    BY <1>1, <1>3, PhoneMovesBase

LEMMA PhoneUnseenBase ==
    ASSUME PhoneBase, UNCHANGED phoneVars, device' = device, Unseen({Phone})
    PROVE  PhoneKeeps
<1>1. BaseStep /\ Onward
    BY UnseenBase, MobileSessionAssumption DEF PhoneBase, Unseen
<1>2. PhoneMoves
    BY PhoneStays DEF PhoneMoves, phoneVars
<1>3. QED
    BY <1>1, <1>2, PhoneMovesBase

\* Every step of the phone keeps the types, and is a step of the table.
LEMMA PhoneNextBase ==
    ASSUME PhoneBase, PhoneNext, device' = device
    PROVE  PhoneKeeps
<1>1. CASE PhoneServer \/ PhoneEnvironment
    BY <1>1, PhoneUnseenBase DEF PhoneServer, PhoneEnvironment, Unseen
<1>2. CASE PhoneOperation
    BY <1>2, HydrateReadBase, HydrateMeBase, HydrateSaveUserBase, DropsBase, SavesBase,
       PhoneLoginAnsweredBase, PhoneStoreBase DEF PhoneOperation
<1>3. CASE PhonePromise
    BY <1>3, PromiseReadBase, PromiseAnsweredBase, PromiseSavesBase DEF PhonePromise
<1>4. CASE PhoneUser
    BY <1>4, PhoneStoreBase, PhoneKilledBase, PhoneAccessExpiresBase, AppRequestBase
       DEF PhoneUser
<1>5. CASE \E r \in AppRequests : AppOk(r) \/ App401(r)
    BY <1>5, AppRequestBase
<1>6. QED
    BY <1>1, <1>2, <1>3, <1>4, <1>5 DEF PhoneNext

-----------------------------------------------------------------------------
(* The base of the inductive invariant.                                    *)

\* Only the calls of the device in use change.
LEMMA OthersIdleWeb ==
    ASSUME Base, device = "browser", WebNext
    PROVE  \A c \in Callers \ Tabs : call'[c].pc = "idle"
<1>1. \A c \in Callers \ Tabs : call'[c] = call[c]
    <2> SUFFICES ASSUME NEW c \in Callers \ Tabs PROVE call'[c] = call[c]
        OBVIOUS
    <2>0. call \in [Callers -> CallState]
        BY DEF Base, TableInv, TableTypes
    <2>1. CASE WebServer
        BY <2>0, <2>1 DEF WebServer, RefreshStep, RefreshRead, RefreshClaim,
                          RefreshIssue, Respond, LogoutServed
    <2>2. CASE WebEnvironment
        BY <2>0, <2>2 DEF WebEnvironment, AnswerLost, RevokeAllRefreshes,
                          TokenExpires, LeewayPasses
    <2>3. CASE WebProgress
        <3>1. \A r \in Requests : tabOf[r] \in Tabs
            BY WebTypes DEF Base
        <3>2. QED
            BY <2>0, <2>3, <3>1 DEF WebProgress, WebOk, Web401, RefreshSession, PostRefresh,
                WebRefreshSettles, WebCheck, WebChecked, WebLoginAnswered, WebLoggedOut, tokenVars
    <2>4. CASE WebUser
        BY <2>4 DEF WebUser, WebSend, WebUnreachable, WebLogin, WebLogout, WebReload, tokenVars
    <2>5. CASE AccessExpires
        BY <2>5 DEF AccessExpires
    <2>6. QED
        BY <2>1, <2>2, <2>3, <2>4, <2>5 DEF WebNext
<1>2. QED
    BY <1>1 DEF Base, Away

LEMMA OthersIdlePhone ==
    ASSUME Base, device = "phone", PhoneNext
    PROVE  \A c \in Callers \ {Phone} : call'[c].pc = "idle"
<1>1. \A c \in Callers \ {Phone} : call'[c] = call[c]
    <2> SUFFICES ASSUME NEW c \in Callers \ {Phone} PROVE call'[c] = call[c]
        OBVIOUS
    <2>0. call \in [Callers -> CallState]
        BY DEF Base, TableInv, TableTypes
    <2>1. CASE PhoneServer
        BY <2>0, <2>1 DEF PhoneServer, RefreshStep, RefreshRead, RefreshClaim,
                          RefreshIssue, Respond
    <2>2. CASE PhoneEnvironment
        BY <2>0, <2>2 DEF PhoneEnvironment, AnswerLost, RevokeAllRefreshes,
                          TokenExpires, LeewayPasses
    <2>3. CASE PhoneOperation
        BY <2>3 DEF PhoneOperation, HydrateRead, HydrateMe, HydrateSaveUser, DropAccess,
            DropRefresh, DropUser, Drop, PhoneLoginAnswered, LoginSaveAccess,
            LoginSaveRefresh, LoginSaveUser, Save, PhoneLogoutAnswered, NoFault,
            OnlyFault, tokenVars
    <2>4. CASE PhonePromise
        BY <2>0, <2>4 DEF PhonePromise, PromiseRead, PromiseAnswered, PromiseSaveAccess,
            PromiseSaveRefresh, PostRefresh, NoFault, OnlyFault
    <2>5. CASE PhoneUser
        BY <2>0, <2>5 DEF PhoneUser, PhoneLogin, PhoneLogout, PhoneKilled,
            PhoneAccessExpires, AppSend, AppTimeout, OnlyFault, tokenVars
    <2>6. CASE \E r \in AppRequests : AppOk(r) \/ App401(r)
        BY <2>6 DEF AppOk, App401, tokenVars
    <2>7. QED
        BY <2>1, <2>2, <2>3, <2>4, <2>5, <2>6 DEF PhoneNext
<1>2. QED
    BY <1>1 DEF Base, Away

\* Who is not the device in use stays as it is.
LEMMA OtherDevice ==
    ASSUME Base, BaseStep
    PROVE  /\ UNCHANGED webVars => WebTypeOK' /\ HeldByWeb'
           /\ UNCHANGED phoneVars => PhoneTypeOK' /\ HeldByPhone'
<1>1. UNCHANGED webVars => WebTypeOK'
    BY DEF Base, webVars, WebTypeOK
<1>2. UNCHANGED phoneVars => PhoneTypeOK'
    BY DEF Base, phoneVars, PhoneTypeOK
<1>3. UNCHANGED webVars => HeldByWeb'
    BY DEF Base, webVars, HeldByWeb, BaseStep
<1>4. UNCHANGED phoneVars => HeldByPhone'
    BY DEF Base, phoneVars, HeldByPhone, BaseStep
<1>5. QED
    BY <1>1, <1>2, <1>3, <1>4

LEMMA BaseInit == SessionInit => Base
<1> SUFFICES ASSUME SessionInit PROVE Base
    OBVIOUS
<1>1. TableInv /\ 0 \in 0..MaxTokens /\ 1 \in 0..MaxTokens
    BY TableInitInv, RefreshTokensAssumption DEF SessionInit
<1>2. Stored = {1}
    BY <1>1, RefreshTokensAssumption DEF SessionInit, TokenInit, Stored, Tokens
<1>3. CallsHold
    BY IdleFacts DEF SessionInit, TokenInit, CallsHold
<1>4. CounterTypes
    <2>1. 0 \in 0..MaxFaults /\ 0 \in 0..MaxEvents
        BY RefreshTokensAssumption
    <2>2. QED
        BY <2>1 DEF SessionInit, TokenInit, CounterTypes
<1>5. jar.refresh = 1 /\ jar \in JarState
    BY <1>1 DEF SessionInit, WebInit, JarState
<1>6. tab \in [Tabs -> TabState] /\ \A b \in Tabs : tab[b].refresh = 0
    BY SignedInFacts DEF SessionInit, WebInit
<1>7. req \in [Requests -> ReqState]
    BY DEF SessionInit, WebInit, Settled, ReqState
<1>8. WebTypeOK /\ HeldByWeb
    BY <1>2, <1>5, <1>6, <1>7, WebTypes DEF HeldByWeb, SessionInit, WebInit
<1>9. keychain \in KeyState /\ keychain.refresh = 1
    BY <1>1 DEF SessionInit, PhoneInit, KeyState
<1>10. promise \in PromiseState /\ promise.tok = 0
    BY <1>1 DEF SessionInit, PhoneInit, NoPromise, NoToken, PromiseState
<1>11. areq \in [AppRequests -> AppReqState]
    BY DEF SessionInit, PhoneInit, Answered, AppReqState
<1>12. PhoneTypeOK /\ HeldByPhone
    BY <1>2, <1>9, <1>10, <1>11, LaunchedFacts, PhoneTypes DEF HeldByPhone, SessionInit, PhoneInit
<1>13. Away
    BY IdleFacts DEF Away, SessionInit, TokenInit, WebInit, PhoneInit
<1>14. QED
    BY <1>1, <1>3, <1>4, <1>8, <1>12, <1>13 DEF Base

LEMMA BaseNext ==
    ASSUME Base, [SessionNext]_vars
    PROVE  Base' /\ BaseStep /\ Onward
<1>1. CASE device = "browser" /\ WebNext /\ UNCHANGED <<phoneVars, device>>
    <2>1. WebKeeps
        BY <1>1, WebNextBase DEF Base, WebBase
    <2>2. PhoneTypeOK' /\ HeldByPhone'
        BY <1>1, <2>1, OtherDevice DEF WebKeeps
    <2>3. Away'
        BY <1>1, OthersIdleWeb DEF Away, Base, phoneVars
    <2>4. QED
        BY <2>1, <2>2, <2>3 DEF Base, WebKeeps, BaseStep, Onward
<1>2. CASE device = "phone" /\ PhoneNext /\ UNCHANGED <<webVars, device>>
    <2>1. PhoneKeeps
        BY <1>2, PhoneNextBase DEF Base, PhoneBase
    <2>2. WebTypeOK' /\ HeldByWeb'
        BY <1>2, <2>1, OtherDevice DEF PhoneKeeps
    <2>3. Away'
        BY <1>2, OthersIdlePhone DEF Away, Base, webVars
    <2>4. QED
        BY <2>1, <2>2, <2>3 DEF Base, PhoneKeeps, BaseStep, Onward
<1>3. CASE UNCHANGED vars
    <2>1. /\ UNCHANGED <<row, recent, call, faults, events, over, device>>
          /\ UNCHANGED webVars /\ UNCHANGED phoneVars
        BY <1>3 DEF vars, tokenVars
    <2>2. BaseStep
        BY <2>1, SameBase DEF Base
    <2>3. Onward
        BY <2>1, CounterFacts DEF Base
    <2>4. WebTypeOK' /\ HeldByWeb' /\ PhoneTypeOK' /\ HeldByPhone'
        BY <2>1, <2>2, OtherDevice
    <2>5. Away'
        BY <2>1 DEF Away, Base, webVars, phoneVars
    <2>6. QED
        BY <2>2, <2>3, <2>4, <2>5 DEF Base, BaseStep, Onward
<1>4. QED
    BY <1>1, <1>2, <1>3 DEF SessionNext

LEMMA BaseInvariant == SessionSpec => []Base
<1>1. Base /\ [SessionNext]_vars => Base'
    BY BaseNext
<1>2. QED
    BY BaseInit, <1>1, PTL DEF SessionSpec

\* The types of the table, the browser and the phone, and every token in use
\* outside the table is one the table has had.
THEOREM SessionTypes == SessionSpec => []SessionTypeOK
<1>1. Base => SessionTypeOK
    BY DEF Base, SessionTypeOK, TokenTypeOK, TableInv, TableTypes, CounterTypes, RowState, CallState,
           CallsHold, HeldByWeb, HeldByPhone, NoToken
<1>2. QED
    BY BaseInvariant, <1>1, PTL

\* A login never has two usable tokens: of any number of refreshes of one
\* token, by any number of tabs, only one claims it, and no other token of the
\* login is usable meanwhile (the conditional UPDATE of Refresh).
THEOREM SessionOneToken == SessionSpec => []OneTokenPerLogin
<1>1. Base => OneTokenPerLogin
    BY OneTokenOfInv DEF Base
<1>2. QED
    BY BaseInvariant, <1>1, PTL

\* Whatever browser and phone do, the tokens of each login implement the
\* rotation of TokenRotation: a login is born once, its token is taken,
\* replaced or lost, and a login that ended stays ended.
THEOREM SessionRotation == SessionSpec => ImplementsRotation
<1>1. SessionInit => Rotation!RotationInit
    BY InitRotates DEF SessionInit
<1>2. Base => TableInv /\ Phases
    BY PhasesOfInv DEF Base
<1>3. Base' => TableInv' /\ Phases'
    BY <1>2, PTL
<1>4. Base /\ [SessionNext]_vars => [Rotation!RotationNext]_(Rotation!rotationVars)
    BY <1>2, <1>3, BaseNext, TableStepRotates DEF BaseStep
<1>5. QED
    BY <1>1, <1>4, BaseInvariant, PTL DEF SessionSpec, ImplementsRotation, Rotation!RotationSpec

-----------------------------------------------------------------------------
(* A phone that shows the login screen holds nothing.                      *)

Empty == keychain.access = "none" /\ keychain.refresh = 0 /\ ~keychain.user

\* What the store's operation has left in the keychain so far.
Tidy ==
    /\ app.op \in {"hydrate", "me", "saveUser"} =>
         /\ keychain.access # "none" /\ keychain.user /\ promise.pc = "idle"
         /\ ~app.user
         /\ \A r \in AppRequests : areq[r].pc = "settled"
    /\ app.op \in {"dropRefresh", "dropUser"} =>
         keychain.access = "none" /\ promise.pc = "idle"
    /\ app.op = "dropUser" => keychain.refresh = 0
    /\ app.op = "login" => app.checked /\ ~app.user
    /\ (app.op \in {"idle", "login"} /\ app.checked /\ ~app.user) =>
         Empty /\ promise.pc \in {"idle", "read"}

PhoneTidy == (device = "phone" /\ faults = 0 /\ ~raced) => Tidy

\* The assumptions of the lemmas that follow: a step that ends without fault.
TidyStep ==
    /\ PhoneBase /\ Tidy
    /\ ~Fault

LEMMA HydrateTidies ==
    ASSUME TidyStep, HydrateRead \/ HydrateMe \/ HydrateSaveUser
    PROVE  Tidy'
<1>1. UNCHANGED <<promise, areq, raced>> /\ ~OnlyFault
    BY DEF HydrateRead, HydrateMe, HydrateSaveUser, TidyStep, OnlyFault
<1>2. /\ PhoneBase /\ app \in AppState /\ keychain \in KeyState
      /\ keychain.access # "none" /\ keychain.user /\ promise.pc = "idle" /\ ~app.user
      /\ \A r \in AppRequests : areq[r].pc = "settled"
    BY PhoneTypes DEF TidyStep, PhoneBase, HydrateRead, HydrateMe, HydrateSaveUser, Tidy
<1>3. CASE HydrateRead
    <2>1. app' = [app EXCEPT !.op = "me", !.access = keychain.access] /\ keychain' = keychain
        BY <1>1, <1>2, <1>3 DEF HydrateRead
    <2>2. app'.op = "me" /\ app'.user = app.user
        BY <1>2, <2>1 DEF AppState
    <2>3. QED
        BY <1>1, <1>2, <2>1, <2>2 DEF Tidy
<1>4. CASE HydrateMe
    <2>1. "saveUser" \in Ops /\ "dropAccess" \in Ops
        BY DEF Ops
    <2>2. (Goto("saveUser") \/ Goto("dropAccess")) /\ keychain' = keychain
        BY <1>4 DEF HydrateMe
    <2>3. app'.op \in {"saveUser", "dropAccess"} /\ app'.user = app.user
        BY <1>2, <2>1, <2>2, GotoFacts
    <2>4. QED
        BY <1>1, <1>2, <2>2, <2>3 DEF Tidy
<1>5. CASE HydrateSaveUser
    <2>1. Finish(TRUE)
        BY <1>1, <1>5 DEF HydrateSaveUser
    <2>2. app'.op = "idle" /\ app'.user
        BY <2>1, FinishFacts
    <2>3. QED
        BY <2>2 DEF Tidy
<1>6. QED
    BY <1>3, <1>4, <1>5

LEMMA DropsTidy ==
    ASSUME TidyStep, DropAccess \/ DropRefresh \/ DropUser, ~raced'
    PROVE  Tidy'
<1>1. /\ ~OnlyFault /\ PhoneBase /\ keychain \in KeyState
      /\ "dropRefresh" \in Ops /\ "dropUser" \in Ops
    BY PhoneTypes DEF TidyStep, OnlyFault, PhoneBase, Ops
<1>2. promise.pc = "idle" /\ UNCHANGED <<promise, areq>>
    BY DEF DropAccess, DropRefresh, DropUser, Drop
<1>3. CASE DropAccess
    <2>1. keychain' = [keychain EXCEPT !.access = "none"] /\ Goto("dropRefresh")
        BY <1>1, <1>3 DEF DropAccess, Drop
    <2>2. keychain'.access = "none"
        BY <1>1, <2>1 DEF KeyState
    <2>3. app'.op = "dropRefresh"
        BY <1>1, <2>1, GotoFacts
    <2>4. QED
        BY <1>2, <2>2, <2>3 DEF Tidy
<1>4. CASE DropRefresh
    <2>1. keychain' = [keychain EXCEPT !.refresh = NoToken] /\ Goto("dropUser")
        BY <1>1, <1>4 DEF DropRefresh, Drop
    <2>2. keychain'.refresh = 0 /\ keychain'.access = keychain.access
        BY <1>1, <2>1 DEF KeyState, NoToken
    <2>3. app'.op = "dropUser" /\ keychain.access = "none"
        BY <1>1, <1>4, <2>1, GotoFacts DEF TidyStep, Tidy, DropRefresh, Drop
    <2>4. QED
        BY <1>2, <2>2, <2>3 DEF Tidy
<1>5. CASE DropUser
    <2>1. keychain' = [keychain EXCEPT !.user = FALSE] /\ Finish(FALSE)
        BY <1>1, <1>5 DEF DropUser, Drop
    <2>2. keychain.access = "none" /\ keychain.refresh = 0
        BY <1>5 DEF TidyStep, Tidy, DropUser, Drop
    <2>3. Empty'
        BY <1>1, <2>1, <2>2 DEF KeyState, Empty
    <2>4. app'.op = "idle"
        BY <2>1, FinishFacts
    <2>5. QED
        BY <1>2, <2>3, <2>4 DEF Tidy
<1>6. QED
    BY <1>3, <1>4, <1>5

LEMMA StoreTidies ==
    ASSUME TidyStep, \/ PhoneLogin \/ PhoneLoginAnswered \/ PhoneLogout \/ PhoneLogoutAnswered
                     \/ LoginSaveAccess \/ LoginSaveRefresh \/ LoginSaveUser
    PROVE  Tidy'
<1>1. /\ ~OnlyFault /\ PhoneBase /\ app \in AppState /\ keychain \in KeyState
      /\ "login" \in Ops /\ "dropAccess" \in Ops /\ "saveRefresh" \in Ops /\ "saveLogin" \in Ops
    BY PhoneTypes DEF TidyStep, OnlyFault, PhoneBase, Ops
<1>2. UNCHANGED <<promise, areq>>
    BY DEF PhoneLogin, PhoneLoginAnswered, PhoneLogout, PhoneLogoutAnswered,
           LoginSaveAccess, LoginSaveRefresh, LoginSaveUser, Save
<1>3. CASE PhoneLogin
    <2>1. /\ app'.op = "login" /\ app'.checked = app.checked /\ app'.user = app.user
          /\ app.op = "idle" /\ app.checked /\ ~app.user /\ keychain' = keychain
        BY <1>1, <1>3, GotoFacts DEF PhoneLogin
    <2>2. QED
        BY <1>2, <2>1 DEF Tidy, TidyStep, Empty
<1>4. CASE PhoneLoginAnswered
    <2>1. keychain' = keychain /\ app.op = "login"
        BY <1>4 DEF PhoneLoginAnswered
    <2>2. CASE app' = [app EXCEPT !.op = "saveAccess", !.tok = Next1]
        <3>1. app'.op = "saveAccess"
            BY <1>1, <2>2 DEF AppState
        <3>2. QED
            BY <3>1 DEF Tidy
    <2>3. CASE Finish(FALSE)
        <3>1. app'.op = "idle"
            BY <2>3, FinishFacts
        <3>2. QED
            BY <1>2, <2>1, <3>1 DEF Tidy, TidyStep, Empty
    <2>4. QED
        BY <1>4, <2>2, <2>3 DEF PhoneLoginAnswered
<1>5. CASE PhoneLogout
    <2>1. app' = [app EXCEPT !.op = "logout", !.access = keychain.access]
        BY <1>5 DEF PhoneLogout
    <2>2. app'.op = "logout"
        BY <1>1, <2>1 DEF AppState
    <2>3. QED
        BY <2>2 DEF Tidy
<1>6. CASE PhoneLogoutAnswered
    <2>1. app'.op = "dropAccess"
        BY <1>1, <1>6, GotoFacts DEF PhoneLogoutAnswered
    <2>2. QED
        BY <2>1 DEF Tidy
<1>7. CASE LoginSaveAccess \/ LoginSaveRefresh \/ LoginSaveUser
    <2>1. Goto("saveRefresh") \/ Goto("saveLogin") \/ Finish(TRUE)
        BY <1>1, <1>7 DEF LoginSaveAccess, LoginSaveRefresh, LoginSaveUser, Save
    <2>2. app'.op \in {"saveRefresh", "saveLogin"} \/ (app'.op = "idle" /\ app'.user)
        BY <1>1, <2>1, GotoFacts, FinishFacts
    <2>3. QED
        BY <2>2 DEF Tidy
<1>8. QED
    BY <1>3, <1>4, <1>5, <1>6, <1>7

LEMMA AppRequestsTidy ==
    ASSUME TidyStep, ~raced', NEW r \in AppRequests,
           AppSend(r) \/ AppOk(r) \/ App401(r) \/ AppTimeout(r)
    PROVE  Tidy'
<1>1. /\ UNCHANGED <<keychain, app>> /\ ~OnlyFault
      /\ areq \in [AppRequests -> AppReqState] /\ promise \in PromiseState
    BY PhoneTypes DEF TidyStep, OnlyFault, PhoneBase, AppSend, AppOk, App401, AppTimeout
<1>2. ~(app.op \in {"hydrate", "me", "saveUser"})
    BY DEF TidyStep, Tidy, AppSend, AppOk, App401, AppTimeout
<1>3. CASE promise' = promise
    BY <1>1, <1>2, <1>3 DEF TidyStep, Tidy, Empty
<1>4. CASE promise' # promise
    <2>1. /\ promise.pc = "idle" /\ promise' = [promise EXCEPT !.pc = "read"]
          /\ app.op \notin {"dropAccess", "dropRefresh", "dropUser"}
        BY <1>4 DEF AppSend, AppOk, App401, AppTimeout
    <2>2. promise'.pc = "read"
        BY <1>1, <2>1 DEF PromiseState
    <2>3. QED
        BY <1>1, <1>2, <2>1, <2>2 DEF TidyStep, Tidy, Empty
<1>5. QED
    BY <1>3, <1>4

LEMMA PromiseTidies ==
    ASSUME TidyStep, PhonePromise
    PROVE  Tidy'
<1>1. /\ ~OnlyFault /\ PhoneBase /\ promise.pc # "idle" /\ app' = app
      /\ keychain \in KeyState /\ keychain.access \in {"none", "good", "stale"}
    BY PhoneTypes DEF TidyStep, OnlyFault, PhonePromise, PromiseRead, PromiseAnswered,
        PromiseSaveAccess, PromiseSaveRefresh, PhoneBase, KeyState
<1>2. app.op \notin {"hydrate", "me", "saveUser", "dropRefresh", "dropUser"}
    BY <1>1 DEF TidyStep, Tidy
<1>3. CASE app.op \in {"idle", "login"} /\ app.checked /\ ~app.user
    <2>1. Empty /\ promise.pc = "read"
        BY <1>1, <1>3 DEF TidyStep, Tidy
    <2>2. PromiseRead
        BY <2>1 DEF PhonePromise, PromiseAnswered, PromiseSaveAccess, PromiseSaveRefresh
    <2>3. SettlePromise(FALSE, "none") /\ keychain' = keychain
        BY <2>1, <2>2 DEF PromiseRead, Empty, NoToken
    <2>4. promise'.pc = "idle"
        BY <1>1, <2>3, SettlePromiseFacts
    <2>5. QED
        BY <1>1, <1>2, <1>3, <2>1, <2>3, <2>4 DEF Tidy, Empty
<1>4. CASE ~(app.op \in {"idle", "login"} /\ app.checked /\ ~app.user)
    BY <1>1, <1>2, <1>4 DEF TidyStep, Tidy
<1>5. QED
    BY <1>3, <1>4

LEMMA PhoneTidies ==
    ASSUME TidyStep, PhoneNext, ~raced'
    PROVE  Tidy'
<1>1. CASE PhoneServer \/ PhoneEnvironment
    <2>1. UNCHANGED <<keychain, app, promise, areq>>
        BY <1>1 DEF PhoneServer, PhoneEnvironment, phoneVars
    <2>2. QED
        BY <2>1 DEF TidyStep, Tidy, Empty
<1>2. CASE PhoneOperation
    BY <1>2, HydrateTidies, DropsTidy, StoreTidies DEF PhoneOperation
<1>3. CASE PhonePromise
    BY <1>3, PromiseTidies
<1>4. CASE PhoneAccessExpires
    <2>1. /\ keychain.access = "good" /\ keychain \in KeyState
          /\ keychain' = [keychain EXCEPT !.access = "stale"]
          /\ UNCHANGED <<app, promise, areq>>
        BY <1>4, PhoneTypes DEF TidyStep, PhoneBase, PhoneAccessExpires
    <2>2. keychain'.access = "stale" /\ keychain'.user = keychain.user
        BY <2>1 DEF KeyState
    <2>3. QED
        BY <2>1, <2>2 DEF TidyStep, Tidy, Empty
<1>5. CASE PhoneUser
    BY <1>4, <1>5, StoreTidies, AppRequestsTidy DEF PhoneUser, PhoneKilled, TidyStep
<1>6. CASE \E r \in AppRequests : AppOk(r) \/ App401(r)
    BY <1>6, AppRequestsTidy
<1>7. QED
    BY <1>1, <1>2, <1>3, <1>5, <1>6 DEF PhoneNext

\* raced is never reset.
LEMMA RacedStays ==
    ASSUME PhoneBase, PhoneNext, ~raced'
    PROVE  ~raced
BY DEF PhoneNext, PhoneServer, PhoneEnvironment, PhoneOperation, PhonePromise, PhoneUser,
    HydrateRead, HydrateMe, HydrateSaveUser, DropAccess, DropRefresh, DropUser, Drop,
    PhoneLoginAnswered, LoginSaveAccess, LoginSaveRefresh, LoginSaveUser, Save,
    PhoneLogoutAnswered, PromiseRead, PromiseAnswered, PromiseSaveAccess,
    PromiseSaveRefresh, PhoneLogin, PhoneLogout, PhoneKilled, PhoneAccessExpires, AppSend,
    AppTimeout, AppOk, App401, phoneVars

LEMMA TidyNext ==
    ASSUME Base, PhoneTidy, [SessionNext]_vars
    PROVE  PhoneTidy'
<1> SUFFICES ASSUME device' = "phone", faults' = 0, ~raced' PROVE Tidy'
    BY DEF PhoneTidy
<1>1. faults = 0 /\ device = "phone"
    BY BaseNext DEF Onward, SessionNext, vars
<1>2. CASE PhoneNext
    <2>1. ~raced /\ ~Fault /\ PhoneBase
        BY <1>1, <1>2, RacedStays DEF Base, PhoneBase, Fault
    <2>2. TidyStep
        BY <1>1, <2>1 DEF TidyStep, PhoneTidy
    <2>3. QED
        BY <1>2, <2>2, PhoneTidies
<1>3. CASE UNCHANGED vars
    BY <1>1, <1>3 DEF PhoneTidy, Tidy, Empty, vars, phoneVars
<1>4. QED
    BY <1>1, <1>2, <1>3 DEF SessionNext

\* A phone that shows the login screen holds no credentials, unless a refresh
\* wrote them back while they were deleted: after a logout, and after a
\* hydrate that failed, all three keychain entries are gone.
THEOREM SessionSignedOut == SessionSpec => []SignedOutHoldsNothing
<1>1. SessionInit => PhoneTidy
    BY LaunchedFacts DEF SessionInit, PhoneInit, PhoneTidy, Tidy, Empty, NoPromise, Answered
<1>2. Base /\ PhoneTidy /\ [SessionNext]_vars => PhoneTidy'
    BY TidyNext
<1>3. Base /\ PhoneTidy => SignedOutHoldsNothing
    <2> SUFFICES ASSUME Base, PhoneTidy,
                        app.op = "idle", app.checked, ~app.user, faults = 0, ~raced
                 PROVE  keychain = [access |-> "none", refresh |-> NoToken, user |-> FALSE]
        BY DEF SignedOutHoldsNothing
    <2>1. CASE device = "browser"
        BY <2>1, LaunchedFacts DEF Base, Away
    <2>2. CASE device = "phone"
        <3>1. Empty /\ keychain \in KeyState
            BY <2>2, PhoneTypes DEF PhoneTidy, Tidy, Base
        <3>2. QED
            BY <3>1 DEF Empty, KeyState, NoToken
    <2>3. QED
        BY <2>1, <2>2 DEF Base, CounterTypes
<1>4. QED
    BY BaseInvariant, <1>1, <1>2, <1>3, PTL DEF SessionSpec

-----------------------------------------------------------------------------
(* The phone's tokens: what it presents is never one it rotated away.      *)

Good(t) == t \in Tokens /\ row[t].st = "valid"
Pending(c) == call[c].pc = "answered" /\ call[c].status = "200"
Saving == {"saveAccess", "saveRefresh"}

\* Whatever the phone may present or store next is a token that can be used,
\* and the token of a login that is being stored is none of the others.
Held ==
    /\ promise.pc = "posted" => call[Phone].pc # "idle"
    /\ promise.pc # "posted" => call[Phone].pc = "idle"
    /\ promise.pc \in {"idle", "read"} => keychain.refresh = 0 \/ Good(keychain.refresh)
    /\ call[Phone].pc \in {"sent", "read"} =>
         /\ Good(call[Phone].tok)
         /\ keychain.refresh = 0 \/ Good(keychain.refresh)
    /\ call[Phone].pc = "answered" => Pending(Phone) /\ Good(call[Phone].tok)
    /\ promise.pc \in Saving => Good(promise.tok)
    /\ app.op \in Saving =>
         /\ Good(app.tok)
         /\ app.tok # keychain.refresh
         /\ call[Phone].pc # "idle" => app.tok # call[Phone].tok
         /\ promise.pc \in Saving => app.tok # promise.tok

PhoneHolds == (device = "phone" /\ faults = 0 /\ ~over) => Held

HoldStep ==
    /\ PhoneBase /\ Held
    /\ faults' = 0 /\ ~over'
    /\ ~Fault

\* The user has one login, a token of it can be used or is being replaced.
OnlyLogin == faults = 0 /\ ~over /\ \A t \in Stored : row[t].login = 1
Alive ==
    \/ \E t \in Tokens : row[t].st = "valid"
    \/ \E c \in Callers : Claiming(c)

\* Steps that leave the tokens where they are, or drop some.
LEMMA KeptHolds ==
    ASSUME HoldStep, UNCHANGED <<row, call>>,
           keychain'.refresh \in {keychain.refresh, 0},
           promise' = promise \/ (promise.pc \in {"idle", "read"} /\ promise'.pc \in {"idle", "read"}),
           app'.op \in Saving => app.op \in Saving /\ app'.tok = app.tok
    PROVE  Held' /\ (Alive => Alive')
<1>1. \A t : Good(t)' <=> Good(t)
    BY DEF Good
<1>2. 0 \notin Tokens
    BY DEF Tokens
<1>3. Held'
    BY <1>1, <1>2 DEF HoldStep, Held, Saving, Good, Pending
<1>4. QED
    BY <1>3 DEF Alive, Claiming

\* A refresh of the phone is not denied.
LEMMA NotDenied ==
    ASSUME HoldStep, NEW q, Denied(Phone, q)
    PROVE  FALSE
<1>1. call[Phone].pc \in {"sent", "read"}
    BY DEF Denied, HoldStep, Late
<1>2. Good(call[Phone].tok)
    BY <1>1 DEF HoldStep, Held
<1>3. call[Phone].tok # NoToken
    BY <1>2 DEF Good, NoToken, Tokens
<1>4. QED
    BY <1>1, <1>2, <1>3 DEF Denied, HoldStep, Late, Presented, Good

LEMMA RefreshHolds ==
    ASSUME HoldStep, RefreshStep(Phone), UNCHANGED phoneVars
    PROVE  Held' /\ (Alive => Alive')
<1>0. Phone \in Callers /\ PhoneBase /\ TableInv /\ TableTypes /\ CallsHold /\ HeldByPhone
    BY MobileSessionAssumption DEF HoldStep, PhoneBase, TableInv
<1>1. UNCHANGED <<keychain, app, promise>>
    BY DEF phoneVars
<1>2. PICK q \in CallState :
          Denied(Phone, q) \/ Admitted(Phone, q) \/ Taken(Phone, q) \/ Renewed(Phone, q)
    BY <1>0, RefreshMoves DEF HoldStep, PhoneBase
<1>3. CASE Admitted(Phone, q)
    <2>1. /\ call[Phone].pc = "sent" /\ call'[Phone].pc = "read"
          /\ call'[Phone].tok = call[Phone].tok /\ row' = row
          /\ \A d \in Callers : d # Phone => call'[d] = call[d]
        BY <1>3 DEF Admitted, CallBecomes
    <2>2. \A t : Good(t)' <=> Good(t)
        BY <2>1 DEF Good
    <2>3. Held'
        BY <1>1, <2>1, <2>2 DEF HoldStep, Held
    <2>4. Alive => Alive'
        BY <2>1 DEF Alive, Claiming
    <2>5. QED
        BY <2>3, <2>4
<1>4. CASE Taken(Phone, q)
    <2>1. /\ call[Phone].pc = "read" /\ call'[Phone].pc = "claimed"
          /\ call'[Phone].tok = call[Phone].tok /\ row' = Revoke({call[Phone].tok})
        BY <1>4 DEF Taken, Claims, CallBecomes
    <2>2. \A t : Good(t) /\ t # call[Phone].tok => Good(t)'
        BY <1>0, <2>1, RevokeFacts DEF Good, TableTypes
    <2>3. Held'
        BY <1>1, <2>1, <2>2 DEF HoldStep, Held, Saving
    <2>4. Alive'
        BY <1>0, <2>1 DEF Alive, Claiming
    <2>5. QED
        BY <2>3, <2>4
<1>5. CASE Renewed(Phone, q)
    <2>1. /\ call[Phone].pc = "claimed" /\ call'[Phone].pc = "answered" /\ Pending(Phone)'
          /\ call'[Phone].tok = Next1
        BY <1>5 DEF Renewed, Replaces, Claiming, CallBecomes, Pending
    <2>2. /\ Next1 \in Tokens \ Stored /\ row'[Next1].st = "valid"
          /\ \A t \in Tokens : t # Next1 => row'[t] = row[t]
        BY <1>0, <1>5, ReplacesFacts DEF Renewed
    <2>3. \A t : Good(t) \/ t = Next1 => Good(t)'
        BY <2>2 DEF Good
    <2>4. app.tok # Next1
        BY <1>0, <2>2 DEF HeldByPhone, Tokens
    <2>5. Held'
        BY <1>1, <2>1, <2>3, <2>4 DEF HoldStep, Held
    <2>6. Alive'
        BY <2>2 DEF Alive
    <2>7. QED
        BY <2>5, <2>6
<1>6. QED
    BY <1>2, <1>3, <1>4, <1>5, NotDenied

LEMMA UnseenHolds ==
    ASSUME HoldStep, PhoneServer \/ PhoneEnvironment
    PROVE  Held' /\ (Alive => Alive')
<1>1. CASE PhoneServer
    BY <1>1, RefreshHolds DEF PhoneServer
<1>2. CASE PhoneEnvironment
    <2>1. LeewayPasses /\ UNCHANGED phoneVars
        BY <1>2 DEF PhoneEnvironment, AnswerLost, RevokeAllRefreshes, TokenExpires, HoldStep
    <2>2. QED
        BY <2>1, KeptHolds DEF LeewayPasses, phoneVars
<1>3. QED
    BY <1>1, <1>2

LEMMA OperationHolds ==
    ASSUME HoldStep, PhoneOperation
    PROVE  Held' /\ (Alive => Alive')
<1>0. /\ PhoneBase /\ TableInv /\ CallsHold /\ HeldByPhone
      /\ app \in AppState /\ keychain \in KeyState /\ app.tok \in 0..MaxTokens
      /\ ~OnlyFault /\ Phone \in Callers
      /\ \A op \in {"saveUser", "dropAccess", "dropRefresh", "dropUser", "saveRefresh",
                    "saveLogin"} : op \in Ops
    BY PhoneTypes, MobileSessionAssumption DEF HoldStep, PhoneBase, OnlyFault, AppState, Ops
<1>1. CASE HydrateRead
    <2>1. app'.op \in {"me", "idle"}
        <3>1. CASE app' = [app EXCEPT !.op = "me", !.access = keychain.access]
            BY <1>0, <3>1 DEF AppState
        <3>2. CASE Finish(FALSE)
            BY <3>2, FinishFacts
        <3>3. QED
            BY <1>1, <3>1, <3>2 DEF HydrateRead
    <2>2. QED
        BY <1>0, <1>1, <2>1, KeptHolds DEF HydrateRead, NoFault, Saving
<1>2. CASE HydrateMe
    <2>1. Goto("saveUser") \/ Goto("dropAccess")
        BY <1>2 DEF HydrateMe
    <2>2. app'.op \in {"saveUser", "dropAccess"}
        BY <1>0, <2>1, GotoFacts
    <2>3. QED
        BY <1>0, <1>2, <2>2, KeptHolds DEF HydrateMe, NoFault, Saving
<1>3. CASE HydrateSaveUser
    <2>1. keychain' = [keychain EXCEPT !.user = TRUE] /\ Finish(TRUE)
        BY <1>0, <1>3 DEF HydrateSaveUser
    <2>2. keychain'.refresh = keychain.refresh /\ app'.op = "idle"
        BY <1>0, <2>1, FinishFacts DEF KeyState
    <2>3. QED
        BY <1>0, <1>3, <2>2, KeptHolds DEF HydrateSaveUser, NoFault, Saving
<1>4. CASE DropAccess \/ DropRefresh \/ DropUser
    <2>1. \/ keychain' = [keychain EXCEPT !.access = "none"]
          \/ keychain' = [keychain EXCEPT !.refresh = NoToken]
          \/ keychain' = [keychain EXCEPT !.user = FALSE]
        BY <1>0, <1>4 DEF DropAccess, DropRefresh, DropUser, Drop
    <2>2. keychain'.refresh \in {keychain.refresh, 0}
        BY <1>0, <2>1 DEF KeyState, NoToken
    <2>3. Goto("dropRefresh") \/ Goto("dropUser") \/ Finish(FALSE)
        BY <1>0, <1>4 DEF DropAccess, DropRefresh, DropUser, Drop
    <2>4. app'.op \in {"dropRefresh", "dropUser", "idle"}
        BY <1>0, <2>3, GotoFacts, FinishFacts
    <2>5. UNCHANGED <<row, call, promise>>
        BY <1>0, <1>4 DEF DropAccess, DropRefresh, DropUser, Drop, NoFault
    <2>6. QED
        BY <2>2, <2>4, <2>5, KeptHolds DEF Saving
<1>5. CASE PhoneLoginAnswered
    <2>1. UNCHANGED <<call, keychain, promise>>
        BY <1>5 DEF PhoneLoginAnswered
    <2>2. CASE /\ CanMint /\ Store(0)
               /\ app' = [app EXCEPT !.op = "saveAccess", !.tok = Next1]
        <3>1. app'.op = "saveAccess" /\ app'.tok = Next1
            <4>1. Next1 \in 0..MaxTokens
                BY <1>0, <2>2, MintFacts DEF Tokens
            <4>2. QED
                BY <1>0, <2>2, <4>1 DEF AppState
        <3>2. /\ Next1 \in Tokens /\ Next1 \notin Stored /\ row'[Next1].st = "valid"
              /\ Next1 # 0 /\ \A t \in Tokens : t # Next1 => row'[t] = row[t]
            <4>1. 0 \in 0..MaxTokens
                BY RefreshTokensAssumption
            <4>2. QED
                BY <1>0, <2>2, <4>1, MintFacts, StoreFacts
        <3>3. \A t : Good(t) \/ t = Next1 => Good(t)'
            BY <3>2 DEF Good
        <3>4. Next1 # keychain.refresh /\ Next1 # call[Phone].tok /\ Next1 # promise.tok
            BY <1>0, <3>2 DEF HeldByPhone, CallsHold
        <3>5. Held'
            BY <2>1, <3>1, <3>3, <3>4 DEF HoldStep, Held, Pending
        <3>6. Alive'
            BY <3>2 DEF Alive
        <3>7. QED
            BY <3>5, <3>6
    <2>3. CASE Finish(FALSE) /\ UNCHANGED <<row, recent>>
        BY <2>1, <2>3, FinishFacts, KeptHolds DEF Saving
    <2>4. QED
        BY <1>5, <2>2, <2>3 DEF PhoneLoginAnswered
<1>6. CASE LoginSaveAccess
    <2>1. /\ keychain' = [keychain EXCEPT !.access = "good"] /\ Goto("saveRefresh")
          /\ app.op = "saveAccess" /\ UNCHANGED <<row, call, promise>>
        BY <1>0, <1>6 DEF LoginSaveAccess, Save, NoFault
    <2>2. keychain'.refresh = keychain.refresh /\ app'.op = "saveRefresh" /\ app'.tok = app.tok
        BY <1>0, <2>1, GotoFacts DEF KeyState
    <2>3. QED
        BY <2>1, <2>2, KeptHolds DEF Saving
<1>7. CASE LoginSaveRefresh
    <2>1. /\ keychain' = [keychain EXCEPT !.refresh = app.tok] /\ Goto("saveLogin")
          /\ app.op = "saveRefresh" /\ UNCHANGED <<row, call, promise>>
        BY <1>0, <1>7 DEF LoginSaveRefresh, Save, NoFault
    <2>2. keychain'.refresh = app.tok /\ app'.op = "saveLogin" /\ Good(app.tok)
        BY <1>0, <2>1, GotoFacts DEF KeyState, HoldStep, Held, Saving
    <2>3. \A t : Good(t)' <=> Good(t)
        BY <2>1 DEF Good
    <2>4. Held'
        BY <2>1, <2>2, <2>3 DEF HoldStep, Held, Saving, Pending
    <2>5. QED
        BY <2>1, <2>4 DEF Alive, Claiming
<1>8. CASE LoginSaveUser
    <2>1. /\ keychain' = [keychain EXCEPT !.user = TRUE] /\ Finish(TRUE)
          /\ UNCHANGED <<row, call, promise>>
        BY <1>0, <1>8 DEF LoginSaveUser, Save, NoFault
    <2>2. keychain'.refresh = keychain.refresh /\ app'.op = "idle"
        BY <1>0, <2>1, FinishFacts DEF KeyState
    <2>3. QED
        BY <2>1, <2>2, KeptHolds DEF Saving
<1>9. CASE PhoneLogoutAnswered
    <2>1. app'.op = "dropAccess"
        BY <1>0, <1>9, GotoFacts DEF PhoneLogoutAnswered
    <2>2. QED
        BY <1>9, <2>1, KeptHolds DEF PhoneLogoutAnswered, tokenVars, Saving
<1>10. QED
    BY <1>1, <1>2, <1>3, <1>4, <1>5, <1>6, <1>7, <1>8, <1>9 DEF PhoneOperation

LEMMA PromiseHolds ==
    ASSUME HoldStep, PhonePromise
    PROVE  Held' /\ (Alive => Alive')
<1>0. /\ PhoneBase /\ TableInv /\ keychain \in KeyState /\ promise \in PromiseState
      /\ keychain.access \in {"none", "good", "stale"} /\ promise.tok \in 0..MaxTokens
      /\ keychain.refresh \in 0..MaxTokens /\ ~OnlyFault /\ Phone \in Callers
    BY PhoneTypes, MobileSessionAssumption
       DEF HoldStep, PhoneBase, OnlyFault, KeyState, PromiseState
<1>1. CASE PromiseRead
    <2>1. promise.pc = "read" /\ call[Phone].pc = "idle" /\ UNCHANGED <<row, keychain, app>>
        BY <1>1 DEF PromiseRead, HoldStep, Held
    <2>2. CASE SettlePromise(FALSE, "none") /\ UNCHANGED call
        <3>1. promise'.pc = "idle"
            BY <1>0, <2>2, SettlePromiseFacts
        <3>2. QED
            BY <2>1, <2>2, <3>1, KeptHolds
    <2>3. CASE /\ keychain.refresh # NoToken /\ PostRefresh(Phone, keychain.refresh)
               /\ promise' = [promise EXCEPT !.pc = "posted"]
        <3>1. PICK q \in CallState : /\ CallBecomes(Phone, q)
                                     /\ q.pc = "sent" /\ q.tok = keychain.refresh
            BY <1>0, <2>3, PostFacts DEF TableInv
        <3>2. /\ call'[Phone].pc = "sent" /\ call'[Phone].tok = keychain.refresh
              /\ \A d \in Callers : d # Phone => call'[d] = call[d]
            BY <3>1 DEF CallBecomes
        <3>3. promise'.pc = "posted"
            BY <1>0, <2>3 DEF PromiseState
        <3>4. Good(keychain.refresh)
            BY <2>1, <2>3 DEF HoldStep, Held, NoToken
        <3>5. \A t : Good(t)' <=> Good(t)
            BY <2>1 DEF Good
        <3>6. Held'
            BY <2>1, <3>2, <3>3, <3>4, <3>5 DEF HoldStep, Held, Saving
        <3>7. QED
            BY <2>1, <3>2, <3>6 DEF Alive, Claiming
    <2>4. QED
        BY <1>1, <2>2, <2>3 DEF PromiseRead
<1>2. CASE PromiseAnswered
    <2>1. /\ call[Phone].pc = "answered" /\ UNCHANGED <<row, recent, keychain, app>>
          /\ call' = [call EXCEPT ![Phone] = Idle]
        BY <1>2 DEF PromiseAnswered
    <2>2. Pending(Phone) /\ Good(call[Phone].tok)
        BY <2>1 DEF HoldStep, Held
    <2>3. promise' = [pc |-> "saveAccess", tok |-> call[Phone].tok]
        BY <1>2, <2>2 DEF PromiseAnswered, Pending
    <2>4. promise'.pc = "saveAccess" /\ promise'.tok = call[Phone].tok
        BY <2>3
    <2>5. call'[Phone].pc = "idle" /\ \A d \in Callers : d # Phone => call'[d] = call[d]
        BY <1>0, <2>1, PhoneIdleBase, IdleFacts DEF CallBecomes
    <2>6. \A t : Good(t)' <=> Good(t)
        BY <2>1 DEF Good
    <2>7. Held'
        BY <2>1, <2>2, <2>4, <2>5, <2>6 DEF HoldStep, Held
    <2>8. QED
        BY <2>1, <2>5, <2>7 DEF Alive, Claiming
<1>3. CASE PromiseSaveAccess
    <2>1. /\ promise.pc = "saveAccess" /\ UNCHANGED <<row, call, app>>
          /\ keychain' = [keychain EXCEPT !.access = "good"]
          /\ promise' = [promise EXCEPT !.pc = "saveRefresh"]
        BY <1>0, <1>3 DEF PromiseSaveAccess, NoFault
    <2>2. keychain'.refresh = keychain.refresh
        BY <1>0, <2>1 DEF KeyState
    <2>3. promise'.pc = "saveRefresh" /\ promise'.tok = promise.tok
        BY <1>0, <2>1 DEF PromiseState
    <2>4. \A t : Good(t)' <=> Good(t)
        BY <2>1 DEF Good
    <2>5. Held'
        BY <2>1, <2>2, <2>3, <2>4 DEF HoldStep, Held, Saving, Pending
    <2>6. QED
        BY <2>1, <2>5 DEF Alive, Claiming
<1>4. CASE PromiseSaveRefresh
    <2>1. /\ promise.pc = "saveRefresh" /\ UNCHANGED <<row, call, app>>
          /\ keychain' = [keychain EXCEPT !.refresh = promise.tok]
          /\ SettlePromise(TRUE, keychain.access)
        BY <1>0, <1>4 DEF PromiseSaveRefresh, NoFault, NewPair
    <2>2. keychain'.refresh = promise.tok
        BY <1>0, <2>1 DEF KeyState
    <2>3. promise'.pc = "idle"
        BY <1>0, <2>1, SettlePromiseFacts
    <2>4. \A t : Good(t)' <=> Good(t)
        BY <2>1 DEF Good
    <2>5. Held'
        BY <2>1, <2>2, <2>3, <2>4 DEF HoldStep, Held, Saving, Pending
    <2>6. QED
        BY <2>1, <2>5 DEF Alive, Claiming
<1>5. QED
    BY <1>1, <1>2, <1>3, <1>4 DEF PhonePromise

LEMMA UserHolds ==
    ASSUME HoldStep, PhoneUser \/ \E r \in AppRequests : AppOk(r) \/ App401(r)
    PROVE  Held' /\ (Alive => Alive')
<1>0. /\ PhoneBase /\ app \in AppState /\ keychain \in KeyState /\ promise \in PromiseState
      /\ ~OnlyFault /\ "login" \in Ops
    BY PhoneTypes DEF HoldStep, PhoneBase, OnlyFault, Ops
<1>1. CASE PhoneLogin
    <2>1. app'.op = "login"
        BY <1>0, <1>1, GotoFacts DEF PhoneLogin
    <2>2. QED
        BY <1>1, <2>1, KeptHolds DEF PhoneLogin, Saving
<1>2. CASE PhoneLogout
    <2>1. app' = [app EXCEPT !.op = "logout", !.access = keychain.access]
        BY <1>2 DEF PhoneLogout
    <2>2. app'.op = "logout"
        BY <1>0, <2>1 DEF AppState
    <2>3. QED
        BY <1>2, <2>2, KeptHolds DEF PhoneLogout, Saving
<1>3. CASE PhoneAccessExpires
    <2>1. keychain'.refresh = keychain.refresh
        BY <1>0, <1>3 DEF PhoneAccessExpires, KeyState
    <2>2. QED
        BY <1>3, <2>1, KeptHolds DEF PhoneAccessExpires
<1>4. ASSUME NEW r \in AppRequests, AppSend(r) \/ AppTimeout(r) \/ AppOk(r) \/ App401(r)
      PROVE  Held' /\ (Alive => Alive')
    <2>1. UNCHANGED <<row, call, keychain, app>>
        BY <1>0, <1>4 DEF AppSend, AppTimeout, AppOk, App401, tokenVars
    <2>2. \/ promise' = promise
          \/ promise.pc = "idle" /\ promise' = [promise EXCEPT !.pc = "read"]
        BY <1>4 DEF AppSend, AppTimeout, AppOk, App401
    <2>3. promise' = promise \/ (promise.pc = "idle" /\ promise'.pc = "read")
        BY <1>0, <2>2 DEF PromiseState
    <2>4. QED
        BY <2>1, <2>3, KeptHolds
<1>5. QED
    BY <1>1, <1>2, <1>3, <1>4 DEF PhoneUser, PhoneKilled, HoldStep

LEMMA HoldsNext ==
    ASSUME Base, PhoneHolds, [SessionNext]_vars,
           device' = "phone", faults' = 0, ~over'
    PROVE  Held' /\ (Alive => Alive')
<1>1. faults = 0 /\ ~over /\ device = "phone" /\ Held
    BY BaseNext DEF Onward, SessionNext, vars, PhoneHolds
<1>2. CASE PhoneNext
    <2>1. HoldStep
        BY <1>1 DEF HoldStep, Base, PhoneBase, Fault
    <2>2. QED
        BY <1>2, <2>1, UnseenHolds, OperationHolds, PromiseHolds, UserHolds DEF PhoneNext
<1>3. CASE UNCHANGED vars
    <2>1. UNCHANGED <<row, call, keychain, promise, app>>
        BY <1>3 DEF vars, tokenVars, phoneVars
    <2>2. QED
        BY <1>1, <2>1 DEF Held, Good, Pending, Alive, Claiming
<1>4. QED
    BY <1>1, <1>2, <1>3 DEF SessionNext

LEMMA HoldsInit == SessionInit => PhoneHolds
<1> SUFFICES ASSUME SessionInit PROVE Held
    BY DEF PhoneHolds
<1>1. Good(1) /\ Phone \in Callers
    BY RefreshTokensAssumption, MobileSessionAssumption
       DEF SessionInit, TokenInit, Good, Tokens
<1>2. /\ call[Phone].pc = "idle" /\ promise.pc = "idle" /\ keychain.refresh = 1
      /\ app.op = "hydrate"
    BY <1>1, IdleFacts, LaunchedFacts DEF SessionInit, TokenInit, PhoneInit, NoPromise
<1>3. QED
    BY <1>1, <1>2 DEF Held, Saving

LEMMA HoldsInvariant == SessionSpec => []PhoneHolds
<1>1. Base /\ PhoneHolds /\ [SessionNext]_vars => PhoneHolds'
    BY HoldsNext DEF PhoneHolds
<1>2. QED
    BY BaseInvariant, HoldsInit, <1>1, PTL DEF SessionSpec

\* As long as nothing fails and nobody ends the login, the token the phone
\* presents is not one it has rotated away: requests share one refresh, and
\* the new pair is in the keychain before the next refresh reads it.
THEOREM SessionNoSelfReuse == SessionSpec => []NoSelfReuse
<1>1. Base /\ PhoneHolds => NoSelfReuse
    <2> SUFFICES ASSUME Base, PhoneHolds, faults = 0, ~over, call[Phone].pc = "sent"
                 PROVE  row[call[Phone].tok].st # "revoked"
        BY DEF NoSelfReuse
    <2>1. device = "phone"
        BY MobileSessionAssumption, SessionsAssumption DEF Base, Away, CounterTypes
    <2>2. QED
        BY <2>1 DEF PhoneHolds, Held, Good
<1>2. QED
    BY BaseInvariant, HoldsInvariant, <1>1, PTL

-----------------------------------------------------------------------------
(* What a step of the browser does to the rows, the calls and the jar,     *)
(* when nothing fails.                                                     *)

Handing(c) == call[c].pc \in {"sent", "read", "claimed"}

Rests == UNCHANGED <<row, recent, call>> /\ jar'.refresh \in {jar.refresh, 0}

Ends ==
    /\ \A t \in Tokens : /\ row'[t].login = row[t].login
                         /\ Usable(t)' => Usable(t)
    /\ UNCHANGED <<call, jar>>
    /\ over'

Ages == UNCHANGED <<row, call, jar>> /\ recent' = {} /\ (over' \/ Refreshing = {})

Posts ==
    /\ \E b \in Callers : /\ call[b].pc = "idle"
                          /\ \E q \in CallState : /\ CallBecomes(b, q)
                                                  /\ q.pc = "sent" /\ q.tok = jar.refresh
    /\ UNCHANGED <<row, recent, jar>>
    /\ \A b \in Tabs : ~tab'[b].quiet

Served ==
    /\ \E c \in Callers, q \in CallState :
          Denied(c, q) \/ Admitted(c, q) \/ Taken(c, q) \/ Renewed(c, q)
    /\ UNCHANGED jar

Settles ==
    /\ \E b \in Callers :
          /\ call[b].pc = "answered"
          /\ CallBecomes(b, Idle)
          /\ jar'.refresh = IF call[b].cookies = "set" THEN call[b].tok
                            ELSE IF call[b].cookies = "clear" THEN 0 ELSE jar.refresh
    /\ UNCHANGED <<row, recent>>

SignsIn == CanMint /\ Store(0) /\ UNCHANGED call /\ jar'.refresh = Next1

Effect == Rests \/ Ends \/ Ages \/ Posts \/ Served \/ Settles \/ SignsIn

LEMMA UnseenEffect ==
    ASSUME WebBase, UNCHANGED webVars, Unseen(Tabs), faults' = 0
    PROVE  Effect
<1>1. jar' = jar /\ TableTypes
    BY DEF webVars, WebBase, TableInv
<1>2. CASE \E c \in Tabs : RefreshStep(c)
    <2>1. PICK c \in Callers : RefreshStep(c)
        BY <1>2, WebSessionAssumption
    <2>2. Served
        BY <1>1, <2>1, RefreshMoves DEF WebBase, Served
    <2>3. QED
        BY <2>2 DEF Effect
<1>3. CASE \E c \in Tabs : AnswerLost(c)
    <2>1. faults' = faults + 1 /\ faults \in Nat
        BY <1>3, RefreshTokensAssumption DEF AnswerLost, Fault, WebBase, CounterTypes
    <2>2. QED
        BY <2>1
<1>4. CASE RevokeAllRefreshes
    <2>1. row' = Revoke(Tokens) /\ call' = call /\ over'
        BY <1>4 DEF RevokeAllRefreshes
    <2>2. Ends
        BY <1>1, <2>1, RevokeLoses DEF Ends, RowsLost
    <2>3. QED
        BY <2>2 DEF Effect
<1>5. CASE LeewayPasses
    <2>1. Ages
        BY <1>1, <1>5 DEF LeewayPasses, Ages, Refreshing
    <2>2. QED
        BY <2>1 DEF Effect
<1>6. CASE \E t \in Tokens : TokenExpires(t)
    <2>1. PICK t \in Tokens : TokenExpires(t)
        BY <1>6
    <2>2. /\ row'[t].st = "expired" /\ row[t].st = "valid"
          /\ \A u \in Tokens : row'[u].login = row[u].login /\ (u # t => row'[u] = row[u])
          /\ call' = call /\ over'
        BY <1>1, <2>1, StatusFacts DEF TokenExpires
    <2>3. Ends
        BY <1>1, <2>2 DEF Ends, Usable
    <2>4. QED
        BY <2>3 DEF Effect
<1>7. QED
    BY <1>2, <1>3, <1>4, <1>5, <1>6 DEF Unseen

LEMMA LogoutEffect ==
    ASSUME WebBase, NEW b \in Tabs, LogoutServed(b)
    PROVE  Effect
<1>1. CASE tab[b].access
    <2>1. row' = Revoke({tab[b].refresh}) /\ over' /\ UNCHANGED <<call, jar>>
        BY <1>1 DEF LogoutServed, RevokesPresented
    <2>2. Ends
        BY <2>1, RevokeLoses DEF Ends, RowsLost, WebBase, TableInv
    <2>3. QED
        BY <2>2 DEF Effect
<1>2. CASE ~tab[b].access
    <2>1. Rests
        BY <1>2 DEF LogoutServed, Rests
    <2>2. QED
        BY <2>1 DEF Effect
<1>3. QED
    BY <1>1, <1>2

LEMMA StoreEffect ==
    ASSUME WebBase,
           NEW b \in Tabs, \/ WebCheck(b) \/ WebChecked(b) \/ WebLogin(b) \/ WebLogout(b)
                           \/ WebReload(b) \/ WebLoggedOut(b) \/ WebLoginAnswered(b)
    PROVE  Effect
<1>1. CASE WebCheck(b) \/ WebChecked(b) \/ WebLogin(b) \/ WebLogout(b) \/ WebReload(b)
    <2>1. Rests
        BY <1>1 DEF WebCheck, WebChecked, WebLogin, WebLogout, WebReload, Rests, tokenVars
    <2>2. QED
        BY <2>1 DEF Effect
<1>2. CASE WebLoggedOut(b)
    <2>1. Rests
        BY <1>2 DEF WebLoggedOut, Rests, tokenVars, EmptyJar, NoToken
    <2>2. QED
        BY <2>1 DEF Effect
<1>3. CASE WebLoginAnswered(b)
    <2>1. CASE CanMint /\ Store(0) /\ jar' = [access |-> TRUE, refresh |-> Next1]
        <3>1. jar'.refresh = Next1 /\ call' = call
            BY <1>3, <2>1 DEF WebLoginAnswered
        <3>2. SignsIn
            BY <2>1, <3>1 DEF SignsIn
        <3>3. QED
            BY <3>2 DEF Effect
    <2>2. CASE UNCHANGED <<row, recent, jar>>
        <3>1. Rests
            BY <1>3, <2>2 DEF WebLoginAnswered, Rests
        <3>2. QED
            BY <3>1 DEF Effect
    <2>3. QED
        BY <1>3, <2>1, <2>2 DEF WebLoginAnswered
<1>4. QED
    BY <1>1, <1>2, <1>3

LEMMA RequestEffect ==
    ASSUME WebBase, NEW r \in Requests,
           WebSend(r) \/ WebOk(r) \/ WebUnreachable(r) \/ Web401(r)
    PROVE  Effect
<1>1. CASE WebSend(r) \/ WebOk(r) \/ WebUnreachable(r)
    <2>1. Rests
        BY <1>1 DEF WebSend, WebOk, WebUnreachable, Rests, tokenVars
    <2>2. QED
        BY <2>1 DEF Effect
<1>2. CASE Web401(r)
    <2>1. Rests \/ Posts
        BY <1>2, Web401Moves DEF Rests, Posts
    <2>2. QED
        BY <2>1 DEF Effect
<1>3. QED
    BY <1>1, <1>2

LEMMA WebEffect ==
    ASSUME WebBase, WebNext, faults' = 0
    PROVE  Effect
<1>1. CASE WebServer \/ WebEnvironment
    BY <1>1, UnseenEffect, LogoutEffect DEF WebServer, WebEnvironment, Unseen
<1>2. ASSUME NEW b \in Tabs, WebRefreshSettles(b) PROVE Effect
    <2>1. Settles
        BY <1>2, SettlesMoves DEF Settles
    <2>2. QED
        BY <2>1 DEF Effect
<1>3. CASE WebProgress
    BY <1>2, <1>3, StoreEffect, RequestEffect DEF WebProgress
<1>4. CASE WebUser
    BY <1>4, StoreEffect, RequestEffect DEF WebUser
<1>5. CASE AccessExpires
    <2>1. jar'.refresh = jar.refresh
        BY <1>5, WebTypes DEF WebBase, AccessExpires, JarState
    <2>2. Rests
        BY <1>5, <2>1 DEF AccessExpires, Rests
    <2>3. QED
        BY <2>2 DEF Effect
<1>6. QED
    BY <1>1, <1>3, <1>4, <1>5 DEF WebNext

-----------------------------------------------------------------------------
(* The jar is current: as long as no answer is lost, the login of the      *)
(* jar's token has no usable token but this one and those in answers that  *)
(* are on their way.                                                       *)

SameLogin(t, u) == row[t].login = row[u].login

\* An answer on its way brings the only usable token of its login.
PendingNew ==
    \A c \in Callers : Pending(c) =>
        /\ call[c].tok \in Stored
        /\ call[c].tok # jar.refresh
        /\ \A d \in Callers : Handing(d) => call[d].tok # call[c].tok
        /\ \A d \in Callers : Pending(d) /\ d # c => call[d].tok # call[c].tok
        /\ \A d \in Callers : Claiming(d) => ~SameLogin(call[d].tok, call[c].tok)
        /\ \A t \in Tokens : Usable(t) /\ SameLogin(t, call[c].tok) => t = call[c].tok

\* Cookies are set by the answers that bring a token.
SetPending ==
    \A c \in Callers :
        call[c].pc = "answered" => (call[c].cookies = "set" <=> call[c].status = "200")

JarCurrent ==
    jar.refresh # 0 =>
        \A t \in Tokens : Usable(t) /\ SameLogin(t, jar.refresh)
            => t = jar.refresh \/ \E c \in Callers : Pending(c) /\ call[c].tok = t

Fresh == PendingNew /\ SetPending /\ JarCurrent

FreshStep == WebBase /\ Fresh /\ faults' = 0

\* Steps that bring no token: usable ones may be lost, calls end or begin.
Dwindles ==
    /\ \A t \in Tokens : row'[t].login = row[t].login /\ (Usable(t)' => Usable(t))
    /\ \A d \in Callers :
          \/ call'[d] = call[d]
          \/ /\ ~Pending(d) /\ ~Pending(d)' /\ ~Claiming(d)'
             /\ call'[d].pc = "answered" => call'[d].cookies # "set"
             /\ Handing(d)' => \/ Handing(d) /\ call'[d].tok = call[d].tok
                               \/ call'[d].tok = jar.refresh
    /\ jar'.refresh \in {jar.refresh, 0}

LEMMA DwindlesFresh ==
    ASSUME FreshStep, Dwindles
    PROVE  Fresh'
<1>1. /\ Stored' = Stored /\ Stored \subseteq Tokens /\ 0 \notin Tokens
      /\ \A d \in Callers : call[d].tok \in Stored \cup {0}
      /\ jar.refresh \in Stored \cup {0}
    BY DEF FreshStep, WebBase, HeldByWeb, CallsHold, Dwindles, Stored, Tokens
<1>2. /\ \A d \in Callers : Pending(d)' => Pending(d) /\ call'[d] = call[d]
      /\ \A d \in Callers : Pending(d) => Pending(d)' /\ call'[d] = call[d]
      /\ \A d \in Callers : Claiming(d)' => Claiming(d) /\ call'[d] = call[d]
    BY DEF Dwindles, Pending, Claiming
<1>3. \A d \in Callers : Handing(d)' => \/ Handing(d) /\ call'[d].tok = call[d].tok
                                        \/ call'[d].tok = jar.refresh
    BY DEF Dwindles, Handing
<1>4. \A t, u \in Tokens : SameLogin(t, u)' <=> SameLogin(t, u)
    BY DEF Dwindles, SameLogin
<1>5. \A c \in Callers : Claiming(c) => call[c].tok \in Stored
    BY DEF FreshStep, WebBase, TableInv, CallsStored, Claiming
<1>6. PendingNew'
    <2> SUFFICES ASSUME NEW c \in Callers, Pending(c)'
                 PROVE  /\ call'[c].tok \in Stored'
                        /\ call'[c].tok # jar'.refresh
                        /\ \A d \in Callers : Handing(d)' => call'[d].tok # call'[c].tok
                        /\ \A d \in Callers : Pending(d)' /\ d # c => call'[d].tok # call'[c].tok
                        /\ \A d \in Callers : Claiming(d)' => ~SameLogin(call[d].tok, call[c].tok)'
                        /\ \A t \in Tokens : Usable(t)' /\ SameLogin(t, call[c].tok)'
                                                => t = call'[c].tok
        BY DEF PendingNew
    <2>1. /\ Pending(c) /\ call'[c] = call[c]
          /\ call[c].tok \in Stored
          /\ call[c].tok # jar.refresh
          /\ \A d \in Callers : Handing(d) => call[d].tok # call[c].tok
          /\ \A d \in Callers : Pending(d) /\ d # c => call[d].tok # call[c].tok
          /\ \A d \in Callers : Claiming(d) => ~SameLogin(call[d].tok, call[c].tok)
          /\ \A t \in Tokens : Usable(t) /\ SameLogin(t, call[c].tok) => t = call[c].tok
        BY <1>2 DEF FreshStep, Fresh, PendingNew
    <2>2. call'[c].tok \in Stored' /\ call'[c].tok # jar'.refresh
        BY <1>1, <2>1 DEF Dwindles
    <2>3. \A d \in Callers : Handing(d)' => call'[d].tok # call'[c].tok
        BY <1>3, <2>1
    <2>4. \A d \in Callers : Pending(d)' /\ d # c => call'[d].tok # call'[c].tok
        BY <1>2, <2>1
    <2>5. \A d \in Callers : Claiming(d)' => ~SameLogin(call[d].tok, call[c].tok)'
        BY <1>1, <1>2, <1>5, <2>1 DEF Dwindles, SameLogin
    <2>6. \A t \in Tokens : Usable(t)' /\ SameLogin(t, call[c].tok)' => t = call'[c].tok
        BY <1>1, <2>1 DEF Dwindles, SameLogin
    <2>7. QED
        BY <2>2, <2>3, <2>4, <2>5, <2>6
<1>7. SetPending'
    BY DEF FreshStep, Fresh, SetPending, Dwindles, Pending
<1>8. JarCurrent'
    <2> SUFFICES ASSUME jar'.refresh # 0, NEW t \in Tokens, Usable(t)', SameLogin(t, jar.refresh)'
                 PROVE  t = jar'.refresh \/ \E c \in Callers : Pending(c)' /\ call'[c].tok = t
        BY DEF JarCurrent
    <2>1. jar'.refresh = jar.refresh /\ jar.refresh \in Tokens /\ Usable(t)
        BY <1>1 DEF Dwindles
    <2>2. SameLogin(t, jar.refresh)
        BY <2>1 DEF SameLogin, Dwindles
    <2>3. t = jar.refresh \/ \E c \in Callers : Pending(c) /\ call[c].tok = t
        BY <2>1, <2>2 DEF FreshStep, Fresh, JarCurrent
    <2>4. QED
        BY <1>2, <2>1, <2>3
<1>9. QED
    BY <1>6, <1>7, <1>8 DEF Fresh

LEMMA RestsFresh ==
    ASSUME FreshStep, Rests \/ Ends \/ Ages
    PROVE  Fresh'
<1>1. Dwindles
    BY DEF Rests, Ends, Ages, Dwindles, Usable
<1>2. QED
    BY <1>1, DwindlesFresh

LEMMA PostsFresh ==
    ASSUME FreshStep, Posts
    PROVE  Fresh'
<1>1. PICK b \in Callers : /\ call[b].pc = "idle"
                           /\ \E q \in CallState : /\ CallBecomes(b, q)
                                                   /\ q.pc = "sent" /\ q.tok = jar.refresh
    BY DEF Posts
<1>2. /\ call'[b].pc = "sent" /\ call'[b].tok = jar.refresh
      /\ \A d \in Callers : d # b => call'[d] = call[d]
    BY <1>1 DEF CallBecomes
<1>3. Dwindles
    BY <1>1, <1>2 DEF Dwindles, Posts, Usable, Pending, Claiming, Handing
<1>4. QED
    BY <1>3, DwindlesFresh

LEMMA DeniedFresh ==
    ASSUME FreshStep, NEW c \in Callers, NEW q \in CallState,
           Denied(c, q) \/ Admitted(c, q), jar' = jar
    PROVE  Fresh'
<1>1. /\ call'[c] = q /\ \A d \in Callers : d # c => call'[d] = call[d]
      /\ q.pc \in {"answered", "read"} /\ q.tok = call[c].tok
      /\ q.pc = "answered" => q.status # "200" /\ q.cookies # "set"
      /\ call[c].pc \in {"sent", "read", "claimed"}
    BY DEF Denied, Admitted, CallBecomes
<1>2. \A t \in Tokens : row'[t].login = row[t].login /\ (Usable(t)' => Usable(t))
    BY DEF Denied, Admitted, RowsLost, Usable
<1>3. Dwindles
    BY <1>1, <1>2 DEF Dwindles, Pending, Claiming, Handing
<1>4. QED
    BY <1>3, DwindlesFresh

\* A claim takes the only usable token of a login: no answer has brought it.
LEMMA TakenFresh ==
    ASSUME FreshStep, NEW c \in Callers, NEW q \in CallState, Taken(c, q), jar' = jar
    PROVE  Fresh'
<1>0. TableInv /\ Claims(c) /\ call[c].pc = "read"
    BY DEF FreshStep, WebBase, Taken, Claims
<1>1. /\ call[c].tok \in Stored /\ call[c].tok \in Tokens
      /\ call'[c].tok = call[c].tok /\ call'[c].pc = "claimed"
      /\ \A d \in Callers : d # c => call'[d] = call[d]
      /\ \A t \in Tokens : /\ row'[t].login = row[t].login
                           /\ Usable(t)' <=> Usable(t) /\ t # call[c].tok
      /\ Stored' = Stored /\ Usable(call[c].tok)
    BY <1>0, ClaimsFacts DEF Claims
<1>2. \A d \in Callers : Pending(d)' <=> Pending(d)
    BY <1>0, <1>1 DEF Pending
<1>3. \A d \in Callers : Pending(d) => d # c
    BY <1>0 DEF Pending
<1>4. PendingNew'
    <2> SUFFICES ASSUME NEW d \in Callers, Pending(d)'
                 PROVE  /\ call'[d].tok \in Stored'
                        /\ call'[d].tok # jar'.refresh
                        /\ \A e \in Callers : Handing(e)' => call'[e].tok # call'[d].tok
                        /\ \A e \in Callers : Pending(e)' /\ e # d => call'[e].tok # call'[d].tok
                        /\ \A e \in Callers : Claiming(e)' => ~SameLogin(call[e].tok, call[d].tok)'
                        /\ \A t \in Tokens : Usable(t)' /\ SameLogin(t, call[d].tok)'
                                                => t = call'[d].tok
        BY DEF PendingNew
    <2>1. /\ Pending(d) /\ call'[d] = call[d] /\ d # c
          /\ call[d].tok \in Stored /\ call[d].tok \in Tokens
          /\ call[d].tok # jar.refresh
          /\ \A e \in Callers : Handing(e) => call[e].tok # call[d].tok
          /\ \A e \in Callers : Pending(e) /\ e # d => call[e].tok # call[d].tok
          /\ \A e \in Callers : Claiming(e) => ~SameLogin(call[e].tok, call[d].tok)
          /\ \A t \in Tokens : Usable(t) /\ SameLogin(t, call[d].tok) => t = call[d].tok
        BY <1>1, <1>2, <1>3 DEF FreshStep, Fresh, PendingNew, Stored
    <2>2. call'[d].tok \in Stored' /\ call'[d].tok # jar'.refresh
        BY <1>1, <2>1
    <2>3. \A e \in Callers : Handing(e)' => call'[e].tok # call'[d].tok
        BY <1>0, <1>1, <2>1 DEF Handing
    <2>4. \A e \in Callers : Pending(e)' /\ e # d => call'[e].tok # call'[d].tok
        BY <1>1, <1>2, <1>3, <2>1
    <2>5. ~SameLogin(call[c].tok, call[d].tok)
        BY <1>0, <1>1, <2>1 DEF Handing
    <2>6. \A e \in Callers : Claiming(e) => call[e].tok \in Tokens
        BY <1>0 DEF TableInv, CallsStored, Claiming, Stored
    <2>7. \A e \in Callers : Claiming(e)' => ~SameLogin(call[e].tok, call[d].tok)'
        BY <1>1, <2>1, <2>5, <2>6 DEF Claiming, SameLogin
    <2>8. \A t \in Tokens : Usable(t)' /\ SameLogin(t, call[d].tok)' => t = call'[d].tok
        BY <1>1, <2>1 DEF SameLogin
    <2>9. QED
        BY <2>2, <2>3, <2>4, <2>7, <2>8
<1>5. SetPending'
    BY <1>1 DEF FreshStep, Fresh, SetPending
<1>6. JarCurrent'
    <2> SUFFICES ASSUME jar'.refresh # 0, NEW t \in Tokens, Usable(t)', SameLogin(t, jar.refresh)'
                 PROVE  t = jar'.refresh \/ \E d \in Callers : Pending(d)' /\ call'[d].tok = t
        BY DEF JarCurrent
    <2>1. jar.refresh \in Tokens
        BY DEF FreshStep, WebBase, HeldByWeb, Stored
    <2>2. Usable(t) /\ SameLogin(t, jar.refresh)
        BY <1>1, <2>1 DEF SameLogin
    <2>3. t = jar.refresh \/ \E d \in Callers : Pending(d) /\ call[d].tok = t
        BY <2>2 DEF FreshStep, Fresh, JarCurrent
    <2>4. QED
        BY <1>1, <1>2, <1>3, <2>3
<1>7. QED
    BY <1>4, <1>5, <1>6 DEF Fresh

\* The replacement is on its way: it is the only usable token of its login.
LEMMA RenewedFresh ==
    ASSUME FreshStep, NEW c \in Callers, NEW q \in CallState, Renewed(c, q), jar' = jar
    PROVE  Fresh'
<1>0. /\ TableInv /\ Replaces(c) /\ Claiming(c)
      /\ \A d \in Callers : call[d].tok \in Stored \cup {0}
      /\ jar.refresh \in Stored \cup {0}
    BY DEF FreshStep, WebBase, Renewed, Replaces, CallsHold, HeldByWeb
<1>1. /\ LoginOf(c) \in Tokens /\ Next1 \in Tokens /\ Next1 \notin Stored /\ Next1 # 0
      /\ row'[Next1].login = LoginOf(c)
      /\ \A t \in Tokens : t # Next1 => row'[t] = row[t]
      /\ Stored' = Stored \cup {Next1}
      /\ \A d \in Callers : d # c => call'[d] = call[d]
    BY <1>0, ReplacesFacts DEF Tokens
<1>2. /\ call'[c].pc = "answered" /\ call'[c].tok = Next1
      /\ call'[c].status = "200" /\ call'[c].cookies = "set"
    BY DEF Renewed, CallBecomes
<1>3. /\ \A d \in Callers : d # c => (Pending(d)' <=> Pending(d))
      /\ \A d \in Callers : Pending(d) => d # c
      /\ \A d \in Callers : Handing(d)' => d # c /\ Handing(d)
      /\ \A d \in Callers : Claiming(d)' => d # c /\ Claiming(d)
    BY <1>0, <1>1, <1>2 DEF Pending, Handing, Claiming
<1>4. \A d \in Callers : Claiming(d) => call[d].tok \in Stored /\ call[d].tok \in Tokens
    BY <1>0 DEF TableInv, CallsStored, Claiming, Stored
<1>5. \A t \in Tokens : Usable(t)' /\ t # Next1 => Usable(t)
    BY <1>1 DEF Usable
<1>6. \A d \in Callers : d # c /\ Pending(d) =>
          /\ call[d].tok \in Stored /\ call[d].tok \in Tokens
          /\ row[call[d].tok].login # LoginOf(c)
    BY <1>0 DEF FreshStep, Fresh, PendingNew, SameLogin, LoginOf, Stored
<1>7. PendingNew'
    <2> SUFFICES ASSUME NEW d \in Callers, Pending(d)'
                 PROVE  /\ call'[d].tok \in Stored'
                        /\ call'[d].tok # jar'.refresh
                        /\ \A e \in Callers : Handing(e)' => call'[e].tok # call'[d].tok
                        /\ \A e \in Callers : Pending(e)' /\ e # d => call'[e].tok # call'[d].tok
                        /\ \A e \in Callers : Claiming(e)' => ~SameLogin(call[e].tok, call[d].tok)'
                        /\ \A t \in Tokens : Usable(t)' /\ SameLogin(t, call[d].tok)'
                                                => t = call'[d].tok
        BY DEF PendingNew
    <2>1. CASE d = c
        <3>1. call'[d].tok \in Stored' /\ call'[d].tok # jar'.refresh
            BY <1>0, <1>1, <1>2, <2>1
        <3>2. \A e \in Callers : Handing(e)' => call'[e].tok # call'[d].tok
            BY <1>0, <1>1, <1>2, <1>3, <2>1
        <3>3. \A e \in Callers : Pending(e)' /\ e # d => call'[e].tok # call'[d].tok
            BY <1>0, <1>1, <1>2, <1>3, <2>1
        <3>4. \A e \in Callers : Claiming(e)' => ~SameLogin(call[e].tok, call[d].tok)'
            <4> SUFFICES ASSUME NEW e \in Callers, Claiming(e)'
                         PROVE  ~SameLogin(call[e].tok, call[d].tok)'
                OBVIOUS
            <4>1. e # c /\ Claiming(e) /\ call[e].tok \in Tokens /\ call[e].tok # Next1
                BY <1>1, <1>3, <1>4
            <4>2. LoginOf(e) # LoginOf(c)
                BY <1>0, <4>1 DEF TableInv, OneClaim
            <4>3. QED
                BY <1>1, <1>2, <2>1, <4>1, <4>2 DEF SameLogin, LoginOf
        <3>5. \A t \in Tokens : Usable(t)' /\ SameLogin(t, call[d].tok)' => t = call'[d].tok
            BY <1>0, <1>1, <1>2, <1>5, <2>1 DEF SameLogin, TableInv, NotBoth
        <3>6. QED
            BY <3>1, <3>2, <3>3, <3>4, <3>5
    <2>2. CASE d # c
        <3>1. /\ Pending(d) /\ call'[d] = call[d]
              /\ call[d].tok \in Stored /\ call[d].tok \in Tokens /\ call[d].tok # Next1
              /\ call[d].tok # jar.refresh
              /\ \A e \in Callers : Handing(e) => call[e].tok # call[d].tok
              /\ \A e \in Callers : Pending(e) /\ e # d => call[e].tok # call[d].tok
              /\ \A e \in Callers : Claiming(e) => ~SameLogin(call[e].tok, call[d].tok)
              /\ \A t \in Tokens : Usable(t) /\ SameLogin(t, call[d].tok) => t = call[d].tok
            BY <1>1, <1>3, <2>2 DEF FreshStep, Fresh, PendingNew, Stored
        <3>2. call'[d].tok \in Stored' /\ call'[d].tok # jar'.refresh
            BY <1>1, <3>1
        <3>3. \A e \in Callers : Handing(e)' => call'[e].tok # call'[d].tok
            BY <1>1, <1>3, <3>1
        <3>4. \A e \in Callers : Pending(e)' /\ e # d => call'[e].tok # call'[d].tok
            BY <1>1, <1>2, <1>3, <3>1
        <3>5. \A e \in Callers : Claiming(e)' => ~SameLogin(call[e].tok, call[d].tok)'
            BY <1>1, <1>3, <1>4, <3>1 DEF SameLogin
        <3>6. \A t \in Tokens : Usable(t)' /\ SameLogin(t, call[d].tok)' => t = call'[d].tok
            BY <1>1, <1>5, <1>6, <2>2, <3>1 DEF SameLogin
        <3>7. QED
            BY <3>2, <3>3, <3>4, <3>5, <3>6
    <2>3. QED
        BY <2>1, <2>2
<1>8. SetPending'
    BY <1>1, <1>2 DEF FreshStep, Fresh, SetPending
<1>9. JarCurrent'
    <2> SUFFICES ASSUME jar'.refresh # 0, NEW t \in Tokens, Usable(t)', SameLogin(t, jar.refresh)'
                 PROVE  t = jar'.refresh \/ \E d \in Callers : Pending(d)' /\ call'[d].tok = t
        BY DEF JarCurrent
    <2>1. CASE t = Next1
        BY <1>2, <2>1 DEF Pending
    <2>2. CASE t # Next1
        <3>1. jar.refresh \in Tokens /\ jar.refresh # Next1
            BY <1>0, <1>1 DEF Stored
        <3>2. Usable(t) /\ SameLogin(t, jar.refresh)
            BY <1>1, <1>5, <2>2, <3>1 DEF SameLogin
        <3>3. t = jar.refresh \/ \E d \in Callers : Pending(d) /\ call[d].tok = t
            BY <3>2 DEF FreshStep, Fresh, JarCurrent
        <3>4. QED
            BY <1>1, <1>3, <3>3
    <2>3. QED
        BY <2>1, <2>2
<1>10. QED
    BY <1>7, <1>8, <1>9 DEF Fresh

\* The tab takes the answer: the jar gets the token it brought, or loses its
\* own, or keeps it.
LEMMA SettlesFresh ==
    ASSUME FreshStep, Settles
    PROVE  Fresh'
<1>1. PICK b \in Callers :
          /\ call[b].pc = "answered"
          /\ CallBecomes(b, Idle)
          /\ jar'.refresh = IF call[b].cookies = "set" THEN call[b].tok
                            ELSE IF call[b].cookies = "clear" THEN 0 ELSE jar.refresh
    BY DEF Settles
<1>2. /\ call'[b].pc = "idle" /\ row' = row
      /\ \A d \in Callers : d # b => call'[d] = call[d]
    BY <1>1, IdleFacts DEF CallBecomes, Settles
<1>3. Pending(b) <=> call[b].cookies = "set"
    BY <1>1 DEF FreshStep, Fresh, SetPending, Pending
<1>4. CASE ~Pending(b)
    <2>1. Dwindles
        BY <1>1, <1>2, <1>3, <1>4 DEF Dwindles, Usable, Pending, Claiming, Handing
    <2>2. QED
        BY <2>1, DwindlesFresh
<1>5. CASE Pending(b)
    <2>1. jar'.refresh = call[b].tok
        BY <1>1, <1>3, <1>5
    <2>2. /\ \A d \in Callers : Pending(d)' => d # b /\ Pending(d) /\ call'[d] = call[d]
          /\ \A d \in Callers : Handing(d)' => d # b /\ Handing(d) /\ call'[d] = call[d]
          /\ \A d \in Callers : Claiming(d)' => d # b /\ Claiming(d) /\ call'[d] = call[d]
        BY <1>2 DEF Pending, Handing, Claiming
    <2>3. \A t, u : SameLogin(t, u)' <=> row[t]'.login = row[u]'.login
        BY DEF SameLogin
    <2>4. Stored' = Stored /\ \A t \in Tokens : Usable(t)' <=> Usable(t)
        BY <1>2 DEF Stored, Usable
    <2>5. PendingNew'
        <3> SUFFICES ASSUME NEW d \in Callers, Pending(d)'
                     PROVE  /\ call'[d].tok \in Stored'
                            /\ call'[d].tok # jar'.refresh
                            /\ \A e \in Callers : Handing(e)' => call'[e].tok # call'[d].tok
                            /\ \A e \in Callers : Pending(e)' /\ e # d => call'[e].tok # call'[d].tok
                            /\ \A e \in Callers : Claiming(e)' => ~SameLogin(call[e].tok, call[d].tok)'
                            /\ \A t \in Tokens : Usable(t)' /\ SameLogin(t, call[d].tok)'
                                                    => t = call'[d].tok
            BY DEF PendingNew
        <3>1. /\ d # b /\ Pending(d) /\ call'[d] = call[d]
              /\ call[d].tok \in Stored
              /\ \A e \in Callers : Handing(e) => call[e].tok # call[d].tok
              /\ \A e \in Callers : Pending(e) /\ e # d => call[e].tok # call[d].tok
              /\ \A e \in Callers : Claiming(e) => ~SameLogin(call[e].tok, call[d].tok)
              /\ \A t \in Tokens : Usable(t) /\ SameLogin(t, call[d].tok) => t = call[d].tok
            BY <2>2 DEF FreshStep, Fresh, PendingNew
        <3>2. call'[d].tok \in Stored' /\ call'[d].tok # jar'.refresh
            BY <1>5, <2>1, <2>4, <3>1
        <3>3. \A e \in Callers : Handing(e)' => call'[e].tok # call'[d].tok
            BY <2>2, <3>1
        <3>4. \A e \in Callers : Pending(e)' /\ e # d => call'[e].tok # call'[d].tok
            BY <2>2, <3>1
        <3>5. \A e \in Callers : Claiming(e)' => ~SameLogin(call[e].tok, call[d].tok)'
            BY <1>2, <2>2, <3>1 DEF SameLogin
        <3>6. \A t \in Tokens : Usable(t)' /\ SameLogin(t, call[d].tok)' => t = call'[d].tok
            BY <1>2, <2>4, <3>1 DEF SameLogin
        <3>7. QED
            BY <3>2, <3>3, <3>4, <3>5, <3>6
    <2>6. SetPending'
        BY <1>2 DEF FreshStep, Fresh, SetPending
    <2>7. JarCurrent'
        BY <1>2, <1>5, <2>1, <2>4 DEF JarCurrent, FreshStep, Fresh, PendingNew, SameLogin
    <2>8. QED
        BY <2>5, <2>6, <2>7 DEF Fresh
<1>6. QED
    BY <1>4, <1>5

\* A new login: its first token is the jar's, and no other login has it.
LEMMA SignsInFresh ==
    ASSUME FreshStep, SignsIn
    PROVE  Fresh'
<1>0. /\ TableInv /\ CanMint /\ Store(0) /\ call' = call /\ jar'.refresh = Next1
      /\ 0 \in 0..MaxTokens
    BY RefreshTokensAssumption DEF FreshStep, WebBase, SignsIn
<1>1. /\ Next1 \in Tokens /\ Next1 \notin Stored /\ \A t \in Tokens : row[t].login # Next1
      /\ row'[Next1].login = Next1
      /\ \A t \in Tokens : t # Next1 => row'[t] = row[t]
      /\ Stored' = Stored \cup {Next1}
    BY <1>0, MintFacts, StoreFacts
<1>2. \A t \in Tokens : Usable(t)' /\ t # Next1 => Usable(t)
    BY <1>1 DEF Usable
<1>3. \A d \in Callers : /\ Pending(d)' <=> Pending(d)
                         /\ Handing(d)' <=> Handing(d)
                         /\ Claiming(d)' <=> Claiming(d)
    BY <1>0 DEF Pending, Handing, Claiming
<1>4. \A d \in Callers : Claiming(d) => call[d].tok \in Tokens /\ call[d].tok # Next1
    BY <1>0, <1>1 DEF TableInv, CallsStored, Claiming, Stored
<1>5. PendingNew'
    <2> SUFFICES ASSUME NEW d \in Callers, Pending(d)
                 PROVE  /\ call[d].tok \in Stored'
                        /\ call[d].tok # jar'.refresh
                        /\ \A e \in Callers : Handing(e) => call[e].tok # call[d].tok
                        /\ \A e \in Callers : Pending(e) /\ e # d => call[e].tok # call[d].tok
                        /\ \A e \in Callers : Claiming(e) => ~SameLogin(call[e].tok, call[d].tok)'
                        /\ \A t \in Tokens : Usable(t)' /\ SameLogin(t, call[d].tok)'
                                                => t = call[d].tok
        BY <1>0, <1>3 DEF PendingNew
    <2>1. /\ call[d].tok \in Stored /\ call[d].tok \in Tokens /\ call[d].tok # Next1
          /\ \A e \in Callers : Handing(e) => call[e].tok # call[d].tok
          /\ \A e \in Callers : Pending(e) /\ e # d => call[e].tok # call[d].tok
          /\ \A e \in Callers : Claiming(e) => ~SameLogin(call[e].tok, call[d].tok)
          /\ \A t \in Tokens : Usable(t) /\ SameLogin(t, call[d].tok) => t = call[d].tok
        BY <1>1 DEF FreshStep, Fresh, PendingNew, Stored
    <2>2. \A e \in Callers : Claiming(e) => ~SameLogin(call[e].tok, call[d].tok)'
        BY <1>0, <1>1, <1>4, <2>1 DEF SameLogin
    <2>3. \A t \in Tokens : Usable(t)' /\ SameLogin(t, call[d].tok)' => t = call[d].tok
        BY <1>0, <1>1, <1>2, <2>1 DEF SameLogin
    <2>4. QED
        BY <1>0, <1>1, <2>1, <2>2, <2>3
<1>6. SetPending'
    BY <1>0 DEF FreshStep, Fresh, SetPending
<1>7. JarCurrent'
    BY <1>0, <1>1 DEF JarCurrent, SameLogin
<1>8. QED
    BY <1>5, <1>6, <1>7 DEF Fresh

LEMMA EffectFresh ==
    ASSUME FreshStep, Effect
    PROVE  Fresh'
BY RestsFresh, PostsFresh, DeniedFresh, TakenFresh, RenewedFresh, SettlesFresh, SignsInFresh
   DEF Effect, Served

-----------------------------------------------------------------------------
(* A quiet logout carries the login's only usable token.                   *)

Carries(tok) ==
    tok # 0 => \A t \in Tokens : Usable(t) /\ SameLogin(t, tok) => t = tok

QuietLogout ==
    \A b \in Tabs : tab[b].auth = "logout" /\ tab[b].quiet
        => Refreshing = {} /\ Carries(tab[b].refresh)

\* A logout under way stays quiet only while nothing is refreshed.
LEMMA QuietKept ==
    ASSUME WebBase, Effect, QuietLogout, LogoutsKept
    PROVE  QuietLogout'
<1> SUFFICES ASSUME NEW b \in Tabs, tab'[b].auth = "logout", tab'[b].quiet
             PROVE  (Refreshing = {})' /\ Carries(tab[b].refresh)'
    BY DEF QuietLogout
<1>1. /\ tab'[b].refresh = tab[b].refresh
      /\ Refreshing = {} /\ Carries(tab[b].refresh)
      /\ tab[b].refresh \in Stored \cup {0}
    BY DEF LogoutsKept, QuietLogout, WebBase, HeldByWeb
<1>2. \A c \in Callers : call[c].pc = "idle"
    BY <1>1 DEF Refreshing
<1>3. CASE Rests \/ Ends \/ Ages
    <2>1. call' = call /\ \A t \in Tokens : row'[t].login = row[t].login /\ (Usable(t)' => Usable(t))
        BY <1>3 DEF Rests, Ends, Ages, Usable
    <2>2. (Refreshing = {})'
        BY <1>1, <2>1 DEF Refreshing
    <2>3. Carries(tab[b].refresh)'
        BY <1>1, <2>1 DEF Carries, SameLogin, Stored
    <2>4. QED
        BY <2>2, <2>3
<1>4. CASE Posts
    BY <1>4 DEF Posts
<1>5. CASE Served
    BY <1>2, <1>5 DEF Served, Denied, Admitted, Taken, Claims, Renewed, Replaces, Claiming
<1>6. CASE Settles
    BY <1>2, <1>6 DEF Settles
<1>7. CASE SignsIn
    <2>1. /\ TableInv /\ CanMint /\ Store(0) /\ call' = call /\ 0 \in 0..MaxTokens
        BY <1>7, RefreshTokensAssumption DEF WebBase, SignsIn
    <2>2. /\ Next1 \in Tokens /\ Next1 \notin Stored /\ \A t \in Tokens : row[t].login # Next1
          /\ row'[Next1].login = Next1
          /\ \A t \in Tokens : t # Next1 => row'[t] = row[t]
        BY <2>1, MintFacts, StoreFacts
    <2>3. (Refreshing = {})'
        BY <1>1, <2>1 DEF Refreshing
    <2>4. Carries(tab[b].refresh)'
        BY <1>1, <2>2 DEF Carries, SameLogin, Stored, Usable
    <2>5. QED
        BY <2>3, <2>4
<1>8. QED
    BY <1>3, <1>4, <1>5, <1>6, <1>7 DEF Effect

\* A logout that starts quiet: the jar is current and no answer is pending.
LEMMA LogoutQuiet ==
    ASSUME WebBase, Fresh, QuietLogout, NEW b \in Tabs, WebLogout(b)
    PROVE  QuietLogout'
<1>1. PICK p \in TabState : /\ TabBecomes(b, p)
                            /\ p.auth = "logout" /\ p.refresh = jar.refresh
                            /\ p.quiet <=> (Refreshing = {})
    BY WebLogoutMoves
<1>2. row' = row /\ call' = call
    BY DEF WebLogout
<1> SUFFICES ASSUME NEW t \in Tabs, tab'[t].auth = "logout", tab'[t].quiet
             PROVE  (Refreshing = {})' /\ Carries(tab[t].refresh)'
    BY DEF QuietLogout
<1>3. CASE t = b
    <2>1. tab'[t].refresh = jar.refresh /\ Refreshing = {}
        BY <1>1, <1>3 DEF TabBecomes
    <2>2. \A c \in Callers : ~Pending(c)
        BY <2>1 DEF Pending, Refreshing
    <2>3. Carries(jar.refresh)
        BY <2>2 DEF Fresh, JarCurrent, Carries
    <2>4. QED
        BY <1>2, <2>1, <2>3 DEF Carries, Refreshing, Usable, SameLogin
<1>4. CASE t # b
    <2>1. tab'[t] = tab[t]
        BY <1>1, <1>4 DEF TabBecomes
    <2>2. Refreshing = {} /\ Carries(tab[t].refresh)
        BY <2>1 DEF QuietLogout
    <2>3. QED
        BY <1>2, <2>1, <2>2 DEF Carries, Refreshing, Usable, SameLogin
<1>5. QED
    BY <1>3, <1>4

\* Every step of the browser keeps the logouts or starts one.
LEMMA LogoutsKeptOr ==
    ASSUME WebBase, WebNext, device' = device
    PROVE  LogoutsKept \/ \E b \in Tabs : WebLogout(b)
<1>1. CASE WebServer
    BY <1>1, WebUnseenBase, LogoutServedBase DEF WebServer, Unseen
<1>2. CASE WebEnvironment
    BY <1>2, WebUnseenBase DEF WebEnvironment, Unseen
<1>3. CASE WebProgress
    BY <1>3, WebRequestBase, Web401Base, SettlesBase, WebCheckBase, WebCheckedBase,
       WebLoginAnsweredBase, WebLoggedOutBase DEF WebProgress
<1>4. CASE WebUser
    BY <1>4, WebRequestBase, WebLoginBase, WebReloadBase DEF WebUser
<1>5. CASE AccessExpires
    BY <1>5, AccessExpiresBase
<1>6. QED
    BY <1>1, <1>2, <1>3, <1>4, <1>5 DEF WebNext

WebHolds == (device = "browser" /\ faults = 0) => Fresh /\ QuietLogout

LEMMA WebHoldsNext ==
    ASSUME Base, WebHolds, [SessionNext]_vars
    PROVE  WebHolds'
<1> SUFFICES ASSUME device' = "browser", faults' = 0 PROVE Fresh' /\ QuietLogout'
    BY DEF WebHolds
<1>1. faults = 0 /\ device = "browser" /\ WebBase /\ Fresh /\ QuietLogout
    BY BaseNext DEF Onward, SessionNext, vars, WebHolds, Base, WebBase
<1>2. CASE WebNext
    <2>1. Effect
        BY <1>1, <1>2, WebEffect
    <2>2. Fresh'
        BY <1>1, <2>1, EffectFresh DEF FreshStep
    <2>3. QuietLogout'
        BY <1>1, <1>2, <2>1, QuietKept, LogoutQuiet, LogoutsKeptOr
    <2>4. QED
        BY <2>2, <2>3
<1>3. CASE UNCHANGED vars
    <2>1. UNCHANGED <<row, recent, call, jar, tab>>
        BY <1>3 DEF vars, tokenVars, webVars
    <2>2. Rests /\ LogoutsKept
        BY <2>1 DEF Rests, LogoutsKept
    <2>3. QED
        BY <1>1, <2>2, RestsFresh, QuietKept DEF FreshStep, Effect
<1>4. QED
    BY <1>1, <1>2, <1>3 DEF SessionNext

LEMMA WebHoldsInit == SessionInit => WebHolds
<1> SUFFICES ASSUME SessionInit PROVE Fresh /\ QuietLogout
    BY DEF WebHolds
<1>1. \A c \in Callers : call[c].pc = "idle"
    BY IdleFacts DEF SessionInit, TokenInit
<1>2. \A b \in Tabs : tab[b].auth # "logout"
    BY SignedInFacts DEF SessionInit, WebInit
<1>3. jar.refresh = 1 /\ \A t \in Tokens : Usable(t) => t = 1
    BY DEF SessionInit, WebInit, TokenInit, Usable
<1>4. PendingNew /\ SetPending
    BY <1>1 DEF PendingNew, SetPending, Pending
<1>5. JarCurrent /\ QuietLogout
    BY <1>2, <1>3 DEF JarCurrent, QuietLogout
<1>6. QED
    BY <1>4, <1>5 DEF Fresh

LEMMA WebHoldsInvariant == SessionSpec => []WebHolds
<1>1. Base /\ WebHolds /\ [SessionNext]_vars => WebHolds'
    BY WebHoldsNext
<1>2. QED
    BY BaseInvariant, WebHoldsInit, <1>1, PTL DEF SessionSpec

-----------------------------------------------------------------------------
(* A logout ends the login for good.                                       *)

\* The login has neither a usable token nor a claim, and was born.
Over(l) ==
    /\ \E t \in Tokens : row[t].login = l
    /\ \A t \in Tokens : row[t].login = l => ~Usable(t)
    /\ \A c \in Callers : Claiming(c) => LoginOf(c) # l

LEMMA OverStays ==
    ASSUME TableInv, TableStep, NEW l \in Tokens, Over(l)
    PROVE  Over(l)'
<1>1. CASE Weakens
    <2>1. \A c \in Callers : Claiming(c) => call[c].tok \in Tokens
        BY DEF TableInv, CallsStored, Claiming, Stored
    <2>2. \A c \in Callers : Claiming(c)' => Claiming(c) /\ LoginOf(c)' = LoginOf(c)
        BY <1>1, <2>1 DEF Weakens, LoginOf
    <2>3. QED
        BY <1>1, <2>2 DEF Over, Weakens
<1>2. ASSUME NEW c \in Callers, Claims(c) PROVE Over(l)'
    <2>1. /\ call[c].tok \in Tokens /\ Usable(call[c].tok)
          /\ call'[c].tok = call[c].tok
          /\ \A d \in Callers : d # c => call'[d] = call[d]
          /\ \A t \in Tokens : row'[t].login = row[t].login /\ (Usable(t)' => Usable(t))
        BY <1>2, ClaimsFacts DEF Claims
    <2>2. LoginOf(c) # l
        BY <2>1 DEF Over, LoginOf
    <2>3. \A d \in Callers : Claiming(d) => call[d].tok \in Tokens
        BY DEF TableInv, CallsStored, Claiming, Stored
    <2>4. \A d \in Callers : Claiming(d)' => LoginOf(d)' # l
        BY <2>1, <2>2, <2>3 DEF Over, LoginOf, Claiming
    <2>5. QED
        BY <2>1, <2>4 DEF Over
<1>3. ASSUME NEW c \in Callers, Replaces(c) PROVE Over(l)'
    <2>1. LoginOf(c) # l
        BY <1>3 DEF Over, Replaces
    <2>2. /\ Next1 \in Tokens /\ Next1 \notin Stored /\ row'[Next1].login = LoginOf(c)
          /\ \A t \in Tokens : t # Next1 => row'[t] = row[t]
          /\ call'[c].pc = "answered"
          /\ \A d \in Callers : d # c => call'[d] = call[d]
        BY <1>3, ReplacesFacts
    <2>3. row[Next1].login # l
        BY <2>2 DEF Stored, Tokens
    <2>4. \A d \in Callers : Claiming(d) => call[d].tok \in Tokens /\ call[d].tok # Next1
        BY <2>2 DEF TableInv, CallsStored, Claiming, Stored
    <2>5. \A d \in Callers : Claiming(d)' => LoginOf(d)' # l
        BY <2>2, <2>4 DEF Over, LoginOf, Claiming
    <2>6. QED
        BY <2>1, <2>2, <2>3, <2>5 DEF Over, Usable
<1>4. CASE Begins
    <2>1. /\ CanMint /\ Store(0) /\ call' = call /\ 0 \in 0..MaxTokens
        BY <1>4, RefreshTokensAssumption DEF Begins
    <2>2. /\ Next1 \in Tokens /\ Next1 \notin Stored /\ \A t \in Tokens : row[t].login # Next1
          /\ row'[Next1].login = Next1
          /\ \A t \in Tokens : t # Next1 => row'[t] = row[t]
        BY <2>1, MintFacts, StoreFacts
    <2>3. l # Next1 /\ row[Next1].login # l
        BY <2>2 DEF Over, Stored, Tokens
    <2>4. \A d \in Callers : Claiming(d) => call[d].tok \in Tokens /\ call[d].tok # Next1
        BY <2>2 DEF TableInv, CallsStored, Claiming, Stored
    <2>5. \A d \in Callers : Claiming(d)' => LoginOf(d)' # l
        BY <2>1, <2>2, <2>4 DEF Over, LoginOf, Claiming
    <2>6. QED
        BY <2>2, <2>3, <2>5 DEF Over, Usable
<1>5. QED
    BY <1>1, <1>2, <1>3, <1>4 DEF TableStep

LoggedOut == \A l \in loggedOut : Over(l)

\* The logout that is served adds the login of the token it carried.
LEMMA ServedEnds ==
    ASSUME WebBase, LoggedOut, BaseStep, faults = 0 => QuietLogout,
           NEW b \in Tabs, LogoutServed(b)
    PROVE  LoggedOut'
<1>1. \A l \in loggedOut : Over(l)'
    BY OverStays DEF WebBase, WebTypeOK, BaseStep, LoggedOut
<1>2. CASE loggedOut' = loggedOut
    BY <1>1, <1>2 DEF LoggedOut
<1>3. CASE loggedOut' # loggedOut
    <2>1. /\ tab[b].quiet /\ faults = 0 /\ tab[b].auth = "logout"
          /\ row' = Revoke({tab[b].refresh}) /\ call' = call
          /\ loggedOut' = loggedOut \cup {row[k].login : k \in {tab[b].refresh} \cap Tokens}
        BY <1>3 DEF LogoutServed, RevokesPresented
    <2>2. Refreshing = {} /\ Carries(tab[b].refresh)
        BY <2>1 DEF QuietLogout
    <2>3. ASSUME NEW k \in {tab[b].refresh} \cap Tokens, NEW l, l = row[k].login
          PROVE  Over(l)'
        <3>1. l = row[k].login
            BY <2>3
        <3>2. /\ \A t \in Tokens : row'[t].login = row[t].login
              /\ \A t \in Tokens : Usable(t)' => Usable(t) /\ t # k
            BY <2>1, RevokeFacts DEF WebBase, TableInv, TableTypes, Usable
        <3>3. k # 0
            BY DEF Tokens
        <3>4. \A t \in Tokens : row'[t].login = l => ~Usable(t)'
            BY <2>2, <2>3, <3>1, <3>2, <3>3 DEF Carries, SameLogin
        <3>5. \A c \in Callers : ~Claiming(c)'
            BY <2>1, <2>2 DEF Refreshing, Claiming
        <3>6. QED
            BY <3>1, <3>2, <3>4, <3>5 DEF Over
    <2>4. \A l \in loggedOut' : Over(l)'
        BY <1>1, <2>1, <2>3
    <2>5. QED
        BY <2>4 DEF LoggedOut
<1>4. QED
    BY <1>2, <1>3

LEMMA LoggedOutNext ==
    ASSUME Base, WebHolds, LoggedOut, [SessionNext]_vars
    PROVE  LoggedOut'
<1>1. BaseStep /\ \A l \in loggedOut : Over(l)'
    BY BaseNext, OverStays DEF Base, WebTypeOK, BaseStep, LoggedOut
<1>2. CASE loggedOut' = loggedOut
    BY <1>1, <1>2 DEF LoggedOut
<1>3. CASE device = "browser" /\ \E b \in Tabs : LogoutServed(b)
    <2>1. WebBase /\ (faults = 0 => QuietLogout)
        BY <1>3 DEF Base, WebBase, WebHolds
    <2>2. QED
        BY <1>1, <1>3, <2>1, ServedEnds
<1>4. loggedOut' = loggedOut \/ (device = "browser" /\ \E b \in Tabs : LogoutServed(b))
    BY DEF SessionNext, WebNext, WebServer, WebEnvironment, WebProgress, WebUser, WebOk,
        Web401, WebRefreshSettles, WebCheck, WebChecked, WebLoginAnswered, WebLoggedOut,
        WebSend, WebUnreachable, WebLogin, WebLogout, WebReload, AccessExpires, webVars, vars
<1>5. QED
    BY <1>2, <1>3, <1>4

\* A logout that no refresh of the browser overlapped ends the login for good:
\* with any number of tabs, the cookie it carried was the login's only usable
\* token, and neither a refresh nor a later login brings the login back.
THEOREM SessionLogout == SessionSpec => []LogoutEndsLogin
<1>1. SessionInit => LoggedOut
    BY DEF SessionInit, WebInit, LoggedOut
<1>2. Base /\ WebHolds /\ LoggedOut /\ [SessionNext]_vars => LoggedOut'
    BY LoggedOutNext
<1>3. LoggedOut => LogoutEndsLogin
    <2> SUFFICES ASSUME NEW l \in loggedOut, Over(l) PROVE LoginPhase(l) = "ended"
        BY DEF LoggedOut, LogoutEndsLogin
    <2>1. TokensOf(l) # {} /\ ~\E t \in TokensOf(l) : Usable(t)
        BY DEF Over, TokensOf
    <2>2. TakenBy(l) = {}
        BY DEF Over, TakenBy, Claiming, LoginOf
    <2>3. QED
        BY <2>1, <2>2 DEF LoginPhase
<1>4. QED
    BY BaseInvariant, WebHoldsInvariant, <1>1, <1>2, <1>3, PTL DEF SessionSpec

-----------------------------------------------------------------------------
(* A user's only login survives the races for its token.                   *)

Unexpired == ~over => \A t \in Tokens : row[t].st # "expired"

LEMMA LostUnexpired ==
    ASSUME Unexpired, RowsLost, ~over' => ~over
    PROVE  Unexpired'
BY DEF Unexpired, RowsLost

LEMMA StoreUnexpired ==
    ASSUME TableInv, Unexpired, CanMint, NEW l \in 0..MaxTokens, Store(l), over' = over
    PROVE  Unexpired'
BY StoreFacts DEF Unexpired

LEMMA MoveUnexpired ==
    ASSUME TableInv, CounterTypes, Unexpired, NEW c \in Callers, RefreshStep(c)
    PROVE  Unexpired'
<1>0. over' = over /\ TableTypes
    BY RefreshMoves DEF TableInv
<1>1. PICK q \in CallState : Denied(c, q) \/ Admitted(c, q) \/ Taken(c, q) \/ Renewed(c, q)
    BY RefreshMoves
<1>2. CASE Denied(c, q)
    BY <1>0, <1>2, LostUnexpired DEF Denied
<1>3. CASE Admitted(c, q)
    BY <1>0, <1>3, SameRows, LostUnexpired DEF Admitted
<1>4. CASE Taken(c, q)
    BY <1>0, <1>4, RevokeLoses, LostUnexpired DEF Taken, Claims
<1>5. CASE Renewed(c, q)
    <2>1. Replaces(c) /\ CanMint /\ Store(LoginOf(c))
        BY <1>5 DEF Renewed, Replaces
    <2>2. LoginOf(c) \in 0..MaxTokens
        BY <2>1, ReplacesFacts DEF Tokens
    <2>3. QED
        BY <1>0, <2>1, <2>2, StoreUnexpired
<1>6. QED
    BY <1>1, <1>2, <1>3, <1>4, <1>5

LEMMA UnexpiredNext ==
    ASSUME Base, Unexpired, [SessionNext]_vars
    PROVE  Unexpired'
<1>0. TableTypes /\ TableInv /\ CounterTypes /\ 0 \in 0..MaxTokens /\ (~over' => ~over)
    BY BaseNext, RefreshTokensAssumption DEF Base, TableInv, Onward
<1>1. ASSUME row' = row PROVE Unexpired'
    BY <1>0, <1>1, SameRows, LostUnexpired
<1>2. ASSUME NEW S, row' = Revoke(S) PROVE Unexpired'
    BY <1>0, <1>2, RevokeLoses, LostUnexpired
<1>3. ASSUME CanMint, Store(0), over' = over PROVE Unexpired'
    BY <1>0, <1>3, StoreUnexpired
<1>4. ASSUME Unseen(Callers) PROVE Unexpired'
    <2>1. CASE RevokeAllRefreshes \/ \E t \in Tokens : TokenExpires(t)
        BY <2>1 DEF RevokeAllRefreshes, TokenExpires, Unexpired
    <2>2. QED
        BY <1>0, <1>1, <1>4, <2>1, MoveUnexpired DEF Unseen, AnswerLost, LeewayPasses
<1>5. CASE device = "browser" /\ WebNext
    <2>1. CASE WebServer \/ WebEnvironment
        <3>1. CASE \E b \in Tabs : LogoutServed(b)
            BY <1>1, <1>2, <3>1 DEF LogoutServed, RevokesPresented
        <3>2. CASE Unseen(Tabs)
            BY <1>4, <3>2, WebSessionAssumption DEF Unseen
        <3>3. QED
            BY <2>1, <3>1, <3>2 DEF WebServer, WebEnvironment, Unseen
    <2>2. ASSUME NEW b \in Tabs, WebLoginAnswered(b) PROVE Unexpired'
        BY <1>1, <1>3, <2>2 DEF WebLoginAnswered
    <2>3. CASE WebProgress
        BY <1>1, <2>2, <2>3 DEF WebProgress, WebOk, Web401, WebRefreshSettles, WebCheck,
            WebChecked, WebLoggedOut, tokenVars
    <2>4. CASE WebUser \/ AccessExpires
        BY <1>1, <2>4 DEF WebUser, WebSend, WebUnreachable, WebLogin, WebLogout, WebReload,
            AccessExpires, tokenVars
    <2>5. QED
        BY <1>5, <2>1, <2>3, <2>4 DEF WebNext
<1>6. CASE device = "phone" /\ PhoneNext
    <2>1. CASE PhoneServer \/ PhoneEnvironment
        BY <1>4, <2>1, MobileSessionAssumption DEF PhoneServer, PhoneEnvironment, Unseen
    <2>2. CASE PhoneLoginAnswered
        BY <1>1, <1>3, <2>2 DEF PhoneLoginAnswered
    <2>3. CASE PhoneOperation
        BY <1>1, <2>2, <2>3 DEF PhoneOperation, HydrateRead, HydrateMe, HydrateSaveUser,
            DropAccess, DropRefresh, DropUser, Drop, LoginSaveAccess, LoginSaveRefresh,
            LoginSaveUser, Save, PhoneLogoutAnswered, NoFault, OnlyFault, tokenVars
    <2>4. CASE PhonePromise
        BY <1>1, <2>4 DEF PhonePromise, PromiseRead, PromiseAnswered, PromiseSaveAccess,
            PromiseSaveRefresh, NoFault, OnlyFault
    <2>5. CASE PhoneUser \/ \E r \in AppRequests : AppOk(r) \/ App401(r)
        BY <1>1, <2>5 DEF PhoneUser, PhoneLogin, PhoneLogout, PhoneKilled,
            PhoneAccessExpires, AppSend, AppTimeout, AppOk, App401, OnlyFault, tokenVars
    <2>6. QED
        BY <1>6, <2>1, <2>3, <2>4, <2>5 DEF PhoneNext
<1>7. CASE UNCHANGED vars
    BY <1>1, <1>7 DEF vars, tokenVars
<1>8. QED
    BY <1>5, <1>6, <1>7 DEF SessionNext

\* A race is lost against a claim, or against a token that is spared.
Spared ==
    \/ \E t \in recent : row[t].st = "valid"
    \/ \E c \in Callers : Claiming(c)

Surviving ==
    /\ Alive
    /\ \A c \in Callers : Pending(c) => call[c].tok \in recent /\ row[call[c].tok].st = "valid"
    /\ \A c \in Callers : call[c].pc \in {"sent", "read"} /\ call[c].tok # 0
          => row[call[c].tok].st = "valid" \/ Spared
    /\ jar.refresh # 0 => \/ row[jar.refresh].st = "valid"
                          \/ \E c \in Callers : Pending(c) \/ Claiming(c)

WebRaces == (device = "browser" /\ OnlyLogin) => Surviving

SurviveStep ==
    /\ WebBase /\ Fresh /\ Unexpired /\ Surviving
    /\ OnlyLogin /\ faults' = 0 /\ ~over'

LEMMA RestsSurvives ==
    ASSUME SurviveStep, Rests
    PROVE  Surviving'
BY DEF SurviveStep, Rests, Surviving, Alive, Spared, Pending, Claiming

LEMMA AgesSurvives ==
    ASSUME SurviveStep, Ages
    PROVE  Surviving'
<1>1. /\ UNCHANGED <<row, call, jar>>
      /\ \A c \in Callers : call[c].pc = "idle"
    BY DEF SurviveStep, Ages, Refreshing
<1>2. QED
    BY <1>1 DEF SurviveStep, Surviving, Alive, Spared, Pending, Claiming

LEMMA PostsSurvives ==
    ASSUME SurviveStep, Posts
    PROVE  Surviving'
<1>1. PICK b \in Callers : /\ call[b].pc = "idle"
                           /\ \E q \in CallState : /\ CallBecomes(b, q)
                                                   /\ q.pc = "sent" /\ q.tok = jar.refresh
    BY DEF Posts
<1>2. /\ call'[b].pc = "sent" /\ call'[b].tok = jar.refresh
      /\ \A d \in Callers : d # b => call'[d] = call[d]
      /\ UNCHANGED <<row, recent, jar>>
    BY <1>1 DEF CallBecomes, Posts
<1>3. \A d \in Callers : (Pending(d)' <=> Pending(d)) /\ (Claiming(d)' <=> Claiming(d))
    BY <1>1, <1>2 DEF Pending, Claiming
<1>4. \A d \in Callers : Pending(d) => call'[d] = call[d]
    BY <1>1, <1>2 DEF Pending
<1>5. jar.refresh # 0 => row[jar.refresh].st = "valid" \/ Spared
    BY DEF SurviveStep, Surviving, Spared
<1>6. Spared' <=> Spared
    BY <1>2, <1>3 DEF Spared
<1>7. QED
    BY <1>1, <1>2, <1>3, <1>4, <1>5, <1>6 DEF SurviveStep, Surviving, Alive

\* Who presents a token that was taken is denied, and revokes what is not
\* recent.
LEMMA DeniedSurvives ==
    ASSUME SurviveStep, NEW c \in Callers, NEW q \in CallState, Denied(c, q), jar' = jar
    PROVE  Surviving'
<1>0. /\ TableInv /\ TableTypes /\ recent \subseteq Tokens /\ recent' = recent
      /\ call[c].tok \in 0..MaxTokens
    BY DEF SurviveStep, WebBase, TableInv, TableTypes, CallState, Denied
<1>1. /\ call'[c].pc = "answered" /\ ~Pending(c)' /\ ~Pending(c)
      /\ \A d \in Callers : d # c => call'[d] = call[d]
    BY DEF Denied, CallBecomes, Pending
<1>2. CASE call[c].pc = "sent" /\ Presented(c) = "absent" /\ row' = row
    <2>1. ~Claiming(c) /\ ~Claiming(c)'
        BY <1>1, <1>2 DEF Claiming
    <2>2. \A d \in Callers : /\ Pending(d)' <=> Pending(d)
                             /\ Claiming(d)' <=> Claiming(d)
                             /\ Pending(d) => call'[d] = call[d]
        BY <1>1, <2>1 DEF Pending, Claiming
    <2>3. Spared' <=> Spared
        BY <1>0, <1>2, <2>2 DEF Spared
    <2>4. QED
        BY <1>0, <1>1, <1>2, <2>2, <2>3 DEF SurviveStep, Surviving, Alive
<1>3. CASE call[c].pc = "sent" /\ Presented(c) = "expired"
    <2>1. call[c].tok \in Tokens /\ row[call[c].tok].st = "expired"
        BY <1>0, <1>3, RefreshTokensAssumption DEF Presented, NoToken, Tokens
    <2>2. QED
        BY <2>1 DEF SurviveStep, OnlyLogin, Unexpired
<1>4. CASE Late(c)
    <2>1. /\ call[c].tok \in Tokens /\ row[call[c].tok].st # "valid"
          /\ call[c].pc \in {"sent", "read"} /\ row' = Revoke(Tokens \ recent)
        BY <1>4 DEF Late, RevokeAllExceptRecent
    <2>2. call[c].tok # 0
        BY <2>1 DEF Tokens
    <2>3. Spared
        BY <2>1, <2>2 DEF SurviveStep, Surviving
    <2>4. ~Claiming(c) /\ ~Claiming(c)'
        BY <1>1, <2>1 DEF Claiming
    <2>5. \A d \in Callers : /\ Pending(d)' <=> Pending(d)
                             /\ Claiming(d)' <=> Claiming(d)
                             /\ Pending(d) => call'[d] = call[d]
        BY <1>1, <2>4 DEF Pending, Claiming
    <2>6. \A t \in recent : row[t].st = "valid" => row'[t].st = "valid"
        BY <1>0, <2>1, RevokeFacts DEF TableTypes
    <2>7. Spared'
        BY <1>0, <2>3, <2>5, <2>6 DEF Spared
    <2>8. Alive'
        BY <1>0, <2>7 DEF Alive, Spared
    <2>9. \A d \in Callers : Pending(d)' => call'[d].tok \in recent' /\ row'[call'[d].tok].st = "valid"
        BY <1>0, <2>5, <2>6 DEF SurviveStep, Surviving
    <2>10. jar'.refresh # 0 => \/ row'[jar'.refresh].st = "valid"
                               \/ \E d \in Callers : Pending(d)' \/ Claiming(d)'
        <3> SUFFICES ASSUME jar.refresh # 0, \A d \in Callers : ~Claiming(d)
                     PROVE  \/ row'[jar.refresh].st = "valid"
                            \/ \E d \in Callers : Pending(d)
            BY <2>5
        <3>1. PICK t \in recent : row[t].st = "valid"
            BY <2>3 DEF Spared
        <3>2. CASE row[jar.refresh].st = "valid"
            <4>1. jar.refresh \in Tokens /\ t \in Tokens
                BY <1>0 DEF SurviveStep, WebBase, HeldByWeb, Stored
            <4>2. t \in Stored /\ jar.refresh \in Stored
                BY <1>0, <3>1, <3>2, <4>1 DEF TableInv, Numbered, Stored
            <4>3. row[t].login = row[jar.refresh].login
                BY <4>2 DEF SurviveStep, OnlyLogin
            <4>4. t = jar.refresh
                BY <1>0, <3>1, <3>2, <4>1, <4>3 DEF TableInv, OneUsable, Usable
            <4>5. QED
                BY <2>6, <3>1, <4>4
        <3>3. CASE row[jar.refresh].st # "valid"
            BY <3>3 DEF SurviveStep, Surviving
        <3>4. QED
            BY <3>2, <3>3
    <2>11. QED
        BY <2>7, <2>8, <2>9, <2>10 DEF Surviving
<1>5. QED
    BY <1>2, <1>3, <1>4 DEF Denied, SurviveStep

LEMMA AdmittedSurvives ==
    ASSUME SurviveStep, NEW c \in Callers, NEW q \in CallState, Admitted(c, q), jar' = jar
    PROVE  Surviving'
<1>1. /\ UNCHANGED <<row, recent>>
      /\ call[c].pc = "sent" /\ call'[c].pc = "read" /\ call'[c].tok = call[c].tok
      /\ \A d \in Callers : d # c => call'[d] = call[d]
    BY DEF Admitted, CallBecomes
<1>2. \A d \in Callers : /\ Pending(d)' <=> Pending(d)
                         /\ Claiming(d)' <=> Claiming(d)
                         /\ call'[d].tok = call[d].tok
    BY <1>1 DEF Pending, Claiming
<1>3. Spared' <=> Spared
    BY <1>1, <1>2 DEF Spared
<1>4. QED
    BY <1>1, <1>2, <1>3 DEF SurviveStep, Surviving, Alive

LEMMA TakenSurvives ==
    ASSUME SurviveStep, NEW c \in Callers, NEW q \in CallState, Taken(c, q), jar' = jar
    PROVE  Surviving'
<1>0. TableInv /\ Claims(c) /\ call[c].pc = "read" /\ Claiming(c)'
    BY DEF SurviveStep, WebBase, Taken, Claims, CallBecomes, Claiming
<1>1. /\ call[c].tok \in Stored /\ call[c].tok \in Tokens /\ Usable(call[c].tok)
      /\ \A d \in Callers : d # c => call'[d] = call[d]
    BY <1>0, ClaimsFacts DEF Claims
<1>2. \A d \in Callers : ~Pending(d)
    <2> SUFFICES ASSUME NEW d \in Callers, Pending(d) PROVE FALSE
        OBVIOUS
    <2>1. /\ call[d].tok \in Stored /\ call[d].tok \in Tokens
          /\ call[c].tok # call[d].tok /\ Usable(call[d].tok)
        BY <1>0 DEF SurviveStep, Fresh, PendingNew, Handing, Surviving, Usable, Stored
    <2>2. row[call[d].tok].login = row[call[c].tok].login
        BY <1>1, <2>1 DEF SurviveStep, OnlyLogin
    <2>3. QED
        BY <1>0, <1>1, <2>1, <2>2 DEF TableInv, OneUsable
<1>3. \A d \in Callers : ~Pending(d)'
    BY <1>0, <1>1, <1>2 DEF Pending, Claiming
<1>4. QED
    BY <1>0, <1>3 DEF Surviving, Alive, Spared

LEMMA RenewedSurvives ==
    ASSUME SurviveStep, NEW c \in Callers, NEW q \in CallState, Renewed(c, q), jar' = jar
    PROVE  Surviving'
<1>0. TableInv /\ Replaces(c)
    BY DEF SurviveStep, WebBase, Renewed
<1>1. /\ Next1 \in Tokens /\ Next1 \notin Stored
      /\ row'[Next1].st = "valid" /\ recent' = recent \cup {Next1}
      /\ \A t \in Tokens : t # Next1 => row'[t] = row[t]
      /\ \A d \in Callers : d # c => call'[d] = call[d]
    BY <1>0, ReplacesFacts
<1>2. Pending(c)' /\ call'[c].tok = Next1
    BY DEF Renewed, CallBecomes, Pending
<1>3. \A d \in Callers : d # c /\ Pending(d)' =>
          Pending(d) /\ call[d].tok \in Tokens /\ call[d].tok # Next1
    BY <1>1 DEF Pending, SurviveStep, Fresh, PendingNew, Stored
<1>4. \A d \in Callers : Pending(d)' => call'[d].tok \in recent' /\ row'[call'[d].tok].st = "valid"
    BY <1>1, <1>2, <1>3 DEF SurviveStep, Surviving
<1>5. QED
    BY <1>1, <1>2, <1>4 DEF Surviving, Alive, Spared

LEMMA SettlesSurvives ==
    ASSUME SurviveStep, Settles
    PROVE  Surviving'
<1>1. PICK b \in Callers :
          /\ call[b].pc = "answered"
          /\ CallBecomes(b, Idle)
          /\ jar'.refresh = IF call[b].cookies = "set" THEN call[b].tok
                            ELSE IF call[b].cookies = "clear" THEN 0 ELSE jar.refresh
    BY DEF Settles
<1>2. /\ call'[b].pc = "idle" /\ UNCHANGED <<row, recent>>
      /\ \A d \in Callers : d # b => call'[d] = call[d]
    BY <1>1, IdleFacts DEF CallBecomes, Settles
<1>3. Pending(b) <=> call[b].cookies = "set"
    BY <1>1 DEF SurviveStep, Fresh, SetPending, Pending
<1>4. \A d \in Callers : /\ Pending(d)' <=> Pending(d) /\ d # b
                         /\ Claiming(d)' <=> Claiming(d)
    BY <1>1, <1>2 DEF Pending, Claiming
<1>5. Spared' <=> Spared
    BY <1>2, <1>4 DEF Spared
<1>6. jar'.refresh # 0 => \/ row'[jar'.refresh].st = "valid"
                          \/ \E d \in Callers : Pending(d)' \/ Claiming(d)'
    <2>1. CASE Pending(b)
        BY <1>1, <1>2, <1>3, <2>1 DEF SurviveStep, Surviving
    <2>2. CASE ~Pending(b)
        BY <1>1, <1>2, <1>3, <1>4, <2>2 DEF SurviveStep, Surviving
    <2>3. QED
        BY <2>1, <2>2
<1>7. QED
    BY <1>1, <1>2, <1>4, <1>5, <1>6 DEF SurviveStep, Surviving, Alive

\* A second login: the first is not the only one any more.
LEMMA SignsInSecond ==
    ASSUME TableInv, CanMint, Store(0)
    PROVE  ~(\A t \in Stored : row[t].login = 1)'
<1>1. 0 \in 0..MaxTokens
    BY RefreshTokensAssumption
<1>2. Next1 \in Stored' /\ row'[Next1].login = Next1 /\ Next1 # 1
    BY <1>1, MintFacts, StoreFacts
<1>3. QED
    BY <1>2

\* A stored token belongs to its login for good.
LEMMA LoginsStay ==
    ASSUME TableInv, TableStep
    PROVE  \A t \in Stored : row'[t].login = row[t].login
<1>0. 0 \in 0..MaxTokens /\ Stored \subseteq Tokens
    BY RefreshTokensAssumption DEF Stored
<1>1. CASE Weakens
    BY <1>0, <1>1 DEF Weakens
<1>2. ASSUME NEW c \in Callers, Claims(c) \/ Replaces(c)
      PROVE  \A t \in Stored : row'[t].login = row[t].login
    BY <1>0, <1>2, ClaimsFacts, ReplacesFacts
<1>3. CASE Begins
    BY <1>0, <1>3, MintFacts, StoreFacts DEF Begins
<1>4. QED
    BY <1>1, <1>2, <1>3 DEF TableStep

LEMMA OnlyLoginBefore ==
    ASSUME Base, [SessionNext]_vars, OnlyLogin'
    PROVE  OnlyLogin /\ faults' = 0 /\ ~over'
<1>1. /\ \A t \in Stored : row'[t].login = row[t].login
      /\ Stored \subseteq Stored' /\ Onward
    BY BaseNext, LoginsStay DEF Base, BaseStep
<1>2. QED
    BY <1>1 DEF OnlyLogin, Onward

LEMMA WebRacesNext ==
    ASSUME Base, WebHolds, Unexpired, WebRaces, [SessionNext]_vars
    PROVE  WebRaces'
<1> SUFFICES ASSUME device' = "browser", OnlyLogin' PROVE Surviving'
    BY DEF WebRaces
<1>1. device = "browser" /\ SurviveStep /\ WebBase
    BY OnlyLoginBefore DEF SessionNext, vars, SurviveStep, WebHolds, WebRaces, Base, WebBase, OnlyLogin
<1>2. CASE WebNext
    <2>1. Effect
        BY <1>1, <1>2, WebEffect DEF SurviveStep
    <2>2. ~Ends /\ ~SignsIn
        BY <1>1, SignsInSecond DEF Ends, SignsIn, SurviveStep, WebBase, OnlyLogin
    <2>3. Rests \/ Ages \/ Posts \/ Served \/ Settles
        BY <2>1, <2>2 DEF Effect
    <2>4. QED
        BY <1>1, <2>3, RestsSurvives, AgesSurvives, PostsSurvives, DeniedSurvives,
           AdmittedSurvives, TakenSurvives, RenewedSurvives, SettlesSurvives DEF Served
<1>3. CASE UNCHANGED vars
    <2>1. Rests
        BY <1>3 DEF Rests, vars, tokenVars, webVars
    <2>2. QED
        BY <1>1, <2>1, RestsSurvives
<1>4. QED
    BY <1>1, <1>2, <1>3 DEF SessionNext

PhoneRaces == (device = "phone" /\ OnlyLogin) => Alive

LEMMA PhoneRacesNext ==
    ASSUME Base, PhoneHolds, PhoneRaces, [SessionNext]_vars
    PROVE  PhoneRaces'
<1> SUFFICES ASSUME device' = "phone", OnlyLogin' PROVE Alive'
    BY DEF PhoneRaces
<1>1. device = "phone" /\ OnlyLogin /\ faults' = 0 /\ ~over'
    BY OnlyLoginBefore DEF SessionNext, vars
<1>2. QED
    BY <1>1, HoldsNext DEF PhoneRaces

LEMMA RacesInit == SessionInit => Unexpired /\ WebRaces /\ PhoneRaces
<1> SUFFICES ASSUME SessionInit PROVE Unexpired /\ Surviving
    BY DEF WebRaces, PhoneRaces, Surviving
<1>1. 1 \in Tokens /\ row[1].st = "valid" /\ \A t \in Tokens : row[t].st # "expired"
    BY RefreshTokensAssumption DEF SessionInit, TokenInit, Tokens
<1>2. \A c \in Callers : call[c].pc = "idle"
    BY IdleFacts DEF SessionInit, TokenInit
<1>3. jar.refresh = 1
    BY DEF SessionInit, WebInit
<1>4. QED
    BY <1>1, <1>2, <1>3 DEF Unexpired, Surviving, Alive, Pending

\* The only login of a user goes on at the server as long as nobody ended it,
\* it did not expire, no refresh was 30 s late and nothing failed: however
\* many tabs race for its token, the losers spare the winner's replacement.
THEOREM SessionSurvives == SessionSpec => []LoginSurvivesRaces
<1>1. Base /\ Unexpired /\ [SessionNext]_vars => Unexpired'
    BY UnexpiredNext
<1>2. Base /\ WebHolds /\ Unexpired /\ WebRaces /\ [SessionNext]_vars => WebRaces'
    BY WebRacesNext
<1>3. Base /\ PhoneHolds /\ PhoneRaces /\ [SessionNext]_vars => PhoneRaces'
    BY PhoneRacesNext
<1>4. Base /\ WebRaces /\ PhoneRaces => LoginSurvivesRaces
    <2> SUFFICES ASSUME Base, WebRaces, PhoneRaces, OnlyLogin
                 PROVE  LoginPhase(1) # "ended"
        BY DEF LoginSurvivesRaces, OnlyLogin
    <2>1. Alive
        BY DEF Base, CounterTypes, WebRaces, PhoneRaces, Surviving
    <2>2. TableInv /\ \A t \in Stored : row[t].login = 1
        BY DEF Base, OnlyLogin
    <2>3. CASE \E t \in Tokens : row[t].st = "valid"
        <3>1. PICK t \in Tokens : row[t].st = "valid"
            BY <2>3
        <3>2. t \in Stored
            BY <2>2, <3>1 DEF TableInv, Numbered, Stored
        <3>3. t \in TokensOf(1) /\ Usable(t)
            BY <2>2, <3>1, <3>2 DEF TokensOf, Usable
        <3>4. QED
            BY <3>3 DEF LoginPhase
    <2>4. CASE \E c \in Callers : Claiming(c)
        <3>1. PICK c \in Callers : Claiming(c)
            BY <2>4
        <3>2. call[c].tok \in Stored
            BY <2>2, <3>1 DEF TableInv, CallsStored, Claiming
        <3>3. c \in TakenBy(1) /\ call[c].tok \in TokensOf(1)
            BY <2>2, <3>1, <3>2 DEF TakenBy, Claiming, TokensOf, Stored
        <3>4. QED
            BY <3>3 DEF LoginPhase
    <2>5. QED
        BY <2>1, <2>3, <2>4 DEF Alive
<1>5. QED
    BY BaseInvariant, WebHoldsInvariant, HoldsInvariant, RacesInit, <1>1, <1>2, <1>3, <1>4, PTL
       DEF SessionSpec
=============================================================================
