------------------------- MODULE RefreshTokensProofs -------------------------
(***************************************************************************)
(* Proofs about the refresh_tokens table, whoever its callers are: any     *)
(* number of concurrent refreshes, tokens and logins.                      *)
(*                                                                         *)
(* Whatever a client or a handler does, the table and the calls under way  *)
(* change in one of four ways: tokens and claims are only lost (Weakens),  *)
(* a usable token is claimed, a claimed one is replaced, or a login        *)
(* begins.  Each keeps one token per login and is a step of TokenRotation. *)
(***************************************************************************)
EXTENDS RefreshTokens, FiniteSetTheorems, TLAPS

RowState == [st : {"absent", "valid", "expired", "revoked"}, login : 0..MaxTokens]
CallState == [pc : {"idle", "sent", "read", "claimed", "answered"},
              tok : 0..MaxTokens,
              status : {"none", "200", "401", "500", "lost"},
              cookies : {"keep", "clear", "set"}]

TableTypes ==
    /\ row \in [Tokens -> RowState]
    /\ recent \subseteq Tokens
    /\ call \in [Callers -> CallState]

CounterTypes ==
    /\ faults \in 0..MaxFaults
    /\ device \in {"browser", "phone"}
    /\ events \in 0..MaxEvents
    /\ over \in BOOLEAN

-----------------------------------------------------------------------------
(* The inductive invariant of the table.                                   *)

\* Tokens are stored one after the other, and a login bears the number of its
\* first token.
Numbered ==
    /\ \E k \in Tokens : Stored = 1..k
    /\ row[1].login = 1
    /\ \A t \in Tokens : row[t].login = 0 => row[t].st = "absent"
    /\ \A t \in Stored : row[t].login \in Stored

\* A call that got past the SELECT has a token that was stored.
CallsStored ==
    \A c \in Callers : call[c].pc \in {"read", "claimed"} => call[c].tok \in Stored

Claiming(c) == call[c].pc = "claimed"
LoginOf(c) == row[call[c].tok].login

OneUsable ==
    \A t, u \in Tokens : Usable(t) /\ Usable(u) /\ row[t].login = row[u].login => t = u

OneClaim ==
    \A c, d \in Callers : Claiming(c) /\ Claiming(d) /\ LoginOf(c) = LoginOf(d) => c = d

\* A login whose token is claimed has none that is usable.
NotBoth ==
    \A t \in Tokens, c \in Callers : Usable(t) /\ Claiming(c) => row[t].login # LoginOf(c)

TableInv ==
    /\ TableTypes
    /\ Numbered
    /\ CallsStored
    /\ OneUsable
    /\ OneClaim
    /\ NotBoth

-----------------------------------------------------------------------------
(* The ways the table and the calls change.                                *)

Weakens ==
    /\ \A t \in Tokens : /\ row'[t].login = row[t].login
                         /\ Usable(t)' => Usable(t)
                         /\ row[t].st = "absent" => row'[t].st = "absent"
    /\ \A c \in Callers :
          /\ Claiming(c)' => Claiming(c) /\ call'[c].tok = call[c].tok
          /\ call'[c].pc = "read" => call'[c].tok \in Stored

Claims(c) ==
    /\ call[c].pc = "read"
    /\ Usable(call[c].tok)
    /\ row' = Revoke({call[c].tok})
    /\ call' = [call EXCEPT ![c].pc = "claimed"]

Replaces(c) ==
    /\ Claiming(c)
    /\ CanMint
    /\ Store(LoginOf(c))
    /\ \E q \in CallState : /\ q.pc = "answered"
                            /\ call' = [call EXCEPT ![c] = q]

Begins ==
    /\ CanMint
    /\ Store(0)
    /\ UNCHANGED call

TableStep == Weakens \/ (\E c \in Callers : Claims(c) \/ Replaces(c)) \/ Begins

-----------------------------------------------------------------------------
(* Facts about the operators.                                              *)

\* The next token is one that was never stored.
LEMMA StoredFacts ==
    ASSUME TableInv
    PROVE  \E k \in Tokens : Stored = 1..k /\ Next1 = k + 1
<1>1. PICK k \in Tokens : Stored = 1..k
    BY DEF TableInv, Numbered
<1>2. k \in Nat /\ k >= 1
    BY RefreshTokensAssumption DEF Tokens
<1>3. Cardinality(1..k) = k
    BY <1>2, FS_Interval
<1>4. QED
    BY <1>1, <1>3 DEF Next1

LEMMA MintFacts ==
    ASSUME TableInv, CanMint
    PROVE  /\ Next1 \in Tokens /\ Next1 \notin Stored
           /\ Next1 # 0 /\ Next1 # 1
           /\ row[Next1].login = 0
           /\ \A t \in Tokens : row[t].login # Next1
           /\ \E k \in Tokens : Stored \cup {Next1} = 1..k
<1>1. PICK k \in Tokens : Stored = 1..k /\ Next1 = k + 1
    BY StoredFacts
<1>2. k \in Nat /\ k >= 1 /\ MaxTokens \in Nat
    BY RefreshTokensAssumption DEF Tokens
<1>3. Next1 \in Tokens /\ Next1 \notin Stored /\ Next1 # 0 /\ Next1 # 1
    BY <1>1, <1>2 DEF CanMint
<1>4. row[Next1].login = 0
    BY <1>3 DEF Stored
<1>5. \A t \in Tokens : row[t].login # Next1
    BY <1>3 DEF TableInv, Numbered, Stored
<1>6. Stored \cup {Next1} = 1..Next1
    BY <1>1, <1>2
<1>7. QED
    BY <1>3, <1>4, <1>5, <1>6

\* Revocation keeps the types and the logins and leaves no token usable that
\* it meets.
LEMMA RevokeFacts ==
    ASSUME row \in [Tokens -> RowState], NEW S
    PROVE  /\ Revoke(S) \in [Tokens -> RowState]
           /\ \A t \in Tokens :
                 /\ Revoke(S)[t].login = row[t].login
                 /\ row[t].st = "absent" => Revoke(S)[t].st = "absent"
                 /\ Revoke(S)[t].st = IF t \in S /\ row[t].st # "absent"
                                      THEN "revoked" ELSE row[t].st
<1>1. ASSUME NEW t \in Tokens
      PROVE  /\ Revoke(S)[t] \in RowState
             /\ Revoke(S)[t].login = row[t].login
             /\ Revoke(S)[t].st = IF t \in S /\ row[t].st # "absent"
                                  THEN "revoked" ELSE row[t].st
    <2>1. row[t] \in RowState
        OBVIOUS
    <2>2. CASE t \in S /\ row[t].st # "absent"
        <3>1. Revoke(S)[t] = [row[t] EXCEPT !.st = "revoked"]
            BY <2>2 DEF Revoke
        <3>2. QED
            BY <2>1, <2>2, <3>1 DEF RowState
    <2>3. CASE ~(t \in S /\ row[t].st # "absent")
        <3>1. Revoke(S)[t] = row[t]
            BY <2>3 DEF Revoke
        <3>2. QED
            BY <2>1, <2>3, <3>1
    <2>4. QED
        BY <2>2, <2>3
<1>2. Revoke(S) \in [Tokens -> RowState]
    <2>1. Revoke(S) = [t \in Tokens |-> Revoke(S)[t]]
        BY DEF Revoke
    <2>2. QED
        BY <1>1, <2>1
<1>3. QED
    BY <1>1, <1>2

-----------------------------------------------------------------------------
(* Each way keeps the invariant.                                           *)

LEMMA WeakensInv == ASSUME TableInv, Weakens, TableTypes' PROVE TableInv'
<1>1. \A t \in Tokens : row'[t].login = row[t].login
    BY DEF Weakens
<1>2. Stored' = Stored
    BY <1>1 DEF Stored
<1>3. 1 \in Tokens
    BY RefreshTokensAssumption DEF Tokens
<1>4. Numbered'
    <2>1. \A t \in Stored : row[t].login \in Stored /\ t \in Tokens
        BY DEF TableInv, Numbered, Stored
    <2>2. \A t \in Tokens : row[t].login = 0 => row'[t].st = "absent"
        BY DEF TableInv, Numbered, Weakens
    <2>3. QED
        BY <1>1, <1>2, <1>3, <2>1, <2>2 DEF TableInv, Numbered
<1>5. CallsStored'
    BY <1>2 DEF TableInv, CallsStored, Weakens, Claiming
<1>6. OneUsable'
    BY <1>1 DEF TableInv, OneUsable, Weakens
<1>7. \A c \in Callers : Claiming(c)' => Claiming(c) /\ LoginOf(c)' = LoginOf(c)
    <2> SUFFICES ASSUME NEW c \in Callers, Claiming(c)'
                 PROVE  Claiming(c) /\ LoginOf(c)' = LoginOf(c)
        OBVIOUS
    <2>1. Claiming(c) /\ call'[c].tok = call[c].tok
        BY DEF Weakens
    <2>2. call[c].tok \in Tokens
        BY <2>1 DEF TableInv, CallsStored, Claiming, Stored
    <2>3. QED
        BY <1>1, <2>1, <2>2 DEF LoginOf
<1>8. OneClaim'
    BY <1>7 DEF TableInv, OneClaim
<1>9. NotBoth'
    BY <1>1, <1>7 DEF TableInv, NotBoth, Weakens
<1>10. QED
    BY <1>4, <1>5, <1>6, <1>8, <1>9 DEF TableInv

\* The claim: the only usable token of the login goes, the only claim comes.
LEMMA ClaimsFacts ==
    ASSUME TableInv, NEW c \in Callers, Claims(c)
    PROVE  /\ call[c].tok \in Stored /\ call[c].tok \in Tokens
           /\ call[c] \in CallState
           /\ call' \in [Callers -> CallState]
           /\ call'[c].tok = call[c].tok /\ call'[c].pc = "claimed"
           /\ \A d \in Callers : d # c => call'[d] = call[d]
           /\ row' \in [Tokens -> RowState]
           /\ \A t \in Tokens :
                 /\ row'[t].login = row[t].login
                 /\ row[t].st = "absent" => row'[t].st = "absent"
                 /\ Usable(t)' <=> Usable(t) /\ t # call[c].tok
           /\ Stored' = Stored
<1>1. call[c].tok \in Stored /\ call[c].tok \in Tokens /\ call[c] \in CallState
    BY DEF TableInv, TableTypes, CallsStored, Claims, Stored
<1>2. /\ call' \in [Callers -> CallState]
      /\ call'[c].tok = call[c].tok /\ call'[c].pc = "claimed"
      /\ \A d \in Callers : d # c => call'[d] = call[d]
    <2> DEFINE q == [call[c] EXCEPT !.pc = "claimed"]
    <2>1. call' = [call EXCEPT ![c] = q]
        BY DEF Claims
    <2>2. q \in CallState /\ q.tok = call[c].tok /\ q.pc = "claimed"
        BY <1>1 DEF CallState
    <2> HIDE DEF q
    <2>3. QED
        BY <2>1, <2>2 DEF TableInv, TableTypes
<1>3. /\ row' \in [Tokens -> RowState]
      /\ \A t \in Tokens :
            /\ row'[t].login = row[t].login
            /\ row[t].st = "absent" => row'[t].st = "absent"
            /\ Usable(t)' <=> Usable(t) /\ t # call[c].tok
    BY RevokeFacts DEF TableInv, TableTypes, Claims, Usable
<1>4. Stored' = Stored
    BY <1>3 DEF Stored
<1>5. QED
    BY <1>1, <1>2, <1>3, <1>4

LEMMA ClaimsInv ==
    ASSUME TableInv, NEW c \in Callers, Claims(c), TableTypes'
    PROVE  TableInv'
<1> DEFINE k == call[c].tok
<1>1. 1 \in Tokens
    BY RefreshTokensAssumption DEF Tokens
<1>2. Numbered'
    <2>1. \A t \in Stored : row[t].login \in Stored /\ t \in Tokens
        BY DEF TableInv, Numbered, Stored
    <2>2. \A t \in Tokens : row[t].login = 0 => row'[t].st = "absent"
        BY ClaimsFacts DEF TableInv, Numbered
    <2>3. QED
        BY <1>1, <2>1, <2>2, ClaimsFacts DEF TableInv, Numbered
<1>3. CallsStored'
    BY ClaimsFacts DEF TableInv, CallsStored
<1>4. OneUsable'
    BY ClaimsFacts DEF TableInv, OneUsable
<1>5. /\ \A d \in Callers : Claiming(d)' <=> Claiming(d) \/ d = c
      /\ \A d \in Callers : Claiming(d)' => LoginOf(d)' = LoginOf(d)
    <2> SUFFICES ASSUME NEW d \in Callers
                 PROVE  /\ Claiming(d)' <=> Claiming(d) \/ d = c
                        /\ Claiming(d)' => LoginOf(d)' = LoginOf(d)
        OBVIOUS
    <2>1. Claiming(d)' <=> Claiming(d) \/ d = c
        BY ClaimsFacts DEF Claiming
    <2>2. call'[d].tok = call[d].tok
        BY ClaimsFacts
    <2>3. Claiming(d) \/ d = c => call[d].tok \in Tokens
        BY ClaimsFacts DEF TableInv, CallsStored, Claiming, Stored
    <2>4. QED
        BY <2>1, <2>2, <2>3, ClaimsFacts DEF LoginOf
<1>6. \A d \in Callers : Claiming(d) => LoginOf(d) # LoginOf(c)
    <2>1. Usable(k) /\ k \in Tokens
        BY ClaimsFacts DEF Claims
    <2>2. LoginOf(c) = row[k].login
        BY DEF LoginOf
    <2> HIDE DEF k
    <2>3. QED
        BY <2>1, <2>2 DEF TableInv, NotBoth
<1>7. OneClaim'
    BY <1>5, <1>6 DEF TableInv, OneClaim
<1>8. \A t \in Tokens : Usable(t)' => row[t].login # LoginOf(c)
    BY ClaimsFacts DEF TableInv, OneUsable, Claims, LoginOf
<1>9. NotBoth'
    BY <1>5, <1>8, ClaimsFacts DEF TableInv, NotBoth
<1>10. QED
    BY <1>2, <1>3, <1>4, <1>7, <1>9 DEF TableInv

\* storeRefresh of login l: the new row.
LEMMA StoreFacts ==
    ASSUME TableInv, CanMint, NEW l \in 0..MaxTokens, Store(l)
    PROVE  /\ row' \in [Tokens -> RowState]
           /\ row'[Next1].st = "valid"
           /\ row'[Next1].login = IF l = 0 THEN Next1 ELSE l
           /\ \A t \in Tokens : t # Next1 => row'[t] = row[t]
           /\ recent' \subseteq Tokens /\ recent' = recent \cup {Next1}
           /\ Stored' = Stored \cup {Next1}
<1>1. /\ Next1 \in Tokens /\ Next1 # 0 /\ row[Next1].login = 0
      /\ row \in [Tokens -> RowState] /\ recent \subseteq Tokens
    BY MintFacts DEF TableInv, TableTypes
<1> DEFINE m == IF l = 0 THEN Next1 ELSE l
           r == [st |-> "valid", login |-> m]
<1>2. m \in 0..MaxTokens /\ m # 0
    BY <1>1, RefreshTokensAssumption DEF Tokens
<1>3. row' = [row EXCEPT ![Next1] = r] /\ recent' = recent \cup {Next1}
    BY DEF Store
<1> HIDE DEF m
<1>4. r \in RowState /\ r.st = "valid" /\ r.login = m
    BY <1>2 DEF RowState
<1> HIDE DEF r
<1>5. row'[Next1] = r /\ \A t \in Tokens : t # Next1 => row'[t] = row[t]
    BY <1>1, <1>3
<1>6. row' \in [Tokens -> RowState]
    BY <1>1, <1>3, <1>4
<1>7. Stored' = Stored \cup {Next1}
    BY <1>1, <1>2, <1>4, <1>5 DEF Stored
<1>8. QED
    BY <1>1, <1>3, <1>4, <1>5, <1>6, <1>7 DEF m

\* The replacement is the login's only usable token, and its claim is over.
LEMMA ReplacesFacts ==
    ASSUME TableInv, NEW c \in Callers, Replaces(c)
    PROVE  /\ LoginOf(c) \in Stored /\ LoginOf(c) # 0 /\ LoginOf(c) \in Tokens
           /\ Next1 \in Tokens \ Stored
           /\ row' \in [Tokens -> RowState]
           /\ row'[Next1].st = "valid" /\ row'[Next1].login = LoginOf(c)
           /\ \A t \in Tokens : t # Next1 => row'[t] = row[t]
           /\ recent' = recent \cup {Next1}
           /\ Stored' = Stored \cup {Next1}
           /\ call' \in [Callers -> CallState]
           /\ call'[c].pc = "answered"
           /\ \A d \in Callers : d # c => call'[d] = call[d]
<1>1. call[c].tok \in Stored /\ Stored \subseteq Tokens
    BY DEF TableInv, CallsStored, Replaces, Claiming, Stored
<1>2. LoginOf(c) \in Stored /\ LoginOf(c) # 0 /\ LoginOf(c) \in Tokens
    BY <1>1 DEF TableInv, Numbered, LoginOf, Stored
<1>3. LoginOf(c) \in 0..MaxTokens
    BY <1>2 DEF Tokens
<1>4. PICK q \in CallState : q.pc = "answered" /\ call' = [call EXCEPT ![c] = q]
    BY DEF Replaces
<1>5. /\ call' \in [Callers -> CallState]
      /\ call'[c].pc = "answered"
      /\ \A d \in Callers : d # c => call'[d] = call[d]
    BY <1>4 DEF TableInv, TableTypes
<1>6. CanMint /\ Store(LoginOf(c))
    BY DEF Replaces
<1>7. QED
    BY <1>2, <1>3, <1>5, <1>6, MintFacts, StoreFacts

LEMMA ReplacesInv ==
    ASSUME TableInv, NEW c \in Callers, Replaces(c), TableTypes'
    PROVE  TableInv'
<1> DEFINE n == Next1
           l == LoginOf(c)
<1>1. /\ l \in Stored /\ l # 0 /\ l \in Tokens
      /\ n \in Tokens \ Stored
      /\ row'[n].st = "valid" /\ row'[n].login = l
      /\ \A t \in Tokens : t # n => row'[t] = row[t]
      /\ Stored' = Stored \cup {n}
      /\ call'[c].pc = "answered"
      /\ \A d \in Callers : d # c => call'[d] = call[d]
    BY ReplacesFacts
<1>2. n # 1 /\ n # 0 /\ (\E k \in Tokens : Stored \cup {n} = 1..k)
    BY MintFacts DEF Replaces
<1>3. Claiming(c)
    BY DEF Replaces
<1>4. 1 \in Tokens
    BY RefreshTokensAssumption DEF Tokens
<1> HIDE DEF n, l
<1>5. Numbered'
    <2>1. \A t \in Stored : row[t].login \in Stored /\ t \in Tokens /\ t # n
        BY <1>1 DEF TableInv, Numbered, Stored
    <2>2. \A t \in Tokens : row'[t].login = 0 => row'[t].st = "absent"
        BY <1>1 DEF TableInv, Numbered
    <2>3. QED
        BY <1>1, <1>2, <1>4, <2>1, <2>2 DEF TableInv, Numbered
<1>6. CallsStored'
    BY <1>1 DEF TableInv, CallsStored
<1>7. \A t \in Tokens : Usable(t) => row[t].login # l
    BY <1>3 DEF TableInv, NotBoth, l
<1>8. OneUsable'
    BY <1>1, <1>7 DEF TableInv, OneUsable, Usable
<1>9. \A d \in Callers : Claiming(d)'
         => d # c /\ Claiming(d) /\ LoginOf(d)' = LoginOf(d)
    <2> SUFFICES ASSUME NEW d \in Callers, Claiming(d)'
                 PROVE  d # c /\ Claiming(d) /\ LoginOf(d)' = LoginOf(d)
        OBVIOUS
    <2>1. d # c /\ Claiming(d) /\ call'[d] = call[d]
        BY <1>1 DEF Claiming
    <2>2. call[d].tok \in Tokens /\ call[d].tok # n
        BY <1>1, <2>1 DEF TableInv, CallsStored, Claiming, Stored
    <2>3. QED
        BY <1>1, <2>1, <2>2 DEF LoginOf
<1>10. OneClaim'
    BY <1>9 DEF TableInv, OneClaim
<1>11. \A d \in Callers : Claiming(d) /\ d # c => LoginOf(d) # l
    BY <1>3 DEF TableInv, OneClaim, l
<1>12. NotBoth'
    <2> SUFFICES ASSUME NEW t \in Tokens, NEW d \in Callers, Usable(t)', Claiming(d)'
                 PROVE  row'[t].login # LoginOf(d)'
        BY DEF NotBoth
    <2>1. CASE t = n
        BY <2>1, <1>1, <1>9, <1>11
    <2>2. CASE t # n
        BY <2>2, <1>1, <1>9 DEF TableInv, NotBoth, Usable
    <2>3. QED
        BY <2>1, <2>2
<1>13. QED
    BY <1>5, <1>6, <1>8, <1>10, <1>12 DEF TableInv

\* A login begins with a token, and a number, of its own.
LEMMA BeginsInv == ASSUME TableInv, Begins, TableTypes' PROVE TableInv'
<1> DEFINE n == Next1
<1>1. /\ n \in Tokens /\ n \notin Stored /\ n # 0 /\ n # 1
      /\ \A t \in Tokens : row[t].login # n
      /\ \E k \in Tokens : Stored \cup {n} = 1..k
    BY MintFacts DEF Begins
<1>2. /\ row'[n].st = "valid" /\ row'[n].login = n
      /\ \A t \in Tokens : t # n => row'[t] = row[t]
      /\ Stored' = Stored \cup {n}
      /\ call' = call
    <2>1. 0 \in 0..MaxTokens
        BY RefreshTokensAssumption
    <2>2. QED
        BY <2>1, StoreFacts DEF Begins
<1>3. 1 \in Tokens
    BY RefreshTokensAssumption DEF Tokens
<1> HIDE DEF n
<1>4. Numbered'
    <2>1. \A t \in Stored : row[t].login \in Stored /\ t \in Tokens /\ t # n
        BY <1>1 DEF TableInv, Numbered, Stored
    <2>2. \A t \in Tokens : row'[t].login = 0 => row'[t].st = "absent"
        BY <1>1, <1>2 DEF TableInv, Numbered
    <2>3. QED
        BY <1>1, <1>2, <1>3, <2>1, <2>2 DEF TableInv, Numbered
<1>5. CallsStored'
    BY <1>2 DEF TableInv, CallsStored
<1>6. OneUsable'
    BY <1>1, <1>2 DEF TableInv, OneUsable, Usable
<1>7. \A d \in Callers : Claiming(d)' =>
         Claiming(d) /\ LoginOf(d)' = LoginOf(d) /\ LoginOf(d) # n
    <2> SUFFICES ASSUME NEW d \in Callers, Claiming(d)'
                 PROVE  Claiming(d) /\ LoginOf(d)' = LoginOf(d) /\ LoginOf(d) # n
        OBVIOUS
    <2>1. Claiming(d)
        BY <1>2 DEF Claiming
    <2>2. call[d].tok \in Tokens /\ call[d].tok # n
        BY <1>1, <2>1 DEF TableInv, CallsStored, Claiming, Stored
    <2>3. QED
        BY <1>1, <1>2, <2>1, <2>2 DEF LoginOf
<1>8. OneClaim'
    BY <1>7 DEF TableInv, OneClaim
<1>9. NotBoth'
    <2> SUFFICES ASSUME NEW t \in Tokens, NEW d \in Callers, Usable(t)', Claiming(d)'
                 PROVE  row'[t].login # LoginOf(d)'
        BY DEF NotBoth
    <2>1. CASE t = n
        BY <2>1, <1>2, <1>7
    <2>2. CASE t # n
        BY <2>2, <1>2, <1>7 DEF TableInv, NotBoth, Usable
    <2>3. QED
        BY <2>1, <2>2
<1>10. QED
    BY <1>4, <1>5, <1>6, <1>8, <1>9 DEF TableInv

LEMMA TableStepInv == ASSUME TableInv, TableStep, TableTypes' PROVE TableInv'
BY WeakensInv, ClaimsInv, ReplacesInv, BeginsInv DEF TableStep

LEMMA TableInitInv == ASSUME TokenInit PROVE TableInv
<1>1. MaxTokens \in Nat \ {0} /\ 1 \in Tokens /\ 0 \in 0..MaxTokens /\ 1 \in 0..MaxTokens
    BY RefreshTokensAssumption DEF Tokens
<1>2. Idle \in CallState /\ Idle.pc = "idle"
    BY <1>1 DEF Idle, CallState, NoToken
<1>3. \A t \in Tokens : row[t] = IF t = 1 THEN [st |-> "valid", login |-> 1]
                                         ELSE [st |-> "absent", login |-> 0]
    BY DEF TokenInit
<1>4. row \in [Tokens -> RowState]
    BY <1>1, <1>3 DEF TokenInit, RowState
<1>5. TableTypes
    BY <1>2, <1>4 DEF TokenInit, TableTypes
<1>6. \A c \in Callers : call[c].pc = "idle"
    BY <1>2 DEF TokenInit
<1>7. Stored = {1}
    BY <1>1, <1>3 DEF Stored
<1>8. Numbered
    <2>1. 1..1 = {1}
        OBVIOUS
    <2>2. QED
        BY <1>1, <1>3, <1>7, <2>1 DEF Numbered
<1>9. CallsStored /\ OneClaim /\ NotBoth
    BY <1>6 DEF CallsStored, OneClaim, NotBoth, Claiming
<1>10. OneUsable
    BY <1>3 DEF OneUsable, Usable
<1>11. QED
    BY <1>5, <1>8, <1>9, <1>10 DEF TableInv

-----------------------------------------------------------------------------
(* One token per login.                                                    *)

LEMMA OneTokenOfInv == TableInv => OneTokenPerLogin
<1> SUFFICES ASSUME TableInv, NEW l \in Tokens
             PROVE  Cardinality({t \in TokensOf(l) : Usable(t)})
                        + Cardinality(TakenBy(l)) <= 1
    BY DEF OneTokenPerLogin
<1> DEFINE U == {t \in TokensOf(l) : Usable(t)}
           C == TakenBy(l)
<1>1. \A t, u \in U : t = u
    BY DEF TableInv, OneUsable, TokensOf
<1>2. \A c, d \in C : c = d
    BY DEF TableInv, OneClaim, TakenBy, Claiming, LoginOf
<1>3. U = {} \/ C = {}
    BY DEF TableInv, NotBoth, TokensOf, TakenBy, Claiming, LoginOf
<1>4. Cardinality({}) = 0
    BY FS_EmptySet
<1> HIDE DEF U, C
<1>5. U = {} \/ \E t : U = {t}
    BY <1>1
<1>6. C = {} \/ \E c : C = {c}
    BY <1>2
<1>7. Cardinality(U) = 0 \/ Cardinality(U) = 1
    BY <1>4, <1>5, FS_Singleton
<1>8. Cardinality(C) = 0 \/ Cardinality(C) = 1
    BY <1>4, <1>6, FS_Singleton
<1>9. Cardinality(U) + Cardinality(C) <= 1
    BY <1>3, <1>4, <1>7, <1>8
<1>10. QED
    BY <1>9 DEF U, C

-----------------------------------------------------------------------------
(* The table implements TokenRotation.                                     *)

\* What the phase of a login says, the alternatives of LoginPhase excluding
\* each other.
Phases ==
    \A l \in Tokens :
        /\ LoginPhase(l) \in {"unborn", "live", "taken", "ended"}
        /\ LoginPhase(l) = "unborn" <=> \A t \in Tokens : row[t].login # l
        /\ LoginPhase(l) = "live" <=> \E t \in Tokens : row[t].login = l /\ Usable(t)
        /\ LoginPhase(l) = "taken" <=> \E c \in Callers : Claiming(c) /\ LoginOf(c) = l

LEMMA PhasesOfInv == TableInv => Phases
<1> SUFFICES ASSUME TableInv, NEW l \in Tokens
             PROVE  /\ LoginPhase(l) \in {"unborn", "live", "taken", "ended"}
                    /\ LoginPhase(l) = "unborn" <=> \A t \in Tokens : row[t].login # l
                    /\ LoginPhase(l) = "live" <=> \E t \in Tokens : row[t].login = l /\ Usable(t)
                    /\ LoginPhase(l) = "taken" <=> \E c \in Callers : Claiming(c) /\ LoginOf(c) = l
    BY DEF Phases
<1> DEFINE unborn == \A t \in Tokens : row[t].login # l
           live == \E t \in Tokens : row[t].login = l /\ Usable(t)
           taken == \E c \in Callers : Claiming(c) /\ LoginOf(c) = l
<1>1. /\ TokensOf(l) = {} <=> unborn
      /\ (\E t \in TokensOf(l) : Usable(t)) <=> live
      /\ TakenBy(l) # {} <=> taken
    BY DEF TokensOf, TakenBy, Claiming, LoginOf
<1>2. taken => ~unborn /\ ~live
    <2> SUFFICES ASSUME NEW c \in Callers, Claiming(c), LoginOf(c) = l
                 PROVE  ~unborn /\ ~live
        OBVIOUS
    <2>1. call[c].tok \in Tokens
        BY DEF TableInv, CallsStored, Claiming, Stored
    <2>2. ~unborn
        BY <2>1 DEF LoginOf
    <2>3. ~live
        BY DEF TableInv, NotBoth
    <2>4. QED
        BY <2>2, <2>3
<1>3. live => ~unborn
    OBVIOUS
<1> HIDE DEF unborn, live, taken
<1>4. CASE unborn
    BY <1>4, <1>1, <1>2, <1>3 DEF LoginPhase, unborn, live, taken
<1>5. CASE live
    BY <1>5, <1>1, <1>2, <1>3 DEF LoginPhase, unborn, live, taken
<1>6. CASE taken
    BY <1>6, <1>1, <1>2, <1>3 DEF LoginPhase, unborn, live, taken
<1>7. CASE ~unborn /\ ~live /\ ~taken
    BY <1>7, <1>1 DEF LoginPhase, unborn, live, taken
<1>8. QED
    BY <1>4, <1>5, <1>6, <1>7

\* The tokens of a login are countable.
LEMMA TokensCount ==
    ASSUME NEW l
    PROVE  IsFiniteSet(TokensOf(l)) /\ Cardinality(TokensOf(l)) \in Nat
<1>1. IsFiniteSet(Tokens)
    BY FS_Interval, RefreshTokensAssumption DEF Tokens
<1>2. TokensOf(l) \in SUBSET Tokens
    BY DEF TokensOf
<1>3. IsFiniteSet(TokensOf(l))
    BY <1>1, <1>2, FS_Subset
<1>4. QED
    BY <1>3, FS_CardinalityType

LEMMA WeakensRotates ==
    ASSUME Phases, Phases', TableInv, Weakens
    PROVE  Rotation!RotationNext
<1> DEFINE L == {l \in Tokens : LoginPhase(l) # LoginPhase(l)'}
<1>1. \A t \in Tokens : row'[t].login = row[t].login
    BY DEF Weakens
<1>2. \A l \in Tokens : TokensOf(l)' = TokensOf(l)
    BY <1>1 DEF TokensOf
<1>3. ASSUME NEW l \in Tokens, LoginPhase(l) # LoginPhase(l)'
      PROVE  LoginPhase(l) \in {"live", "taken"} /\ LoginPhase(l)' = "ended"
    <2>1. LoginPhase(l)' = "unborn" <=> LoginPhase(l) = "unborn"
        BY <1>1 DEF Phases
    <2>2. LoginPhase(l)' = "live" => LoginPhase(l) = "live"
        BY <1>1 DEF Phases, Weakens
    <2>3. LoginPhase(l)' = "taken" => LoginPhase(l) = "taken"
        <3> SUFFICES ASSUME NEW c \in Callers, Claiming(c)', LoginOf(c)' = l
                     PROVE  LoginPhase(l) = "taken"
            BY DEF Phases
        <3>1. Claiming(c) /\ call'[c].tok = call[c].tok
            BY DEF Weakens
        <3>2. call[c].tok \in Tokens
            BY <3>1 DEF TableInv, CallsStored, Claiming, Stored
        <3>3. LoginOf(c) = l
            BY <3>1, <3>2, <1>1 DEF LoginOf
        <3>4. QED
            BY <3>1, <3>3 DEF Phases
    <2>4. /\ LoginPhase(l) \in {"unborn", "live", "taken", "ended"}
          /\ LoginPhase(l)' \in {"unborn", "live", "taken", "ended"}
        BY DEF Phases
    <2>5. QED
        BY <1>3, <2>1, <2>2, <2>3, <2>4
<1>4. Rotation!End(L)
    BY <1>2, <1>3 DEF Rotation!End
<1>5. QED
    BY <1>4 DEF Rotation!RotationNext

LEMMA ClaimsRotates ==
    ASSUME Phases, Phases', TableInv, NEW c \in Callers, Claims(c)
    PROVE  Rotation!RotationNext
<1>1. PICK k \in Stored : k = call[c].tok
    BY ClaimsFacts
<1>2. k \in Tokens
    BY DEF Stored
<1>3. PICK l \in Tokens : l = row[k].login
    BY DEF TableInv, Numbered, Stored
<1>4. \A t \in Tokens : row'[t].login = row[t].login
    BY ClaimsFacts
<1>5. \A t \in Tokens : Usable(t)' <=> (Usable(t) /\ t # k)
    BY <1>1, ClaimsFacts
<1>6. /\ Claiming(c)' /\ ~Claiming(c) /\ Usable(k)
      /\ \A d \in Callers : d # c => call'[d] = call[d]
      /\ call'[c].tok = k
    BY <1>1, ClaimsFacts DEF Claiming, Claims
<1>7. \A m \in Tokens : TokensOf(m)' = TokensOf(m)
    BY <1>4 DEF TokensOf
<1>8. LoginPhase(l) = "live"
    BY <1>2, <1>3, <1>6 DEF Phases
<1>9. LoginOf(c)' = l
    BY <1>2, <1>3, <1>4, <1>6 DEF LoginOf
<1>10. LoginPhase(l)' = "taken"
    BY <1>6, <1>9 DEF Phases
<1>11. ASSUME NEW m \in Tokens, m # l
       PROVE  LoginPhase(m)' = LoginPhase(m)
    <2>1. LoginPhase(m)' = "unborn" <=> LoginPhase(m) = "unborn"
        BY <1>4 DEF Phases
    <2>2. LoginPhase(m)' = "live" <=> LoginPhase(m) = "live"
        BY <1>3, <1>4, <1>5, <1>11 DEF Phases
    <2>3. LoginPhase(m)' = "taken" <=> LoginPhase(m) = "taken"
        <3>1. \A d \in Callers : d # c =>
                 /\ Claiming(d)' <=> Claiming(d)
                 /\ Claiming(d) => LoginOf(d)' = LoginOf(d)
            BY <1>4, <1>6 DEF Claiming, LoginOf, TableInv, CallsStored, Stored
        <3>2. QED
            BY <3>1, <1>6, <1>9, <1>11 DEF Phases
    <2>4. QED
        BY <2>1, <2>2, <2>3 DEF Phases
<1>12. Rotation!Take(l)
    BY <1>7, <1>8, <1>10, <1>11 DEF Rotation!Take
<1>13. QED
    BY <1>12 DEF Rotation!RotationNext

\* A token more, of a login l: the others keep their phases and counts.
LEMMA StoreRotates ==
    ASSUME Phases, Phases', TableInv, NEW l \in Tokens,
           NEW n \in Tokens, n \notin Stored,
           row'[n].st = "valid", row'[n].login = l,
           \A t \in Tokens : t # n => row'[t] = row[t],
           \A d \in Callers : Claiming(d) /\ LoginOf(d) # l
              => Claiming(d)' /\ call'[d].tok = call[d].tok,
           \A d \in Callers : Claiming(d)' => Claiming(d) /\ call'[d].tok = call[d].tok
    PROVE  /\ LoginPhase(l)' = "live"
           /\ Cardinality(TokensOf(l)') = Cardinality(TokensOf(l)) + 1
           /\ \A m \in Tokens : m # l => /\ LoginPhase(m)' = LoginPhase(m)
                                         /\ TokensOf(m)' = TokensOf(m)
<1>1. row[n].login = 0 /\ 0 \notin Tokens
    BY DEF Stored, Tokens
<1>2. LoginPhase(l)' = "live"
    <2>1. Usable(n)'
        BY DEF Usable
    <2>2. QED
        BY <2>1 DEF Phases
<1>3. TokensOf(l)' = TokensOf(l) \cup {n} /\ n \notin TokensOf(l)
    BY <1>1 DEF TokensOf
<1>4. Cardinality(TokensOf(l)') = Cardinality(TokensOf(l)) + 1
    BY <1>3, TokensCount, FS_AddElement
<1>5. ASSUME NEW m \in Tokens, m # l
      PROVE  LoginPhase(m)' = LoginPhase(m) /\ TokensOf(m)' = TokensOf(m)
    <2>1. TokensOf(m)' = TokensOf(m)
        BY <1>1, <1>5 DEF TokensOf
    <2>2. LoginPhase(m)' = "unborn" <=> LoginPhase(m) = "unborn"
        BY <1>1, <1>5 DEF Phases
    <2>3. LoginPhase(m)' = "live" <=> LoginPhase(m) = "live"
        BY <1>1, <1>5 DEF Phases, Usable
    <2>4. LoginPhase(m)' = "taken" <=> LoginPhase(m) = "taken"
        <3>1. ASSUME NEW d \in Callers, Claiming(d), call'[d].tok = call[d].tok
              PROVE  LoginOf(d)' = LoginOf(d)
            <4>1. call[d].tok \in Tokens /\ call[d].tok # n
                BY <3>1 DEF TableInv, CallsStored, Claiming, Stored
            <4>2. QED
                BY <3>1, <4>1 DEF LoginOf
        <3>2. QED
            BY <3>1, <1>5 DEF Phases
    <2>5. QED
        BY <2>1, <2>2, <2>3, <2>4 DEF Phases
<1>6. QED
    BY <1>2, <1>4, <1>5

LEMMA ReplacesRotates ==
    ASSUME Phases, Phases', TableInv, NEW c \in Callers, Replaces(c)
    PROVE  Rotation!RotationNext
<1>1. PICK l \in Tokens : l = LoginOf(c)
    BY ReplacesFacts
<1>2. PICK n \in Tokens : n = Next1 /\ n \notin Stored
    BY ReplacesFacts
<1>3. /\ row'[n].st = "valid" /\ row'[n].login = l
      /\ \A t \in Tokens : t # n => row'[t] = row[t]
      /\ ~Claiming(c)' /\ Claiming(c)
      /\ \A d \in Callers : d # c => call'[d] = call[d]
    BY <1>1, <1>2, ReplacesFacts DEF Claiming, Replaces
<1>4. /\ \A d \in Callers : Claiming(d) /\ LoginOf(d) # l
            => Claiming(d)' /\ call'[d].tok = call[d].tok
      /\ \A d \in Callers : Claiming(d)' => Claiming(d) /\ call'[d].tok = call[d].tok
    BY <1>1, <1>3 DEF Claiming
<1>5. LoginPhase(l) = "taken"
    BY <1>1, <1>3 DEF Phases
<1>6. /\ LoginPhase(l)' = "live"
      /\ Cardinality(TokensOf(l)') = Cardinality(TokensOf(l)) + 1
      /\ \A m \in Tokens : m # l => /\ LoginPhase(m)' = LoginPhase(m)
                                    /\ TokensOf(m)' = TokensOf(m)
    BY <1>2, <1>3, <1>4, StoreRotates
<1>7. Rotation!Replace(l)
    BY <1>5, <1>6 DEF Rotation!Replace
<1>8. QED
    BY <1>7 DEF Rotation!RotationNext

LEMMA BeginsRotates ==
    ASSUME Phases, Phases', TableInv, Begins
    PROVE  Rotation!RotationNext
<1>1. PICK n \in Tokens : n = Next1 /\ n \notin Stored
    BY MintFacts DEF Begins
<1>2. \A t \in Tokens : row[t].login # n
    BY <1>1, MintFacts DEF Begins
<1>3. /\ row'[n].st = "valid" /\ row'[n].login = n
      /\ \A t \in Tokens : t # n => row'[t] = row[t]
      /\ call' = call
    <2>1. 0 \in 0..MaxTokens
        BY RefreshTokensAssumption
    <2>2. QED
        BY <1>1, <2>1, StoreFacts DEF Begins
<1>4. \A d \in Callers : (Claiming(d)' <=> Claiming(d)) /\ call'[d].tok = call[d].tok
    BY <1>3 DEF Claiming
<1>5. LoginPhase(n) = "unborn" /\ TokensOf(n) = {}
    BY <1>2 DEF Phases, TokensOf
<1>6. /\ LoginPhase(n)' = "live"
      /\ Cardinality(TokensOf(n)') = Cardinality(TokensOf(n)) + 1
      /\ \A m \in Tokens : m # n => /\ LoginPhase(m)' = LoginPhase(m)
                                    /\ TokensOf(m)' = TokensOf(m)
    BY <1>1, <1>3, <1>4, StoreRotates
<1>7. Cardinality(TokensOf(n)') = 1
    BY <1>5, <1>6, FS_EmptySet
<1>8. Rotation!Begin(n)
    BY <1>5, <1>6, <1>7 DEF Rotation!Begin
<1>9. QED
    BY <1>8 DEF Rotation!RotationNext

LEMMA TableStepRotates ==
    ASSUME TableInv, TableInv', Phases, Phases', TableStep
    PROVE  Rotation!RotationNext
BY WeakensRotates, ClaimsRotates, ReplacesRotates, BeginsRotates DEF TableStep

LEMMA InitRotates == ASSUME TokenInit PROVE Rotation!RotationInit
<1>1. TableInv
    BY TableInitInv
<1>2. Phases
    BY <1>1, PhasesOfInv
<1>3. 1 \in Tokens
    BY RefreshTokensAssumption DEF Tokens
<1>4. \A t \in Tokens : /\ row[t].st = IF t = 1 THEN "valid" ELSE "absent"
                        /\ row[t].login = IF t = 1 THEN 1 ELSE 0
    BY DEF TokenInit
<1>5. TokensOf(1) = {1} /\ \A l \in Tokens : l # 1 => TokensOf(l) = {}
    BY <1>3, <1>4 DEF TokensOf, Tokens
<1>6. LoginPhase(1) = "live"
    BY <1>2, <1>3, <1>4 DEF Phases, Usable
<1>7. \A l \in Tokens : l # 1 => LoginPhase(l) = "unborn"
    BY <1>2, <1>5 DEF Phases, TokensOf
<1>8. Cardinality({1}) = 1 /\ Cardinality({}) = 0
    BY FS_EmptySet, FS_Singleton
<1>9. \A l \in Tokens : Cardinality(TokensOf(l)) = IF l \in {1} THEN 1 ELSE 0
    BY <1>5, <1>8
<1>10. \A l \in Tokens : LoginPhase(l) = IF l \in {1} THEN "live" ELSE "unborn"
    BY <1>6, <1>7
<1>11. {1} \in SUBSET Tokens
    BY <1>3
<1>12. QED
    BY <1>9, <1>10, <1>11 DEF Rotation!RotationInit

-----------------------------------------------------------------------------
(* What one statement of a refresh does.                                   *)

\* The call of c becomes q, the others stay.
CallBecomes(c, q) ==
    /\ q \in CallState
    /\ call' \in [Callers -> CallState]
    /\ call'[c] = q
    /\ \A d \in Callers : d # c => call'[d] = call[d]

\* Tokens may be lost, nothing else happens to the rows.
RowsLost ==
    /\ row' \in [Tokens -> RowState]
    /\ \A t \in Tokens : /\ row'[t].login = row[t].login
                         /\ Usable(t)' => Usable(t)
                         /\ row[t].st = "absent" => row'[t].st = "absent"
                         /\ row'[t].st = "expired" => row[t].st = "expired"

\* Whose token was revoked before it could be claimed.
Late(c) ==
    /\ call[c].tok \in Tokens
    /\ row[call[c].tok].st \notin {"valid", "expired"}
    /\ call[c].pc \in {"sent", "read"}
    /\ row' = RevokeAllExceptRecent

Denied(c, q) ==
    /\ CallBecomes(c, q)
    /\ q.pc = "answered" /\ q.status # "200" /\ q.cookies # "set"
    /\ q.tok = call[c].tok
    /\ call[c].pc \in {"sent", "read", "claimed"}
    /\ RowsLost
    /\ recent' = recent
    /\ \/ faults' # 0
       \/ call[c].pc = "sent" /\ Presented(c) = "absent" /\ row' = row
       \/ call[c].pc = "sent" /\ Presented(c) = "expired"
       \/ Late(c)

Admitted(c, q) ==
    /\ CallBecomes(c, q)
    /\ q.pc = "read" /\ q.tok = call[c].tok
    /\ call[c].pc = "sent" /\ q.tok \in Tokens /\ row[q.tok].st = "valid"
    /\ row' = row /\ recent' = recent

Taken(c, q) ==
    /\ CallBecomes(c, q)
    /\ q.pc = "claimed" /\ q.tok = call[c].tok
    /\ Claims(c)
    /\ recent' = recent

Renewed(c, q) ==
    /\ CallBecomes(c, q)
    /\ q.pc = "answered" /\ q.status = "200" /\ q.cookies = "set" /\ q.tok = Next1
    /\ Replaces(c)

LEMMA BecomesFacts ==
    ASSUME TableTypes, NEW c \in Callers, NEW q \in CallState,
           call' = [call EXCEPT ![c] = q]
    PROVE  CallBecomes(c, q)
BY DEF TableTypes, CallBecomes

LEMMA RespondFacts ==
    ASSUME TableTypes, NEW c \in Callers,
           NEW status \in {"none", "200", "401", "500", "lost"},
           NEW cookies \in {"keep", "clear", "set"},
           Respond(c, status, cookies)
    PROVE  \E q \in CallState : /\ CallBecomes(c, q)
                                /\ q.pc = "answered" /\ q.status = status
                                /\ q.cookies = cookies /\ q.tok = call[c].tok
<1> DEFINE q == [call[c] EXCEPT !.pc = "answered", !.status = status, !.cookies = cookies]
<1>1. call[c] \in CallState
    BY DEF TableTypes
<1>2. /\ q \in CallState
      /\ q.pc = "answered" /\ q.status = status /\ q.cookies = cookies
      /\ q.tok = call[c].tok
    BY <1>1 DEF CallState
<1>3. call' = [call EXCEPT ![c] = q]
    BY DEF Respond
<1> HIDE DEF q
<1>4. QED
    BY <1>2, <1>3, BecomesFacts

LEMMA RevokeLoses ==
    ASSUME TableTypes, NEW S, row' = Revoke(S)
    PROVE  RowsLost
BY RevokeFacts DEF TableTypes, RowsLost, Usable

LEMMA SameRows ==
    ASSUME TableTypes, row' = row
    PROVE  RowsLost
BY DEF TableTypes, RowsLost, Usable

\* The row of t gets the status s.
LEMMA StatusFacts ==
    ASSUME TableTypes, NEW t \in Tokens,
           NEW s \in {"absent", "valid", "expired", "revoked"},
           row' = [row EXCEPT ![t].st = s]
    PROVE  /\ row' \in [Tokens -> RowState]
           /\ row'[t].st = s
           /\ \A u \in Tokens : /\ row'[u].login = row[u].login
                                /\ u # t => row'[u] = row[u]
<1> DEFINE r == [row[t] EXCEPT !.st = s]
<1>1. row[t] \in RowState /\ row \in [Tokens -> RowState]
    BY DEF TableTypes
<1>2. r \in RowState /\ r.st = s /\ r.login = row[t].login
    BY <1>1 DEF RowState
<1>3. row' = [row EXCEPT ![t] = r]
    OBVIOUS
<1> HIDE DEF r
<1>4. QED
    BY <1>1, <1>2, <1>3

\* Every statement of a refresh denies, admits, takes or renews.
LEMMA RefreshMoves ==
    ASSUME TableInv, CounterTypes, NEW c \in Callers, RefreshStep(c)
    PROVE  /\ \E q \in CallState :
                 Denied(c, q) \/ Admitted(c, q) \/ Taken(c, q) \/ Renewed(c, q)
           /\ UNCHANGED <<events, over>>
           /\ faults' \in 0..MaxFaults
           /\ faults' = 0 => faults = 0
<1>1. /\ TableTypes /\ call[c] \in CallState /\ call[c].tok \in 0..MaxTokens
      /\ faults \in Nat /\ MaxFaults \in Nat /\ MaxFaults # 0
    BY RefreshTokensAssumption DEF TableInv, TableTypes, CallState, CounterTypes
<1>2. call[c].tok # 0 => call[c].tok \in Tokens
    BY <1>1, RefreshTokensAssumption DEF Tokens
<1>3. Fault => faults' # 0 /\ faults' \in 0..MaxFaults
    BY <1>1 DEF Fault
<1>4. UNCHANGED <<events, over>>
    BY DEF RefreshStep, RefreshRead, RefreshClaim, RefreshIssue
<1>5. CASE RefreshRead(c)
    <2>0. recent' = recent /\ call[c].pc = "sent"
        BY <1>5 DEF RefreshRead
    <2>1. CASE Presented(c) = "absent" /\ Respond(c, "401", "keep") /\ UNCHANGED <<row, faults>>
        <3>1. PICK q \in CallState : /\ CallBecomes(c, q)
                                     /\ q.pc = "answered" /\ q.status = "401"
                                     /\ q.cookies = "keep" /\ q.tok = call[c].tok
            BY <1>1, <2>1, RespondFacts
        <3>2. Denied(c, q)
            BY <1>1, <2>0, <2>1, <3>1, SameRows DEF Denied
        <3>3. QED
            BY <1>1, <1>4, <2>1, <3>2 DEF CounterTypes
    <2>2. CASE /\ Presented(c) = "revoked" /\ row' = RevokeAllExceptRecent
               /\ Respond(c, "401", "clear") /\ UNCHANGED faults
        <3>1. PICK q \in CallState : /\ CallBecomes(c, q)
                                     /\ q.pc = "answered" /\ q.status = "401"
                                     /\ q.cookies = "clear" /\ q.tok = call[c].tok
            BY <1>1, <2>2, RespondFacts
        <3>2. Late(c)
            BY <1>2, <2>0, <2>2 DEF Late, Presented, NoToken
        <3>3. RowsLost
            BY <1>1, <2>2, RevokeLoses DEF RevokeAllExceptRecent
        <3>4. Denied(c, q)
            BY <2>0, <3>1, <3>2, <3>3 DEF Denied
        <3>5. QED
            BY <1>1, <1>4, <2>2, <3>4 DEF CounterTypes
    <2>3. CASE /\ Presented(c) = "expired" /\ row' = [row EXCEPT ![call[c].tok].st = "absent"]
               /\ Respond(c, "401", "clear") /\ UNCHANGED faults
        <3>1. PICK q \in CallState : /\ CallBecomes(c, q)
                                     /\ q.pc = "answered" /\ q.status = "401"
                                     /\ q.cookies = "clear" /\ q.tok = call[c].tok
            BY <1>1, <2>3, RespondFacts
        <3>2. call[c].tok \in Tokens
            BY <1>2, <2>3 DEF Presented, NoToken
        <3>3. RowsLost
            BY <1>1, <2>3, <3>2, StatusFacts DEF RowsLost, Usable
        <3>4. Denied(c, q)
            BY <2>0, <2>3, <3>1, <3>3 DEF Denied
        <3>5. QED
            BY <1>1, <1>4, <2>3, <3>4 DEF CounterTypes
    <2>4. CASE /\ Presented(c) = "valid" /\ call' = [call EXCEPT ![c].pc = "read"]
               /\ UNCHANGED <<row, faults>>
        <3> DEFINE q == [call[c] EXCEPT !.pc = "read"]
        <3>1. call' = [call EXCEPT ![c] = q]
            BY <2>4
        <3>2. q \in CallState /\ q.pc = "read" /\ q.tok = call[c].tok
            BY <1>1 DEF CallState
        <3> HIDE DEF q
        <3>3. Admitted(c, q)
            BY <1>1, <1>2, <2>0, <2>4, <3>1, <3>2, BecomesFacts DEF Admitted, Presented, NoToken
        <3>4. QED
            BY <1>1, <1>4, <2>4, <3>2, <3>3 DEF CounterTypes
    <2>5. CASE /\ Presented(c) = "valid" /\ Fault /\ row' = Revoke({call[c].tok})
               /\ Respond(c, "401", "keep")
        <3>1. PICK q \in CallState : /\ CallBecomes(c, q)
                                     /\ q.pc = "answered" /\ q.status = "401"
                                     /\ q.cookies = "keep" /\ q.tok = call[c].tok
            BY <1>1, <2>5, RespondFacts
        <3>2. RowsLost
            BY <1>1, <2>5, RevokeLoses
        <3>3. Denied(c, q)
            BY <1>3, <2>0, <2>5, <3>1, <3>2 DEF Denied
        <3>4. QED
            BY <1>3, <1>4, <2>5, <3>3
    <2>6. QED
        BY <1>5, <2>1, <2>2, <2>3, <2>4, <2>5 DEF RefreshRead
<1>6. CASE RefreshClaim(c)
    <2>0. recent' = recent /\ call[c].pc = "read" /\ call[c].tok \in Tokens
        BY <1>6 DEF RefreshClaim, TableInv, CallsStored, Stored
    <2>1. CASE /\ Claimable(call[c].tok) /\ row' = Revoke({call[c].tok})
               /\ call' = [call EXCEPT ![c].pc = "claimed"] /\ UNCHANGED faults
        <3> DEFINE q == [call[c] EXCEPT !.pc = "claimed"]
        <3>1. call' = [call EXCEPT ![c] = q]
            BY <2>1
        <3>2. q \in CallState /\ q.pc = "claimed" /\ q.tok = call[c].tok
            BY <1>1 DEF CallState
        <3> HIDE DEF q
        <3>3. Claims(c)
            BY <2>0, <2>1 DEF Claims, Claimable, Usable
        <3>4. Taken(c, q)
            BY <1>1, <2>0, <3>1, <3>2, <3>3, BecomesFacts DEF Taken
        <3>5. QED
            BY <1>1, <1>4, <2>1, <3>2, <3>4 DEF CounterTypes
    <2>2. CASE /\ ~Claimable(call[c].tok) /\ row' = RevokeAllExceptRecent
               /\ Respond(c, "401", "clear") /\ UNCHANGED faults
        <3>1. PICK q \in CallState : /\ CallBecomes(c, q)
                                     /\ q.pc = "answered" /\ q.status = "401"
                                     /\ q.cookies = "clear" /\ q.tok = call[c].tok
            BY <1>1, <2>2, RespondFacts
        <3>2. Late(c)
            BY <2>0, <2>2 DEF Late, Claimable
        <3>3. RowsLost
            BY <1>1, <2>2, RevokeLoses DEF RevokeAllExceptRecent
        <3>4. Denied(c, q)
            BY <2>0, <3>1, <3>2, <3>3 DEF Denied
        <3>5. QED
            BY <1>1, <1>4, <2>2, <3>4 DEF CounterTypes
    <2>3. CASE Fault /\ Respond(c, "500", "keep") /\ UNCHANGED row
        <3>1. PICK q \in CallState : /\ CallBecomes(c, q)
                                     /\ q.pc = "answered" /\ q.status = "500"
                                     /\ q.cookies = "keep" /\ q.tok = call[c].tok
            BY <1>1, <2>3, RespondFacts
        <3>2. Denied(c, q)
            BY <1>1, <1>3, <2>0, <2>3, <3>1, SameRows DEF Denied
        <3>3. QED
            BY <1>3, <1>4, <2>3, <3>2
    <2>4. QED
        BY <1>6, <2>1, <2>2, <2>3 DEF RefreshClaim
<1>7. CASE RefreshIssue(c)
    <2>0. Claiming(c)
        BY <1>7 DEF RefreshIssue, Claiming
    <2>1. CASE /\ CanMint /\ Store(row[call[c].tok].login)
               /\ call' = [call EXCEPT ![c].pc = "answered", ![c].status = "200",
                                       ![c].cookies = "set", ![c].tok = Next1]
               /\ UNCHANGED faults
        <3> DEFINE q == [call[c] EXCEPT !.pc = "answered", !.status = "200",
                                        !.cookies = "set", !.tok = Next1]
        <3>1. call' = [call EXCEPT ![c] = q]
            BY <2>1
        <3>2. Next1 \in 0..MaxTokens
            BY <2>1, MintFacts DEF Tokens
        <3>3. /\ q \in CallState /\ q.pc = "answered" /\ q.status = "200"
              /\ q.cookies = "set" /\ q.tok = Next1
            BY <1>1, <3>2 DEF CallState
        <3> HIDE DEF q
        <3>4. Replaces(c)
            BY <2>0, <2>1, <3>1, <3>3 DEF Replaces, LoginOf
        <3>5. Renewed(c, q)
            BY <1>1, <3>1, <3>3, <3>4, BecomesFacts DEF Renewed
        <3>6. QED
            BY <1>1, <1>4, <2>1, <3>3, <3>5 DEF CounterTypes
    <2>2. CASE /\ IF CanMint THEN Fault ELSE faults' = MaxFaults
               /\ Respond(c, "500", "keep") /\ UNCHANGED <<row, recent>>
        <3>1. PICK q \in CallState : /\ CallBecomes(c, q)
                                     /\ q.pc = "answered" /\ q.status = "500"
                                     /\ q.cookies = "keep" /\ q.tok = call[c].tok
            BY <1>1, <2>2, RespondFacts
        <3>2. faults' # 0 /\ faults' \in 0..MaxFaults
            BY <1>1, <1>3, <2>2
        <3>3. Denied(c, q)
            BY <1>1, <2>0, <2>2, <3>1, <3>2, SameRows DEF Denied, Claiming
        <3>4. QED
            BY <1>4, <3>2, <3>3
    <2>3. QED
        BY <1>7, <2>1, <2>2 DEF RefreshIssue
<1>8. QED
    BY <1>5, <1>6, <1>7 DEF RefreshStep

-----------------------------------------------------------------------------
(* Every step that clients and handlers are made of is a step of the table.*)

\* Calls present tokens that were stored.
CallsHold == \A c \in Callers : call[c].tok \in Stored \cup {0}

BaseStep ==
    /\ TableStep
    /\ TableInv'
    /\ CallsHold'
    /\ Stored \subseteq Stored'

LEMMA LostBase ==
    ASSUME TableInv, CallsHold, RowsLost,
           recent' \subseteq Tokens,
           call' \in [Callers -> CallState],
           \A d \in Callers : /\ call'[d].tok \in Stored \cup {0}
                              /\ Claiming(d)' => Claiming(d) /\ call'[d].tok = call[d].tok
                              /\ call'[d].pc = "read" => call'[d].tok \in Stored
    PROVE  BaseStep /\ Stored' = Stored
<1>1. Stored' = Stored
    BY DEF Stored, RowsLost
<1>2. TableTypes'
    BY DEF TableTypes, RowsLost
<1>3. Weakens
    BY DEF Weakens, RowsLost
<1>4. TableStep /\ TableInv'
    BY <1>2, <1>3, WeakensInv DEF TableStep
<1>5. CallsHold'
    BY <1>1 DEF CallsHold
<1>6. QED
    BY <1>1, <1>4, <1>5 DEF BaseStep

\* Rows are lost or stay while the calls stay.
LEMMA RowsBase ==
    ASSUME TableInv, CallsHold, RowsLost, recent' \subseteq Tokens, call' = call
    PROVE  BaseStep /\ Stored' = Stored
<1>1. call' \in [Callers -> CallState]
    BY DEF TableInv, TableTypes
<1>2. \A d \in Callers : /\ call'[d].tok \in Stored \cup {0}
                         /\ Claiming(d)' => Claiming(d) /\ call'[d].tok = call[d].tok
                         /\ call'[d].pc = "read" => call'[d].tok \in Stored
    BY DEF TableInv, CallsHold, CallsStored, Claiming
<1>3. QED
    BY <1>1, <1>2, LostBase

LEMMA SameBase ==
    ASSUME TableInv, CallsHold, UNCHANGED <<row, recent, call>>
    PROVE  BaseStep /\ Stored' = Stored
BY RowsBase, SameRows DEF TableInv, TableTypes

LEMMA RevokeBase ==
    ASSUME TableInv, CallsHold, NEW S, row' = Revoke(S), UNCHANGED <<recent, call>>
    PROVE  BaseStep /\ Stored' = Stored
BY RowsBase, RevokeLoses DEF TableInv, TableTypes

LEMMA LeewayBase ==
    ASSUME TableInv, CallsHold, LeewayPasses
    PROVE  BaseStep /\ Stored' = Stored
BY RowsBase, SameRows DEF TableInv, TableTypes, LeewayPasses

\* An expired token can still be claimed by who has read it.
LEMMA ExpireBase ==
    ASSUME TableInv, CallsHold, NEW t \in Tokens, TokenExpires(t)
    PROVE  BaseStep /\ Stored' = Stored
<1>1. /\ row' \in [Tokens -> RowState] /\ row'[t].st = "expired" /\ row[t].st = "valid"
      /\ \A u \in Tokens : row'[u].login = row[u].login /\ (u # t => row'[u] = row[u])
      /\ recent' = recent /\ call' = call
    BY StatusFacts DEF TableInv, TokenExpires
<1>2. Stored' = Stored
    BY <1>1 DEF Stored
<1>3. TableTypes'
    BY <1>1 DEF TableInv, TableTypes
<1>4. Weakens
    BY <1>1 DEF Weakens, Usable, TableInv, CallsStored, Claiming
<1>5. TableStep /\ TableInv'
    BY <1>3, <1>4, WeakensInv DEF TableStep
<1>6. CallsHold'
    BY <1>1, <1>2 DEF CallsHold
<1>7. QED
    BY <1>2, <1>5, <1>6 DEF BaseStep

\* A client posts a token, or takes or forgets an answer.
LEMMA CallBase ==
    ASSUME TableInv, CallsHold, NEW c \in Callers, NEW q \in CallState,
           CallBecomes(c, q), q.pc \notin {"read", "claimed"},
           q.tok \in Stored \cup {0}, UNCHANGED <<row, recent>>
    PROVE  BaseStep /\ Stored' = Stored
<1>1. RowsLost /\ recent' \subseteq Tokens
    BY SameRows DEF TableInv, TableTypes
<1>2. call' \in [Callers -> CallState]
    BY DEF CallBecomes
<1>3. \A d \in Callers : /\ call'[d].tok \in Stored \cup {0}
                         /\ Claiming(d)' => Claiming(d) /\ call'[d].tok = call[d].tok
                         /\ call'[d].pc = "read" => call'[d].tok \in Stored
    BY DEF CallBecomes, TableInv, CallsHold, CallsStored, Claiming
<1>4. QED
    BY <1>1, <1>2, <1>3, LostBase

LEMMA AnswerLostFacts ==
    ASSUME TableTypes, NEW c \in Callers, AnswerLost(c)
    PROVE  \E q \in CallState : /\ CallBecomes(c, q)
                                /\ q.pc = "answered" /\ q.status = "lost"
                                /\ q.tok = call[c].tok
<1> DEFINE q == [call[c] EXCEPT !.status = "lost", !.cookies = "keep"]
<1>1. call[c] \in CallState /\ call[c].pc = "answered"
    BY DEF TableTypes, AnswerLost
<1>2. /\ q \in CallState
      /\ q.pc = "answered" /\ q.status = "lost" /\ q.tok = call[c].tok
    BY <1>1 DEF CallState
<1>3. call' = [call EXCEPT ![c] = q]
    BY DEF AnswerLost
<1> HIDE DEF q
<1>4. QED
    BY <1>2, <1>3, BecomesFacts

LEMMA AnswerLostBase ==
    ASSUME TableInv, CallsHold, NEW c \in Callers, AnswerLost(c)
    PROVE  BaseStep /\ Stored' = Stored
<1>1. PICK q \in CallState : /\ CallBecomes(c, q)
                             /\ q.pc = "answered" /\ q.status = "lost"
                             /\ q.tok = call[c].tok
    BY AnswerLostFacts DEF TableInv
<1>2. UNCHANGED <<row, recent>> /\ q.tok \in Stored \cup {0}
    BY <1>1 DEF AnswerLost, CallsHold
<1>3. QED
    BY <1>1, <1>2, CallBase

LEMMA BeginBase ==
    ASSUME TableInv, CallsHold, CanMint, Store(0), UNCHANGED call
    PROVE  BaseStep /\ Stored' = Stored \cup {Next1}
<1>1. Begins /\ 0 \in 0..MaxTokens
    BY RefreshTokensAssumption DEF Begins
<1>2. TableTypes' /\ Stored' = Stored \cup {Next1}
    BY <1>1, StoreFacts DEF TableTypes, TableInv
<1>3. TableStep /\ TableInv'
    BY <1>1, <1>2, BeginsInv DEF TableStep
<1>4. CallsHold'
    BY <1>2 DEF CallsHold
<1>5. QED
    BY <1>2, <1>3, <1>4 DEF BaseStep

LEMMA MoveBase ==
    ASSUME TableInv, CallsHold, NEW c \in Callers, NEW q \in CallState,
           Denied(c, q) \/ Admitted(c, q) \/ Taken(c, q) \/ Renewed(c, q)
    PROVE  BaseStep
<1>1. CASE Denied(c, q)
    <2>1. RowsLost /\ recent' \subseteq Tokens /\ call' \in [Callers -> CallState]
        BY <1>1 DEF Denied, CallBecomes, TableInv, TableTypes
    <2>2. \A d \in Callers : /\ call'[d].tok \in Stored \cup {0}
                             /\ Claiming(d)' => Claiming(d) /\ call'[d].tok = call[d].tok
                             /\ call'[d].pc = "read" => call'[d].tok \in Stored
        BY <1>1 DEF Denied, CallBecomes, TableInv, CallsHold, CallsStored, Claiming
    <2>3. QED
        BY <2>1, <2>2, LostBase
<1>2. CASE Admitted(c, q)
    <2>1. RowsLost /\ recent' \subseteq Tokens /\ call' \in [Callers -> CallState]
        BY <1>2, SameRows DEF Admitted, CallBecomes, TableInv, TableTypes
    <2>2. q.tok \in Stored
        BY <1>2 DEF Admitted, TableInv, Numbered, Stored
    <2>3. \A d \in Callers : /\ call'[d].tok \in Stored \cup {0}
                             /\ Claiming(d)' => Claiming(d) /\ call'[d].tok = call[d].tok
                             /\ call'[d].pc = "read" => call'[d].tok \in Stored
        BY <1>2, <2>2 DEF Admitted, CallBecomes, TableInv, CallsHold, CallsStored, Claiming
    <2>4. QED
        BY <2>1, <2>3, LostBase
<1>3. CASE Taken(c, q)
    <2>1. Claims(c)
        BY <1>3 DEF Taken
    <2>2. TableTypes' /\ Stored' = Stored
        BY <1>3, <2>1, ClaimsFacts DEF TableTypes, TableInv, Taken
    <2>3. TableStep /\ TableInv'
        BY <2>1, <2>2, ClaimsInv DEF TableStep
    <2>4. CallsHold'
        BY <1>3, <2>2 DEF CallsHold, Taken, CallBecomes
    <2>5. QED
        BY <2>2, <2>3, <2>4 DEF BaseStep
<1>4. CASE Renewed(c, q)
    <2>1. Replaces(c)
        BY <1>4 DEF Renewed
    <2>2. TableTypes' /\ Stored' = Stored \cup {Next1}
        BY <2>1, ReplacesFacts DEF TableTypes, TableInv
    <2>3. TableStep /\ TableInv'
        BY <2>1, <2>2, ReplacesInv DEF TableStep
    <2>4. CallsHold'
        BY <1>4, <2>2 DEF CallsHold, Renewed, CallBecomes
    <2>5. QED
        BY <2>2, <2>3, <2>4 DEF BaseStep
<1>5. QED
    BY <1>1, <1>2, <1>3, <1>4

LEMMA RefreshBase ==
    ASSUME TableInv, CounterTypes, CallsHold, NEW c \in Callers, RefreshStep(c)
    PROVE  BaseStep
BY RefreshMoves, MoveBase
=============================================================================
