---------------------------- MODULE RefreshTokens ----------------------------
(***************************************************************************)
(* The server's side of a session: the refresh_tokens table of one user    *)
(* and the statements the handlers of auth.go run on it.  A refresh is     *)
(* three statements (read, claim, insert), so two refreshes of one token,  *)
(* a logout or a password change may fall between any two of them.         *)
(*                                                                         *)
(* Tokens are numbered in the order they are stored.  The login a token    *)
(* descends from, `login', and `over' are no columns: they are kept for    *)
(* the properties.                                                         *)
(***************************************************************************)
EXTENDS Integers, FiniteSets

CONSTANTS
    Callers,        \* whoever may have one refresh call under way
    MaxTokens,      \* bound on the tokens ever stored
    MaxFaults,      \* bound on failed statements, lost answers and kills
    MaxEvents       \* bound on the times a clock runs out or somebody acts

ASSUME RefreshTokensAssumption ==
    /\ MaxTokens \in Nat \ {0}
    /\ MaxFaults \in Nat \ {0}        \* a refusal by the bound is a fault
    /\ MaxEvents \in Nat

Tokens == 1..MaxTokens
NoToken == 0

VARIABLES
    row,        \* [Tokens -> [st, login]]: refresh_tokens
    recent,     \* tokens created in the last 30 s of the database clock
    call,       \* [Callers -> [pc, tok, status, cookies]]: POST auth/refresh
    faults,     \* faults so far
    device,     \* "browser" or "phone": whichever of them the user uses
    events,     \* events so far: expiries, revocations, log-ins and -outs
    over        \* a login was ended on purpose, expired or met a late loser

tokenVars == <<row, recent, call, faults, events, over>>

Idle == [pc |-> "idle", tok |-> NoToken, status |-> "none", cookies |-> "keep"]

TokenTypeOK ==
    /\ row \in [Tokens -> [st : {"absent", "valid", "expired", "revoked"},
                           login : 0..MaxTokens]]
    /\ recent \subseteq Tokens
    /\ call \in [Callers -> [pc : {"idle", "sent", "read", "claimed", "answered"},
                             tok : 0..MaxTokens,
                             status : {"none", "200", "401", "500", "lost"},
                             cookies : {"keep", "clear", "set"}]]
    /\ faults \in 0..MaxFaults
    /\ device \in {"browser", "phone"}
    /\ events \in 0..MaxEvents
    /\ over \in BOOLEAN

\* The first token of a login made before the model starts, created long ago.
TokenInit ==
    /\ row = [t \in Tokens |-> IF t = 1 THEN [st |-> "valid", login |-> 1]
                                        ELSE [st |-> "absent", login |-> 0]]
    /\ recent = {}
    /\ call = [c \in Callers |-> Idle]
    /\ faults = 0
    /\ device \in {"browser", "phone"}
    /\ events = 0
    /\ over = FALSE

Stored == {t \in Tokens : row[t].login # 0}
Next1 == Cardinality(Stored) + 1        \* the token mintRefresh makes next
CanMint == Next1 \in Tokens             \* bound
Valid == {t \in Tokens : row[t].st = "valid"}

Fault == faults < MaxFaults /\ faults' = faults + 1
Event == events < MaxEvents /\ events' = events + 1

Revoke(S) == [t \in Tokens |-> IF t \in S /\ row[t].st # "absent"
                               THEN [row[t] EXCEPT !.st = "revoked"]
                               ELSE row[t]]

\* A deviation: no leeway.
RevokeAllOfThem == Revoke(Tokens)

\* revokeAllRefreshesExceptRecent: a loser spares the winner's replacement.
RevokeAllExceptRecent == Revoke(Tokens \ recent)

\* storeRefresh: created_at is now, so the token is recent.
Store(login) ==
    /\ row' = [row EXCEPT ![Next1] =
                 [st |-> "valid", login |-> IF login = 0 THEN Next1 ELSE login]]
    /\ recent' = recent \cup {Next1}

Respond(c, status, cookies) ==
    call' = [call EXCEPT ![c].pc = "answered", ![c].status = status,
                         ![c].cookies = cookies]

\* The client's POST: it presents the cookie's or the body's token.
PostRefresh(c, tok) ==
    call' = [call EXCEPT ![c] = [Idle EXCEPT !.pc = "sent", !.tok = tok]]

\* What the SELECT finds of the token presented, if one was.
Presented(c) == IF call[c].tok = NoToken THEN "absent" ELSE row[call[c].tok].st

\* Refresh up to the claim: the token row is read, then the user's role; a
\* role that cannot be read revokes the token.
RefreshRead(c) ==
    /\ call[c].pc = "sent"
    /\ \/ /\ Presented(c) = "absent"
          /\ Respond(c, "401", "keep")
          /\ UNCHANGED <<row, faults>>
       \/ /\ Presented(c) = "revoked"
          /\ row' = RevokeAllExceptRecent
          /\ Respond(c, "401", "clear")
          /\ UNCHANGED faults
       \/ /\ Presented(c) = "expired"
          /\ row' = [row EXCEPT ![call[c].tok].st = "absent"]
          /\ Respond(c, "401", "clear")
          /\ UNCHANGED faults
       \/ /\ Presented(c) = "valid"
          /\ call' = [call EXCEPT ![c].pc = "read"]
          /\ UNCHANGED <<row, faults>>
       \/ /\ Presented(c) = "valid"
          /\ Fault
          /\ row' = Revoke({call[c].tok})
          /\ Respond(c, "401", "keep")
    /\ UNCHANGED <<recent, events, over>>

\* A deviation: the UPDATE does not look at revoked.
ClaimableAnyway(t) == row[t].st # "absent"

\* UPDATE ... SET revoked = true WHERE token_hash = ? AND revoked = false.
Claimable(t) == row[t].st \in {"valid", "expired"}

RefreshClaim(c) ==
    /\ call[c].pc = "read"
    /\ \/ /\ Claimable(call[c].tok)
          /\ row' = Revoke({call[c].tok})
          /\ call' = [call EXCEPT ![c].pc = "claimed"]
          /\ UNCHANGED faults
       \/ /\ ~Claimable(call[c].tok)
          /\ row' = RevokeAllExceptRecent
          /\ Respond(c, "401", "clear")
          /\ UNCHANGED faults
       \/ /\ Fault
          /\ Respond(c, "500", "keep")
          /\ UNCHANGED row
    /\ UNCHANGED <<recent, events, over>>

\* A deviation: the error of the INSERT is dropped, and the pair is answered.
RefreshIssueUnchecked(c) ==
    /\ call[c].pc = "claimed"
    /\ \/ CanMint /\ Store(row[call[c].tok].login) /\ UNCHANGED faults
       \/ /\ IF CanMint THEN Fault ELSE faults' = MaxFaults
          /\ UNCHANGED <<row, recent>>
    /\ call' = [call EXCEPT ![c].pc = "answered", ![c].status = "200",
                            ![c].cookies = "set", ![c].tok = Next1]
    /\ UNCHANGED <<events, over>>

\* issuePair: the replacement is stored and sent; when that fails the claimed
\* token stays revoked.  A refusal by the bound counts as the last fault.
RefreshIssue(c) ==
    /\ call[c].pc = "claimed"
    /\ \/ /\ CanMint
          /\ Store(row[call[c].tok].login)
          /\ call' = [call EXCEPT ![c].pc = "answered", ![c].status = "200",
                                  ![c].cookies = "set", ![c].tok = Next1]
          /\ UNCHANGED faults
       \/ /\ IF CanMint THEN Fault ELSE faults' = MaxFaults
          /\ Respond(c, "500", "keep")
          /\ UNCHANGED <<row, recent>>
    /\ UNCHANGED <<events, over>>

\* The answer, or the request's connection, is lost on its way back.
AnswerLost(c) ==
    /\ call[c].pc = "answered"
    /\ call[c].status # "lost"
    /\ Fault
    /\ call' = [call EXCEPT ![c].status = "lost", ![c].cookies = "keep"]
    /\ UNCHANGED <<row, recent, events, over>>

\* LogoutAll or ChangePassword, called from another device of the user.
RevokeAllRefreshes ==
    /\ Valid # {}
    /\ Event
    /\ row' = Revoke(Tokens)
    /\ over' = TRUE
    /\ UNCHANGED <<recent, call, faults>>

\* expires_at passes.
TokenExpires(t) ==
    /\ row[t].st = "valid"
    /\ t \notin recent
    /\ Event
    /\ row' = [row EXCEPT ![t].st = "expired"]
    /\ over' = TRUE
    /\ UNCHANGED <<recent, call, faults>>

\* 30 s pass: whatever exists is no longer recent.  A refresh that is under
\* way meanwhile, its answer included, is too slow for the leeway.
LeewayPasses ==
    /\ recent # {}
    /\ Event
    /\ recent' = {}
    /\ over' = IF \A c \in Callers : call[c].pc = "idle" THEN over ELSE TRUE
    /\ UNCHANGED <<row, call, faults>>

RefreshStep(c) == RefreshRead(c) \/ RefreshClaim(c) \/ RefreshIssue(c)

\* Of a login: no token yet, a token that can be claimed, a claim under way
\* whose replacement is not stored yet, or none of these any more.
TakenBy(l) == {c \in Callers : /\ call[c].pc = "claimed"
                               /\ row[call[c].tok].login = l}
Usable(t) == row[t].st \in {"valid", "expired"}
TokensOf(l) == {t \in Tokens : row[t].login = l}

LoginPhase(l) ==
    CASE TokensOf(l) = {}                       -> "unborn"
      [] \E t \in TokensOf(l) : Usable(t)    -> "live"
      [] TakenBy(l) # {}                        -> "taken"
      [] OTHER                                  -> "ended"

(***************************************************************************)
(* Properties of the table.                                                *)
(***************************************************************************)

\* A login never has two usable tokens: the claim in Refresh is one
\* conditional UPDATE, so of two refreshes of one token only one goes on, and
\* none of them finds a usable token left behind.
OneTokenPerLogin ==
    \A l \in Tokens :
        Cardinality({t \in TokensOf(l) : Usable(t)})
            + Cardinality(TakenBy(l)) <= 1

\* The only login of a user goes on at the server as long as nobody ended it,
\* it did not expire, no refresh was 30 s late and no fault happened: whoever
\* loses the race for its token spares the winner's replacement (the leeway
\* of the reuse and race paths of Refresh).  A second login of the user is
\* not spared: a race for one login's token revokes the others.
LoginSurvivesRaces ==
    (faults = 0 /\ ~over /\ \A t \in Stored : row[t].login = 1)
        => LoginPhase(1) # "ended"

\* The table implements TokenRotation, the number of tokens stored for a
\* login counting its rotations.
Rotation == INSTANCE TokenRotation WITH
    Logins <- Tokens,
    phase <- [l \in Tokens |-> LoginPhase(l)],
    rotations <- [l \in Tokens |-> Cardinality(TokensOf(l))]

ImplementsRotation == Rotation!RotationSpec
==============================================================================
