--------------------------- MODULE IncidentDelivery ---------------------------
(***************************************************************************)
(* Dispatch (package delivery): from a notification request to a decision. *)
(*                                                                         *)
(* A request passes the emergency pause, the maintenance windows and the   *)
(* group's quiet hours, each a query of its own, and then claims the       *)
(* incident's row in delivery_state and enqueues in one transaction.       *)
(* Requests for one incident run concurrently; a request keeps the time it *)
(* started at and uses it, by then old, in the transaction.                *)
(***************************************************************************)
EXTENDS Integers

CONSTANTS
    Keys,             \* incident keys (Input.Key)
    NoKey,
    DigestKeys,       \* incidents of rules in digest mode
    Dispatchers,      \* goroutines calling Dispatch
    Cooldown,         \* cooldown of the incident, in ticks of the clock
    RepeatInterval,   \* RepeatIntervalSec
    MaxRepeats,       \* MaxRepeats
    MaxTime           \* bound on the clock

ASSUME DeliveryAssumption ==
    /\ NoKey \notin Keys
    /\ DigestKeys \subseteq Keys
    /\ Cooldown \in Nat
    /\ RepeatInterval \in Nat
    /\ MaxRepeats \in Nat
    /\ MaxTime \in Nat

Input == [key : Keys, recovery : BOOLEAN, critical : BOOLEAN,
          notifyRecovery : BOOLEAN]

NoInput == [key |-> NoKey, recovery |-> FALSE, critical |-> FALSE,
            notifyRecovery |-> FALSE]

Suppressions == {"emergency-pause", "maintenance", "quiet-hours", "cooldown",
                 "max-repeats", "recovery-muted"}
Outcomes == {"none", "error", "queued", "digested"} \cup Suppressions
Notified == {"queued", "digested"}

VARIABLES
    policy,   \* [pause, maintenance, quiet]: in force now
    state,    \* [Keys -> row of delivery_state]
    call,     \* [Dispatchers -> the running call of Dispatch]
    outcome,  \* what the call that has just returned decided
    clock,
    cycle     \* history, [Keys -> [pages, last, ended]]: firing notices since
              \* the incident was last resolved, the time of the last one, and
              \* whether the last finished request was a recovery

vars == <<policy, state, call, outcome, clock, cycle>>

Row == [exists : BOOLEAN, lastState : {"", "firing", "resolved"},
        lastNotified : 0..MaxTime, repeats : 0..MaxRepeats]

NoCall == [pc |-> "idle", in |-> NoInput, ts |-> 0]

NoRow == [exists |-> FALSE, lastState |-> "", lastNotified |-> 0, repeats |-> 0]

TypeOK ==
    /\ policy \in [pause : BOOLEAN, maintenance : BOOLEAN, quiet : BOOLEAN]
    /\ state \in [Keys -> Row]
    /\ call \in [Dispatchers -> [pc : {"idle", "maintenance", "quiet", "claim"},
                                 in : Input \cup {NoInput}, ts : 0..MaxTime]]
    /\ outcome \in Outcomes
    /\ clock \in 0..MaxTime
    /\ cycle \in [Keys -> [pages : Nat, last : 0..MaxTime, ended : BOOLEAN]]

Init ==
    /\ policy = [pause |-> FALSE, maintenance |-> FALSE, quiet |-> FALSE]
    /\ state = [k \in Keys |-> NoRow]
    /\ call = [d \in Dispatchers |-> NoCall]
    /\ outcome = "none"
    /\ clock = 0
    /\ cycle = [k \in Keys |-> [pages |-> 0, last |-> 0, ended |-> FALSE]]

-----------------------------------------------------------------------------
(* The gates.                                                              *)

Return(d, what) ==
    /\ call' = [call EXCEPT ![d] = NoCall]
    /\ outcome' = what

\* touchSuppressed: INSERT ... ON CONFLICT only counts; an existing row keeps
\* its last_state.
TouchSuppressed(d, in, reason) ==
    /\ state' = IF state[in.key].exists THEN state
                ELSE [state EXCEPT ![in.key] =
                         [exists |-> TRUE, lastState |-> "",
                          lastNotified |-> clock, repeats |-> 0]]
    /\ Return(d, reason)
    /\ cycle' = [cycle EXCEPT ![in.key].ended = in.recovery]

Proceed(d, pc) ==
    /\ call' = [call EXCEPT ![d].pc = pc]
    /\ outcome' = "none"
    /\ UNCHANGED <<state, cycle>>

\* Dispatch: take the time, load the policy, check the emergency pause.
Dispatch(d, in) ==
    /\ call[d].pc = "idle"
    /\ IF policy.pause
       THEN TouchSuppressed(d, in, "emergency-pause")
       ELSE /\ call' = [call EXCEPT ![d] = [pc |-> "maintenance", in |-> in,
                                            ts |-> clock]]
            /\ outcome' = "none"
            /\ UNCHANGED <<state, cycle>>
    /\ UNCHANGED <<policy, clock>>

\* MaintenanceActive holds back critical incidents as well.
CheckMaintenance(d) ==
    /\ call[d].pc = "maintenance"
    /\ IF policy.maintenance
       THEN TouchSuppressed(d, call[d].in, "maintenance")
       ELSE Proceed(d, "quiet")
    /\ UNCHANGED <<policy, clock>>

\* LoadGroupQuiet, InQuiet; the group allows critical incidents or not.
CheckQuiet(d, allowCritical) ==
    /\ call[d].pc = "quiet"
    /\ IF policy.quiet /\ ~(call[d].in.critical /\ allowCritical)
       THEN TouchSuppressed(d, call[d].in, "quiet-hours")
       ELSE Proceed(d, "claim")
    /\ UNCHANGED <<policy, clock>>

-----------------------------------------------------------------------------
(* claimAndEnqueue, one transaction under the lock of the incident's row.  *)

\* Mutant: a recovery is passed on whenever the rule wants recoveries.
RecoveryPassesAlways(in, r) == in.notifyRecovery

\* A recovery is passed on when the incident's firing was.
RecoveryPasses(in, r) == in.notifyRecovery /\ r.lastState = "firing"

\* Mutant: the cooldown is not looked at.
HeldBackNoCooldown(r, ts) ==
    CASE r.lastState # "firing" -> "none"
      [] r.lastState = "firing" /\ r.repeats >= MaxRepeats -> "max-repeats"
      [] OTHER -> "none"

\* Why a firing of an incident that is firing already is not repeated.
HeldBack(r, ts) ==
    CASE r.lastState # "firing" -> "none"
      [] r.lastState = "firing" /\ ts - r.lastNotified < Cooldown -> "cooldown"
      [] r.lastState = "firing" /\ ts - r.lastNotified >= Cooldown
            /\ r.repeats >= MaxRepeats -> "max-repeats"
      [] r.lastState = "firing" /\ ts - r.lastNotified >= Cooldown
            /\ r.repeats < MaxRepeats
            /\ ts - r.lastNotified < RepeatInterval -> "cooldown"
      [] OTHER -> "none"

\* Mutant: a recovery leaves the row firing.
ResolvedStaysFiring(in, r, ts) ==
    [r EXCEPT !.exists = TRUE,
              !.lastNotified = IF RecoveryPasses(in, r) THEN ts ELSE @]

\* setState("resolved", ...).
Resolved(in, r, ts) ==
    [r EXCEPT !.exists = TRUE, !.lastState = "resolved",
              !.lastNotified = IF RecoveryPasses(in, r) THEN ts ELSE @]

\* Mutant: a repeat does not count.
FiredUncounted(r, ts) ==
    [exists |-> TRUE, lastState |-> "firing", lastNotified |-> ts,
     repeats |-> IF r.lastState = "resolved" THEN 0 ELSE r.repeats]

\* setState("firing", true, ...); a resolved row was deleted and starts afresh.
Fired(r, ts) ==
    [exists |-> TRUE, lastState |-> "firing", lastNotified |-> ts,
     repeats |-> CASE r.lastState = "firing"   -> r.repeats + 1
                   [] r.lastState = "resolved" -> 0
                   [] OTHER                    -> r.repeats]

ClaimRecovery(d) ==
    LET in == call[d].in
        r  == state[in.key] IN
    /\ call[d].pc = "claim"
    /\ in.recovery
    /\ state' = [state EXCEPT ![in.key] = Resolved(in, r, call[d].ts)]
    /\ cycle' = [cycle EXCEPT ![in.key] = [pages |-> 0, last |-> 0, ended |-> TRUE]]
    /\ Return(d, CASE ~RecoveryPasses(in, r) -> "recovery-muted"
                   [] RecoveryPasses(in, r) /\ in.key \in DigestKeys -> "digested"
                   [] OTHER -> "queued")
    /\ UNCHANGED <<policy, clock>>

ClaimFiring(d) ==
    LET in   == call[d].in
        ts   == call[d].ts
        r    == state[in.key]
        held == HeldBack(r, ts) IN
    /\ call[d].pc = "claim"
    /\ ~in.recovery
    /\ IF held # "none"
       THEN /\ state' = state
            /\ cycle' = [cycle EXCEPT ![in.key].ended = FALSE]
            /\ Return(d, held)
       ELSE /\ state' = [state EXCEPT ![in.key] = Fired(r, ts)]
            /\ cycle' = [cycle EXCEPT ![in.key] =
                            [pages |-> @.pages + 1, last |-> ts, ended |-> FALSE]]
            /\ Return(d, IF in.key \in DigestKeys /\ ~in.critical
                         THEN "digested" ELSE "queued")
    /\ UNCHANGED <<policy, clock>>

\* The transaction fails and is rolled back: a database error, or two first
\* requests of an incident that both found no row and both insert it.
ClaimFails(d) ==
    /\ call[d].pc = "claim"
    /\ Return(d, "error")
    /\ UNCHANGED <<policy, state, clock, cycle>>

\* The process dies during the call.
DispatcherDies(d) ==
    /\ call[d].pc # "idle"
    /\ Return(d, "none")
    /\ UNCHANGED <<policy, state, clock, cycle>>

-----------------------------------------------------------------------------
\* The operator, the windows and the hours change what is in force.
PolicyChanges(p) ==
    /\ policy' = p
    /\ outcome' = "none"
    /\ UNCHANGED <<state, call, clock, cycle>>

Tick ==
    /\ clock < MaxTime
    /\ clock' = clock + 1
    /\ outcome' = "none"
    /\ UNCHANGED <<policy, state, call, cycle>>

Next ==
    \/ \E d \in Dispatchers :
          \/ \E in \in Input : Dispatch(d, in)
          \/ CheckMaintenance(d)
          \/ \E allow \in BOOLEAN : CheckQuiet(d, allow)
          \/ ClaimRecovery(d) \/ ClaimFiring(d) \/ ClaimFails(d)
          \/ DispatcherDies(d)
    \/ \E p \in [pause : BOOLEAN, maintenance : BOOLEAN, quiet : BOOLEAN] :
          PolicyChanges(p)
    \/ Tick

Spec == Init /\ [][Next]_vars

-----------------------------------------------------------------------------
(* Properties.                                                             *)

\* An incident is notified at most 1 + MaxRepeats times until it is resolved,
\* whatever requests overlap, fail or are held back in between ("max 3/cycle").
PagesCapped == \A k \in Keys : cycle[k].pages <= MaxRepeats + 1

\* The row claims an incident is firing exactly when it was notified and not
\* resolved since, and its repeat count is the number of repeats: what
\* cooldown, cap and recovery decide from is never out of step with what was
\* enqueued.
RowMatchesNotices ==
    \A k \in Keys :
        /\ state[k].lastState = "firing" <=> cycle[k].pages > 0
        /\ cycle[k].pages > 0 => /\ state[k].repeats = cycle[k].pages - 1
                                 /\ state[k].lastNotified = cycle[k].last

\* A call past its first gate carries a request; a row that never notified has
\* no repeats to count, and there is no row only before that.
CallsCarryInput ==
    \A d \in Dispatchers : call[d].pc # "idle" => call[d].in \in Input
FreshRowsUncounted ==
    \A k \in Keys : /\ state[k].lastState = "" => state[k].repeats = 0
                    /\ ~state[k].exists => state[k].lastState = ""

\* The inductive invariant: the row is in step with the notices, from which
\* the cap and the spacing follow.
IInv ==
    /\ TypeOK
    /\ RowMatchesNotices
    /\ CallsCarryInput
    /\ FreshRowsUncounted

\* Two notices of one incident, by the times their requests were made, are at
\* least the cooldown and the repeat interval apart, although a request may be
\* decided long after it was made and after a later one.  This is the rule the
\* code applies; with its defaults (900 s and 3600 s) it spaces CRITICAL notices
\* 60 min apart, where the delivery document says 15: see
\* CriticalRepeatsAfterCooldown.
PagesSpaced ==
    [][\A k \in Keys : cycle'[k].pages > cycle[k].pages /\ cycle[k].pages > 0
          => /\ cycle'[k].last - cycle[k].last >= Cooldown
             /\ cycle'[k].last - cycle[k].last >= RepeatInterval]_vars

\* "Recovery with no preceding firing notification is muted": a recovery that
\* goes out ends a cycle in which a firing went out.
RecoveryFollowsPage ==
    [][\A d \in Dispatchers :
          (call[d].pc = "claim" /\ call'[d].pc = "idle" /\ call[d].in.recovery
             /\ outcome' \in Notified)
          => cycle[call[d].in.key].pages > 0]_vars

-----------------------------------------------------------------------------
(* What the documentation says and the code does not do.                   *)

\* "A resolved-then-retriggered alert starts a new cycle": the first firing
\* after a recovery was reported is not held back as a repeat.
RetriggerStartsCycle ==
    [][\A d \in Dispatchers :
          (call[d].pc = "claim" /\ call'[d].pc = "idle" /\ ~call[d].in.recovery
             /\ cycle[call[d].in.key].ended)
          => outcome' \notin {"cooldown", "max-repeats"}]_vars

\* "CRITICAL: every 15 min, max 3/cycle" (table of safe defaults): a firing of a
\* critical incident that comes its cooldown (CooldownCriticalSec, 15 min) or more
\* after the last notice is not held back as too early.  claimAndEnqueue holds it
\* until RepeatIntervalSec (60 min) as well.
CriticalRepeatsAfterCooldown ==
    [][\A d \in Dispatchers :
          (call[d].pc = "claim" /\ call'[d].pc = "idle" /\ call[d].in.critical
             /\ ~call[d].in.recovery /\ outcome' = "cooldown")
          => call[d].ts - cycle[call[d].in.key].last < Cooldown]_vars
=============================================================================
