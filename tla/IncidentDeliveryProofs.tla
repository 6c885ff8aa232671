------------------------ MODULE IncidentDeliveryProofs ------------------------
(***************************************************************************)
(* Proofs about IncidentDelivery, for every set of incidents and of        *)
(* concurrent requests, every cooldown, repeat interval and cap.           *)
(*                                                                         *)
(* The decision of a claim is a function of the incident's row; the proofs *)
(* rest on that row being in step with what was enqueued                   *)
(* (RowMatchesNotices), which the lemmas about Fired and Resolved carry    *)
(* from one claim to the next.                                             *)
(***************************************************************************)
EXTENDS IncidentDelivery, TLAPS

CycleSet == [pages : Nat, last : 0..MaxTime, ended : BOOLEAN]
CallSet == [pc : {"idle", "maintenance", "quiet", "claim"},
            in : Input \cup {NoInput}, ts : 0..MaxTime]

\* What one incident's row and history have to do with each other.
InStep(r, c) ==
    /\ r.lastState = "firing" <=> c.pages > 0
    /\ c.pages > 0 => r.repeats = c.pages - 1 /\ r.lastNotified = c.last
    /\ r.lastState = "" => r.repeats = 0
    /\ ~r.exists => r.lastState = ""

\* The fields of a row, one by one.
LEMMA RowFields ==
    ASSUME NEW r \in Row
    PROVE  /\ r.lastState \in {"", "firing", "resolved"}
           /\ r.lastNotified \in Int
           /\ r.repeats \in Nat /\ r.repeats <= MaxRepeats
<1>0. r.lastState \in {"", "firing", "resolved"}
  BY Zenon DEF Row
<1>1. r.lastNotified \in 0..MaxTime /\ r.repeats \in 0..MaxRepeats
  BY Zenon DEF Row
<1>2. MaxTime \in Nat /\ MaxRepeats \in Nat
  BY DeliveryAssumption
<1>3. r.lastNotified \in Int
  BY <1>1, <1>2
<1>4. r.repeats \in Nat /\ r.repeats <= MaxRepeats
  BY <1>1, <1>2
<1> QED BY <1>0, <1>3, <1>4, Zenon

\* A repeat that is not held back is late enough and within the cap.
LEMMA NotHeldBack ==
    ASSUME NEW r \in Row, NEW ts \in 0..MaxTime,
           r.lastState = "firing", HeldBack(r, ts) = "none"
    PROVE  /\ ts - r.lastNotified >= Cooldown
           /\ ts - r.lastNotified >= RepeatInterval
           /\ r.repeats < MaxRepeats
<1> DEFINE age == ts - r.lastNotified
<1>1. age \in Int /\ r.repeats \in Nat
  <2>1. r.lastNotified \in Int /\ r.repeats \in Nat
    BY RowFields, Zenon
  <2>2. ts \in Int
    BY DeliveryAssumption
  <2> QED BY <2>1, <2>2
<1>2. HeldBack(r, ts) =
        CASE r.lastState # "firing" -> "none"
          [] r.lastState = "firing" /\ age < Cooldown -> "cooldown"
          [] r.lastState = "firing" /\ age >= Cooldown
                /\ r.repeats >= MaxRepeats -> "max-repeats"
          [] r.lastState = "firing" /\ age >= Cooldown
                /\ r.repeats < MaxRepeats
                /\ age < RepeatInterval -> "cooldown"
          [] OTHER -> "none"
  BY DEF HeldBack
<1> HIDE DEF age
<1>3. ~(age < Cooldown)
  BY <1>2
<1>4. ~(age >= Cooldown /\ r.repeats >= MaxRepeats)
  BY <1>2
<1>5. ~(age >= Cooldown /\ r.repeats < MaxRepeats /\ age < RepeatInterval)
  BY <1>2
<1> QED BY <1>1, <1>3, <1>4, <1>5, DeliveryAssumption DEF age

\* A firing row of the table.
LEMMA FiringRow ==
    ASSUME NEW ts \in 0..MaxTime, NEW n \in 0..MaxRepeats
    PROVE  [exists |-> TRUE, lastState |-> "firing", lastNotified |-> ts,
            repeats |-> n] \in Row
BY Zenon DEF Row

\* A row and a history of n notices.
LEMMA FiringInStep ==
    ASSUME NEW ts \in 0..MaxTime, NEW n \in Nat
    PROVE  InStep([exists |-> TRUE, lastState |-> "firing", lastNotified |-> ts,
                   repeats |-> n],
                  [pages |-> n + 1, last |-> ts, ended |-> FALSE])
<1>1. n + 1 > 0 /\ n = (n + 1) - 1
  OBVIOUS
<1> QED BY <1>1 DEF InStep

\* The row after a recovery is one of the resolved rows of the table.
LEMMA ResolvedRow ==
    ASSUME NEW in, NEW r \in Row, NEW ts \in 0..MaxTime
    PROVE  /\ Resolved(in, r, ts) \in Row
           /\ Resolved(in, r, ts).lastState = "resolved"
           /\ Resolved(in, r, ts).exists
BY DEF Resolved, Row

\* A firing that is not held back leaves a row whose repeat count is within
\* the cap and one notice ahead.
LEMMA FiredRow ==
    ASSUME NEW r \in Row, NEW c \in CycleSet, NEW ts \in 0..MaxTime,
           InStep(r, c), HeldBack(r, ts) = "none"
    PROVE  /\ Fired(r, ts) \in Row
           /\ InStep(Fired(r, ts), [pages |-> c.pages + 1, last |-> ts,
                                    ended |-> FALSE])
<1>0. c.pages \in Nat /\ r.repeats \in Nat
  BY RowFields DEF CycleSet
<1>1. CASE r.lastState = "firing"
  <2>1. r.repeats < MaxRepeats
    BY <1>1, NotHeldBack
  <2>2. Fired(r, ts) = [exists |-> TRUE, lastState |-> "firing",
                        lastNotified |-> ts, repeats |-> r.repeats + 1]
    BY <1>1 DEF Fired
  <2>3. r.repeats + 1 \in 0..MaxRepeats /\ r.repeats + 1 \in Nat
    BY <1>0, <2>1, DeliveryAssumption
  <2>4. c.pages > 0 /\ r.repeats = c.pages - 1
    BY <1>1 DEF InStep
  <2>5. c.pages + 1 = (r.repeats + 1) + 1
    BY <1>0, <2>4
  <2> QED
    BY <2>2, <2>3, <2>5, FiringRow, FiringInStep
<1>2. CASE r.lastState # "firing"
  <2>1. r.lastState = "" \/ r.lastState = "resolved"
    BY <1>2, RowFields
  <2>2. Fired(r, ts) = [exists |-> TRUE, lastState |-> "firing",
                        lastNotified |-> ts, repeats |-> 0]
    BY <1>2, <2>1 DEF Fired, InStep
  <2>3. ~(c.pages > 0)
    BY <1>2 DEF InStep
  <2>4. c.pages + 1 = 0 + 1
    BY <1>0, <2>3
  <2>5. 0 \in 0..MaxRepeats /\ 0 \in Nat
    BY DeliveryAssumption
  <2> QED
    BY <2>2, <2>4, <2>5, FiringRow, FiringInStep
<1> QED BY <1>1, <1>2

\* The invariant speaks of each incident separately.
LEMMA IInvPointwise ==
    IInv <=> /\ TypeOK
             /\ \A k \in Keys : InStep(state[k], cycle[k])
             /\ CallsCarryInput
BY DEF IInv, RowMatchesNotices, FreshRowsUncounted, InStep

LEMMA IInvPointwisePrime ==
    IInv' <=> /\ TypeOK'
              /\ \A k \in Keys : InStep(state'[k], cycle'[k])
              /\ CallsCarryInput'
BY DEF IInv, RowMatchesNotices, FreshRowsUncounted, InStep

\* Returning ends the call and leaves the others alone.
LEMMA ReturnKeepsCalls ==
    ASSUME IInv, NEW d \in Dispatchers, NEW what \in Outcomes, Return(d, what)
    PROVE  /\ call' \in [Dispatchers -> CallSet]
           /\ outcome' \in Outcomes
           /\ CallsCarryInput'
<1>1. call \in [Dispatchers -> CallSet]
  BY DEF IInv, TypeOK, CallSet
<1>2. NoCall \in CallSet
  BY DeliveryAssumption DEF NoCall, CallSet
<1>3. call' = [call EXCEPT ![d] = NoCall] /\ outcome' = what
  BY DEF Return
<1>4. NoCall.pc = "idle"
  BY DEF NoCall
<1>5. call' \in [Dispatchers -> CallSet]
  BY <1>1, <1>2, <1>3
<1>6. CallsCarryInput'
  BY <1>1, <1>3, <1>4 DEF CallsCarryInput, IInv
<1> QED BY <1>3, <1>5, <1>6

\* A suppression at a gate writes a row that never notified, or none.
LEMMA TouchKeeps ==
    ASSUME IInv, NEW d \in Dispatchers, NEW in \in Input, NEW reason \in Outcomes,
           TouchSuppressed(d, in, reason), UNCHANGED <<policy, clock>>
    PROVE  IInv'
<1>1. /\ call' \in [Dispatchers -> CallSet]
      /\ outcome' \in Outcomes
      /\ CallsCarryInput'
  BY ReturnKeepsCalls DEF TouchSuppressed
<1>2. in.key \in Keys /\ in.recovery \in BOOLEAN
  BY DEF Input
<1>3. /\ state \in [Keys -> Row] /\ cycle \in [Keys -> CycleSet]
      /\ clock \in 0..MaxTime
      /\ \A k \in Keys : InStep(state[k], cycle[k])
  BY IInvPointwise DEF TypeOK, CycleSet
<1> DEFINE fresh == [exists |-> TRUE, lastState |-> "", lastNotified |-> clock,
                     repeats |-> 0]
           kept == [cycle[in.key] EXCEPT !.ended = in.recovery]
<1>4. fresh \in Row
  <2>1. 0 \in 0..MaxRepeats
    BY DeliveryAssumption
  <2> QED BY <1>3, <2>1, Zenon DEF Row
<1>5. kept \in CycleSet /\ kept.pages = cycle[in.key].pages
                        /\ kept.last = cycle[in.key].last
  BY <1>2, <1>3 DEF CycleSet
<1>6. cycle' = [cycle EXCEPT ![in.key] = kept]
  BY <1>2, <1>3 DEF TouchSuppressed, CycleSet
<1>7. cycle' \in [Keys -> CycleSet]
  BY <1>3, <1>5, <1>6
<1>8. \A k \in Keys : /\ cycle'[k].pages = cycle[k].pages
                      /\ cycle'[k].last = cycle[k].last
  BY <1>2, <1>3, <1>5, <1>6
<1>9. state' = state \/ (/\ ~state[in.key].exists
                          /\ state' = [state EXCEPT ![in.key] = fresh])
  BY DEF TouchSuppressed
<1>10. state' \in [Keys -> Row]
  BY <1>3, <1>4, <1>9
<1>11. TypeOK'
  BY <1>1, <1>7, <1>10 DEF IInv, TypeOK, CycleSet, CallSet
<1>12. \A k \in Keys : InStep(state'[k], cycle'[k])
  <2> SUFFICES ASSUME NEW k \in Keys PROVE InStep(state'[k], cycle'[k])
    OBVIOUS
  <2>1. InStep(state[k], cycle'[k])
    BY <1>3, <1>8 DEF InStep
  <2>2. CASE state'[k] = state[k]
    BY <2>1, <2>2
  <2>3. CASE ~state[k].exists /\ state'[k] = fresh
    <3>1. ~(cycle'[k].pages > 0)
      <4>1. state[k].lastState = ""
        BY <2>1, <2>3, Zenon DEF InStep
      <4> QED BY <2>1, <4>1 DEF InStep
    <3>2. /\ fresh.lastState = "" /\ fresh.repeats = 0 /\ fresh.exists
      OBVIOUS
    <3> HIDE DEF fresh
    <3> QED BY <2>3, <3>1, <3>2 DEF InStep
  <2> QED BY <1>2, <1>3, <1>9, <2>2, <2>3
<1> QED BY <1>1, <1>11, <1>12, IInvPointwisePrime

\* Going on to the next gate keeps the request.
LEMMA ProceedKeeps ==
    ASSUME IInv, NEW d \in Dispatchers, NEW pc \in {"quiet", "claim"},
           call[d].pc # "idle", Proceed(d, pc), UNCHANGED <<policy, clock>>
    PROVE  IInv'
<1>1. call \in [Dispatchers -> CallSet] /\ CallsCarryInput
  BY DEF IInv, TypeOK, CallSet
<1> DEFINE next == [call[d] EXCEPT !.pc = pc]
<1>2. next \in CallSet /\ next.in = call[d].in /\ call[d].in \in Input
  BY <1>1 DEF CallSet, CallsCarryInput
<1>3. call' = [call EXCEPT ![d] = next]
  BY <1>1 DEF Proceed, CallSet
<1>4. call' \in [Dispatchers -> CallSet]
  BY <1>1, <1>2, <1>3
<1>5. CallsCarryInput'
  BY <1>1, <1>2, <1>3 DEF CallsCarryInput
<1>6. TypeOK'
  BY <1>4 DEF Proceed, IInv, TypeOK, CallSet, Outcomes
<1> QED
  BY <1>5, <1>6 DEF Proceed, IInv, RowMatchesNotices, FreshRowsUncounted

\* A claim gives one incident a row and a history that are in step.
LEMMA ClaimKeeps ==
    ASSUME IInv, NEW d \in Dispatchers, NEW k \in Keys, NEW r \in Row,
           NEW c \in CycleSet, NEW what \in Outcomes, InStep(r, c),
           state' = [state EXCEPT ![k] = r], cycle' = [cycle EXCEPT ![k] = c],
           Return(d, what), UNCHANGED <<policy, clock>>
    PROVE  IInv'
<1>1. /\ call' \in [Dispatchers -> CallSet]
      /\ outcome' \in Outcomes
      /\ CallsCarryInput'
  BY ReturnKeepsCalls
<1>2. /\ state \in [Keys -> Row] /\ cycle \in [Keys -> CycleSet]
      /\ \A j \in Keys : InStep(state[j], cycle[j])
  BY IInvPointwise DEF TypeOK, CycleSet
<1>3. state' \in [Keys -> Row] /\ cycle' \in [Keys -> CycleSet]
  BY <1>2
<1>4. TypeOK'
  BY <1>1, <1>3 DEF IInv, TypeOK, CycleSet, CallSet
<1>5. \A j \in Keys : InStep(state'[j], cycle'[j])
  BY <1>2
<1> QED BY <1>1, <1>4, <1>5, IInvPointwisePrime

\* What the invariant says of a call that has reached its transaction.
LEMMA AtClaim ==
    ASSUME IInv, NEW d \in Dispatchers, call[d].pc # "idle"
    PROVE  /\ call[d].in \in Input
           /\ call[d].in.key \in Keys
           /\ call[d].ts \in 0..MaxTime
           /\ state[call[d].in.key] \in Row
           /\ cycle[call[d].in.key] \in CycleSet
           /\ InStep(state[call[d].in.key], cycle[call[d].in.key])
<1>1. call[d].in \in Input
  BY DEF IInv, CallsCarryInput
<1>2. call[d].in.key \in Keys
  BY <1>1 DEF Input
<1>3. call[d].ts \in 0..MaxTime
  BY DEF IInv, TypeOK
<1> QED BY <1>1, <1>2, <1>3, IInvPointwise DEF TypeOK, CycleSet

LEMMA RecoveryKeeps ==
    ASSUME IInv, NEW d \in Dispatchers, ClaimRecovery(d)
    PROVE  IInv'
<1> DEFINE in == call[d].in
           r  == state[in.key]
           what == CASE ~RecoveryPasses(in, r) -> "recovery-muted"
                     [] RecoveryPasses(in, r) /\ in.key \in DigestKeys -> "digested"
                     [] OTHER -> "queued"
           done == Resolved(in, r, call[d].ts)
           over == [pages |-> 0, last |-> 0, ended |-> TRUE]
<1>1. /\ in.key \in Keys /\ call[d].ts \in 0..MaxTime /\ r \in Row
  BY AtClaim DEF ClaimRecovery
<1>2. done \in Row /\ done.lastState = "resolved" /\ done.exists
  BY <1>1, ResolvedRow
<1>3. over \in CycleSet /\ InStep(done, over)
  BY <1>2, DeliveryAssumption DEF CycleSet, InStep
<1>4. what \in Outcomes
  BY DEF Outcomes, Suppressions
<1>5. /\ state' = [state EXCEPT ![in.key] = done]
      /\ cycle' = [cycle EXCEPT ![in.key] = over]
      /\ Return(d, what)
      /\ UNCHANGED <<policy, clock>>
  BY DEF ClaimRecovery
<1> HIDE DEF what, done, over
<1> QED BY <1>1, <1>2, <1>3, <1>4, <1>5, ClaimKeeps

LEMMA FiringKeeps ==
    ASSUME IInv, NEW d \in Dispatchers, ClaimFiring(d)
    PROVE  IInv'
<1> DEFINE in == call[d].in
           ts == call[d].ts
           r  == state[in.key]
           c  == cycle[in.key]
           held == HeldBack(r, ts)
<1>1. /\ in.key \in Keys /\ ts \in 0..MaxTime /\ r \in Row /\ c \in CycleSet
      /\ InStep(r, c)
  BY AtClaim DEF ClaimFiring
<1>2. state \in [Keys -> Row] /\ cycle \in [Keys -> CycleSet]
  BY DEF IInv, TypeOK, CycleSet
<1>3. CASE held # "none"
  <2> DEFINE kept == [c EXCEPT !.ended = FALSE]
  <2>1. kept \in CycleSet /\ kept.pages = c.pages /\ kept.last = c.last
    BY <1>1 DEF CycleSet
  <2>2. InStep(r, kept)
    BY <1>1, <2>1 DEF InStep
  <2>3. held \in Outcomes
    BY DEF HeldBack, Outcomes, Suppressions
  <2>4. state' = state /\ Return(d, held) /\ UNCHANGED <<policy, clock>>
    BY <1>3 DEF ClaimFiring
  <2>5. cycle' = [cycle EXCEPT ![in.key] = kept]
    BY <1>1, <1>2, <1>3 DEF ClaimFiring, CycleSet
  <2>6. state' = [state EXCEPT ![in.key] = r]
    BY <1>1, <1>2, <2>4
  <2> HIDE DEF kept, held, r
  <2> QED BY <1>1, <2>1, <2>2, <2>3, <2>4, <2>5, <2>6, ClaimKeeps
<1>4. CASE held = "none"
  <2> DEFINE more == [pages |-> c.pages + 1, last |-> ts, ended |-> FALSE]
             what == IF in.key \in DigestKeys /\ ~in.critical
                     THEN "digested" ELSE "queued"
             row == Fired(r, ts)
  <2>1. row \in Row /\ InStep(row, more)
    BY <1>1, <1>4, FiredRow
  <2>2. more \in CycleSet
    BY <1>1 DEF CycleSet
  <2>3. what \in Outcomes
    BY DEF Outcomes
  <2>4. state' = [state EXCEPT ![in.key] = row]
    BY <1>4 DEF ClaimFiring
  <2>5. cycle' = [cycle EXCEPT ![in.key] = more]
    BY <1>1, <1>2, <1>4 DEF ClaimFiring
  <2>6. Return(d, what) /\ UNCHANGED <<policy, clock>>
    BY <1>4 DEF ClaimFiring
  <2> HIDE DEF more, what, row
  <2> QED BY <1>1, <2>1, <2>2, <2>3, <2>4, <2>5, <2>6, ClaimKeeps
<1> QED BY <1>3, <1>4

-----------------------------------------------------------------------------
LEMMA InitInv == Init => IInv
<1> SUFFICES ASSUME Init PROVE IInv
  OBVIOUS
<1>1. NoRow \in Row /\ NoCall \in CallSet
  BY DeliveryAssumption DEF NoRow, Row, NoCall, CallSet
<1>2. TypeOK
  BY <1>1, DeliveryAssumption DEF Init, TypeOK, CallSet, Outcomes
<1>3. CallsCarryInput
  BY DEF Init, CallsCarryInput, NoCall
<1>4. RowMatchesNotices /\ FreshRowsUncounted
  <2>1. \A k \in Keys : state[k].lastState = "" /\ state[k].repeats = 0
                          /\ cycle[k].pages = 0
    BY DEF Init, NoRow
  <2>2. RowMatchesNotices
    <3>1. \A k \in Keys : state[k].lastState # "firing" /\ cycle[k].pages = 0
      BY <2>1
    <3>2. ~(0 > 0)
      OBVIOUS
    <3> QED BY <3>1, <3>2, Zenon DEF RowMatchesNotices
  <2>3. FreshRowsUncounted
    BY <2>1, Zenon DEF FreshRowsUncounted
  <2> QED BY <2>2, <2>3
<1> QED BY <1>2, <1>3, <1>4 DEF IInv

\* Every step of a request, of the operator and of the clock keeps the rows in
\* step with the notices.
LEMMA NextInv == IInv /\ [Next]_vars => IInv'
<1> SUFFICES ASSUME IInv, [Next]_vars PROVE IInv'
  OBVIOUS
<1>1. ASSUME NEW d \in Dispatchers, NEW in \in Input, Dispatch(d, in)
      PROVE  IInv'
  <2>1. CASE policy.pause
    <3>1. TouchSuppressed(d, in, "emergency-pause") /\ UNCHANGED <<policy, clock>>
      BY <1>1, <2>1 DEF Dispatch
    <3>2. "emergency-pause" \in Outcomes
      BY DEF Outcomes, Suppressions
    <3> QED BY <3>1, <3>2, TouchKeeps
  <2>2. CASE ~policy.pause
    <3> DEFINE new == [pc |-> "maintenance", in |-> in, ts |-> clock]
    <3>1. /\ call' = [call EXCEPT ![d] = new]
          /\ outcome' = "none" /\ UNCHANGED <<state, cycle, policy, clock>>
      BY <1>1, <2>2 DEF Dispatch
    <3>2. new \in CallSet /\ new.in \in Input
      BY DEF CallSet, IInv, TypeOK
    <3>3. call \in [Dispatchers -> CallSet] /\ CallsCarryInput
      BY DEF IInv, TypeOK, CallSet
    <3>4. call' \in [Dispatchers -> CallSet]
      BY <3>1, <3>2, <3>3
    <3>5. CallsCarryInput'
      BY <3>1, <3>2, <3>3 DEF CallsCarryInput
    <3>6. TypeOK'
      BY <3>1, <3>4 DEF IInv, TypeOK, CallSet, Outcomes
    <3> QED BY <3>1, <3>5, <3>6 DEF IInv, RowMatchesNotices, FreshRowsUncounted
  <2> QED BY <2>1, <2>2
<1>2. ASSUME NEW d \in Dispatchers, CheckMaintenance(d) PROVE IInv'
  <2>1. call[d].pc # "idle" /\ call[d].in \in Input
    BY <1>2, AtClaim DEF CheckMaintenance
  <2>2. "maintenance" \in Outcomes
    BY DEF Outcomes, Suppressions
  <2>3. CASE policy.maintenance
    BY <1>2, <2>1, <2>2, <2>3, TouchKeeps DEF CheckMaintenance
  <2>4. CASE ~policy.maintenance
    BY <1>2, <2>1, <2>4, ProceedKeeps DEF CheckMaintenance
  <2> QED BY <2>3, <2>4
<1>3. ASSUME NEW d \in Dispatchers, NEW allow \in BOOLEAN, CheckQuiet(d, allow)
      PROVE  IInv'
  <2>1. call[d].pc # "idle" /\ call[d].in \in Input
    BY <1>3, AtClaim DEF CheckQuiet
  <2>2. "quiet-hours" \in Outcomes
    BY DEF Outcomes, Suppressions
  <2>3. CASE policy.quiet /\ ~(call[d].in.critical /\ allow)
    BY <1>3, <2>1, <2>2, <2>3, TouchKeeps DEF CheckQuiet
  <2>4. CASE ~(policy.quiet /\ ~(call[d].in.critical /\ allow))
    BY <1>3, <2>1, <2>4, ProceedKeeps DEF CheckQuiet
  <2> QED BY <2>3, <2>4
<1>4. ASSUME NEW d \in Dispatchers, ClaimFails(d) \/ DispatcherDies(d)
      PROVE  IInv'
  <2>1. PICK what \in Outcomes : Return(d, what)
    BY <1>4 DEF ClaimFails, DispatcherDies, Outcomes
  <2>2. UNCHANGED <<policy, state, clock, cycle>>
    BY <1>4 DEF ClaimFails, DispatcherDies
  <2>3. /\ call' \in [Dispatchers -> CallSet]
        /\ outcome' \in Outcomes /\ CallsCarryInput'
    BY <2>1, ReturnKeepsCalls
  <2>4. TypeOK'
    BY <2>2, <2>3 DEF IInv, TypeOK, CallSet
  <2> QED BY <2>2, <2>3, <2>4 DEF IInv, RowMatchesNotices, FreshRowsUncounted
<1>5. ASSUME NEW p \in [pause : BOOLEAN, maintenance : BOOLEAN, quiet : BOOLEAN],
             PolicyChanges(p)
      PROVE  IInv'
  BY <1>5 DEF PolicyChanges, IInv, TypeOK, RowMatchesNotices, CallsCarryInput,
              FreshRowsUncounted, Outcomes
<1>6. CASE Tick
  <2>1. clock' \in 0..MaxTime
    BY <1>6, DeliveryAssumption DEF Tick, IInv, TypeOK
  <2> QED
    BY <1>6, <2>1 DEF Tick, IInv, TypeOK, RowMatchesNotices, CallsCarryInput,
                      FreshRowsUncounted, Outcomes
<1>7. CASE UNCHANGED vars
  BY <1>7 DEF vars, IInv, TypeOK, RowMatchesNotices, CallsCarryInput,
              FreshRowsUncounted
<1> QED
  BY <1>1, <1>2, <1>3, <1>4, <1>5, <1>6, <1>7, RecoveryKeeps, FiringKeeps DEF Next

\* The inductive invariant holds in every reachable state.
THEOREM DeliveryInvariance == Spec => []IInv
BY InitInv, NextInv, PTL DEF Spec

\* The row that the cooldown, the cap and the recovery are decided from is in
\* step with what was enqueued, for any number of overlapping requests.
THEOREM RowInStep == Spec => []RowMatchesNotices
<1>1. IInv => RowMatchesNotices
  BY DEF IInv
<1> QED BY <1>1, DeliveryInvariance, PTL

\* An incident is notified at most 1 + MaxRepeats times until it is resolved.
THEOREM NoticesCapped == Spec => []PagesCapped
<1>1. IInv => PagesCapped
  <2> SUFFICES ASSUME IInv, NEW k \in Keys
               PROVE  cycle[k].pages <= MaxRepeats + 1
    BY DEF PagesCapped
  <2>1. state[k].repeats \in 0..MaxRepeats /\ cycle[k].pages \in Nat
    BY DEF IInv, TypeOK, Row
  <2>2. cycle[k].pages > 0 => state[k].repeats = cycle[k].pages - 1
    BY DEF IInv, RowMatchesNotices
  <2> QED BY <2>1, <2>2, DeliveryAssumption
<1> QED BY <1>1, DeliveryInvariance, PTL

-----------------------------------------------------------------------------
\* Two notices of one incident are the cooldown and the repeat interval apart
\* by the times of their requests, in whatever order they are decided.
THEOREM NoticesSpaced == Spec => PagesSpaced
<1> DEFINE Step == \A k \in Keys :
                      cycle'[k].pages > cycle[k].pages /\ cycle[k].pages > 0
                      => /\ cycle'[k].last - cycle[k].last >= Cooldown
                         /\ cycle'[k].last - cycle[k].last >= RepeatInterval
<1>1. IInv /\ [Next]_vars => Step
  <2> SUFFICES ASSUME IInv, [Next]_vars, NEW k \in Keys,
                      cycle'[k].pages > cycle[k].pages, cycle[k].pages > 0
               PROVE  /\ cycle'[k].last - cycle[k].last >= Cooldown
                      /\ cycle'[k].last - cycle[k].last >= RepeatInterval
    OBVIOUS
  <2>0. cycle \in [Keys -> CycleSet] /\ cycle[k].pages \in Nat
    BY DEF IInv, TypeOK, CycleSet
  <2>1. PICK d \in Dispatchers : ClaimFiring(d)
    <3>1. cycle' # cycle
      BY <2>0
    <3>2. ASSUME NEW d \in Dispatchers, NEW in, NEW why,
                 TouchSuppressed(d, in, why)
          PROVE  FALSE
      <4>1. cycle'[k].pages = cycle[k].pages
        BY <2>0, <3>2 DEF TouchSuppressed, CycleSet
      <4> QED BY <2>0, <4>1
    <3>3. ASSUME NEW d \in Dispatchers, NEW in \in Input, Dispatch(d, in)
          PROVE  FALSE
      BY <3>1, <3>2, <3>3 DEF Dispatch
    <3>4. ASSUME NEW d \in Dispatchers, CheckMaintenance(d) PROVE FALSE
      BY <3>1, <3>2, <3>4 DEF CheckMaintenance, Proceed
    <3>5. ASSUME NEW d \in Dispatchers, NEW allow \in BOOLEAN,
                 CheckQuiet(d, allow)
          PROVE  FALSE
      BY <3>1, <3>2, <3>5 DEF CheckQuiet, Proceed
    <3>6. ASSUME NEW d \in Dispatchers, ClaimRecovery(d) PROVE FALSE
      <4>1. cycle'[k].pages = cycle[k].pages \/ cycle'[k].pages = 0
        BY <2>0, <3>6 DEF ClaimRecovery
      <4> QED BY <2>0, <4>1
    <3>7. ASSUME NEW d \in Dispatchers, ClaimFails(d) \/ DispatcherDies(d)
          PROVE  FALSE
      BY <3>1, <3>7 DEF ClaimFails, DispatcherDies
    <3>8. ~(Tick \/ UNCHANGED vars)
      BY <3>1 DEF Tick, vars
    <3>9. ASSUME NEW p, PolicyChanges(p) PROVE FALSE
      BY <3>1, <3>9 DEF PolicyChanges
    <3> QED BY <3>3, <3>4, <3>5, <3>6, <3>7, <3>8, <3>9 DEF Next
  <2> DEFINE in == call[d].in
             ts == call[d].ts
             r  == state[in.key]
  <2>2. in.key \in Keys /\ ts \in 0..MaxTime /\ r \in Row
        /\ InStep(r, cycle[in.key])
    BY <2>1, AtClaim DEF ClaimFiring
  <2>3. CASE HeldBack(r, ts) # "none"
    <3>1. cycle' = [cycle EXCEPT ![in.key].ended = FALSE]
      BY <2>1, <2>3 DEF ClaimFiring
    <3>2. cycle'[k].pages = cycle[k].pages
      BY <2>0, <3>1 DEF CycleSet
    <3> QED BY <2>0, <3>2
  <2>4. CASE HeldBack(r, ts) = "none"
    <3>1. cycle' = [cycle EXCEPT ![in.key] =
                       [pages |-> @.pages + 1, last |-> ts, ended |-> FALSE]]
      BY <2>1, <2>4 DEF ClaimFiring
    <3>2. k = in.key
      BY <2>0, <3>1
    <3>3. cycle'[k].last = ts
      BY <2>0, <3>1, <3>2
    <3>4. r.lastState = "firing" /\ r.lastNotified = cycle[k].last
      BY <2>2, <3>2 DEF InStep
    <3>5. ts - r.lastNotified >= Cooldown /\ ts - r.lastNotified >= RepeatInterval
      BY <2>2, <2>4, <3>4, NotHeldBack
    <3> QED BY <3>3, <3>4, <3>5
  <2> QED BY <2>3, <2>4
<1>2. [][Step]_vars <=> PagesSpaced
  BY DEF PagesSpaced
<1> HIDE DEF Step
<1> QED BY <1>1, <1>2, DeliveryInvariance, PTL DEF Spec

\* A recovery goes out only for an incident whose firing went out.
THEOREM RecoveriesFollow == Spec => RecoveryFollowsPage
<1> DEFINE Step == \A d \in Dispatchers :
                      (call[d].pc = "claim" /\ call'[d].pc = "idle" /\ call[d].in.recovery
                         /\ outcome' \in Notified)
                      => cycle[call[d].in.key].pages > 0
<1>1. IInv /\ [Next]_vars => Step
  <2> SUFFICES ASSUME IInv, [Next]_vars, NEW d \in Dispatchers,
                      call[d].pc = "claim", call'[d].pc = "idle",
                      call[d].in.recovery, outcome' \in Notified
               PROVE  cycle[call[d].in.key].pages > 0
    OBVIOUS
  <2>0. call \in [Dispatchers -> CallSet]
    BY DEF IInv, TypeOK, CallSet
  <2>1. PICK e \in Dispatchers : ClaimRecovery(e) \/ ClaimFiring(e)
    <3>1. outcome' # "none" /\ outcome' # "error" /\ outcome' \notin Suppressions
      BY DEF Notified, Suppressions
    <3>2. ASSUME NEW e \in Dispatchers, NEW in \in Input, Dispatch(e, in)
          PROVE  FALSE
      BY <3>1, <3>2 DEF Dispatch, TouchSuppressed, Return, Suppressions
    <3>3. ASSUME NEW e \in Dispatchers, CheckMaintenance(e) PROVE FALSE
      BY <3>1, <3>3 DEF CheckMaintenance, Proceed, TouchSuppressed, Return,
                        Suppressions
    <3>4. ASSUME NEW e \in Dispatchers, NEW allow \in BOOLEAN,
                 CheckQuiet(e, allow)
          PROVE  FALSE
      BY <3>1, <3>4 DEF CheckQuiet, Proceed, TouchSuppressed, Return, Suppressions
    <3>5. ASSUME NEW e \in Dispatchers, ClaimFails(e) \/ DispatcherDies(e)
          PROVE  FALSE
      BY <3>1, <3>5 DEF ClaimFails, DispatcherDies, Return
    <3>6. ASSUME NEW p, PolicyChanges(p) PROVE FALSE
      BY <3>1, <3>6 DEF PolicyChanges
    <3>7. ~Tick
      BY <3>1 DEF Tick
    <3>8. ~(UNCHANGED vars)
      BY <2>0 DEF vars
    <3> QED BY <3>2, <3>3, <3>4, <3>5, <3>6, <3>7, <3>8 DEF Next
  <2>2. e = d
    <3>1. call' = [call EXCEPT ![e] = NoCall]
      BY <2>1 DEF ClaimRecovery, ClaimFiring, Return
    <3> QED BY <2>0, <3>1
  <2>3. ClaimRecovery(d)
    BY <2>1, <2>2 DEF ClaimFiring
  <2> DEFINE in == call[d].in
             r  == state[in.key]
  <2>4. RecoveryPasses(in, r)
    <3> SUFFICES ASSUME ~RecoveryPasses(in, r) PROVE FALSE
      OBVIOUS
    <3>1. outcome' = "recovery-muted"
      BY <2>3 DEF ClaimRecovery, Return
    <3> QED BY <3>1 DEF Notified
  <2>5. InStep(r, cycle[in.key]) /\ cycle[in.key] \in CycleSet
    BY <2>3, AtClaim DEF ClaimRecovery
  <2>6. r.lastState = "firing"
    BY <2>4 DEF RecoveryPasses
  <2> QED BY <2>5, <2>6 DEF InStep
<1>2. [][Step]_vars <=> RecoveryFollowsPage
  BY DEF RecoveryFollowsPage
<1> HIDE DEF Step
<1> QED BY <1>1, <1>2, DeliveryInvariance, PTL DEF Spec
=============================================================================
