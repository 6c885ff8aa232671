-------------------------- MODULE BackupRunsProofs --------------------------
(* Proofs about BackupRuns, for any jobs, handlers, schedulers and bounds. *)
EXTENDS BackupRuns, TLAPS

USE RunsAssumption

LEMMA NewRunType ==
    ASSUME NEW j \in Jobs \cup {NoJob}, NEW b \in 0..MaxClock,
           NEW r \in {NoRun} \cup RunIds, NEW a \in 0..MaxRetries
    PROVE  NewRun(j, b, r, a) \in Run
BY DEF NewRun, Run, RunStatus, InFlight, Active, Terminal

LEMMA IdleTypes ==
    /\ IdleHandler \in HandlerState
    /\ \A t \in 0..MaxClock :
          /\ IdleSched(t) \in SchedState
          /\ [IdleSched(t) EXCEPT !.pc = "down"] \in SchedState
BY DEF IdleHandler, HandlerState, HandlerOps, RunStatus, InFlight, IdleSched,
       SchedState, SchedPCs, NoRun

LEMMA InitType == Init => TypeOK
<1> SUFFICES ASSUME Init PROVE TypeOK
  OBVIOUS
<1>1. run \in [RunIds -> Run]
  <2>1. NewRun(NoJob, 0, NoRun, 0) \in Run
    BY NewRunType DEF NoRun
  <2> QED BY <2>1 DEF Init
<1>2. handler \in [Handlers -> HandlerState]
  BY IdleTypes DEF Init
<1>3. sched \in [Schedulers -> SchedState]
  <2>1. 0 \in 0..MaxClock
    OBVIOUS
  <2> QED BY <2>1, IdleTypes DEF Init
<1>4. /\ policy \in [enabled : BOOLEAN, maxRetries : 0..MaxRetries]
      /\ peak \in 0..MaxRetries
  BY DEF Init
<1> QED BY <1>1, <1>2, <1>3, <1>4 DEF Init, TypeOK

LEMMA OperatorType ==
    ASSUME TypeOK, OperatorNext PROVE TypeOK'
<1>1. ASSUME NEW j \in Jobs, NEW b \in BOOLEAN, SetJobEnabled(j, b) PROVE TypeOK'
  BY <1>1 DEF SetJobEnabled, TypeOK
<1>2. ASSUME NEW b \in BOOLEAN, NEW n \in 0..MaxRetries, UpdatePolicy(b, n)
      PROVE  TypeOK'
  BY <1>2 DEF UpdatePolicy, TypeOK
<1>3. ASSUME NEW j \in Jobs, DeleteBackupJob(j) PROVE TypeOK'
  BY <1>3 DEF DeleteBackupJob, TypeOK
<1>4. ASSUME NEW h \in Handlers, NEW j \in Jobs, RunNowCheck(h, j) PROVE TypeOK'
  <2>1. [IdleHandler EXCEPT !.op = "runNow", !.job = j] \in HandlerState
    BY DEF IdleHandler, HandlerState, HandlerOps, RunStatus, InFlight, NoRun
  <2> QED BY <1>4, <2>1 DEF RunNowCheck, TypeOK
<1>5. ASSUME NEW h \in Handlers, NEW r \in RunIds, CancelRead(h, r) PROVE TypeOK'
  <2>1. run[r].status \in RunStatus
    BY DEF TypeOK, Run
  <2>2. [IdleHandler EXCEPT !.op = "cancel", !.run = r, !.seen = run[r].status]
           \in HandlerState
    BY <2>1 DEF IdleHandler, HandlerState, HandlerOps, RunStatus, InFlight, NoRun
  <2> QED BY <1>5, <2>2 DEF CancelRead, TypeOK
<1> QED BY <1>1, <1>2, <1>3, <1>4, <1>5 DEF OperatorNext

LEMMA InsertType ==
    ASSUME TypeOK, NEW row \in Run, InsertRun(row)
    PROVE  run' \in [RunIds -> Run] /\ nRuns' \in 0..MaxRuns
BY DEF TypeOK, InsertRun, RunIds

\* What is read from a well-typed row.
LEMMA RowType ==
    ASSUME TypeOK, NEW r \in RunIds
    PROVE  /\ run[r].status \in RunStatus
           /\ run[r].attempt \in 0..MaxRetries
           /\ run[r].cancelRequested \in BOOLEAN
           /\ run[r].completedAt \in BOOLEAN
           /\ run[r] \in Run
BY DEF TypeOK, Run

LEMMA LiveInRunIds ==
    ASSUME TypeOK, NEW r, Live(r) PROVE r \in RunIds
BY DEF TypeOK, Live, Exists, RunIds

LEMMA Statuses ==
    {"PENDING", "RUNNING", "COMPLETED", "FAILED", "CANCELLED"} \subseteq RunStatus
BY DEF RunStatus, InFlight, Active, Terminal

\* The rows the writes produce.
LEMMA RowWrites ==
    ASSUME NEW x \in Run, NEW st \in RunStatus, NEW b \in ByteCounts,
           NEW c \in BOOLEAN
    PROVE  /\ [x EXCEPT !.cancelRequested = TRUE, !.status = st] \in Run
           /\ [x EXCEPT !.status = st, !.completedAt = TRUE] \in Run
           /\ [x EXCEPT !.quiet = TRUE] \in Run
           /\ [x EXCEPT !.bytes = b] \in Run
           /\ [x EXCEPT !.status = st] \in Run
           /\ [x EXCEPT !.status = st, !.bytes = b, !.completedAt = c] \in Run
BY DEF Run

LEMMA UpdateType ==
    ASSUME TypeOK, NEW r, NEW guard \in BOOLEAN, NEW new,
           r \in RunIds => new \in Run, UpdateRun(r, guard, new)
    PROVE  run' \in [RunIds -> Run]
<1>1. CASE Live(r)
  <2>1. r \in RunIds
    BY <1>1, LiveInRunIds
  <2>2. [new EXCEPT !.quiet = FALSE] \in Run
    BY <2>1 DEF Run
  <2> QED BY <2>1, <2>2 DEF UpdateRun, TypeOK
<1>2. CASE ~Live(r)
  BY <1>2 DEF UpdateRun, TypeOK
<1> QED BY <1>1, <1>2

LEMMA AgentType ==
    ASSUME TypeOK, AgentNext PROVE TypeOK'
<1>1. ASSUME NEW h \in Handlers, NEW r \in RunIds, ClaimRun(h, r) PROVE TypeOK'
  <2>1. [IdleHandler EXCEPT !.op = "claim", !.run = r] \in HandlerState
    BY DEF IdleHandler, HandlerState, HandlerOps, RunStatus, InFlight, NoRun
  <2>2. [run[r] EXCEPT !.status = "RUNNING"] \in Run
    BY RowType, Statuses DEF Run
  <2>3. run' \in [RunIds -> Run]
    BY <1>1, <2>2, UpdateType DEF ClaimRun
  <2> QED BY <1>1, <2>1, <2>3 DEF ClaimRun, TypeOK
<1>2. ASSUME NEW h \in Handlers, NEW r \in RunIds, NEW to \in RunStatus,
             NEW b \in ByteCounts, ReportRead(h, r, to, b)
      PROVE TypeOK'
  <2>1. [IdleHandler EXCEPT
            !.op = IF to = run[r].status THEN "progress" ELSE "report",
            !.run = r, !.seen = run[r].status, !.to = to, !.bytes = b]
           \in HandlerState
    BY RowType DEF IdleHandler, HandlerState, HandlerOps, RunStatus, InFlight, NoRun
  <2> QED BY <1>2, <2>1 DEF ReportRead, TypeOK
<1>3. ASSUME AgentTouch PROVE TypeOK'
  BY <1>3 DEF AgentTouch, TypeOK
<1> QED BY <1>1, <1>2, <1>3 DEF AgentNext

LEMMA HandlerType ==
    ASSUME TypeOK, NEW h \in Handlers, HandlerNext(h) PROVE TypeOK'
<1>0. /\ handler[h] \in HandlerState
      /\ handler[h].job \in Jobs \cup {NoJob}
      /\ handler[h].to \in RunStatus
      /\ handler[h].bytes \in ByteCounts
  BY DEF TypeOK, HandlerState
<1>1. handler' = [handler EXCEPT ![h] = IdleHandler]
        => handler' \in [Handlers -> HandlerState]
  BY IdleTypes DEF TypeOK
<1>2. CASE RunNowInsert(h)
  <2>1. NewRun(handler[h].job, 0, NoRun, 0) \in Run
    BY <1>0, NewRunType DEF NoRun
  <2>2. run' \in [RunIds -> Run] /\ nRuns' \in 0..MaxRuns
    BY <1>2, <2>1, InsertType DEF RunNowInsert
  <2> QED BY <1>1, <1>2, <2>2 DEF RunNowInsert, TypeOK
<1>3. CASE CancelWrite(h)
  <2> DEFINE r == handler[h].run
             new == [run[r] EXCEPT !.cancelRequested = TRUE,
                                   !.status = IF handler[h].seen = "PENDING"
                                              THEN "CANCELLED" ELSE @]
             st == IF handler[h].seen = "PENDING" THEN "CANCELLED"
                   ELSE run[r].status
  <2>1. ASSUME r \in RunIds PROVE new \in Run
    <3>1. run[r] \in Run /\ st \in RunStatus
      BY <2>1, RowType, Statuses
    <3>2. new = [run[r] EXCEPT !.cancelRequested = TRUE, !.status = st]
      BY <3>1 DEF Run
    <3> HIDE DEF st, new
    <3> QED BY <3>1, <3>2, RowWrites
  <2>2. run' \in [RunIds -> Run]
    BY <1>3, <2>1, UpdateType DEF CancelWrite
  <2> QED BY <1>1, <1>3, <2>2 DEF CancelWrite, TypeOK
<1>4. CASE ClaimHandOver(h)
  <2>1. handed' \in [RunIds -> Nat]
    BY <1>4, LiveInRunIds DEF ClaimHandOver, TypeOK
  <2> QED BY <1>1, <1>4, <2>1 DEF ClaimHandOver, TypeOK
<1>5. CASE ClaimUndecryptable(h)
  <2> DEFINE r == handler[h].run
             new == [run[r] EXCEPT !.status = "FAILED", !.completedAt = TRUE]
  <2>1. r \in RunIds => new \in Run
    BY RowType, RowWrites, Statuses
  <2>2. run' \in [RunIds -> Run]
    BY <1>5, <2>1, UpdateType DEF ClaimUndecryptable
  <2> QED BY <1>1, <1>5, <2>2 DEF ClaimUndecryptable, TypeOK
<1>6. CASE ReportWrite(h)
  <2> DEFINE r == handler[h].run
             to == handler[h].to
             new == [run[r] EXCEPT !.status = to, !.bytes = handler[h].bytes,
                        !.completedAt = @ \/ to \in {"COMPLETED", "FAILED"}]
             c == run[r].completedAt \/ to \in {"COMPLETED", "FAILED"}
  <2>1. ASSUME r \in RunIds PROVE new \in Run
    <3>1. run[r] \in Run /\ c \in BOOLEAN
      BY <2>1, RowType
    <3>2. new = [run[r] EXCEPT !.status = to, !.bytes = handler[h].bytes,
                               !.completedAt = c]
      BY <3>1 DEF Run
    <3> HIDE DEF c, new
    <3> QED BY <1>0, <3>1, <3>2, RowWrites
  <2>2. run' \in [RunIds -> Run]
    BY <1>6, <2>1, UpdateType DEF ReportWrite
  <2> QED BY <1>1, <1>6, <2>2 DEF ReportWrite, TypeOK
<1>7. CASE ProgressWrite(h)
  <2> DEFINE r == handler[h].run
             new == [run[r] EXCEPT !.bytes = handler[h].bytes]
  <2>1. r \in RunIds => new \in Run
    BY <1>0, RowType DEF Run
  <2>2. run' \in [RunIds -> Run]
    BY <1>7, <2>1, UpdateType DEF ProgressWrite
  <2> QED BY <1>1, <1>7, <2>2 DEF ProgressWrite, TypeOK
<1> QED BY <1>2, <1>3, <1>4, <1>5, <1>6, <1>7 DEF HandlerNext

\* A scheduler's state after a step, and the rows it read.
LEMMA SchedFields ==
    ASSUME TypeOK, NEW s \in Schedulers
    PROVE  /\ sched[s] \in SchedState
           /\ sched[s].lastTick \in 0..MaxClock
           /\ sched[s].prev \in 0..MaxClock
           /\ sched[s].limit \in 0..MaxRetries
           /\ sched[s].latest \in {NoRun} \cup RunIds
           /\ sched[s].job \in Jobs \cup {NoJob}
           /\ \A x \in sched[s].snap \cup sched[s].pick : x \in Snapshot
BY DEF TypeOK, SchedState

LEMMA SnapshotType ==
    ASSUME TypeOK, NEW R \in SUBSET RunIds PROVE SnapshotOf(R) \subseteq Snapshot
BY RowType DEF SnapshotOf, Snapshot

\* The scheduler states the steps of a tick produce.
LEMMA SchedWrites ==
    ASSUME NEW x \in SchedState, NEW pc \in SchedPCs, NEW j \in Jobs \cup {NoJob},
           NEW todo \in SUBSET Jobs, NEW r \in {NoRun} \cup RunIds,
           NEW snap \in SUBSET Snapshot, NEW pick \in SUBSET Snapshot
    PROVE  /\ [x EXCEPT !.pc = pc] \in SchedState
           /\ [x EXCEPT !.snap = snap] \in SchedState
           /\ [x EXCEPT !.pc = pc, !.latest = r] \in SchedState
           /\ [x EXCEPT !.pc = pc, !.job = j, !.limit = 0] \in SchedState
           /\ [x EXCEPT !.pc = pc, !.snap = snap] \in SchedState
           /\ [x EXCEPT !.pc = pc, !.pick = pick] \in SchedState
           /\ [x EXCEPT !.pc = pc, !.todo = todo] \in SchedState
           /\ [x EXCEPT !.todo = todo, !.job = j, !.pc = pc] \in SchedState
           /\ [x EXCEPT !.pc = pc, !.todo = todo, !.snap = snap] \in SchedState
           /\ [x EXCEPT !.snap = snap, !.pick = pick, !.pc = pc] \in SchedState
<1>1. 0 \in 0..MaxRetries
  OBVIOUS
<1>2. [x EXCEPT !.pc = pc, !.job = j, !.limit = 0] \in SchedState
  BY <1>1 DEF SchedState
<1>3. [x EXCEPT !.snap = snap] \in SchedState
  BY DEF SchedState
<1> QED BY <1>2, <1>3 DEF SchedState

\* A scheduler's step changes its own state only, and to a well-typed one.
LEMMA SchedStepType ==
    ASSUME TypeOK, NEW s \in Schedulers, SchedulerNext(s)
    PROVE  /\ \E y \in SchedState : sched' = [sched EXCEPT ![s] = y]
           /\ UNCHANGED <<job, policy, peak, agentSeen, clock, handler, handed>>
<1> DEFINE Goal == \E y \in SchedState : sched' = [sched EXCEPT ![s] = y]
<1>16. UNCHANGED <<job, policy, peak, agentSeen, clock, handler, handed>>
  BY DEF SchedulerNext, SchedStep, TickStart, RetryCount, RetryLatest, RetryTx,
         FireCount, FireInsert, JobsDone, StaleSelect, SweepCheck, SweepWrite,
         SweepDone, RetainSelect, PruneRun, PruneDone, TickDone
<1> SUFFICES Goal
  BY <1>16
<1>0. /\ sched \in [Schedulers -> SchedState]
      /\ clock \in 0..MaxClock
      /\ sched[s] \in SchedState
      /\ sched[s].lastTick \in 0..MaxClock
      /\ sched[s].todo \in SUBSET Jobs
      /\ sched[s].snap \in SUBSET Snapshot
      /\ \A pc \in {"idle", "jobs", "latest", "retry", "cron", "fire", "stale",
                     "sweep", "sweepWrite", "retain", "prune"} : pc \in SchedPCs
      /\ NoRun \in {NoRun} \cup RunIds
      /\ NoJob \in Jobs \cup {NoJob}
  BY DEF TypeOK, SchedState, SchedPCs
<1>a. ASSUME NEW pc \in SchedPCs, sched' = [sched EXCEPT ![s].pc = pc] PROVE Goal
  <2>1. sched' = [sched EXCEPT ![s] = [sched[s] EXCEPT !.pc = pc]]
    BY <1>0, <1>a
  <2> QED BY <1>0, <2>1, SchedWrites
<1>1. CASE TickStart(s)
  <2>1. ASSUME NEW todo \in SUBSET Jobs, NEW p \in 0..MaxClock,
               NEW n \in 0..MaxRetries
        PROVE  [IdleSched(clock) EXCEPT !.prev = p, !.pc = "jobs", !.todo = todo,
                                        !.limit = n]
                  \in SchedState
    BY <1>0 DEF IdleSched, SchedState, SchedPCs, NoRun
  <2> QED BY <1>0, <1>1, <2>1 DEF TickStart, SchedStep, TypeOK
<1>2. ASSUME NEW j \in Jobs, RetryCount(s, j) PROVE Goal
  <2>1. ASSUME NEW pc \in {"latest", "cron"}
        PROVE  [sched[s] EXCEPT !.todo = sched[s].todo \ {j}, !.job = j, !.pc = pc]
                  \in SchedState
    BY <1>0, SchedWrites
  <2>2. \E pc \in {"latest", "cron"} : sched' = [sched EXCEPT ![s] =
           [sched[s] EXCEPT !.todo = sched[s].todo \ {j}, !.job = j, !.pc = pc]]
    BY <1>2 DEF RetryCount
  <2> QED BY <2>1, <2>2
<1>3. ASSUME NEW delayed \in BOOLEAN, RetryLatest(s, delayed) PROVE Goal
  <2>1. CASE delayed /\ \E r \in RunIds : Retryable(r, sched[s].job, sched[s].limit)
    <3> DEFINE c == CHOOSE r \in RunIds : Retryable(r, sched[s].job, sched[s].limit)
    <3>1. c \in RunIds
      BY <2>1
    <3> HIDE DEF c
    <3>2. [sched[s] EXCEPT !.pc = "retry", !.latest = c] \in SchedState
      BY <1>0, <3>1, SchedWrites
    <3>3. sched' = [sched EXCEPT ![s] = [sched[s] EXCEPT !.pc = "retry", !.latest = c]]
      BY <1>3, <2>1 DEF RetryLatest, c
    <3> QED BY <3>2, <3>3
  <2>2. CASE ~(delayed /\ \E r \in RunIds : Retryable(r, sched[s].job, sched[s].limit))
    BY <1>0, <1>3, <1>a, <2>2 DEF RetryLatest
  <2> QED BY <2>1, <2>2
<1>4. CASE RetryTx(s)
  <2>1. [sched[s] EXCEPT !.pc = "cron", !.latest = NoRun] \in SchedState
    BY <1>0, SchedWrites
  <2>2. sched' = [sched EXCEPT ![s] = [sched[s] EXCEPT !.pc = "cron", !.latest = NoRun]]
    BY <1>4 DEF RetryTx
  <2> QED BY <2>1, <2>2
<1>5. CASE FireCount(s)
  <2>1. \E pc \in {"fire", "jobs"} : sched' = [sched EXCEPT ![s].pc = pc]
    BY <1>5 DEF FireCount
  <2> QED BY <1>0, <1>a, <2>1
<1>6. CASE FireInsert(s)
  <2>1. sched' = [sched EXCEPT ![s].pc = "jobs"]
    BY <1>6 DEF FireInsert
  <2> QED BY <1>0, <1>a, <2>1
<1>7. CASE JobsDone(s)
  <2>1. [sched[s] EXCEPT !.pc = "stale", !.job = NoJob, !.limit = 0] \in SchedState
    BY <1>0, SchedWrites
  <2>2. sched' = [sched EXCEPT ![s] = [sched[s] EXCEPT !.pc = "stale", !.job = NoJob,
                                                       !.limit = 0]]
    BY <1>7 DEF JobsDone
  <2> QED BY <2>1, <2>2
<1>8. CASE StaleSelect(s)
  <2> DEFINE R == {r \in RunIds : /\ Live(r) /\ run[r].status \in Active
                                  /\ run[r].quiet}
  <2>1. SnapshotOf(R) \in SUBSET Snapshot
    BY SnapshotType
  <2>2. [sched[s] EXCEPT !.pc = "sweep", !.snap = SnapshotOf(R)] \in SchedState
    BY <1>0, <2>1, SchedWrites
  <2>3. sched' = [sched EXCEPT ![s] = [sched[s] EXCEPT !.pc = "sweep", !.snap = SnapshotOf(R)]]
    BY <1>8 DEF StaleSelect
  <2> QED BY <2>2, <2>3
<1>9. ASSUME NEW x \in sched[s].snap, SweepCheck(s, x) PROVE Goal
  <2>1. sched[s].snap \ {x} \in SUBSET Snapshot /\ {} \in SUBSET Snapshot
        /\ {x} \in SUBSET Snapshot
    BY <1>0
  <2>2. CASE agentSeen
    <3>1. sched' = [sched EXCEPT ![s] = [sched[s] EXCEPT
                      !.snap = sched[s].snap \ {x}, !.pick = {}, !.pc = "sweep"]]
      BY <1>9, <2>2 DEF SweepCheck
    <3>2. [sched[s] EXCEPT !.snap = sched[s].snap \ {x}, !.pick = {}, !.pc = "sweep"]
             \in SchedState
      BY <1>0, <2>1, SchedWrites
    <3> QED BY <3>1, <3>2
  <2>3. CASE ~agentSeen
    <3>1. sched' = [sched EXCEPT ![s] = [sched[s] EXCEPT
                      !.snap = sched[s].snap \ {x}, !.pick = {x}, !.pc = "sweepWrite"]]
      BY <1>9, <2>3 DEF SweepCheck
    <3>2. [sched[s] EXCEPT !.snap = sched[s].snap \ {x}, !.pick = {x},
                           !.pc = "sweepWrite"] \in SchedState
      BY <1>0, <2>1, SchedWrites
    <3> QED BY <3>1, <3>2
  <2> QED BY <2>2, <2>3
<1>10. CASE SweepWrite(s)
  <2>1. [sched[s] EXCEPT !.pc = "sweep", !.pick = {}] \in SchedState
    BY <1>0, SchedWrites
  <2>2. sched' = [sched EXCEPT ![s] = [sched[s] EXCEPT !.pc = "sweep", !.pick = {}]]
    BY <1>10 DEF SweepWrite
  <2> QED BY <2>1, <2>2
<1>11. CASE SweepDone(s)
  <2>1. [sched[s] EXCEPT !.pc = "retain", !.todo = {j \in Jobs : ~job[j].deleted}]
           \in SchedState
    <3>1. {j \in Jobs : ~job[j].deleted} \in SUBSET Jobs
      OBVIOUS
    <3> QED BY <1>0, <3>1, SchedWrites
  <2>2. sched' = [sched EXCEPT ![s] = [sched[s] EXCEPT
                     !.pc = "retain", !.todo = {j \in Jobs : ~job[j].deleted}]]
    BY <1>11 DEF SweepDone
  <2> QED BY <2>1, <2>2
<1>12. ASSUME NEW j \in Jobs, NEW old \in SUBSET RunIds, RetainSelect(s, j, old)
       PROVE  Goal
  <2>1. SnapshotOf(old) \in SUBSET Snapshot /\ sched[s].todo \ {j} \in SUBSET Jobs
    BY <1>0, SnapshotType
  <2>2. [sched[s] EXCEPT !.pc = "prune", !.todo = sched[s].todo \ {j},
                         !.snap = SnapshotOf(old)] \in SchedState
    BY <1>0, <2>1, SchedWrites
  <2>3. sched' = [sched EXCEPT ![s] = [sched[s] EXCEPT !.pc = "prune",
                     !.todo = sched[s].todo \ {j}, !.snap = SnapshotOf(old)]]
    BY <1>12 DEF RetainSelect
  <2> QED BY <2>2, <2>3
<1>13. ASSUME NEW x \in sched[s].snap, PruneRun(s, x) PROVE Goal
  <2>1. sched[s].snap \ {x} \in SUBSET Snapshot
    BY <1>0
  <2>2. [sched[s] EXCEPT !.snap = sched[s].snap \ {x}] \in SchedState
    BY <1>0, <2>1 DEF SchedState
  <2>3. sched' = [sched EXCEPT ![s] = [sched[s] EXCEPT !.snap = sched[s].snap \ {x}]]
    BY <1>0, <1>13 DEF PruneRun
  <2> QED BY <2>2, <2>3
<1>14. CASE PruneDone(s)
  <2>1. sched' = [sched EXCEPT ![s].pc = "retain"]
    BY <1>14 DEF PruneDone
  <2> QED BY <1>0, <1>a, <2>1
<1>15. CASE TickDone(s)
  <2>1. sched' = [sched EXCEPT ![s] = IdleSched(sched[s].lastTick)]
    BY <1>15 DEF TickDone
  <2> QED BY <1>0, <2>1, IdleTypes
<1> QED BY <1>1, <1>2, <1>3, <1>4, <1>5, <1>6, <1>7, <1>8, <1>9, <1>10, <1>11,
           <1>12, <1>13, <1>14, <1>15 DEF SchedulerNext

LEMMA SchedulerType ==
    ASSUME TypeOK, SchedulerFacts, NEW s \in Schedulers, SchedulerNext(s)
    PROVE  TypeOK'
<1>1. /\ sched' \in [Schedulers -> SchedState]
      /\ UNCHANGED <<job, policy, peak, agentSeen, clock, handler, handed>>
  BY SchedStepType DEF TypeOK
<1> SUFFICES run' \in [RunIds -> Run] /\ nRuns' \in 0..MaxRuns
  BY <1>1 DEF TypeOK
<1>2. CASE UNCHANGED <<run, nRuns>>
  BY <1>2 DEF TypeOK
<1>3. CASE RetryTx(s)
  <2>1. CASE InsertRun(NewRun(sched[s].job, 0, sched[s].latest,
                              run[sched[s].latest].attempt + 1))
    <3>1. sched[s].latest \in RunIds /\ run[sched[s].latest].attempt < peak
      BY <1>3 DEF RetryTx, SchedStep, SchedulerFacts, SchedulerFact, Exists, TypeOK,
             RunIds
    <3>2. run[sched[s].latest].attempt + 1 \in 0..MaxRetries
      BY <3>1, RowType DEF TypeOK
    <3>3. NewRun(sched[s].job, 0, sched[s].latest, run[sched[s].latest].attempt + 1)
             \in Run
      BY <3>1, <3>2, NewRunType, SchedFields
    <3> QED BY <2>1, <3>3, InsertType
  <2> QED BY <1>2, <1>3, <2>1 DEF RetryTx
<1>4. CASE FireInsert(s)
  <2>1. Boundary(s) \in 0..MaxClock
    BY <1>4, SchedFields DEF FireInsert, SchedStep, SchedulerFacts, SchedulerFact,
                             Boundary
  <2>2. NewRun(sched[s].job, Boundary(s), NoRun, 0) \in Run
    <3>1. 0 \in 0..MaxRetries /\ NoRun \in {NoRun} \cup RunIds
      OBVIOUS
    <3> QED BY <2>1, <3>1, NewRunType, SchedFields
  <2> QED BY <1>4, <2>2, InsertType DEF FireInsert
<1>5. CASE SweepWrite(s)
  <2>1. PICK x \in sched[s].pick :
          UpdateRun(x.id, run[x.id].status = x.status,
             [run[x.id] EXCEPT !.status = IF x.cancelRequested
                                          THEN "CANCELLED" ELSE "FAILED",
                               !.completedAt = TRUE])
    BY <1>5 DEF SweepWrite
  <2> DEFINE st == IF x.cancelRequested THEN "CANCELLED" ELSE "FAILED"
  <2>2. x.id \in RunIds /\ st \in RunStatus
    BY SchedFields, Statuses DEF Snapshot
  <2> HIDE DEF st
  <2>3. [run[x.id] EXCEPT !.status = st, !.completedAt = TRUE] \in Run
    BY <2>2, RowType, RowWrites
  <2>4. run' \in [RunIds -> Run]
    BY <2>1, <2>3, UpdateType DEF st
  <2> QED BY <1>5, <2>4 DEF SweepWrite, TypeOK
<1>6. ASSUME NEW x \in sched[s].snap, PruneRun(s, x)
      PROVE  run' \in [RunIds -> Run] /\ nRuns' \in 0..MaxRuns
  <2>1. x.id \in RunIds /\ run[x.id] \in Run
    BY SchedFields, RowType DEF Snapshot
  <2>2. [run[x.id] EXCEPT !.deleted = TRUE] \in Run
    BY <2>1 DEF Run
  <2> QED BY <1>6, <2>1, <2>2 DEF PruneRun, TypeOK
<1> QED BY <1>2, <1>3, <1>4, <1>5, <1>6 DEF SchedulerNext, TickStart, RetryCount,
           RetryLatest, FireCount, JobsDone, StaleSelect, SweepCheck, SweepDone,
           RetainSelect, PruneDone, TickDone

LEMMA TimeAndCrashType ==
    ASSUME TypeOK, TimeNext \/ CrashNext PROVE TypeOK'
<1>1. CASE ClockTick
  BY <1>1 DEF ClockTick, TypeOK
<1>2. ASSUME NEW r \in RunIds, WentQuiet(r) PROVE TypeOK'
  <2>1. [run[r] EXCEPT !.quiet = TRUE] \in Run
    BY RowType, RowWrites, Statuses
  <2> QED BY <1>2, <2>1 DEF WentQuiet, TypeOK
<1>3. CASE AgentWentSilent
  BY <1>3 DEF AgentWentSilent, TypeOK
<1>4. ASSUME NEW h \in Handlers, HandlerDies(h) PROVE TypeOK'
  BY <1>4, IdleTypes DEF HandlerDies, TypeOK
<1>5. ASSUME NEW s \in Schedulers, SchedulerDies(s) PROVE TypeOK'
  <2>1. 0 \in 0..MaxClock
    OBVIOUS
  <2> QED BY <1>5, <2>1, IdleTypes DEF SchedulerDies, TypeOK
<1>6. ASSUME NEW s \in Schedulers, SchedulerBoots(s) PROVE TypeOK'
  BY <1>6, IdleTypes DEF SchedulerBoots, TypeOK
<1> QED BY <1>1, <1>2, <1>3, <1>4, <1>5, <1>6 DEF TimeNext, CrashNext

LEMMA StepType ==
    ASSUME TypeOK, SchedulerFacts, [Next]_vars PROVE TypeOK'
<1>1. CASE UNCHANGED vars
  BY <1>1 DEF vars, TypeOK
<1> QED BY <1>1, OperatorType, AgentType, HandlerType, SchedulerType,
           TimeAndCrashType DEF Next

-----------------------------------------------------------------------------
(* What a step does to the table: it writes rows as Moves allows, or it    *)
(* creates one.                                                            *)

Moves(x, y) ==
    /\ y.job = x.job
    /\ y.boundary = x.boundary
    /\ y.retryOf = x.retryOf
    /\ y.attempt = x.attempt
    /\ x.status \in {"FAILED", "CANCELLED"} => y.status \in {"FAILED", "CANCELLED"}
    /\ x.status \in Terminal => y.status \in Terminal
    /\ y.status = "PENDING" => x.status = "PENDING"
    /\ y.status # x.status =>
          /\ y.status = "RUNNING" => x.status = "PENDING"
          /\ y.status = "UPLOADING" => x.status = "RUNNING"
          /\ y.status = "VERIFYING" => x.status = "UPLOADING"
          /\ y.status = "COMPLETED" => x.status = "VERIFYING"
    /\ y.deleted /\ ~x.deleted => x.status \in Terminal

RowsMove ==
    \A q \in RunIds : /\ Moves(run[q], run'[q])
                      /\ q > nRuns => run'[q].status = run[q].status
Writes == nRuns' = nRuns /\ RowsMove

Creates(row) ==
    /\ nRuns < MaxRuns
    /\ UniqueIndexesAllow(row)
    /\ nRuns' = nRuns + 1
    /\ run' = [run EXCEPT ![nRuns + 1] = row]
    /\ row.status = "PENDING"
    /\ ~row.deleted
    /\ row.retryOf # NoRun =>
          /\ Exists(row.retryOf)
          /\ run[row.retryOf].job = row.job
          /\ run[row.retryOf].status \in {"FAILED", "CANCELLED"}
          /\ row.attempt = run[row.retryOf].attempt + 1
          /\ row.attempt <= peak

LEMMA MovesReflexive == \A x : Moves(x, x)
BY DEF Moves

LEMMA QuietMoves ==
    ASSUME NEW x \in Run, NEW y \in Run, Moves(x, y)
    PROVE  Moves(x, [y EXCEPT !.quiet = FALSE])
BY DEF Moves, Run

\* Every write of the code moves a row as Moves allows.
LEMMA RowMoves ==
    ASSUME NEW x \in Run, NEW st \in RunStatus, NEW b \in ByteCounts,
           NEW c \in BOOLEAN
    PROVE  /\ Moves(x, [x EXCEPT !.cancelRequested = TRUE, !.status = x.status])
           /\ Moves(x, [x EXCEPT !.cancelRequested = TRUE, !.status = "CANCELLED"])
           /\ st \in {"FAILED", "CANCELLED"} =>
                 Moves(x, [x EXCEPT !.status = st, !.completedAt = TRUE])
           /\ x.status = "PENDING" => Moves(x, [x EXCEPT !.status = "RUNNING"])
           /\ CanTransition(x.status, st) =>
                 Moves(x, [x EXCEPT !.status = st, !.bytes = b, !.completedAt = c])
           /\ Moves(x, [x EXCEPT !.bytes = b])
           /\ Moves(x, [x EXCEPT !.quiet = TRUE])
           /\ x.status \in Terminal => Moves(x, [x EXCEPT !.deleted = TRUE])
BY DEF Moves, Run, Terminal, CanTransition

LEMMA UpdateMoves ==
    ASSUME TypeOK, NEW r, NEW guard \in BOOLEAN, NEW new, UpdateRun(r, guard, new),
           r \in RunIds /\ guard => new \in Run /\ Moves(run[r], new)
    PROVE  RowsMove
<1>1. CASE Live(r) /\ guard
  <2>1. r \in RunIds
    BY <1>1, LiveInRunIds
  <2>2. Moves(run[r], [new EXCEPT !.quiet = FALSE])
    BY <1>1, <2>1, RowType, QuietMoves
  <2>3. run' = [run EXCEPT ![r] = [new EXCEPT !.quiet = FALSE]]
    BY <1>1 DEF UpdateRun
  <2>4. ~(r > nRuns)
    BY <1>1 DEF Live, Exists, TypeOK
  <2> QED BY <2>1, <2>2, <2>3, <2>4, MovesReflexive DEF TypeOK, RowsMove
<1>2. CASE ~(Live(r) /\ guard)
  BY <1>2, MovesReflexive DEF UpdateRun, RowsMove
<1> QED BY <1>1, <1>2

LEMMA InsertKinds ==
    ASSUME NEW j, NEW b, NEW a, NEW p,
           InsertRun(NewRun(j, b, p, a)),
           p # NoRun => /\ Exists(p)
                        /\ run[p].job = j
                        /\ run[p].status \in {"FAILED", "CANCELLED"}
                        /\ a = run[p].attempt + 1
                        /\ a <= peak
    PROVE  Writes \/ Creates(NewRun(j, b, p, a))
BY MovesReflexive DEF InsertRun, Writes, RowsMove, Creates, NewRun

LEMMA HandlerKinds ==
    ASSUME TypeOK, ReportsValidated, NEW h \in Handlers, HandlerNext(h)
    PROVE  Writes \/ \E row : Creates(row)
<1> DEFINE r == handler[h].run
<1>0. /\ handler[h].to \in RunStatus
      /\ handler[h].bytes \in ByteCounts
      /\ r \in RunIds => run[r] \in Run /\ run[r].status \in RunStatus
                         /\ run[r].completedAt \in BOOLEAN
  BY RowType DEF TypeOK, HandlerState
<1> HIDE DEF r
<1>1. CASE RunNowInsert(h)
  BY <1>1, InsertKinds DEF RunNowInsert
<1>2. CASE CancelWrite(h)
  <2> DEFINE new == [run[r] EXCEPT !.cancelRequested = TRUE,
                                   !.status = IF handler[h].seen = "PENDING"
                                              THEN "CANCELLED" ELSE @]
  <2>1. ASSUME r \in RunIds PROVE new \in Run /\ Moves(run[r], new)
    <3>1. CASE handler[h].seen = "PENDING"
      <4>1. new = [run[r] EXCEPT !.cancelRequested = TRUE, !.status = "CANCELLED"]
        BY <3>1
      <4> HIDE DEF new
      <4> QED BY <1>0, <2>1, <4>1, RowMoves, RowWrites, Statuses
    <3>2. CASE handler[h].seen # "PENDING"
      <4>1. new = [run[r] EXCEPT !.cancelRequested = TRUE, !.status = run[r].status]
        BY <1>0, <2>1, <3>2 DEF Run
      <4> HIDE DEF new
      <4> QED BY <1>0, <2>1, <4>1, RowMoves, RowWrites
    <3> QED BY <3>1, <3>2
  <2>2. UpdateRun(r, TRUE, new)
    BY <1>2 DEF CancelWrite, r
  <2> HIDE DEF new
  <2>3. RowsMove
    BY <2>1, <2>2, UpdateMoves
  <2> QED BY <1>2, <2>3 DEF CancelWrite, Writes
<1>3. CASE ClaimHandOver(h)
  BY <1>3, MovesReflexive DEF ClaimHandOver, Writes, RowsMove
<1>4. CASE ClaimUndecryptable(h)
  <2> DEFINE new == [run[r] EXCEPT !.status = "FAILED", !.completedAt = TRUE]
  <2>1. r \in RunIds => new \in Run /\ Moves(run[r], new)
    BY <1>0, RowMoves, RowWrites, Statuses
  <2>2. UpdateRun(r, TRUE, new)
    BY <1>4 DEF ClaimUndecryptable, r
  <2> HIDE DEF new
  <2>3. RowsMove
    BY <2>1, <2>2, UpdateMoves
  <2> QED BY <1>4, <2>3 DEF ClaimUndecryptable, Writes
<1>5. CASE ReportWrite(h)
  <2> DEFINE to == handler[h].to
             c == run[r].completedAt \/ to \in {"COMPLETED", "FAILED"}
             new == [run[r] EXCEPT !.status = to, !.bytes = handler[h].bytes,
                        !.completedAt = @ \/ to \in {"COMPLETED", "FAILED"}]
             guard == run[r].status = handler[h].seen
  <2>1. ASSUME r \in RunIds, guard PROVE new \in Run /\ Moves(run[r], new)
    <3>1. c \in BOOLEAN /\ CanTransition(run[r].status, to)
      BY <1>5, <2>1 DEF ReportWrite, ReportsValidated
    <3>2. new = [run[r] EXCEPT !.status = to, !.bytes = handler[h].bytes,
                               !.completedAt = c]
      BY <1>0, <2>1 DEF Run
    <3> HIDE DEF c, new
    <3> QED BY <1>0, <2>1, <3>1, <3>2, RowMoves, RowWrites
  <2>2. UpdateRun(r, guard, new)
    BY <1>5 DEF ReportWrite, r
  <2> HIDE DEF new
  <2>3. RowsMove
    BY <2>1, <2>2, UpdateMoves
  <2> QED BY <1>5, <2>3 DEF ReportWrite, Writes
<1>6. CASE ProgressWrite(h)
  <2> DEFINE new == [run[r] EXCEPT !.bytes = handler[h].bytes]
  <2>1. r \in RunIds => new \in Run /\ Moves(run[r], new)
    BY <1>0, RowMoves, RowWrites, Statuses
  <2>2. UpdateRun(r, TRUE, new)
    BY <1>6 DEF ProgressWrite, r
  <2> HIDE DEF new
  <2>3. RowsMove
    BY <2>1, <2>2, UpdateMoves
  <2> QED BY <1>6, <2>3 DEF ProgressWrite, Writes
<1> QED BY <1>1, <1>2, <1>3, <1>4, <1>5, <1>6 DEF HandlerNext

LEMMA SchedulerKinds ==
    ASSUME TypeOK, SchedulerFacts, NEW s \in Schedulers, SchedulerNext(s)
    PROVE  Writes \/ \E row : Creates(row)
<1>1. CASE UNCHANGED <<run, nRuns>>
  BY <1>1, MovesReflexive DEF Writes, RowsMove
<1>2. CASE RetryTx(s)
  <2>1. CASE InsertRun(NewRun(sched[s].job, 0, sched[s].latest,
                              run[sched[s].latest].attempt + 1))
    <3>1. /\ Exists(sched[s].latest)
          /\ run[sched[s].latest].job = sched[s].job
          /\ run[sched[s].latest].status \in {"FAILED", "CANCELLED"}
          /\ run[sched[s].latest].attempt < peak
      BY <1>2 DEF RetryTx, SchedStep, SchedulerFacts, SchedulerFact
    <3>2. sched[s].latest \in RunIds
      BY <3>1 DEF Exists, TypeOK, RunIds
    <3>3. run[sched[s].latest].attempt + 1 <= peak
      BY <3>1, <3>2, RowType DEF TypeOK
    <3> QED BY <2>1, <3>1, <3>3, InsertKinds
  <2> QED BY <1>1, <1>2, <2>1 DEF RetryTx
<1>3. CASE FireInsert(s)
  BY <1>3, InsertKinds DEF FireInsert
<1>4. CASE SweepWrite(s)
  <2>1. PICK x \in sched[s].pick :
          UpdateRun(x.id, run[x.id].status = x.status,
             [run[x.id] EXCEPT !.status = IF x.cancelRequested
                                          THEN "CANCELLED" ELSE "FAILED",
                               !.completedAt = TRUE])
    BY <1>4 DEF SweepWrite
  <2> DEFINE st == IF x.cancelRequested THEN "CANCELLED" ELSE "FAILED"
  <2>2. x.id \in RunIds /\ st \in {"FAILED", "CANCELLED"} /\ st \in RunStatus
    BY SchedFields, Statuses DEF Snapshot
  <2> HIDE DEF st
  <2>3. /\ [run[x.id] EXCEPT !.status = st, !.completedAt = TRUE] \in Run
        /\ Moves(run[x.id], [run[x.id] EXCEPT !.status = st, !.completedAt = TRUE])
    BY <2>2, RowType, RowWrites, RowMoves
  <2>4. RowsMove
    BY <2>1, <2>3, UpdateMoves DEF st
  <2> QED BY <1>4, <2>4 DEF SweepWrite, Writes
<1>5. ASSUME NEW x \in sched[s].snap, PruneRun(s, x) PROVE Writes
  <2>1. x.id \in RunIds /\ run[x.id] \in Run /\ run[x.id].status \in Terminal
    BY <1>5, SchedFields, RowType
       DEF Snapshot, PruneRun, SchedStep, SchedulerFacts, SchedulerFact
  <2>2. Moves(run[x.id], [run[x.id] EXCEPT !.deleted = TRUE])
    BY <2>1, RowMoves, Statuses
  <2> QED BY <1>5, <2>1, <2>2, MovesReflexive DEF PruneRun, TypeOK, Writes, RowsMove
<1> QED BY <1>1, <1>2, <1>3, <1>4, <1>5 DEF SchedulerNext, TickStart, RetryCount,
           RetryLatest, FireCount, JobsDone, StaleSelect, SweepCheck, SweepDone,
           RetainSelect, PruneDone, TickDone

LEMMA StepKinds ==
    ASSUME TypeOK, SchedulerFacts, ReportsValidated, [Next]_vars
    PROVE  Writes \/ \E row : Creates(row)
<1>1. CASE UNCHANGED <<run, nRuns>>
  BY <1>1, MovesReflexive DEF Writes, RowsMove
<1>2. ASSUME NEW h \in Handlers, NEW r \in RunIds, ClaimRun(h, r) PROVE Writes
  <2>1. run[r] \in Run /\ run[r].status = "PENDING"
    BY <1>2, RowType DEF ClaimRun
  <2>2. /\ Moves(run[r], [run[r] EXCEPT !.status = "RUNNING"])
        /\ [run[r] EXCEPT !.status = "RUNNING"] \in Run
    BY <2>1, RowMoves, RowWrites, Statuses
  <2>3. RowsMove
    BY <1>2, <2>2, UpdateMoves DEF ClaimRun
  <2> QED BY <1>2, <2>3 DEF ClaimRun, Writes
<1>3. ASSUME NEW r \in RunIds, WentQuiet(r) PROVE Writes
  <2>1. Moves(run[r], [run[r] EXCEPT !.quiet = TRUE])
    BY RowType, RowMoves, Statuses
  <2> QED BY <1>3, <2>1, MovesReflexive DEF WentQuiet, TypeOK, Writes, RowsMove
<1>4. CASE OperatorNext
  BY <1>1, <1>4 DEF OperatorNext, SetJobEnabled, UpdatePolicy, DeleteBackupJob,
     RunNowCheck, CancelRead
<1>5. CASE AgentNext
  BY <1>1, <1>2, <1>5 DEF AgentNext, ReportRead, AgentTouch
<1>6. CASE TimeNext \/ CrashNext
  BY <1>1, <1>3, <1>6 DEF TimeNext, CrashNext, ClockTick, AgentWentSilent,
     HandlerDies, SchedulerDies, SchedulerBoots
<1>7. CASE UNCHANGED vars
  BY <1>1, <1>7 DEF vars
<1> QED BY <1>4, <1>5, <1>6, <1>7, HandlerKinds, SchedulerKinds DEF Next

-----------------------------------------------------------------------------
(* The parts of the inductive invariant, one by one.                       *)

LEMMA TableStable ==
    ASSUME TypeOK, TypeOK', UnusedRows, OneRunPerBoundary, RetryChainSound,
           Writes \/ \E row : Creates(row), peak <= peak'
    PROVE  UnusedRows' /\ OneRunPerBoundary' /\ RetryChainSound'
<1>0. /\ nRuns \in 0..MaxRuns
      /\ run \in [RunIds -> Run]
      /\ \A r \in 1..nRuns : r \in RunIds
      /\ \A r \in RunIds : run[r].retryOf \in {NoRun} \cup RunIds
      /\ \A r \in RunIds : run[r].attempt <= peak => run[r].attempt <= peak'
  <2>1. \A r \in RunIds : run[r].attempt \in Nat
    BY RowType
  <2>2. peak \in Nat /\ peak' \in Nat
    BY DEF TypeOK
  <2>3. \A r \in RunIds : run[r].attempt <= peak => run[r].attempt <= peak'
    BY <2>1, <2>2
  <2>4. /\ nRuns \in 0..MaxRuns
        /\ run \in [RunIds -> Run]
        /\ \A r \in 1..nRuns : r \in RunIds
        /\ \A r \in RunIds : run[r].retryOf \in {NoRun} \cup RunIds
    BY DEF TypeOK, RunIds, Run
  <2> QED BY <2>3, <2>4
<1>1. CASE Writes
  <2>1. UnusedRows'
    BY <1>1 DEF Writes, RowsMove, UnusedRows
  <2>2. OneRunPerBoundary'
    BY <1>0, <1>1 DEF OneRunPerBoundary, Writes, RowsMove, Moves
  <2>3. RetryChainSound'
    BY <1>0, <1>1 DEF RetryChainSound, Writes, RowsMove, Moves, NoRun, RunIds
  <2> QED BY <2>1, <2>2, <2>3
<1>2. ASSUME NEW row, Creates(row)
      PROVE  UnusedRows' /\ OneRunPerBoundary' /\ RetryChainSound'
  <2>0. /\ nRuns + 1 \in RunIds
        /\ nRuns' = nRuns + 1
        /\ run'[nRuns + 1] = row
        /\ \A r \in RunIds : r # nRuns + 1 => run'[r] = run[r]
        /\ \A r \in 1..(nRuns + 1) : r \in 1..nRuns \/ r = nRuns + 1
    BY <1>0, <1>2 DEF Creates, RunIds
  <2>1. UnusedRows'
    BY <1>0, <2>0 DEF UnusedRows, RunIds
  <2>2. OneRunPerBoundary'
    BY <1>0, <1>2, <2>0 DEF OneRunPerBoundary, Creates, UniqueIndexesAllow
  <2>3. RetryChainSound'
    <3>1. /\ row.attempt \in 0..MaxRetries /\ row.retryOf \in {NoRun} \cup RunIds
          /\ row.attempt <= peak => row.attempt <= peak'
      BY <2>0 DEF TypeOK, Run
    <3>2. ASSUME NEW q \in 1..nRuns, run[q].retryOf # NoRun
          PROVE  row.retryOf # run[q].retryOf
      BY <1>0, <1>2, <3>2 DEF RetryChainSound, Creates, UniqueIndexesAllow, Exists
    <3> QED BY <1>0, <1>2, <2>0, <3>1, <3>2 DEF RetryChainSound, Creates, Exists,
               NoRun, RunIds
  <2> QED BY <2>1, <2>2, <2>3
<1> QED BY <1>1, <1>2

\* What another scheduler remembers is not made wrong by a step.
LEMMA FactStable ==
    ASSUME TypeOK, UnusedRows, Writes \/ \E row : Creates(row),
           NEW s \in Schedulers, SchedulerFact(s), sched'[s] = sched[s],
           peak' \in Nat, peak <= peak'
    PROVE  SchedulerFact(s)'
<1>0. /\ nRuns \in 0..MaxRuns
      /\ run \in [RunIds -> Run]
      /\ \A x \in sched[s].snap : x.id \in RunIds
      /\ \A r \in 1..nRuns : r \in RunIds
      /\ \A r \in RunIds : run[r].attempt < peak => run[r].attempt < peak'
  <2>1. \A r \in RunIds : run[r].attempt \in Nat
    BY RowType
  <2>2. peak \in Nat
    BY DEF TypeOK
  <2> QED BY <2>1, <2>2, SchedFields DEF TypeOK, RunIds, Snapshot
<1>1. CASE Writes
  BY <1>0, <1>1 DEF SchedulerFact, Writes, RowsMove, Moves, Exists
<1>2. ASSUME NEW row, Creates(row) PROVE SchedulerFact(s)'
  <2>1. /\ nRuns + 1 \in RunIds /\ nRuns' = nRuns + 1
        /\ run[nRuns + 1].status = "PENDING"
        /\ \A r \in RunIds : r # nRuns + 1 => run'[r] = run[r]
        /\ "PENDING" \notin Terminal
    BY <1>0, <1>2 DEF Creates, RunIds, UnusedRows, Terminal
  <2> QED BY <1>0, <2>1 DEF SchedulerFact, Exists
<1> QED BY <1>1, <1>2

\* The scheduler that takes the step remembers what it has just read.
LEMMA OwnFact ==
    ASSUME TypeOK, UnusedRows, SchedulerFacts, LimitsLoaded, NEW s \in Schedulers,
           SchedulerNext(s), Writes \/ \E row : Creates(row)
    PROVE  SchedulerFact(s)'
<1> DEFINE Idles(pc) == pc \in {"idle", "jobs", "stale", "sweep", "sweepWrite", "retain"}
<1>0. /\ sched \in [Schedulers -> SchedState]
      /\ sched[s] \in SchedState
      /\ SchedulerFact(s)
  BY SchedFields DEF TypeOK, SchedulerFacts
<1>a. ASSUME Idles(sched'[s].pc) PROVE SchedulerFact(s)'
  BY <1>a DEF SchedulerFact
<1>1. CASE TickStart(s)
  <2>1. Idles(sched'[s].pc)
    BY <1>0, <1>1 DEF TickStart, IdleSched
  <2> QED BY <1>a, <2>1
<1>2. ASSUME NEW j \in Jobs, RetryCount(s, j) PROVE SchedulerFact(s)'
  <2>1. sched'[s].job \in Jobs /\ sched'[s].pc \in {"latest", "cron"}
    BY <1>0, <1>2 DEF RetryCount, SchedState
  <2> QED BY <2>1 DEF SchedulerFact
<1>3. ASSUME NEW delayed \in BOOLEAN, RetryLatest(s, delayed) PROVE SchedulerFact(s)'
  <2>0. sched[s].job \in Jobs /\ UNCHANGED <<run, nRuns>>
    BY <1>0, <1>3 DEF RetryLatest, SchedStep, SchedulerFact
  <2>1. CASE delayed /\ \E r \in RunIds : Retryable(r, sched[s].job, sched[s].limit)
    <3> DEFINE c == CHOOSE r \in RunIds : Retryable(r, sched[s].job, sched[s].limit)
    <3>1. c \in RunIds /\ Retryable(c, sched[s].job, sched[s].limit)
      BY <2>1
    <3> HIDE DEF c
    <3>2. sched' = [sched EXCEPT ![s] = [sched[s] EXCEPT !.pc = "retry", !.latest = c]]
      BY <1>3, <2>1 DEF RetryLatest, c
    <3>3. sched'[s].pc = "retry" /\ sched'[s].latest = c /\ sched'[s].job = sched[s].job
      BY <1>0, <3>2 DEF SchedState
    <3>4. /\ Exists(c) /\ run[c].job = sched[s].job /\ run[c].status = "FAILED"
          /\ run[c].attempt < peak
      <4>1. /\ run[c].attempt < EffectiveMaxRetries(sched[s].job, sched[s].limit)
            /\ run[c].attempt \in Nat
        BY <3>1, RowType DEF Retryable
      <4>2. sched[s].limit <= peak /\ sched[s].limit \in Nat /\ peak \in Nat
        BY SchedFields DEF LimitsLoaded, TypeOK
      <4>3. run[c].attempt < peak
        BY <4>1, <4>2 DEF EffectiveMaxRetries
      <4> QED BY <3>1, <4>3 DEF Retryable, IsLatest, RunsOf, Live
    <3>5. peak' = peak
      BY <1>3 DEF RetryLatest, SchedStep
    <3> QED BY <2>0, <3>3, <3>4, <3>5 DEF SchedulerFact, Exists
  <2>2. CASE ~(delayed /\ \E r \in RunIds : Retryable(r, sched[s].job, sched[s].limit))
    <3>1. sched'[s].pc = "cron" /\ sched'[s].job = sched[s].job
      BY <1>0, <1>3, <2>2 DEF RetryLatest, SchedState
    <3> QED BY <2>0, <3>1 DEF SchedulerFact
  <2> QED BY <2>1, <2>2
<1>4. CASE RetryTx(s)
  <2>1. sched' = [sched EXCEPT ![s] = [sched[s] EXCEPT !.pc = "cron", !.latest = NoRun]]
    BY <1>4 DEF RetryTx
  <2>2. sched'[s].pc = "cron" /\ sched'[s].job = sched[s].job
    BY <1>0, <2>1 DEF SchedState
  <2> QED BY <1>0, <1>4, <2>2 DEF RetryTx, SchedStep, SchedulerFact
<1>5. CASE FireCount(s)
  <2>1. CASE BoundaryDue(s) /\ InFlightRuns(sched[s].job) = {}
    <3>1. sched' = [sched EXCEPT ![s] = [sched[s] EXCEPT !.pc = "fire"]]
      BY <1>0, <1>5, <2>1 DEF FireCount
    <3>2. /\ sched'[s].pc = "fire" /\ sched'[s].job = sched[s].job
          /\ sched'[s].prev = sched[s].prev /\ sched'[s].lastTick = sched[s].lastTick
      BY <1>0, <3>1 DEF SchedState
    <3>3. sched[s].job \in Jobs /\ sched[s].prev < sched[s].lastTick
      BY <1>0, <1>5, <2>1 DEF FireCount, SchedStep, SchedulerFact, BoundaryDue
    <3> QED BY <3>2, <3>3 DEF SchedulerFact
  <2>2. CASE ~(BoundaryDue(s) /\ InFlightRuns(sched[s].job) = {})
    <3>1. Idles(sched'[s].pc)
      BY <1>0, <1>5, <2>2 DEF FireCount, SchedState
    <3> QED BY <1>a, <3>1
  <2> QED BY <2>1, <2>2
<1>6. CASE FireInsert(s)
  <2>1. Idles(sched'[s].pc)
    BY <1>0, <1>6 DEF FireInsert, SchedState
  <2> QED BY <1>a, <2>1
<1>7. CASE JobsDone(s)
  <2>1. Idles(sched'[s].pc)
    BY <1>0, <1>7 DEF JobsDone, SchedState
  <2> QED BY <1>a, <2>1
<1>8. CASE StaleSelect(s)
  <2>1. Idles(sched'[s].pc)
    BY <1>0, <1>8 DEF StaleSelect, SchedState
  <2> QED BY <1>a, <2>1
<1>9. ASSUME NEW x \in sched[s].snap, SweepCheck(s, x) PROVE SchedulerFact(s)'
  <2>1. Idles(sched'[s].pc)
    BY <1>0, <1>9 DEF SweepCheck, SchedState
  <2> QED BY <1>a, <2>1
<1>10. CASE SweepWrite(s)
  <2>1. Idles(sched'[s].pc)
    BY <1>0, <1>10 DEF SweepWrite, SchedState
  <2> QED BY <1>a, <2>1
<1>11. CASE SweepDone(s)
  <2>1. Idles(sched'[s].pc)
    BY <1>0, <1>11 DEF SweepDone, SchedState
  <2> QED BY <1>a, <2>1
<1>12. ASSUME NEW j \in Jobs, NEW old \in SUBSET RunIds, RetainSelect(s, j, old)
       PROVE  SchedulerFact(s)'
  <2>1. sched' = [sched EXCEPT ![s] = [sched[s] EXCEPT !.pc = "prune",
                     !.todo = sched[s].todo \ {j}, !.snap = SnapshotOf(old)]]
    BY <1>12 DEF RetainSelect
  <2>2. sched'[s].pc = "prune" /\ sched'[s].snap = SnapshotOf(old)
    BY <1>0, <2>1 DEF SchedState
  <2>3. \A x \in SnapshotOf(old) : run'[x.id].status \in Terminal
    BY <1>12 DEF RetainSelect, SnapshotOf
  <2> QED BY <2>2, <2>3 DEF SchedulerFact
<1>13. ASSUME NEW x \in sched[s].snap, PruneRun(s, x) PROVE SchedulerFact(s)'
  <2>1. sched'[s].pc = "prune" /\ sched'[s].snap \subseteq sched[s].snap
    BY <1>0, <1>13 DEF PruneRun, SchedStep, SchedState
  <2>2. \A y \in sched[s].snap : y.id \in RunIds /\ run[y.id].status \in Terminal
    BY <1>0, <1>13, SchedFields DEF PruneRun, SchedStep, SchedulerFact, Snapshot
  <2>3. x.id \in RunIds /\ run[x.id] \in Run
    BY <2>2, RowType
  <2>4. run'[x.id].status = run[x.id].status
    BY <1>13, <2>3 DEF PruneRun, TypeOK, Run
  <2>5. \A y \in sched[s].snap : run'[y.id].status = run[y.id].status
    BY <1>13, <2>2, <2>4 DEF PruneRun, TypeOK
  <2> QED BY <2>1, <2>2, <2>5 DEF SchedulerFact
<1>14. CASE PruneDone(s)
  <2>1. Idles(sched'[s].pc)
    BY <1>0, <1>14 DEF PruneDone, SchedState
  <2> QED BY <1>a, <2>1
<1>15. CASE TickDone(s)
  <2>1. Idles(sched'[s].pc)
    BY <1>0, <1>15 DEF TickDone, IdleSched
  <2> QED BY <1>a, <2>1
<1> QED BY <1>1, <1>2, <1>3, <1>4, <1>5, <1>6, <1>7, <1>8, <1>9, <1>10, <1>11,
           <1>12, <1>13, <1>14, <1>15 DEF SchedulerNext

\* A PENDING row was PENDING, or not there, before.
LEMMA PendingBefore ==
    ASSUME TypeOK, UnusedRows, Writes \/ \E row : Creates(row), NEW r \in RunIds,
           run'[r].status = "PENDING"
    PROVE  run[r].status = "PENDING"
<1>1. CASE Writes
  BY <1>1 DEF Writes, RowsMove, Moves
<1>2. ASSUME NEW row, Creates(row) PROVE run[r].status = "PENDING"
  BY <1>2 DEF Creates, UnusedRows, TypeOK, RunIds
<1> QED BY <1>1, <1>2

HandlerInv == ReportsValidated /\ ClaimsExclusive /\ HandedOutOnce

\* Steps that start no claim, and in which a handler at most gives up its work
\* or starts a request other than a claim.
LEMMA HandlerInvStable ==
    ASSUME TypeOK, UnusedRows, HandlerInv, Writes \/ \E row : Creates(row),
           handed' = handed,
           \A h \in Handlers :
               \/ handler'[h] = handler[h]
               \/ /\ handler'[h].op # "claim"
                  /\ handler'[h].op = "report"
                        => CanTransition(handler'[h].seen, handler'[h].to)
    PROVE  HandlerInv'
<1>1. ReportsValidated'
  BY DEF HandlerInv, ReportsValidated
<1>2. ClaimsExclusive'
  <2>1. \A h \in Handlers : handler'[h].op = "claim" => handler'[h] = handler[h]
    OBVIOUS
  <2> QED BY <2>1, PendingBefore DEF HandlerInv, ClaimsExclusive
<1>3. HandedOutOnce'
  BY DEF HandlerInv, HandedOutOnce
<1> QED BY <1>1, <1>2, <1>3 DEF HandlerInv

LEMMA HandlerInvStep ==
    ASSUME TypeOK, UnusedRows, HandlerInv, Writes \/ \E row : Creates(row),
           [Next]_vars
    PROVE  HandlerInv'
<1>0. handler \in [Handlers -> HandlerState] /\ handed \in [RunIds -> Nat]
  BY DEF TypeOK
<1>1. CASE UNCHANGED <<handler, handed>>
  BY <1>1, HandlerInvStable
<1>2. ASSUME NEW h \in Handlers, handler' = [handler EXCEPT ![h] = IdleHandler],
             handed' = handed
      PROVE  HandlerInv'
  BY <1>0, <1>2, HandlerInvStable DEF IdleHandler
<1>3. CASE OperatorNext
  <2>1. ASSUME NEW h \in Handlers, NEW j \in Jobs, RunNowCheck(h, j) PROVE HandlerInv'
    <3>1. handler'[h].op = "runNow" /\ \A g \in Handlers \ {h} : handler'[g] = handler[g]
      BY <1>0, <2>1 DEF RunNowCheck, IdleHandler
    <3> QED BY <2>1, <3>1, HandlerInvStable DEF RunNowCheck
  <2>2. ASSUME NEW h \in Handlers, NEW r \in RunIds, CancelRead(h, r) PROVE HandlerInv'
    <3>1. handler'[h].op = "cancel" /\ \A g \in Handlers \ {h} : handler'[g] = handler[g]
      BY <1>0, <2>2 DEF CancelRead, IdleHandler
    <3> QED BY <2>2, <3>1, HandlerInvStable DEF CancelRead
  <2> QED BY <1>1, <1>3, <2>1, <2>2 DEF OperatorNext, SetJobEnabled, UpdatePolicy,
             DeleteBackupJob
<1>4. ASSUME NEW h \in Handlers, NEW r \in RunIds, ClaimRun(h, r) PROVE HandlerInv'
  <2>1. /\ handler'[h].op = "claim" /\ handler'[h].run = r
        /\ \A g \in Handlers \ {h} : handler'[g] = handler[g]
        /\ handed' = handed
    BY <1>0, <1>4 DEF ClaimRun, IdleHandler
  <2>2. run[r].status = "PENDING" /\ run'[r].status = "RUNNING"
    <3>1. run' = [run EXCEPT ![r] = [[run[r] EXCEPT !.status = "RUNNING"]
                                        EXCEPT !.quiet = FALSE]]
      BY <1>4 DEF ClaimRun, UpdateRun
    <3> QED BY <1>4, <3>1, RowType DEF ClaimRun, TypeOK, Run
  <2>3. /\ handed[r] = 0
        /\ \A g \in Handlers : handler[g].op = "claim" => handler[g].run # r
    BY <2>2 DEF HandlerInv, ClaimsExclusive
  <2>4. ReportsValidated'
    BY <2>1 DEF HandlerInv, ReportsValidated
  <2>5. ClaimsExclusive'
    BY <2>1, <2>2, <2>3, PendingBefore DEF HandlerInv, ClaimsExclusive
  <2> QED BY <2>1, <2>4, <2>5 DEF HandlerInv, HandedOutOnce
<1>5. ASSUME NEW h \in Handlers, NEW r \in RunIds, NEW to \in RunStatus,
             NEW b \in ByteCounts, ReportRead(h, r, to, b)
      PROVE  HandlerInv'
  <2>1. /\ handler'[h].op = IF to = run[r].status THEN "progress" ELSE "report"
        /\ handler'[h].seen = run[r].status /\ handler'[h].to = to
        /\ \A g \in Handlers \ {h} : handler'[g] = handler[g]
    BY <1>0, <1>5 DEF ReportRead, IdleHandler
  <2>2. to # run[r].status => CanTransition(run[r].status, to)
    BY <1>5 DEF ReportRead
  <2> QED BY <1>5, <2>1, <2>2, HandlerInvStable DEF ReportRead
<1>6. ASSUME NEW h \in Handlers, ClaimHandOver(h) PROVE HandlerInv'
  <2> DEFINE r == handler[h].run
  <2>1. /\ handler'[h].op = "idle"
        /\ \A g \in Handlers \ {h} : handler'[g] = handler[g]
        /\ r \in RunIds /\ handed[r] = 0 /\ handed'[r] = 1
        /\ \A q \in RunIds \ {r} : handed'[q] = handed[q]
        /\ run' = run
    BY <1>0, <1>6 DEF ClaimHandOver, IdleHandler, HandlerInv, ClaimsExclusive
  <2>2. /\ run[r].status # "PENDING"
        /\ \A g \in Handlers \ {h} : handler[g].op = "claim" => handler[g].run # r
    BY <1>6 DEF ClaimHandOver, HandlerInv, ClaimsExclusive
  <2> HIDE DEF r
  <2>3. ReportsValidated'
    BY <2>1 DEF HandlerInv, ReportsValidated
  <2>4. ClaimsExclusive'
    BY <2>1, <2>2 DEF HandlerInv, ClaimsExclusive
  <2>5. HandedOutOnce'
    BY <2>1 DEF HandlerInv, HandedOutOnce
  <2> QED BY <2>3, <2>4, <2>5 DEF HandlerInv
<1>7. ASSUME NEW h \in Handlers, HandlerNext(h) PROVE HandlerInv'
  BY <1>2, <1>6, <1>7 DEF HandlerNext, RunNowInsert, CancelWrite, ClaimUndecryptable,
     ReportWrite, ProgressWrite
<1>8. CASE AgentNext
  BY <1>1, <1>4, <1>5, <1>8 DEF AgentNext, AgentTouch
<1>9. ASSUME NEW s \in Schedulers, SchedulerNext(s) PROVE HandlerInv'
  BY <1>1, <1>9, SchedStepType
<1>10. CASE TimeNext \/ CrashNext
  BY <1>1, <1>2, <1>10 DEF TimeNext, CrashNext, ClockTick, WentQuiet,
     AgentWentSilent, HandlerDies, SchedulerDies, SchedulerBoots
<1>11. CASE UNCHANGED vars
  BY <1>1, <1>11 DEF vars
<1> QED BY <1>3, <1>7, <1>8, <1>9, <1>10, <1>11 DEF Next

LEMMA SchedulerFactsStep ==
    ASSUME TypeOK, UnusedRows, SchedulerFacts, LimitsLoaded,
           Writes \/ \E row : Creates(row), [Next]_vars, peak' \in Nat, peak <= peak'
    PROVE  SchedulerFacts'
<1>1. CASE sched' = sched
  BY <1>1, FactStable DEF SchedulerFacts
<1>2. ASSUME NEW s \in Schedulers, SchedulerNext(s) PROVE SchedulerFacts'
  <2>1. \A t \in Schedulers \ {s} : sched'[t] = sched[t]
    BY <1>2, SchedStepType DEF TypeOK
  <2>2. \A t \in Schedulers \ {s} : SchedulerFact(t)'
    BY <2>1, FactStable DEF SchedulerFacts
  <2>3. SchedulerFact(s)'
    BY <1>2, OwnFact
  <2> QED BY <2>2, <2>3 DEF SchedulerFacts
<1>3. ASSUME NEW s \in Schedulers, SchedulerDies(s) \/ SchedulerBoots(s)
      PROVE  SchedulerFacts'
  <2>1. \A t \in Schedulers \ {s} : sched'[t] = sched[t]
    BY <1>3 DEF SchedulerDies, SchedulerBoots, TypeOK
  <2>2. \A t \in Schedulers \ {s} : SchedulerFact(t)'
    BY <2>1, FactStable DEF SchedulerFacts
  <2>3. sched'[s].pc \in {"idle", "down"}
    BY <1>3 DEF SchedulerDies, SchedulerBoots, IdleSched, TypeOK
  <2>4. SchedulerFact(s)'
    BY <2>3 DEF SchedulerFact
  <2> QED BY <2>2, <2>4 DEF SchedulerFacts
<1>4. CASE OperatorNext
  BY <1>1, <1>4 DEF OperatorNext, SetJobEnabled, UpdatePolicy, DeleteBackupJob,
     RunNowCheck, CancelRead
<1>5. CASE AgentNext
  BY <1>1, <1>5 DEF AgentNext, ClaimRun, ReportRead, AgentTouch
<1>6. ASSUME NEW h \in Handlers, HandlerNext(h) PROVE SchedulerFacts'
  BY <1>1, <1>6 DEF HandlerNext, RunNowInsert, CancelWrite, ClaimHandOver,
     ClaimUndecryptable, ReportWrite, ProgressWrite
<1>7. CASE TimeNext \/ CrashNext
  BY <1>1, <1>3, <1>7 DEF TimeNext, CrashNext, ClockTick, WentQuiet,
     AgentWentSilent, HandlerDies
<1>8. CASE UNCHANGED vars
  BY <1>1, <1>8 DEF vars
<1> QED BY <1>2, <1>4, <1>5, <1>6, <1>7, <1>8 DEF Next

\* The limits the ticks work with, and the history of the policy's own.
LEMMA OwnLimit ==
    ASSUME TypeOK, NEW s \in Schedulers, SchedulerNext(s)
    PROVE  sched'[s].limit \in {sched[s].limit, 0, policy.maxRetries}
<1>0. sched \in [Schedulers -> SchedState] /\ sched[s] \in SchedState
  BY SchedFields DEF TypeOK
<1>1. CASE TickStart(s)
  BY <1>0, <1>1 DEF TickStart, IdleSched
<1>2. ASSUME NEW j \in Jobs, RetryCount(s, j) PROVE sched'[s].limit = sched[s].limit
  BY <1>0, <1>2 DEF RetryCount, SchedState
<1>3. ASSUME NEW delayed \in BOOLEAN, RetryLatest(s, delayed)
      PROVE  sched'[s].limit = sched[s].limit
  BY <1>0, <1>3 DEF RetryLatest, SchedState
<1>4. CASE RetryTx(s)
  BY <1>0, <1>4 DEF RetryTx, SchedState
<1>5. CASE FireCount(s) \/ FireInsert(s)
  BY <1>0, <1>5 DEF FireCount, FireInsert, SchedState
<1>6. CASE JobsDone(s)
  BY <1>0, <1>6 DEF JobsDone, SchedState
<1>7. CASE StaleSelect(s)
  BY <1>0, <1>7 DEF StaleSelect, SchedState
<1>8. ASSUME NEW x \in sched[s].snap, SweepCheck(s, x)
      PROVE  sched'[s].limit = sched[s].limit
  BY <1>0, <1>8 DEF SweepCheck, SchedState
<1>9. CASE SweepWrite(s) \/ SweepDone(s)
  <2>1. CASE SweepWrite(s)
    BY <1>0, <2>1 DEF SweepWrite, SchedState
  <2>2. CASE SweepDone(s)
    BY <1>0, <2>2 DEF SweepDone, SchedState
  <2> QED BY <1>9, <2>1, <2>2
<1>10. ASSUME NEW j \in Jobs, NEW old \in SUBSET RunIds, RetainSelect(s, j, old)
       PROVE  sched'[s].limit = sched[s].limit
  BY <1>0, <1>10 DEF RetainSelect, SchedState
<1>11. ASSUME NEW x \in sched[s].snap, PruneRun(s, x)
       PROVE  sched'[s].limit = sched[s].limit
  BY <1>0, <1>11 DEF PruneRun, SchedState
<1>12. CASE PruneDone(s)
  BY <1>0, <1>12 DEF PruneDone, SchedState
<1>13. CASE TickDone(s)
  BY <1>0, <1>13 DEF TickDone, IdleSched
<1> QED BY <1>1, <1>2, <1>3, <1>4, <1>5, <1>6, <1>7, <1>8, <1>9, <1>10, <1>11,
           <1>12, <1>13 DEF SchedulerNext

LEMMA LimitsStep ==
    ASSUME TypeOK, LimitsLoaded, [Next]_vars
    PROVE  LimitsLoaded' /\ peak' \in Nat /\ peak <= peak'
<1>0. /\ peak \in Nat /\ policy.maxRetries \in Nat
      /\ sched \in [Schedulers -> SchedState]
      /\ \A s \in Schedulers : sched[s].limit \in Nat
  BY SchedFields DEF TypeOK
<1>1. CASE UNCHANGED <<policy, peak, sched>>
  BY <1>0, <1>1 DEF LimitsLoaded
<1>2. ASSUME NEW b \in BOOLEAN, NEW n \in 0..MaxRetries, UpdatePolicy(b, n)
      PROVE  LimitsLoaded' /\ peak' \in Nat /\ peak <= peak'
  BY <1>0, <1>2 DEF UpdatePolicy, LimitsLoaded
<1>3. ASSUME NEW s \in Schedulers, SchedulerNext(s)
      PROVE  LimitsLoaded' /\ peak' \in Nat /\ peak <= peak'
  <2>1. UNCHANGED <<policy, peak>> /\ \A t \in Schedulers \ {s} : sched'[t] = sched[t]
    BY <1>0, <1>3, SchedStepType
  <2> QED BY <1>0, <1>3, <2>1, OwnLimit DEF LimitsLoaded
<1>4. ASSUME NEW s \in Schedulers, SchedulerDies(s) \/ SchedulerBoots(s)
      PROVE  LimitsLoaded' /\ peak' \in Nat /\ peak <= peak'
  <2>1. /\ UNCHANGED <<policy, peak>> /\ sched'[s].limit = 0
        /\ \A t \in Schedulers \ {s} : sched'[t] = sched[t]
    BY <1>0, <1>4 DEF SchedulerDies, SchedulerBoots, IdleSched
  <2> QED BY <1>0, <2>1 DEF LimitsLoaded
<1>5. CASE OperatorNext
  BY <1>1, <1>2, <1>5 DEF OperatorNext, SetJobEnabled, DeleteBackupJob, RunNowCheck,
     CancelRead
<1>6. CASE AgentNext
  BY <1>1, <1>6 DEF AgentNext, ClaimRun, ReportRead, AgentTouch
<1>7. ASSUME NEW h \in Handlers, HandlerNext(h)
      PROVE  LimitsLoaded' /\ peak' \in Nat /\ peak <= peak'
  BY <1>1, <1>7 DEF HandlerNext, RunNowInsert, CancelWrite, ClaimHandOver,
     ClaimUndecryptable, ReportWrite, ProgressWrite
<1>8. CASE TimeNext \/ CrashNext
  BY <1>1, <1>4, <1>8 DEF TimeNext, CrashNext, ClockTick, WentQuiet,
     AgentWentSilent, HandlerDies
<1>9. CASE UNCHANGED vars
  BY <1>1, <1>9 DEF vars
<1> QED BY <1>3, <1>5, <1>6, <1>7, <1>8, <1>9 DEF Next

LEMMA InitInv == Init => IInv
<1> SUFFICES ASSUME Init PROVE IInv
  OBVIOUS
<1>1. nRuns = 0 /\ \A r \in RunIds : handed[r] = 0 /\ run[r].status = "PENDING"
  BY DEF Init, NewRun
<1>2. /\ \A h \in Handlers : handler[h].op = "idle"
      /\ \A s \in Schedulers : sched[s].pc = "idle"
  BY DEF Init, IdleHandler, IdleSched
<1>3. SchedulerFacts /\ ReportsValidated
  BY <1>2 DEF SchedulerFacts, SchedulerFact, ReportsValidated
<1>4. ClaimsExclusive /\ UnusedRows /\ HandedOutOnce
  BY <1>1, <1>2 DEF ClaimsExclusive, UnusedRows, HandedOutOnce
<1>5. OneRunPerBoundary /\ RetryChainSound
  BY <1>1 DEF OneRunPerBoundary, RetryChainSound
<1>6. LimitsLoaded
  BY DEF LimitsLoaded, Init, IdleSched
<1> QED BY <1>3, <1>4, <1>5, <1>6, InitType DEF IInv

LEMMA StepInv == ASSUME IInv, [Next]_vars PROVE IInv'
<1>1. Writes \/ \E row : Creates(row)
  BY StepKinds DEF IInv
<1>2. TypeOK'
  BY StepType DEF IInv
<1>6. LimitsLoaded' /\ peak' \in Nat /\ peak <= peak'
  BY LimitsStep DEF IInv
<1>3. UnusedRows' /\ OneRunPerBoundary' /\ RetryChainSound'
  BY <1>1, <1>2, <1>6, TableStable DEF IInv
<1>4. HandlerInv'
  BY <1>1, HandlerInvStep DEF IInv, HandlerInv
<1>5. SchedulerFacts'
  BY <1>1, <1>6, SchedulerFactsStep DEF IInv
<1> QED BY <1>2, <1>3, <1>4, <1>5, <1>6 DEF IInv, HandlerInv

\* What the schedulers and handlers remember between their statements stays
\* true enough, whatever runs in between.
THEOREM Invariance == Spec => []IInv
BY InitInv, StepInv, PTL DEF Spec

\* Every variable of the model keeps its type: attempts never pass the validated
\* bound of max_retries, and the counters of the tables never leave their ranges.
THEOREM TypeCorrect == Spec => []TypeOK
<1>1. IInv => TypeOK
  BY DEF IInv
<1> QED BY <1>1, Invariance, PTL

\* Fire: no two rows of a job carry the same cron boundary, for any number of
\* schedulers, restarts and pruned rows.
THEOREM BoundaryFiredOnce == Spec => []OneRunPerBoundary
<1>1. IInv => OneRunPerBoundary
  BY DEF IInv
<1> QED BY <1>1, Invariance, PTL

\* maybeFireRetry: retries form chains within a job, of failed runs, each
\* retried once, no longer than the largest max_retries the policy has had.
THEOREM RetriesChained == Spec => []RetryChainSound
<1>1. IInv => RetryChainSound
  BY DEF IInv
<1> QED BY <1>1, Invariance, PTL

\* VgClaimRun: however many claims run at once, one of them gets the
\* configuration of a run.
THEOREM ClaimedOnce == Spec => []HandedOutOnce
<1>1. IInv => HandedOutOnce
  BY DEF IInv
<1> QED BY <1>1, Invariance, PTL

\* The steps of a run's status and its removal, from what a row may do in one
\* step.
LEMMA StatusSteps ==
    ASSUME IInv, [Next]_vars, NEW r \in RunIds
    PROVE  /\ run[r].status \in Terminal => run'[r].status \in Terminal
           /\ run'[r].status # run[r].status =>
                 /\ run'[r].status = "RUNNING" => run[r].status = "PENDING"
                 /\ run'[r].status = "UPLOADING" => run[r].status = "RUNNING"
                 /\ run'[r].status = "VERIFYING" => run[r].status = "UPLOADING"
                 /\ run'[r].status = "COMPLETED" => run[r].status = "VERIFYING"
           /\ run'[r].deleted /\ ~run[r].deleted => run[r].status \in Terminal
<1>1. Writes \/ \E row : Creates(row)
  BY StepKinds DEF IInv
<1>2. CASE Writes
  BY <1>2 DEF Writes, RowsMove, Moves
<1>3. ASSUME NEW row, Creates(row), r = nRuns + 1
      PROVE  run'[r].status = "PENDING" /\ run[r].status = "PENDING" /\ ~run'[r].deleted
  BY <1>3 DEF Creates, IInv, TypeOK, UnusedRows, RunIds
<1>4. ASSUME NEW row, Creates(row), r # nRuns + 1 PROVE run'[r] = run[r]
  BY <1>4 DEF Creates, IInv, TypeOK
<1> QED BY <1>1, <1>2, <1>3, <1>4 DEF Terminal

\* A finished run never goes back into flight.
THEOREM FinishedStaysFinished == Spec => NeverRevived
<1>1. ASSUME IInv, [Next]_vars
      PROVE  [\A r \in RunIds : run[r].status \in Terminal
                                  => run'[r].status \in Terminal]_vars
  BY <1>1, StatusSteps
<1> QED BY <1>1, Invariance, PTL DEF Spec, NeverRevived

\* No stage of a run is skipped.
THEOREM StagesFollowed == Spec => StagesInOrder
<1>1. ASSUME IInv, [Next]_vars
      PROVE  [\A r \in RunIds : run'[r].status # run[r].status =>
                /\ run'[r].status = "RUNNING" => run[r].status = "PENDING"
                /\ run'[r].status = "UPLOADING" => run[r].status = "RUNNING"
                /\ run'[r].status = "VERIFYING" => run[r].status = "UPLOADING"
                /\ run'[r].status = "COMPLETED" => run[r].status = "VERIFYING"]_vars
  BY <1>1, StatusSteps
<1> QED BY <1>1, Invariance, PTL DEF Spec, StagesInOrder

\* Retention never deletes a run that is in flight.
THEOREM RetentionSparesRuns == Spec => OnlyFinishedRunsPruned
<1>1. ASSUME IInv, [Next]_vars
      PROVE  [\A r \in RunIds : run'[r].deleted /\ ~run[r].deleted
                                  => run[r].status \in Terminal]_vars
  BY <1>1, StatusSteps
<1> QED BY <1>1, Invariance, PTL DEF Spec, OnlyFinishedRunsPruned
=============================================================================
