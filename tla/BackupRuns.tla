------------------------------ MODULE BackupRuns ------------------------------
(***************************************************************************)
(* The life of a backup run (table vg_backup_runs) in ServerHub's server.  *)
(*                                                                         *)
(* Rows are created by the operator's RunNow, by the scheduler's cron      *)
(* firing (Fire) and by its retry of a failed run (maybeFireRetry).  They  *)
(* are moved by the agent's claim and status reports, by the operator's    *)
(* cancel, by the scheduler's stale-run sweep and, at the end, by its      *)
(* retention pass.  All of these run concurrently: HTTP handlers are       *)
(* goroutines, the scheduler is one goroutine per server process, and a    *)
(* database statement is the unit of atomicity.  A handler that reads a    *)
(* row and later writes it is therefore two actions, and what it read is   *)
(* kept in its local state.                                                *)
(*                                                                         *)
(* Time is abstracted: clock counts cron boundaries that have passed; a    *)
(* row that was not written for staleRunAfter is marked by WentQuiet, an   *)
(* agent that was not heard for agentGoneAfter by AgentWentSilent; a retry *)
(* delay or a retention period may have elapsed, or not, when it is looked *)
(* at.                                                                     *)
(***************************************************************************)
EXTENDS Integers, FiniteSets

CONSTANTS
    Jobs,         \* backup jobs; all run on the same agent and cron expression
    NoJob,        \* "no job" in a scheduler's local state
    PolicyJobs,   \* the jobs that have the (one) backup policy attached
    MaxRetries,   \* the largest max_retries a policy may have (validatePolicy)
    Handlers,     \* goroutines serving HTTP requests
    Schedulers,   \* scheduler instances, one per server process
    ByteCounts,   \* values of the agent-reported byte counters
    MaxRuns,      \* bound on the rows of vg_backup_runs
    MaxClock      \* bound on the cron boundaries that pass

ASSUME RunsAssumption ==
    /\ NoJob \notin Jobs
    /\ PolicyJobs \subseteq Jobs
    /\ MaxRetries \in Nat
    /\ MaxRuns \in Nat
    /\ MaxClock \in Nat
    /\ ByteCounts \subseteq Nat
    /\ 0 \in ByteCounts

Active    == {"RUNNING", "UPLOADING", "VERIFYING"}
Terminal  == {"COMPLETED", "FAILED", "CANCELLED"}
InFlight  == {"PENDING"} \cup Active
RunStatus == InFlight \cup Terminal

RunIds == 1..MaxRuns      \* ids in creation order (ORDER BY created_at)
NoRun  == 0

\* Mutant: a RUNNING run may be reported COMPLETED.
CanTransitionSkipping(from, to) ==
    \/ from = "PENDING"   /\ to \in {"RUNNING", "CANCELLED"}
    \/ from = "RUNNING"   /\ to \in {"UPLOADING", "COMPLETED", "FAILED", "CANCELLED"}
    \/ from = "UPLOADING" /\ to \in {"VERIFYING", "FAILED", "CANCELLED"}
    \/ from = "VERIFYING" /\ to \in {"COMPLETED", "FAILED", "CANCELLED"}

\* CanTransition(from, to): the moves a status report may make.
CanTransition(from, to) ==
    \/ from = "PENDING"   /\ to \in {"RUNNING", "CANCELLED"}
    \/ from = "RUNNING"   /\ to \in {"UPLOADING", "FAILED", "CANCELLED"}
    \/ from = "UPLOADING" /\ to \in {"VERIFYING", "FAILED", "CANCELLED"}
    \/ from = "VERIFYING" /\ to \in {"COMPLETED", "FAILED", "CANCELLED"}

\* A row of vg_backup_runs.  boundary is ScheduledFor (0 is NULL), retryOf is
\* RetryOfRunID (NoRun is NULL); quiet: updated_at is older than staleRunAfter.
Run == [job : Jobs \cup {NoJob}, status : RunStatus, boundary : 0..MaxClock,
        retryOf : {NoRun} \cup RunIds, attempt : 0..MaxRetries,
        cancelRequested : BOOLEAN, completedAt : BOOLEAN,
        bytes : ByteCounts, quiet : BOOLEAN, deleted : BOOLEAN]

NewRun(j, b, r, a) ==
    [job |-> j, status |-> "PENDING", boundary |-> b, retryOf |-> r,
     attempt |-> a, cancelRequested |-> FALSE,
     completedAt |-> FALSE, bytes |-> 0, quiet |-> FALSE, deleted |-> FALSE]

VARIABLES
    job,             \* [Jobs -> [enabled, deleted]]: rows of vg_backup_jobs
    policy,          \* [enabled, maxRetries]: the row of vg_backup_policies
    peak,            \* history: the largest max_retries the policy has had
    run,             \* [RunIds -> Run]; rows 1..nRuns exist
    nRuns,
    agentSeen,       \* the agent's last_seen_at is younger than agentGoneAfter
    clock,           \* cron boundaries passed
    handler,         \* [Handlers -> HandlerState]
    sched,           \* [Schedulers -> SchedState]
    handed           \* history: how often a run's config was given to the agent

vars == <<job, policy, peak, run, nRuns, agentSeen, clock, handler, sched,
          handed>>

HandlerOps == {"idle", "runNow", "claim", "report", "progress", "cancel"}

HandlerState == [op : HandlerOps, job : Jobs \cup {NoJob},
                 run : {NoRun} \cup RunIds, seen : RunStatus,
                 to : RunStatus, bytes : ByteCounts]

IdleHandler == [op |-> "idle", job |-> NoJob, run |-> NoRun,
                seen |-> "PENDING", to |-> "PENDING", bytes |-> 0]

SchedPCs == {"idle", "jobs", "latest", "retry", "cron", "fire", "stale",
             "sweep", "sweepWrite", "retain", "prune", "down"}

Snapshot == [id : RunIds, status : RunStatus, cancelRequested : BOOLEAN]

\* prev, lastTick: the variables of the same name in Tick; todo: jobs still to
\* visit, with limit the policy's MaxRetries as loaded with them; job, latest:
\* the loop's current job and its newest run; snap: rows returned by the pass's
\* SELECT and not handled yet; pick: the one in hand.  A scheduler whose process
\* is not running is "down".
SchedState == [pc : SchedPCs, lastTick : 0..MaxClock, prev : 0..MaxClock,
               todo : SUBSET Jobs, limit : 0..MaxRetries,
               job : Jobs \cup {NoJob}, latest : {NoRun} \cup RunIds,
               snap : SUBSET Snapshot, pick : SUBSET Snapshot]

IdleSched(t) == [pc |-> "idle", lastTick |-> t, prev |-> t, todo |-> {},
                 limit |-> 0, job |-> NoJob, latest |-> NoRun, snap |-> {}, pick |-> {}]

TypeOK ==
    /\ job \in [Jobs -> [enabled : BOOLEAN, deleted : BOOLEAN]]
    /\ policy \in [enabled : BOOLEAN, maxRetries : 0..MaxRetries]
    /\ peak \in 0..MaxRetries
    /\ run \in [RunIds -> Run]
    /\ nRuns \in 0..MaxRuns
    /\ agentSeen \in BOOLEAN
    /\ clock \in 0..MaxClock
    /\ handler \in [Handlers -> HandlerState]
    /\ sched \in [Schedulers -> SchedState]
    /\ handed \in [RunIds -> Nat]

Init ==
    /\ job = [j \in Jobs |-> [enabled |-> TRUE, deleted |-> FALSE]]
    /\ policy \in [enabled : {TRUE}, maxRetries : 0..MaxRetries]
    /\ peak = policy.maxRetries
    /\ run = [r \in RunIds |-> NewRun(NoJob, 0, NoRun, 0)]
    /\ nRuns = 0
    /\ agentSeen = TRUE
    /\ clock = 0
    /\ handler = [h \in Handlers |-> IdleHandler]
    /\ sched = [s \in Schedulers |-> IdleSched(0)]
    /\ handed = [r \in RunIds |-> 0]

-----------------------------------------------------------------------------
(* Queries.  GORM adds deleted_at IS NULL to every SELECT, UPDATE and      *)
(* DELETE on a soft-deletable model; unique indexes see deleted rows too.  *)

Exists(r) == r \in 1..nRuns
Live(r) == Exists(r) /\ ~run[r].deleted

InFlightRuns(j) ==
    {r \in RunIds : Live(r) /\ run[r].job = j /\ run[r].status \in InFlight}

RunsOf(j) == {r \in RunIds : Live(r) /\ run[r].job = j}
IsLatest(r, j) == r \in RunsOf(j) /\ \A q \in RunsOf(j) : q <= r

\* EffectivePolicy: an attached policy governs, else the job's own columns.
EffectiveEnabled(j) == IF j \in PolicyJobs THEN policy.enabled ELSE job[j].enabled
EffectiveMaxRetries(j, limit) == IF j \in PolicyJobs THEN limit ELSE 0

\* Mutant: the unique index on (backup_job_id, scheduled_for) is missing.
RetryIndexOnly(row) ==
    \A q \in 1..nRuns : run[q].job = row.job =>
        (row.retryOf # NoRun => run[q].retryOf # row.retryOf)

\* The unique indexes on vg_backup_runs: (backup_job_id, scheduled_for) and
\* (backup_job_id, retry_of_run_id) where it is not null.
UniqueIndexesAllow(row) ==
    \A q \in 1..nRuns : run[q].job = row.job =>
        /\ row.boundary # 0 => run[q].boundary # row.boundary
        /\ row.retryOf # NoRun => run[q].retryOf # row.retryOf

\* INSERT of a run.  A constraint violation, or any other database error,
\* leaves the table alone; the caller reports or logs it and goes on.
InsertRun(row) ==
    \/ /\ nRuns < MaxRuns
       /\ UniqueIndexesAllow(row)
       /\ nRuns' = nRuns + 1
       /\ run' = [run EXCEPT ![nRuns + 1] = row]
    \/ UNCHANGED <<run, nRuns>>

\* UPDATE vg_backup_runs ... WHERE id = r AND guard: new is the row written;
\* GORM refreshes updated_at.  No row affected is not an error.
UpdateRun(r, guard, new) ==
    run' = IF Live(r) /\ guard THEN [run EXCEPT ![r] = [new EXCEPT !.quiet = FALSE]]
           ELSE run

-----------------------------------------------------------------------------
(* Operator requests.                                                      *)

SetJobEnabled(j, b) ==
    /\ ~job[j].deleted
    /\ job' = [job EXCEPT ![j].enabled = b]
    /\ UNCHANGED <<policy, peak, run, nRuns, agentSeen, clock, handler, sched,
                   handed>>

\* UpdatePolicy: the switch and max_retries, among others, are edited; runs
\* that exist are left alone, and so is a tick that has loaded its jobs.  (Only
\* a policy that some job has is of interest here.)
UpdatePolicy(b, n) ==
    /\ PolicyJobs # {}
    /\ policy' = [enabled |-> b, maxRetries |-> n]
    /\ peak' = IF n > peak THEN n ELSE peak
    /\ UNCHANGED <<job, run, nRuns, agentSeen, clock, handler, sched, handed>>

\* The job and its schedule go; its runs, in flight or not, are left alone.
DeleteBackupJob(j) ==
    /\ ~job[j].deleted
    /\ job' = [job EXCEPT ![j].deleted = TRUE]
    /\ UNCHANGED <<policy, peak, run, nRuns, agentSeen, clock, handler, sched,
                   handed>>

\* RunNow: load the job and count its runs in flight ...
RunNowCheck(h, j) ==
    /\ handler[h].op = "idle"
    /\ ~job[j].deleted
    /\ InFlightRuns(j) = {}
    /\ handler' = [handler EXCEPT ![h] =
                      [IdleHandler EXCEPT !.op = "runNow", !.job = j]]
    /\ UNCHANGED <<job, policy, peak, run, nRuns, agentSeen, clock, sched,
                   handed>>

\* ... and then insert the new run.
RunNowInsert(h) ==
    /\ handler[h].op = "runNow"
    /\ InsertRun(NewRun(handler[h].job, 0, NoRun, 0))
    /\ handler' = [handler EXCEPT ![h] = IdleHandler]
    /\ UNCHANGED <<job, policy, peak, agentSeen, clock, sched, handed>>

\* CancelBackupRun: load the run and check its status ...
CancelRead(h, r) ==
    /\ handler[h].op = "idle"
    /\ Live(r)
    /\ CanTransition(run[r].status, "CANCELLED")
    /\ handler' = [handler EXCEPT ![h] =
                      [IdleHandler EXCEPT !.op = "cancel", !.run = r,
                                          !.seen = run[r].status]]
    /\ UNCHANGED <<job, policy, peak, run, nRuns, agentSeen, clock, sched,
                   handed>>

\* ... then write, WHERE id = ? only: a run read as PENDING becomes CANCELLED
\* whatever it is by now.  completed_at is not touched.
CancelWrite(h) ==
    LET r == handler[h].run IN
    /\ handler[h].op = "cancel"
    /\ UpdateRun(r, TRUE,
          [run[r] EXCEPT !.cancelRequested = TRUE,
                         !.status = IF handler[h].seen = "PENDING"
                                    THEN "CANCELLED" ELSE @])
    /\ handler' = [handler EXCEPT ![h] = IdleHandler]
    /\ UNCHANGED <<job, policy, peak, nRuns, agentSeen, clock, sched, handed>>

-----------------------------------------------------------------------------
(* Agent requests.  The agent is an external program: it may report any    *)
(* status for any of its runs, repeat a request and send two at once.      *)

\* Mutant: the claim does not require the run to be PENDING.
ClaimRunAnyStatus(h, r) ==
    /\ handler[h].op = "idle"
    /\ Live(r)
    /\ UpdateRun(r, TRUE, [run[r] EXCEPT !.status = "RUNNING"])
    /\ agentSeen' = TRUE
    /\ handler' = [handler EXCEPT ![h] =
                      [IdleHandler EXCEPT !.op = "claim", !.run = r]]
    /\ UNCHANGED <<job, policy, peak, nRuns, clock, sched, handed>>

\* VgClaimRun: UPDATE ... WHERE status = 'PENDING'.
ClaimRun(h, r) ==
    /\ handler[h].op = "idle"
    /\ Live(r)
    /\ run[r].status = "PENDING"
    /\ UpdateRun(r, TRUE, [run[r] EXCEPT !.status = "RUNNING"])
    /\ agentSeen' = TRUE
    /\ handler' = [handler EXCEPT ![h] =
                      [IdleHandler EXCEPT !.op = "claim", !.run = r]]
    /\ UNCHANGED <<job, policy, peak, nRuns, clock, sched, handed>>

\* VgClaimRun, second half: the run is loaded and its config handed over.
ClaimHandOver(h) ==
    /\ handler[h].op = "claim"
    /\ Live(handler[h].run)
    /\ handed' = [handed EXCEPT ![handler[h].run] = @ + 1]
    /\ handler' = [handler EXCEPT ![h] = IdleHandler]
    /\ UNCHANGED <<job, policy, peak, run, nRuns, agentSeen, clock, sched>>

\* VgClaimRun, second half, when the credentials cannot be decrypted: the run
\* is marked FAILED WHERE id = ? only.
ClaimUndecryptable(h) ==
    LET r == handler[h].run IN
    /\ handler[h].op = "claim"
    /\ UpdateRun(r, TRUE,
          [run[r] EXCEPT !.status = "FAILED", !.completedAt = TRUE])
    /\ handler' = [handler EXCEPT ![h] = IdleHandler]
    /\ UNCHANGED <<job, policy, peak, nRuns, agentSeen, clock, sched, handed>>

\* VgUpdateRunStatus: load the run and validate the move.  A same-status
\* report of an active run only writes its counters; one of a terminal run, and
\* an illegal move, change nothing.
ReportRead(h, r, to, b) ==
    /\ handler[h].op = "idle"
    /\ Live(r)
    /\ \/ CanTransition(run[r].status, to)
       \/ to = run[r].status /\ to \in Active
    /\ handler' = [handler EXCEPT ![h] =
                      [IdleHandler EXCEPT
                          !.op = IF to = run[r].status THEN "progress"
                                 ELSE "report",
                          !.run = r, !.seen = run[r].status, !.to = to,
                          !.bytes = b]]
    /\ UNCHANGED <<job, policy, peak, run, nRuns, agentSeen, clock, sched,
                   handed>>

\* Mutant: the move is written WHERE id = ? only.
ReportWriteUnguarded(h) ==
    LET r == handler[h].run
        to == handler[h].to IN
    /\ handler[h].op = "report"
    /\ UpdateRun(r, TRUE,
          [run[r] EXCEPT !.status = to, !.bytes = handler[h].bytes,
                         !.completedAt = @ \/ to \in {"COMPLETED", "FAILED"}])
    /\ handler' = [handler EXCEPT ![h] = IdleHandler]
    /\ UNCHANGED <<job, policy, peak, nRuns, agentSeen, clock, sched, handed>>

\* The move itself: UPDATE ... WHERE id = ? AND status = <the one read>.
ReportWrite(h) ==
    LET r == handler[h].run
        to == handler[h].to IN
    /\ handler[h].op = "report"
    /\ UpdateRun(r, run[r].status = handler[h].seen,
          [run[r] EXCEPT !.status = to, !.bytes = handler[h].bytes,
                         !.completedAt = @ \/ to \in {"COMPLETED", "FAILED"}])
    /\ handler' = [handler EXCEPT ![h] = IdleHandler]
    /\ UNCHANGED <<job, policy, peak, nRuns, agentSeen, clock, sched, handed>>

\* The counters of a same-status report, WHERE id = ? only.
ProgressWrite(h) ==
    LET r == handler[h].run IN
    /\ handler[h].op = "progress"
    /\ UpdateRun(r, TRUE, [run[r] EXCEPT !.bytes = handler[h].bytes])
    /\ handler' = [handler EXCEPT ![h] = IdleHandler]
    /\ UNCHANGED <<job, policy, peak, nRuns, agentSeen, clock, sched, handed>>

\* VgHeartbeat, VgPendingRuns and the claims call vgTouch.
AgentTouch ==
    /\ agentSeen' = TRUE
    /\ UNCHANGED <<job, policy, peak, run, nRuns, clock, handler, sched, handed>>

-----------------------------------------------------------------------------
(* The scheduler's Tick: retries and cron firing, stale runs, retention.   *)
(* tickMu serialises the ticks of one scheduler, so a tick is one thread.  *)

SchedStep(s, pc) ==
    /\ sched[s].pc = pc
    /\ UNCHANGED <<job, policy, peak, agentSeen, clock, handler, handed>>

\* Take lastTick (Start set it at boot, so there is always a previous one), load
\* the jobs with their policy and keep those whose effective policy is enabled.
TickStart(s) ==
    /\ SchedStep(s, "idle")
    /\ sched' = [sched EXCEPT ![s] =
          [IdleSched(clock) EXCEPT
              !.prev = sched[s].lastTick,
              !.pc = "jobs",
              !.todo = {j \in Jobs : ~job[j].deleted /\ EffectiveEnabled(j)},
              !.limit = policy.maxRetries]]
    /\ UNCHANGED <<run, nRuns>>

\* maybeFireRetry for the next job: retries allowed and nothing in flight?
RetryCount(s, j) ==
    /\ SchedStep(s, "jobs")
    /\ j \in sched[s].todo
    /\ sched' = [sched EXCEPT ![s] = [@ EXCEPT !.todo = sched[s].todo \ {j}, !.job = j,
                   !.pc = IF EffectiveMaxRetries(j, sched[s].limit) > 0 /\ InFlightRuns(j) = {}
                          THEN "latest" ELSE "cron"]]
    /\ UNCHANGED <<run, nRuns>>

\* Mutant: off by one in the comparison with MaxRetries.
RetryableOnceMore(r, j, limit) ==
    /\ IsLatest(r, j)
    /\ run[r].status = "FAILED"
    /\ run[r].attempt <= EffectiveMaxRetries(j, limit)
    /\ run[r].completedAt

\* A run whose failure is to be retried under the loaded limit, the retry delay
\* apart.
Retryable(r, j, limit) ==
    /\ IsLatest(r, j)
    /\ run[r].status = "FAILED"
    /\ run[r].attempt < EffectiveMaxRetries(j, limit)
    /\ run[r].completedAt

\* The job's newest run is loaded; delayed: RetryDelaySeconds have passed.
RetryLatest(s, delayed) ==
    /\ SchedStep(s, "latest")
    /\ sched' =
         IF delayed /\ \E r \in RunIds : Retryable(r, sched[s].job, sched[s].limit)
         THEN [sched EXCEPT ![s] = [@ EXCEPT !.pc = "retry",
                 !.latest = CHOOSE r \in RunIds :
                               Retryable(r, sched[s].job, sched[s].limit)]]
         ELSE [sched EXCEPT ![s].pc = "cron"]
    /\ UNCHANGED <<run, nRuns>>

\* The locked transaction: the failed run must still be there and have no
\* (undeleted) retry; the new run is linked to it.
RetryTx(s) ==
    LET r == sched[s].latest IN
    /\ SchedStep(s, "retry")
    /\ IF Live(r) /\ ~\E q \in RunIds : Live(q) /\ run[q].retryOf = r
       THEN InsertRun(NewRun(sched[s].job, 0, r, run[r].attempt + 1))
       ELSE UNCHANGED <<run, nRuns>>
    /\ sched' = [sched EXCEPT ![s] = [@ EXCEPT !.pc = "cron", !.latest = NoRun]]

\* boundaryFor: the first cron boundary after the previous tick, if it has
\* passed.  Later ones that passed as well are skipped.
BoundaryDue(s) == sched[s].prev < sched[s].lastTick
Boundary(s) == sched[s].prev + 1

\* Fire: nothing in flight ...
FireCount(s) ==
    /\ SchedStep(s, "cron")
    /\ sched' = [sched EXCEPT ![s].pc =
                   IF BoundaryDue(s) /\ InFlightRuns(sched[s].job) = {}
                   THEN "fire" ELSE "jobs"]
    /\ UNCHANGED <<run, nRuns>>

\* ... then INSERT ... ON CONFLICT (backup_job_id, scheduled_for) DO NOTHING.
FireInsert(s) ==
    /\ SchedStep(s, "fire")
    /\ InsertRun(NewRun(sched[s].job, Boundary(s), NoRun, 0))
    /\ sched' = [sched EXCEPT ![s].pc = "jobs"]

JobsDone(s) ==
    /\ SchedStep(s, "jobs")
    /\ sched[s].todo = {}
    /\ sched' = [sched EXCEPT ![s] = [@ EXCEPT !.pc = "stale", !.job = NoJob,
                                   !.limit = 0]]
    /\ UNCHANGED <<run, nRuns>>

SnapshotOf(R) ==
    {[id |-> r, status |-> run[r].status,
      cancelRequested |-> run[r].cancelRequested] : r \in R}

\* Mutant: VERIFYING is missing from the statuses looked for.
StaleSelectNotVerifying(s) ==
    /\ SchedStep(s, "stale")
    /\ sched' = [sched EXCEPT ![s] = [@ EXCEPT !.pc = "sweep",
          !.snap = SnapshotOf({r \in RunIds :
                                 /\ Live(r)
                                 /\ run[r].status \in {"RUNNING", "UPLOADING"}
                                 /\ run[r].quiet})]]
    /\ UNCHANGED <<run, nRuns>>

\* CheckStaleRuns: SELECT the active runs that were not updated lately ...
StaleSelect(s) ==
    /\ SchedStep(s, "stale")
    /\ sched' = [sched EXCEPT ![s] = [@ EXCEPT !.pc = "sweep",
          !.snap = SnapshotOf({r \in RunIds : /\ Live(r)
                                              /\ run[r].status \in Active
                                              /\ run[r].quiet})]]
    /\ UNCHANGED <<run, nRuns>>

\* ... for each, look up the agent and skip the run if it was heard lately ...
SweepCheck(s, x) ==
    /\ SchedStep(s, "sweep")
    /\ sched' = [sched EXCEPT ![s] = [@ EXCEPT !.snap = sched[s].snap \ {x},
                   !.pick = IF agentSeen THEN {} ELSE {x},
                   !.pc = IF agentSeen THEN "sweep" ELSE "sweepWrite"]]
    /\ UNCHANGED <<run, nRuns>>

\* ... else fail it, or cancel it if that was requested when it was read:
\* UPDATE ... WHERE id = ? AND status = <the one read>.
SweepWrite(s) ==
    /\ SchedStep(s, "sweepWrite")
    /\ \E x \in sched[s].pick :
          UpdateRun(x.id, run[x.id].status = x.status,
             [run[x.id] EXCEPT !.status = IF x.cancelRequested
                                          THEN "CANCELLED" ELSE "FAILED",
                               !.completedAt = TRUE])
    /\ sched' = [sched EXCEPT ![s] = [@ EXCEPT !.pc = "sweep", !.pick = {}]]
    /\ UNCHANGED nRuns

\* EnforceRetention starts by loading the jobs that are not deleted.
SweepDone(s) ==
    /\ SchedStep(s, "sweep")
    /\ sched[s].snap = {}
    /\ sched' = [sched EXCEPT ![s] = [@ EXCEPT !.pc = "retain",
                                   !.todo = {j \in Jobs : ~job[j].deleted}]]
    /\ UNCHANGED <<run, nRuns>>

\* Mutant: runs expire by age alone.
RetainSelectAnyStatus(s, j, old) ==
    /\ SchedStep(s, "retain")
    /\ j \in sched[s].todo
    /\ old \subseteq RunsOf(j)
    /\ sched' = [sched EXCEPT ![s] = [@ EXCEPT !.pc = "prune", !.todo = sched[s].todo \ {j},
                                   !.snap = SnapshotOf(old)]]
    /\ UNCHANGED <<run, nRuns>>

\* SELECT the job's finished runs; old: those past the retention period.
RetainSelect(s, j, old) ==
    /\ SchedStep(s, "retain")
    /\ j \in sched[s].todo
    /\ old \subseteq {r \in RunsOf(j) : run[r].status \in Terminal
                                        /\ run[r].completedAt}
    /\ sched' = [sched EXCEPT ![s] = [@ EXCEPT !.pc = "prune", !.todo = sched[s].todo \ {j},
                                   !.snap = SnapshotOf(old)]]
    /\ UNCHANGED <<run, nRuns>>

\* Soft-delete one of them, WHERE id = ? only.  (Its restore points and files,
\* which go with it, are not modelled.)
PruneRun(s, x) ==
    /\ SchedStep(s, "prune")
    /\ run' = [run EXCEPT ![x.id] = [@ EXCEPT !.deleted = TRUE]]
    /\ sched' = [sched EXCEPT ![s].snap = @ \ {x}]
    /\ UNCHANGED nRuns

PruneDone(s) ==
    /\ SchedStep(s, "prune")
    /\ sched[s].snap = {}
    /\ sched' = [sched EXCEPT ![s].pc = "retain"]
    /\ UNCHANGED <<run, nRuns>>

TickDone(s) ==
    /\ SchedStep(s, "retain")
    /\ sched[s].todo = {}
    /\ sched' = [sched EXCEPT ![s] = IdleSched(sched[s].lastTick)]
    /\ UNCHANGED <<run, nRuns>>

-----------------------------------------------------------------------------
(* Time, and the death of a server process: what is in memory is lost.     *)

ClockTick ==
    /\ clock < MaxClock
    /\ clock' = clock + 1
    /\ UNCHANGED <<job, policy, peak, run, nRuns, agentSeen, handler, sched,
                   handed>>

WentQuiet(r) ==
    /\ Live(r)
    /\ run[r].status \in Active
    /\ run' = [run EXCEPT ![r] = [@ EXCEPT !.quiet = TRUE]]
    /\ UNCHANGED <<job, policy, peak, nRuns, agentSeen, clock, handler, sched,
                   handed>>

AgentWentSilent ==
    /\ agentSeen' = FALSE
    /\ UNCHANGED <<job, policy, peak, run, nRuns, clock, handler, sched, handed>>

HandlerDies(h) ==
    /\ handler[h].op # "idle"
    /\ handler' = [handler EXCEPT ![h] = IdleHandler]
    /\ UNCHANGED <<job, policy, peak, run, nRuns, agentSeen, clock, sched,
                   handed>>

SchedulerDies(s) ==
    /\ sched[s].pc # "down"
    /\ sched' = [sched EXCEPT ![s] = [IdleSched(0) EXCEPT !.pc = "down"]]
    /\ UNCHANGED <<job, policy, peak, run, nRuns, agentSeen, clock, handler,
                   handed>>

\* Scheduler.Start takes the time of the boot as lastTick.
SchedulerBoots(s) ==
    /\ sched[s].pc = "down"
    /\ sched' = [sched EXCEPT ![s] = IdleSched(clock)]
    /\ UNCHANGED <<job, policy, peak, run, nRuns, agentSeen, clock, handler,
                   handed>>

-----------------------------------------------------------------------------
OperatorNext ==
    \/ \E j \in Jobs, b \in BOOLEAN : SetJobEnabled(j, b)
    \/ \E b \in BOOLEAN, n \in 0..MaxRetries : UpdatePolicy(b, n)
    \/ \E j \in Jobs : DeleteBackupJob(j)
    \/ \E h \in Handlers, j \in Jobs : RunNowCheck(h, j)
    \/ \E h \in Handlers, r \in RunIds : CancelRead(h, r)

AgentNext ==
    \/ \E h \in Handlers, r \in RunIds : ClaimRun(h, r)
    \/ \E h \in Handlers, r \in RunIds, to \in RunStatus, b \in ByteCounts :
          ReportRead(h, r, to, b)
    \/ AgentTouch

HandlerNext(h) ==
    \/ RunNowInsert(h) \/ CancelWrite(h)
    \/ ClaimHandOver(h) \/ ClaimUndecryptable(h)
    \/ ReportWrite(h) \/ ProgressWrite(h)

SchedulerNext(s) ==
    \/ TickStart(s)
    \/ \E j \in Jobs : RetryCount(s, j)
    \/ \E delayed \in BOOLEAN : RetryLatest(s, delayed)
    \/ RetryTx(s) \/ FireCount(s) \/ FireInsert(s) \/ JobsDone(s)
    \/ StaleSelect(s)
    \/ \E x \in sched[s].snap : SweepCheck(s, x)
    \/ SweepWrite(s) \/ SweepDone(s)
    \/ \E j \in Jobs, old \in SUBSET RunIds : RetainSelect(s, j, old)
    \/ \E x \in sched[s].snap : PruneRun(s, x)
    \/ PruneDone(s) \/ TickDone(s)

TimeNext ==
    \/ ClockTick
    \/ \E r \in RunIds : WentQuiet(r)
    \/ AgentWentSilent

CrashNext ==
    \/ \E h \in Handlers : HandlerDies(h)
    \/ \E s \in Schedulers : SchedulerDies(s) \/ SchedulerBoots(s)

Next ==
    \/ OperatorNext
    \/ AgentNext
    \/ \E h \in Handlers : HandlerNext(h)
    \/ \E s \in Schedulers : SchedulerNext(s)
    \/ TimeNext
    \/ CrashNext

Spec == Init /\ [][Next]_vars

\* Fairness of the sweep.  A process that is up keeps ticking (the ticker of
\* Scheduler.run) and a tick goes through its passes; time passes.  Nothing is
\* assumed of a process that is down, nor that one is ever booted again.
SweepFairness ==
    /\ \A s \in Schedulers : WF_vars(SchedulerNext(s))
    /\ \A r \in RunIds : WF_vars(WentQuiet(r))

LiveSpec == Spec /\ SweepFairness

-----------------------------------------------------------------------------
(* Safety.                                                                 *)

\* A cron boundary of a job is fired at most once, whatever ticks overlap,
\* servers restart or runs are pruned in between (comment on Fire: "protected
\* against duplicate execution across concurrent ticks and restarts").
OneRunPerBoundary ==
    \A q, r \in 1..nRuns :
        (run[q].job = run[r].job /\ run[q].boundary = run[r].boundary
            /\ run[q].boundary # 0) => q = r

\* A retry is linked to an earlier run of the same job that failed and was not
\* completed since, counts one more attempt than it, stays within the largest
\* max_retries the policy ever had, and is the only retry of that run
\* (maybeFireRetry against concurrent ticks, RunNow, cancel, retention and edits
\* of the policy under way).
RetryChainSound ==
    \A r \in 1..nRuns : run[r].retryOf # NoRun =>
        LET p == run[r].retryOf IN
        /\ p < r
        /\ run[p].job = run[r].job
        /\ run[p].status \in {"FAILED", "CANCELLED"}
        /\ run[r].attempt = run[p].attempt + 1
        /\ run[r].attempt <= peak
        /\ \A q \in 1..nRuns : run[q].retryOf = p => q = r

\* A run's configuration, credentials included, is handed to the agent at most
\* once, however many claims of it run concurrently (VgClaimRun).
HandedOutOnce == \A r \in RunIds : handed[r] <= 1

\* A finished run never goes back into flight: no late report, claim, sweep or
\* cancel, working from what it read earlier, revives it.
NeverRevived ==
    [][\A r \in RunIds : run[r].status \in Terminal => run'[r].status \in Terminal]_vars

\* No stage is skipped: a run completes only from VERIFYING, verifies only from
\* UPLOADING, uploads only from RUNNING and starts only from PENDING, although
\* the report was validated against a status read earlier.
StagesInOrder ==
    [][\A r \in RunIds : run'[r].status # run[r].status =>
          /\ run'[r].status = "RUNNING" => run[r].status = "PENDING"
          /\ run'[r].status = "UPLOADING" => run[r].status = "RUNNING"
          /\ run'[r].status = "VERIFYING" => run[r].status = "UPLOADING"
          /\ run'[r].status = "COMPLETED" => run[r].status = "VERIFYING"]_vars

\* Retention, which deletes from a list of rows read earlier, never deletes a
\* run that is still in flight.
OnlyFinishedRunsPruned ==
    [][\A r \in RunIds : run'[r].deleted /\ ~run[r].deleted
          => run[r].status \in Terminal]_vars

-----------------------------------------------------------------------------
(* The inductive invariant behind the safety properties: what a scheduler  *)
(* or a handler remembers about rows it read is still true enough when it  *)
(* comes to write.                                                         *)

\* The failed run a retry will be linked to; the due boundary; the finished
\* runs on retention's list.
SchedulerFact(s) ==
    /\ sched[s].pc \in {"latest", "retry", "cron", "fire"} => sched[s].job \in Jobs
    /\ sched[s].pc = "retry" =>
          /\ Exists(sched[s].latest)
          /\ run[sched[s].latest].job = sched[s].job
          /\ run[sched[s].latest].status \in {"FAILED", "CANCELLED"}
          /\ run[sched[s].latest].attempt < peak
    /\ sched[s].pc = "fire" => sched[s].prev < sched[s].lastTick
    /\ sched[s].pc = "prune" =>
          \A x \in sched[s].snap : run[x.id].status \in Terminal

SchedulerFacts == \A s \in Schedulers : SchedulerFact(s)

\* The limit a tick works with was the policy's at some time.
LimitsLoaded ==
    /\ policy.maxRetries <= peak
    /\ \A s \in Schedulers : sched[s].limit <= peak

ReportsValidated ==
    \A h \in Handlers : handler[h].op = "report"
                            => CanTransition(handler[h].seen, handler[h].to)

\* A PENDING run was never claimed, and a claimed run has one claimant.
ClaimsExclusive ==
    /\ \A r \in RunIds : run[r].status = "PENDING" =>
          /\ handed[r] = 0
          /\ \A h \in Handlers : handler[h].op = "claim" => handler[h].run # r
    /\ \A h \in Handlers : handler[h].op = "claim" =>
          /\ handler[h].run \in RunIds
          /\ handed[handler[h].run] = 0
          /\ \A g \in Handlers : (handler[g].op = "claim"
                                     /\ handler[g].run = handler[h].run) => g = h

UnusedRows == \A r \in RunIds : r > nRuns => run[r].status = "PENDING"

\* All of the above, and the properties it supports.
IInv ==
    /\ TypeOK
    /\ SchedulerFacts
    /\ LimitsLoaded
    /\ ReportsValidated
    /\ ClaimsExclusive
    /\ UnusedRows
    /\ OneRunPerBoundary
    /\ RetryChainSound
    /\ HandedOutOnce

-----------------------------------------------------------------------------
(* Liveness.                                                               *)

\* If from some time on the agent is not heard, no request works on a run and
\* some server process stays up, the run does not stay RUNNING, UPLOADING or
\* VERIFYING for ever: the sweep of some tick finishes it (CheckStaleRuns), so it
\* stops blocking its job.  With processes that die in every tick it may stay: the
\* first thing a tick does, after a boot too, is tickJobs.
OrphansFinish ==
    \A r \in RunIds :
        ( /\ <>[](~agentSeen /\ \A h \in Handlers : handler[h].run # r)
          /\ \E s \in Schedulers : <>[](sched[s].pc # "down") )
        => <>[](run[r].status \notin Active)

-----------------------------------------------------------------------------
(* What comments in the code say and the code does not guarantee.          *)

\* "Terminal states never transition out" (VgBackupRun, VgUpdateRunStatus) and
\* "a terminal run must never accept counter writes" (VgUpdateRunStatus): the
\* record of a finished run is final.
FinishedRecordFinal ==
    [][\A r \in RunIds : run[r].status \in Terminal
          => run'[r].status = run[r].status /\ run'[r].bytes = run[r].bytes]_vars
=============================================================================
