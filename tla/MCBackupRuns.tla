---------------------------- MODULE MCBackupRuns ----------------------------
(* Model-checking instances of BackupRuns. *)
EXTENDS BackupRuns, TLC

CONSTANTS h1, h2, j1, s1, s2

HandlerSymmetry == Permutations({h1, h2})
SchedulerSymmetry == Permutations({s1, s2})

\* Constraint of the runs about the creation of runs: what the stale sweep,
\* the status reports and the switching off of jobs add is covered by the run
\* about one row.
SteadyAgentAndJobs ==
    /\ agentSeen /\ policy.enabled
    /\ \A r \in RunIds : ~run[r].quiet
    /\ \A h \in Handlers : handler[h].op \notin {"progress", "report"}
    /\ \A j \in Jobs : job[j].enabled /\ ~job[j].deleted

\* With two schedulers, retention and cancels are left out as well.
TwoSchedulersFiring ==
    /\ SteadyAgentAndJobs
    /\ \A s \in Schedulers : sched[s].snap = {}
    /\ \A h \in Handlers : handler[h].op \in {"idle", "runNow", "claim"}

=============================================================================
