# ServerHub: TLA+ models, checks and proofs

This directory models the concurrent core of ServerHub: how the server
(`src/server`) creates backup runs, hands them to agents, tracks, sweeps and
retries them, and how notifications become messages; how a session lives on
rotating refresh tokens in the browser and on the phone; and how the pages of
the web client and the screens of the phone app (`src/client`, `src/mobile`)
keep what they show in step with what their controls do. TLC checks the models
on small instances; TLAPS proves the safety properties, and that the token
table implements its abstract specification, for every size.

## 1. The system and its parts

ServerHub is a Go server (gin, gorm, Postgres) with a web and a mobile client
and an agent. Several server processes may run against one database, each with
request handlers (goroutines) and background loops, so the database rows are
the shared state, and a handler that reads a row, decides, and writes it in a
later statement races with every other handler and loop.

| Part | State | Operations | Hard behaviour | What makes it correct |
|---|---|---|---|---|
| Backup runs (`vgbackup/scheduler.go`, `models.go`, `schema.go`, `handlers/vgbackup_agent.go`, `vgbackup_mgmt.go`) | `vg_backup_runs`, jobs, policies; tick positions of each scheduler | RunNow, cron firing, retry, claim, status and progress report, cancel, stale sweep, retention | several processes tick; read-then-write in handlers; restarts between two statements; silent agents | a boundary fires once, a run is claimed once, stages in order, no revival, retries capped and linked, orphans end |
| Restore points (same files) | artifacts, chunks, verification verdicts, restore jobs | register artifact and chunk, verify (automatic, manual), create, claim and report a restore, retention | retention checks for restores, then deletes in several steps; duplicate registrations; unguarded verdicts | a restore is handed out once and not robbed of its backup; verdicts are of the bytes they name |
| Backup policies | policies, jobs attached to them | EffectivePolicy, attach, update, delete (copies back to jobs) | deletion in a transaction against a running tick | a job's schedule is the policy's or its own, never a mixture |
| Agent enrollment | enrollment tokens, agents, token hashes | generate, register, rotate, revoke, heartbeat | a token used twice at once | a token enrols one agent |
| Notification delivery (`delivery/`) | `delivery_state`, `delivery_outbox`, `delivery_provider_state`, `digest_batches`, policy singleton | Dispatch, Drain, FlushDigests, RequeueStale | overlapping requests for one incident with old time stamps; crash between send and mark; several processes; late events | per-incident cap and spacing; no row lost; duplicates only after crashes; digests told once |
| Rules engine (`rules/`) | rules, rule state | Evaluate, claim of a cooldown, recovery | claim and delivery are separate steps | a rule notifies once per cooldown |
| Server alerting (`alerting/`) | alerts, server status | offline check, thresholds, fire, resolve | count-then-insert; OFFLINE written from an old read | one open alert per server and condition |
| Authentication and sessions (`handlers/auth.go`, `middleware/`; `lib/api.ts`, `stores/store.ts`; `api/client.ts`, `stores/authStore.ts`) | users, refresh tokens, rate limits; the cookie jar, the phone's keychain, the shared refresh promise | login, refresh, logout, password change, user management; check, hydrate, request with one retry | two tabs refresh one cookie; a refresh that races a logout; lost answers; a killed app; a keychain that fails | a login has one usable token; losing a race does not end a session; signing out leaves nothing behind; every request settles |
| Operations and deployments (`ops/`, `handlers/deployments.go`, `lifecycle.go`) | operations, deployment rows | start, run, finish, recover | a process dies in an operation | one operation per project at a time |
| File transfer (`transfer/`) | uploads on disk, trash | chunk, finalize, trash, restore | concurrent finalize, quota | a finalized file is complete |
| Health checks (`health/`, `healthcheck/`) | check state, uptime rows | probe, flap handling | overlapping probes | state changes after n results |
| Event bus (`events/`) | subscriber buffers | publish, subscribe | slow subscribers | publishing never blocks |
| Retention (`retention/`) | old rows | batch deletes | low | only terminal rows go |
| Exec console | single-use tokens | mint, consume | use twice | once |
| Web client (`client/src/features`), phone app (`mobile/app`) | query cache, lists fetched bare, open dialogs, busy flags; the add-server wizard, the database browser, the rule form | load, poll, reload on events, submit, close, leave and return | answers in another order than the requests; controls used during a call; roles that have changed; effects that start over | a page at rest shows the user's own change; no control stays busy for good; what is offered is allowed; nothing is made twice |
| Containers, databases, files, monitoring proxies | none of their own | pass requests on | - | not modelled |
| Agent program | metric loop | - | - | not modelled |

Interactions. The scheduler and the agent handlers share the run rows.
Failure paths of backups, deployments and projects, the rules engine and
alerting all call `delivery.Dispatch`, which writes the incident row and the
outbox; the worker loop of each process empties the outbox and the digest
batches. The rate budget of the worker feeds events back into the digests.
Every call of a page goes through `req` (`lib/api.ts`) or the axios client of
the app, which turn a 401 into one shared refresh and one more try; its answer
invalidates queries, closes dialogs and clears busy flags. Events of the server
bus reach pages over SSE (`useEvents`) and reload lists.

`PROJECT.json` lists the components with their status, every definition with
the lines it models, and the hazards: places where something can go wrong that
a test would hardly reach, with the properties that watch them.

## 2. Modules

| Module | Models | State | Extended by |
|---|---|---|---|
| `BackupRuns` | the life of `vg_backup_runs` | `run`, `nRuns`, `job`, `handler` (what a request remembers between its statements), `sched` (position and lists of a tick, the limit it loaded), `clock`, `agentSeen`, `policy` (enabled, `max_retries`); history `peak`, `handed` | `MCBackupRuns`, `BackupRunsProofs` |
| `IncidentDelivery` | `Dispatch`: gates and the claim transaction | `policy`, `state` (`delivery_state`), `call`, `clock`; history `cycle`, `outcome` | `MCIncidentDelivery`, `IncidentDeliveryProofs` |
| `Outbox` | the worker loop `Drain` and `RequeueStale` | `outbox`, `breaker`, `worker`; history `accepted`, `crashes`, `faults` | `MCOutbox`, `OutboxProofs` |
| `Digests` | `appendDigest`, `recordOverflow`, `FlushDigests` | `batch`, `request`, `flusher`, `summaries`, `now`; history `losses` | `MCDigests`, `DigestsProofs` |
| `TokenRotation` | what the refresh endpoint promises of a login | `phase`, `rotations` | refined by `RefreshTokens` |
| `RefreshTokens` | `refresh_tokens` and the statements of `Refresh`, `LogoutAll`, `ChangePassword` | `row`, `recent` (the 30 s leeway), `call`; history `over`, `faults` | `WebSession`, `MobileSession`, `RefreshTokensProofs` |
| `WebSession` | tabs of one browser: `req`, `refreshSession`, the auth store | `jar`, `tab`, `req`; history `loggedOut` | `Sessions` |
| `MobileSession` | the app: axios client, auth store, keychain | `keychain`, `app`, `promise`, `areq`; history `raced` | `Sessions` |
| `Sessions` | a user's browser or phone against the token table | none of its own | `MCSessions`, `SessionProofs` |
| `PageRows` | the vocabulary of the page tables | none | the four tables |
| `BackupPages`, `SettingsPages`, `ServerPages`, `MobilePages` | 36 pages, tabs and screens: what each loads, how, and what its controls call, under which flag, dialog and role | none | `Pages` |
| `Pages` | a page of the tables at work | `page`, `seat`, `panel`, `dialog`, `flags`, `call`, `srv`, `demoted` | `MCPages`, `PagesProofs` |
| `AddServer` | `AddServerModal` of `ServersPage` | `wiz`, `setup`, `ear` (poller, timeout, status), `made` | `MCPages`, `ClientProofs` |
| `DatabaseBrowser` | `DatabasesPage` | `picked`, `list`, `ticked`, `view`, `op`, `services` | `MCPages`, `ClientProofs` |
| `RuleForm` | the form of `NotificationRulesSection` and the PATCH handler | `rule`, `seen`, `form`, `patch` | `MCPages`, `ClientProofs` |

How the code became actions: one SQL statement, or one transaction, is one
action; what a function keeps in local variables between two statements is a
record in `handler`, `sched`, `call`, `worker` or `flusher`. So a handler like
`CancelBackupRun` is two actions, `CancelRead` (with the early returns as
guards) and `CancelWrite` (the update with the WHERE clause it has), and every
other statement of the system may come in between. Audit entries, server-sent
events, log lines and message texts are left out.

### BackupRuns

- Creation. `RunNowCheck`/`RunNowInsert`; per tick and job `RetryCount`,
  `RetryLatest`, `RetryTx` (`maybeFireRetry`), then `FireCount`/`FireInsert`
  for a due boundary. `UniqueIndexesAllow` is the pair of unique indexes of
  `schema.go` that insertion runs into. `EffectiveEnabled` and
  `EffectiveMaxRetries` are `EffectivePolicy`.
- Agent. `ClaimRun` is the guarded update, `ClaimHandOver` or
  `ClaimUndecryptable` what follows; `ReportRead`/`ReportWrite` validate with
  `CanTransition` and write guarded by the status read; `ProgressWrite` is the
  same-status branch, whose write is not guarded.
- Operator. `SetJobEnabled`, `UpdatePolicy` (enabled and `max_retries`, also
  during a tick), `DeleteBackupJob`, `CancelRead`, `CancelWrite`.
- Tick. `TickStart`, which loads jobs and policy once for the whole tick, the
  jobs in any order, `StaleSelect`, `SweepCheck`, `SweepWrite`, then
  `RetainSelect`, `PruneRun`, `TickDone`. `SchedulerDies` may interrupt it
  anywhere and loses its lists and its last tick; `SchedulerBoots` takes the
  time of the boot as the last tick (`Scheduler.Start`), and the tick that
  follows begins with the jobs as every other does.
- Environment. `ClockTick` moves to the next cron boundary, `WentQuiet` and
  `AgentWentSilent` are a run and an agent not heard of for the timeout. The
  agent program is not in the repository: it may send any report at any time.

### IncidentDelivery

`Dispatch`, `CheckMaintenance` and `CheckQuiet` are the gates, each reading
what is in force at that moment; a gate that is closed calls
`TouchSuppressed`. `ClaimRecovery` and `ClaimFiring` are `claimAndEnqueue`
under the row lock, with the time stamp taken at the start of the call.
`HeldBack`, `Fired`, `Resolved` and `RecoveryPasses` are its decisions.
`ClaimFails` is a rolled-back transaction, among them the two first requests
that both insert the row. `Cooldown`, `RepeatInterval` and `MaxRepeats` stand
for the values after the fall-backs to the policy; they are the same for all
requests of an incident. A firing is held back by the cooldown of its severity
and by the repeat interval, whichever is longer, for critical incidents too.
Suppression counters are left out.

### Outbox

`ClaimDue` marks a batch as sending, `NextRow` and the actions of `SendOne`
are `sendOne` statement by statement: `CheckCircuit`, `CheckBudget`, `Defer`,
`ProviderAccepts` or `ProviderFails`, `CloseCircuit` and `MarkSent`, or
`ReadFailures`, `OpenCircuit` and `MarkFailed`. `Boot` is `RequeueStale`, run
by every starting process (`cmd/server/main.go:89`). `UpdateFails` is a last
update whose error is ignored. Times are reduced to the three facts the code
derives from them: a row is due, a circuit is open, a sent row is recent.
Queries are assumed to succeed.

### Digests

`Stamp` fixes an event's window, `AppendDigest` upserts it, one batch per
channel. `FlushStart`, `FlushClaim` and `FlushInsert` are `FlushDigests`, with
the LIMIT of its query; `FlusherDies` and `FlushInsertFails` lose claimed
batches. Overflow events are events with one key. Titles, resources and their
truncation are left out: a batch is the set of its events.

### Sessions

`RefreshRead`, `RefreshClaim` and `RefreshIssue` are the three statements of
`Refresh`; between them come other refreshes, `RevokeAllRefreshes`, expiry and
`LeewayPasses` (the 30 s that `revokeAllRefreshesExceptRecent` spares). A
browser is a cookie jar that its tabs share: `JarAfter` is what an answer's
`Set-Cookie` does to it, `RefreshSession`, `Woken` and `WebRefreshSettles` are
the shared promise of one tab, `WebChecked`, `WebLogin` and `WebLogout` the
store. The phone's `hydrate`, `login` and `logout` are one action per keychain
access, each of which may fail; `PhoneKilled` may come at any of them.
`Rotation`, in `RefreshTokens`, maps the table to `TokenRotation`: a login is
unborn, live, taken by a refresh, or ended, and the number of its tokens counts
its rotations.

### Pages

A page is a record of panels and acts. A panel says how its data is loaded: by
React Query, which drops the load under way for a new one, or by a bare fetch,
which runs beside it; whether a timer or the event bus loads it again. An act
says where its busy flag lives and whether its control looks at it, whether it
asks or has a form, when that closes, whether the handler heeds the outcome and
awaits the reload, the least role the route asks for (`main.go`) and the least
role the page shows it to, which data it changes and reloads, and whether it
first reads something back (`rereads`: `saveNotify`, `deleteGroup`), whose
failure skips the reload. A panel also says how it shows a load that failed
(`fails`): most say so, some in place of the list, of the whole tab with its
dialogs (`Hidden`), or for good, since `error` is never cleared; others do not,
and draw what there was before or nothing; and `SettingsPage`, whose query turns
a failed part into an empty one, may fall back to its skeleton, which unmounts
the tabs with their forms. One row of a
table stands for the component it is named after; layout and texts are left
out. `Pages` lets one panel and one control (or two that share a flag) of any
page work: loads that are served and delivered separately, calls that are
served, refused or lost, dialogs closed during calls, other users' changes, a
role that is lowered, leaving and returning. React Query is not part of the
repository and is modelled from how the client configures and calls it
(`main.tsx`: `retry: 1`, `staleTime`).

A situation watches one panel, so three effects of the others are left out: the
spinner that some tabs draw while an event's load runs, the skeleton that a part
of `settings-data` puts in place of tabs which watch another one (what it does
to them is what `Leave` and `Return` do), and `setNotify`, which may lift that
skeleton without a load.

`AddServer`, `DatabaseBrowser` and `RuleForm` are the three components whose own
state is more than a page's: each handler is split at its awaits, and the rule
form's server side at its two statements.

## 3. Runs

| Run | Module | Shows |
|---|---|---|
| `runs_one_row` | `BackupRuns`, 1 run, 2 handlers, 1 scheduler | every overlap of claim, report, progress, cancel, sweep, retention and restarts on one row: `HandedOutOnce`, `NeverRevived`, `StagesInOrder`, `OnlyFinishedRunsPruned`; liveness `OrphansFinish`: a run whose agent is gone is ended by a sweep, if some process stays up |
| `runs_two_schedulers` | 3 runs, 2 schedulers, 1 handler | `OneRunPerBoundary`, `RetryChainSound` |
| `delivery_incidents` | `IncidentDelivery`, 1 incident, 2 overlapping requests, 5 times | `PagesCapped`, `RowMatchesNotices`, `PagesSpaced`, `RecoveryFollowsPage` |
| `outbox_one_process` | `Outbox`, 2 rows, 2 deaths, 1 failed write | `DuplicatesNeedCrashes`, `GivenUpAfterAllAttempts`, `RateBudget`, `EveryRowSettles` |
| `digests_two_flushers` | `Digests`, 2 events, 2 channels, 3 windows, 2 flushers, 1 loss | `ToldOnce`, `SummaryComplete`, `InTimeIsKept`, `BatchedIsTold` |
| `sessions` | 2 tabs with 2 requests, or a phone with 2 requests; 3 tokens, 1 fault, 2 events | `OneTokenPerLogin`, `LoginSurvivesRaces`, `LogoutEndsLogin`, `NoSelfReuse`, `SignedOutHoldsNothing`, `RequestsSettle`, `AppStarts`, and `ImplementsRotation`: the table implements `TokenRotation` |
| `pages` | every page with every panel and every control or pair, 2 calls and 1 event; the wizard with 2 faults; the browser with 2 servers and 4 calls; the rule form with 2 users and 2 saves | `RestShowsLatest`, `OwnChangeShown`, `OfferedIsServed`, `NoDoubleSubmit`, `BusyMeansWorking`; `MadeOnce`, `ConnectedStays`, `AgentNoticed`; `PatientRegistersRight`; `UntouchedSurvives` |

Five runs end in a violation: what a comment or a document says is not what
the code does.

| Run | Property | What happens |
|---|---|---|
| `runs_terminal_final` | `FinishedRecordFinal` | cancel, the failed claim and a progress report write by id only, and overwrite status or counters of a run that has finished since it was read |
| `delivery_retrigger` | `RetriggerStartsCycle` | a recovery that meets a closed gate leaves the row firing; the next firing is held back as a repeat |
| `delivery_critical_repeats` | `CriticalRepeatsAfterCooldown` | `notifications-delivery.md:34` has critical incidents repeat every 15 min by default; the default `RepeatIntervalSec` of 3600 s holds them back for 60 |
| `outbox_two_processes` | `OneSenderPerRow` | a process that boots requeues rows another live process is sending |
| `sessions_two_tabs` | `WinnerKeepsSession` | in a browser with two tabs, the one that loses the race for a token is answered 401 with cookies cleared; the jar, which both tabs share, loses the winner's cookies |

Met while modelling, without a run of their own: `RunNow`, `Fire` and
`maybeFireRetry` count the runs in flight and insert later, so two of them leave
two runs of a job in flight; an event whose digest window was flushed before its
upsert is dropped and answered "digested"; the phone app, started after its
access token has expired, deletes a valid refresh token, as the 401 of `auth/me`
is not rotated (the comment at `authStore.ts:37` says it is); its logout sends
no refresh token, so nothing is revoked; a refresh that has claimed its token
survives a password change; a user who picks a second database server while the
first is being read can register the first one's databases with the second;
Retry Listening of the wizard does not listen until the page happens to render;
a rule's severity and condition cannot be cleared by the form, and its
description does not survive an edit; lists that could not be loaded are drawn
as empty or as they were (`HealthChecksPage`, phone `alerts.tsx`, the team tab,
the rules section, `settings-data` through `Promise.allSettled`), where
`packages/shared/src/api-types.ts:846` wants that a failed fetch "can never
render as genuine empty content"; two tabs of `MonitoringPage` never clear their
`error`, so that one failed load hides the tab until it is left; a load that
fails takes an open form away (`SettingsPage.tsx:63`, `MonitoringPage.tsx:301`);
when what `saveNotify` and `deleteGroup` read back fails, the change is made, an
error is told and nothing is reloaded; start, stop and restart on the phone load
the project again before the health checker has written its row, and the screen
is not polled; a server that is restarted before each tick has come to its stale
pass never sweeps; a run cancelled while PENDING
has no `completed_at`, by which retention selects, and is kept for ever; the
worker does not look at the emergency pause; a maintenance window suppresses
critical incidents too; a row whose closing update fails stays in `sending`
until a process boots (`EveryRowSettles` excepts that case). `VerifyCompletedRuns`
(not modelled yet) takes the oldest 50 completed runs whether or not they are
settled, so that later ones may never be looked at.

### Bounds and why they are enough

One row per question: the handlers of `BackupRuns` and `Dispatch` touch one run
or one incident each, and the hazards are overlaps of two remembered reads,
so one row, two handlers and one or two schedulers contain them. Three runs and
a `max_retries` that is edited between 0 and `MaxRetries = 1` let a retry be
retried too often; one clock step gives a
boundary to fire twice. `MCBackupRuns` names the constraints: with two
schedulers, sweep, retention and reports, covered by the one-row run, are
constrained away. In `delivery_incidents`, `MaxTime = 4` with a repeat interval
of 2 reaches the third notice that `MaxRepeats = 1` must hold back; `OneGate`
allows one closed gate at a time, since each of them does the same to the row.
In `Outbox`, two rows meet a budget of 1, a threshold of 2 and 2 attempts, so
every limit is reached; two deaths let a row be duplicated twice. In `Digests`,
a flush takes 1 batch while up to four are due. Handlers, schedulers and requests
are symmetric (`HandlerSymmetry`, `SchedulerSymmetry`, `DispatcherSymmetry`) in
the runs without liveness.

In `sessions`, three tokens allow two rotations, so that a token is presented
after it was replaced; one fault is a lost answer, a failed statement, a failed
keychain access or a killed app; two events give an expiry and a logout. In
`pages`, two calls meet on one flag or one list, one event falls between any two
steps of them; two items tell an item's flag from the page's. Two faults let both
calls of the wizard be lost; four calls of the browser are enough to pick,
register and pick again. Controls that the machine cannot tell apart are one
(`Control`, `Behaviour`), and so are panels; each of the situations left is an
initial state of the run.

Deadlock is checked in every run but `sessions`, `sessions_two_tabs` and
`pages`: clients may stop, when the user does nothing and every request has
been answered.

### Fairness

- `BackupRuns!SweepFairness`: a process that is up keeps ticking (`time.Ticker`)
  and time passes, weak fairness only. Nothing is assumed of agents, requests or
  processes that are down. `OrphansFinish` has as its premise that some process
  stays up from some time on: one that dies in every tick before its stale pass
  sweeps nothing, since each boot starts with the jobs again.
- `Outbox!LiveSpec`: the worker loop ticks, a dead process is started again,
  and time passes (rows become due, circuits close, hours pass). The provider
  may fail for ever: attempts are bounded by the code.
- `Digests!LiveSpec`: the loop ticks and windows end.
- `WebFairness`, `PhoneFairness`: the server serves, the keychain answers, and a
  promise that was started runs on. Users do nothing of necessity; a request that
  cannot reach the server fails.
- `PageFairness`: loads and calls are served and delivered, and the timer of a
  query that polls fires. `WizardFairness`: polls are answered, no more. Every
  render of the page starts poller and timeout of the wizard over, so neither
  need ever fire; `AgentNoticed` states as its own premise that they get to, that
  is, that the page goes a poll interval of 2.5 s without a render again and
  again. Without it the wizard hears nothing and does not time out: a hazard that
  the property does not exclude.

`OwnChangeShown` and `AgentNoticed` have the form []<>P: the bad state does not
last. For a bad state that only the awaited event, or the user, ends, this says
the same as "leads to".

## 4. Proofs

Every invariant and action property of the passing runs is a theorem, checked by
TLAPS for every set of jobs, handlers, schedulers, incidents, requests, rows,
events, flushers, tabs, database servers and editors, and for all bounds. The
proofs use the assumptions the modules state on their constants
(`RunsAssumption`, `DeliveryAssumption`, `OutboxAssumption`,
`DigestsAssumption`, `RefreshTokensAssumption`, `WebSessionAssumption`,
`MobileSessionAssumption`, `SessionsAssumption`, `PagesAssumption`,
`WizardAssumption`, `BrowserAssumption`, `RuleAssumption`: natural bounds, that
the values for "none" name nothing, that the phone is no tab, that at least one
fault may happen, as running out of token numbers is counted as one) and one
hypothesis, `OneProcess`, in the theorems about `Outbox`. The inductive
invariants were checked with TLC on the instances of the runs before they were
proved.

| Module | About | Theorems |
|---|---|---|
| `BackupRunsProofs` | `BackupRuns` | `Invariance`, `TypeCorrect`, `BoundaryFiredOnce`, `RetriesChained`, `ClaimedOnce`, `FinishedStaysFinished`, `StagesFollowed`, `RetentionSparesRuns` |
| `IncidentDeliveryProofs` | `IncidentDelivery` | `DeliveryInvariance`, `RowInStep`, `NoticesCapped`, `NoticesSpaced`, `RecoveriesFollow` |
| `OutboxProofs` | `Outbox`, one process | `OutboxInvariant`, `OutboxTypes`, `OutboxDuplicates`, `OutboxGivesUp`, `OutboxRate`, `OutboxSettled` |
| `DigestsProofs` | `Digests` | `DigestInvariance`, `EventsToldOnce`, `SummariesComplete`, `InTimeEventsKept` |
| `RefreshTokensProofs` | `RefreshTokens` | lemmas about the table, used by the next |
| `SessionProofs` | `Sessions` | `SessionTypes`, `SessionOneToken`, `SessionRotation`, `SessionSurvives`, `SessionLogout`, `SessionNoSelfReuse`, `SessionSignedOut` |
| `PagesProofs` | `Pages` and its four tables | `PageBaseHolds`, `PageTypes`, `RestIsCurrent`, `OfferedControlsServed`, `BusyControlsWork`, `NoneSubmittedTwice` |
| `ClientProofs` | `AddServer`, `DatabaseBrowser`, `RuleForm` | `WizardInvariance`, `NothingMadeTwice`, `FoundStaysFound`; `BrowserInvariance`, `PatientIsRight`, `TicksAndRegisters`; `RuleInvariance`, `EditsSpareTheRest` |

BackupRuns. `Invariance` proves `IInv`. The safety properties alone are not
inductive: a step writes from what was read earlier, so the invariant has to
say what is still true of it. `SchedulerFacts`: the run a scheduler is about to
retry belongs to the job, has failed (it may have been cancelled since, never
completed) and has attempts left; a boundary about to be fired is past the last
tick; runs on retention's list are finished. `ReportsValidated`: a report about
to be written was allowed from the status it will be compared with.
`ClaimsExclusive`: a PENDING run was never claimed, and a run between claim and
hand-over has one claimant. `LimitsLoaded`: the `max_retries` a tick works with,
loaded at its start, is no larger than the largest the policy has had (`peak`),
however it is edited since. `UnusedRows`: rows not inserted yet are PENDING.
From `IInv` follow `TypeCorrect`, `BoundaryFiredOnce`, `RetriesChained`,
`ClaimedOnce` and, as action properties, `FinishedStaysFinished`,
`StagesFollowed` and `RetentionSparesRuns`. The lemmas about single record
updates come first, then one lemma per group of actions.

IncidentDelivery. `DeliveryInvariance` proves `IInv`: `RowMatchesNotices` (the
row an incident's requests are decided from agrees with what was enqueued),
`CallsCarryInput` and `FreshRowsUncounted` (a row without a notice has no
repeats, so the first notice starts at 0). `FiredRow` and `ResolvedRow` carry
one incident's row from claim to claim, `NotHeldBack` says what the decision
`HeldBack` guarantees. `RowInStep`, `NoticesCapped`, `NoticesSpaced` and
`RecoveriesFollow` follow.

Outbox. `OutboxInvariant` proves `Inv` for one process (`OneProcess`). That
hypothesis is needed: with two, a process that boots requeues what the other is
sending (the run `outbox_two_processes`, against the comment at `worker.go:31`),
and TLC finds `TypeOK`, `DuplicatesNeedCrashes`, `GivenUpAfterAllAttempts` and
`RateBudget` all violated on that run's instance. So the theorems say what is
left for a server that runs alone. `HandShape` says what the worker holds at
each point of its loop, `HandFresh` that the copies of rows in its hand are not
stale, so that the attempts written from them count. `DuplicatesPaid`: a row
that may be sent (again) has been accepted at most once per death.
`BudgetReserved`: between the worker's check of the budget and its mark, the
place it found free stays free. `OutboxSettled` adds, as an action property that
no run checks, that sent and given up are final.

Digests. `DigestInvariance` proves `IInv`. `ToldOnce` and `SummaryComplete` look
at summaries only, but a summary is written from a claim read a transaction
earlier: `ClaimsApart` says that the claimed batch is flushed (so no upsert
changes it), still as it was read, not summarised, and no other flusher's;
`SummariesOfFlushed` that a batch has at most one summary, its own content;
`EventsInTheirWindow` that an event is in batches of one window; `FlushedAreOver`
that a flush with an old time stamp never closes the present window, from which
`InTimeIsKept` follows. Results: `EventsToldOnce`, `SummariesComplete`,
`InTimeEventsKept`.

AddServer. `WizardInvariance` proves `WizardInv`. `MadeOnce` is not inductive: the
handler makes a server because the wizard knows of none, so `NothingToSpare` says
that whenever it is about to make one, or could start to, all that exist belong to
calls that failed. Results: `NothingMadeTwice` and, as an action property,
`FoundStaysFound`.

DatabaseBrowser. `BrowserInvariance` proves `BrowserInv`. Register takes its names
from the ticks and its server from the selection; that they fit follows from
`TicksAreListed` (ticks are on the list shown) and `OpsOfPicked` (until a server is
picked during a call, list and calls under way are the selected server's).
`OneRegister` ties the busy button to the one handler that runs. Results:
`PatientIsRight`, `TicksAndRegisters`.

RuleForm. `RuleInvariance` proves `RuleInv`: an open form shows, of every field
its user has not touched, the value of the row it was opened from (`FormOK`),
and a PATCH body carries of those fields what that row had (`PatchOK`).
`EditsSpareTheRest` follows for saves that nobody disturbs.

Sessions. The proof is in layers, each resting on the ones before.
`TableInv` is the table's own: tokens are numbered in order of issue, a login has
one usable token or one refresh that has claimed it, never both; every statement
is one of four kinds of step (`Weakens`, `Claims`, `Replaces`, `Begins`), so that
its preservation and the refinement are proved once for the kinds and not for the
clients' actions. From it follow `SessionOneToken` and `SessionRotation`: the
initial states of `Sessions` map to those of `TokenRotation`, and every step of
tabs and phone to a step or a stutter of each login. `Base` adds the types of the
clients, that the tokens they hold were stored (`HeldByWeb`, `HeldByPhone`), and
that the device not chosen is away. On `Base` rest: `PhoneTidy` (which keychain
entries are gone at each step of hydrate and logout) for `SessionSignedOut`;
what a phone to which nothing has happened holds, that is the login's last token
in the keychain or in its one promise, for `SessionNoSelfReuse`; for the browser,
that a jar without a refresh under way holds the login's last token and that an
undisturbed logout still carries it, for `SessionLogout`; and for
`SessionSurvives`, that as long as nothing failed the login has a usable token or
a claim that will replace it, whatever the losers of the race revoke.

Pages. The four tables are data, and the theorems about pages hold because of
what is in them: `BackupTable`, `SettingsTable`, `ServerTable` and `PhoneTable`
prove, row by row, that a control that only some roles see is granted to them by
its route, that a flag kept in a dialog belongs to a control that has one, and
that every panel shows a failure in one of the known ways; `SituationSound`
carries this to the controls the machine uses. An edited row that breaks one of them fails here, and without exploring states.
`PageBaseHolds` proves `PageBase`: types, versions bounded by the calls and
events spent, calls and dialogs of the page's own controls. `RestIsCurrent`
needs `ShownInTime`: once a call that reloads has been answered, the panel shows
its change, or loads, or does not claim to be up to date, and no load already
served will take the change away (`Current`), which every kind of panel step
preserves (`PanelStep`). `BusyControlsWork` needs `BusyInv`: what is not mounted
has neither flags nor a dialog, every flag is that of a call of the present mount
whose handler is still to end, and the call a dialog waits for is not answered
yet. A failed call, a failed reload, a failed read-back, a dialog closed under a
call and a skeleton that unmounts the tabs each have to leave it intact.
`NoneSubmittedTwice` needs `FlagsApart`: on a page
whose controls look at their flags, the flag of a call under way is up for as
long as the page stays open, and no two calls of one visit share it.

Only model-checked: the liveness properties `OrphansFinish`, `EveryRowSettles`,
`BatchedIsTold`, `RequestsSettle`, `AppStarts`, `OwnChangeShown` and
`AgentNoticed`, as the prover does not reason about fairness. The properties of
the five violation runs are false and have no theorems.

## 5. Not modelled, and the plan

Not modelled at all: components without state of their own (containers,
databases, host files, monitoring proxies), the metrics agent. Of the clients:
the dashboard, telemetry and project pages of the web client, which draw polled
data; the terminal, the log viewer and the progress of deployments, which follow
streams of components that are not modelled; the phone's push registration; all
drawing and formatting. Of the sessions: the rate limit of logins, accounts.

Next, in this order:

1. `RestorePoints`: registration of artifacts and chunks
   (`vgbackup_agent.go:819-973`), automatic and manual verification
   (`scheduler.go:529-616`, `vgbackup_mgmt.go:1956-2012`), restores
   (`vgbackup_mgmt.go:2084-2178`, `vgbackup_agent.go:1045-1186`) against the
   deletes of retention (`scheduler.go:415-520`). To check: one pending restore
   per target, handed out once, in order; expired points go in the end;
   retention against a restore created after its check; the batch limit of
   verification.
2. `Alerting` with the rules engine (`alerting.go`, `rules/engine.go`,
   `condition.go`): one open alert per condition, offline against heartbeats,
   claims of cooldowns; it composes with `IncidentDelivery` as its producer.
3. `Streams`: the exec console with its single-use grant and the terminal, the
   log viewer, and `DeployProgress` against the operations of the server.
4. `Enrollment` and `BackupPolicies`: tokens used once, deletion of a policy
   under a running tick.
5. `Operations`: operations and deployments with recovery after a crash;
   transfers; health checks.
6. Pure algorithms as operators, checked against reference definitions in one
   run: condition evaluation, transition tables, path containment, quiet hours.

Composition: an abstract `Delivery` specification (every notice decided is
sent, digested or given up) that `IncidentDelivery` with `Outbox` and `Digests`
implements. Its refinement, and the safety properties of each component above,
are to be proved as the present ones are.
