-------------------------------- MODULE Outbox --------------------------------
(***************************************************************************)
(* The delivery worker (package delivery, worker.go): rows of              *)
(* delivery_outbox are claimed in batches, sent one by one behind a        *)
(* circuit breaker and an hourly budget, retried, deferred or given up.    *)
(*                                                                         *)
(* One worker per server process.  Every statement on the database is a    *)
(* step of its own; a process may die between any two, and every boot puts *)
(* rows found in 'sending' back to 'pending' (RequeueStale).               *)
(*                                                                         *)
(* Time is abstracted: a row becomes due, an open circuit's period ends, a *)
(* sent row leaves the trailing hour, each at some time.  Drain does not   *)
(* look at the emergency pause (only Dispatch does), so it has no place    *)
(* here.                                                                   *)
(***************************************************************************)
EXTENDS Integers, FiniteSets

CONSTANTS
    RowIds,             \* ids of outbox rows
    Channels,
    Workers,            \* one per server process
    MaxAttempts,
    CircuitThreshold,
    ClaimBatchSize,
    Budget,             \* messages per hour and channel (BudgetFor)
    MaxCrashes,         \* bound on the deaths of processes
    MaxFaults           \* bound on failed writes

ASSUME OutboxAssumption ==
    /\ IsFiniteSet(RowIds)
    /\ MaxAttempts \in Nat \ {0}
    /\ CircuitThreshold \in Nat \ {0}
    /\ ClaimBatchSize \in Nat \ {0}
    /\ Budget \in Nat \ {0}
    /\ MaxCrashes \in Nat
    /\ MaxFaults \in Nat

Statuses == {"absent", "pending", "sending", "sent", "failed", "deferred"}

\* due: next_retry_at has come; recent: sent_at is within the trailing hour.
Row == [status : Statuses, channel : Channels, attempts : 0..MaxAttempts,
        due : BOOLEAN, recent : BOOLEAN]

\* A claimed row as the worker read it (outboxRow).
Claim == [id : RowIds, attempts : 0..MaxAttempts]

PCs == {"down", "idle", "drain", "circuit", "budget", "defer", "send",
        "accepted", "markSent", "rejected", "trip", "markFailed"}

VARIABLES
    outbox,     \* [RowIds -> Row]
    breaker,    \* [Channels -> [failures, open]]: delivery_provider_state
    worker,     \* [Workers -> [pc, batch, cur, failures]]
    accepted,   \* history: how often the provider accepted a row
    crashes,    \* number of deaths so far
    faults      \* number of failed writes so far

vars == <<outbox, breaker, worker, accepted, crashes, faults>>

Down == [pc |-> "down", batch |-> {}, cur |-> {}, failures |-> 0]

TypeOK ==
    /\ outbox \in [RowIds -> Row]
    /\ breaker \in [Channels -> [failures : Nat, open : BOOLEAN]]
    /\ worker \in [Workers -> [pc : PCs, batch : SUBSET Claim,
                               cur : SUBSET Claim, failures : Nat]]
    /\ accepted \in [RowIds -> Nat]
    /\ crashes \in 0..MaxCrashes
    /\ faults \in 0..MaxFaults

Init ==
    /\ \E c \in [RowIds -> Channels] :
          outbox = [i \in RowIds |->
                      [status |-> "absent", channel |-> c[i], attempts |-> 0,
                       due |-> TRUE, recent |-> FALSE]]
    /\ breaker = [c \in Channels |-> [failures |-> 0, open |-> FALSE]]
    /\ worker = [w \in Workers |-> Down]
    /\ accepted = [i \in RowIds |-> 0]
    /\ crashes = 0
    /\ faults = 0

-----------------------------------------------------------------------------
(* Producers.                                                              *)

\* Dispatch and FlushDigests insert rows, pending and due at once.
Enqueue(i) ==
    /\ outbox[i].status = "absent"
    /\ outbox' = [outbox EXCEPT ![i].status = "pending"]
    /\ UNCHANGED <<breaker, worker, accepted, crashes, faults>>

-----------------------------------------------------------------------------
(* The worker.                                                             *)

\* Mutant: rows left in 'sending' are not put back.
BootWithoutRequeue(w) ==
    /\ worker[w].pc = "down"
    /\ worker' = [worker EXCEPT ![w].pc = "idle"]
    /\ UNCHANGED <<outbox, breaker, accepted, crashes, faults>>

\* Boot: RequeueStale, then the loop starts.
Boot(w) ==
    /\ worker[w].pc = "down"
    /\ outbox' = [i \in RowIds |->
                    IF outbox[i].status = "sending"
                    THEN [outbox[i] EXCEPT !.status = "pending"] ELSE outbox[i]]
    /\ worker' = [worker EXCEPT ![w].pc = "idle"]
    /\ UNCHANGED <<breaker, accepted, crashes, faults>>

Crash(w) ==
    /\ worker[w].pc # "down"
    /\ crashes < MaxCrashes
    /\ crashes' = crashes + 1
    /\ worker' = [worker EXCEPT ![w] = Down]
    /\ UNCHANGED <<outbox, breaker, accepted, faults>>

\* Mutant: failed rows are picked up again.
DueRowsFailedToo ==
    {i \in RowIds : outbox[i].status \in {"pending", "deferred", "failed"}
                    /\ outbox[i].due}

DueRows ==
    {i \in RowIds : outbox[i].status \in {"pending", "deferred"} /\ outbox[i].due}

\* claimDue: lock up to ClaimBatchSize due rows and mark them sending, in one
\* transaction; which ones come first is left open.
ClaimDue(w, S) ==
    /\ worker[w].pc = "idle"
    /\ S \subseteq DueRows
    /\ Cardinality(S) <= ClaimBatchSize
    /\ Cardinality(S) = ClaimBatchSize \/ S = DueRows
    /\ outbox' = [i \in RowIds |-> IF i \in S
                                   THEN [outbox[i] EXCEPT !.status = "sending"]
                                   ELSE outbox[i]]
    /\ worker' = [worker EXCEPT ![w] =
          [pc |-> "drain", cur |-> {}, failures |-> 0,
           batch |-> {[id |-> i, attempts |-> outbox[i].attempts] : i \in S}]]
    /\ UNCHANGED <<breaker, accepted, crashes, faults>>

\* sendOne for the next row of the batch.
NextRow(w, x) ==
    /\ worker[w].pc = "drain"
    /\ worker' = [worker EXCEPT ![w] =
          [pc |-> "circuit", cur |-> {x}, failures |-> 0,
           batch |-> worker[w].batch \ {x}]]
    /\ UNCHANGED <<outbox, breaker, accepted, crashes, faults>>

DrainDone(w) ==
    /\ worker[w].pc = "drain"
    /\ worker[w].batch = {}
    /\ worker' = [worker EXCEPT ![w].pc = "idle"]
    /\ UNCHANGED <<outbox, breaker, accepted, crashes, faults>>

Go(w, pc) == worker' = [worker EXCEPT ![w].pc = pc]
Done(w) == worker' = [worker EXCEPT ![w] = [@ EXCEPT !.pc = "drain", !.cur = {}]]

\* circuitOpen
CheckCircuit(w, x) ==
    /\ worker[w].pc = "circuit"
    /\ Go(w, IF breaker[outbox[x.id].channel].open THEN "defer" ELSE "budget")
    /\ UNCHANGED <<outbox, breaker, accepted, crashes, faults>>

SentLately(c) ==
    {i \in RowIds : outbox[i].channel = c /\ outbox[i].status = "sent"
                    /\ outbox[i].recent}

\* Mutant: off by one in the comparison with the budget.
BudgetUsedUpLate(c) == Cardinality(SentLately(c)) > Budget

BudgetUsedUp(c) == Cardinality(SentLately(c)) >= Budget

CheckBudget(w, x) ==
    /\ worker[w].pc = "budget"
    /\ Go(w, IF BudgetUsedUp(outbox[x.id].channel) THEN "defer" ELSE "send")
    /\ UNCHANGED <<outbox, breaker, accepted, crashes, faults>>

\* The circuit is open or the budget used up: the row waits, uncounted.  The
\* overflow event of the second case (recordOverflow) is a request of Digests.
Defer(w, x) ==
    /\ worker[w].pc = "defer"
    /\ outbox' = [outbox EXCEPT ![x.id] = [@ EXCEPT !.status = "deferred", !.due = FALSE]]
    /\ Done(w)
    /\ UNCHANGED <<breaker, accepted, crashes, faults>>

\* The provider takes the message, or does not.
ProviderAccepts(w, x) ==
    /\ worker[w].pc = "send"
    /\ accepted' = [accepted EXCEPT ![x.id] = @ + 1]
    /\ Go(w, "accepted")
    /\ UNCHANGED <<outbox, breaker, crashes, faults>>

ProviderFails(w, x) ==
    /\ worker[w].pc = "send"
    /\ Go(w, "rejected")
    /\ UNCHANGED <<outbox, breaker, accepted, crashes, faults>>

CloseCircuit(w, x) ==
    /\ worker[w].pc = "accepted"
    /\ breaker' = [breaker EXCEPT ![outbox[x.id].channel] =
                      [failures |-> 0, open |-> FALSE]]
    /\ Go(w, "markSent")
    /\ UNCHANGED <<outbox, accepted, crashes, faults>>

\* Mutant: a sent row is put back as if it had to be retried.
MarkSentNot(w, x) ==
    /\ worker[w].pc = "markSent"
    /\ outbox' = [outbox EXCEPT ![x.id] = [@ EXCEPT !.status = "pending"]]
    /\ Done(w)
    /\ UNCHANGED <<breaker, accepted, crashes, faults>>

MarkSent(w, x) ==
    /\ worker[w].pc = "markSent"
    /\ outbox' = [outbox EXCEPT ![x.id] =
          [@ EXCEPT !.status = "sent", !.recent = TRUE,
                    !.attempts = outbox[x.id].attempts + 1]]
    /\ Done(w)
    /\ UNCHANGED <<breaker, accepted, crashes, faults>>

\* openCircuit reads the number of failures in a row ...
ReadFailures(w, x) ==
    /\ worker[w].pc = "rejected"
    /\ worker' = [worker EXCEPT ![w] =
          [@ EXCEPT !.pc = "trip",
                    !.failures = breaker[outbox[x.id].channel].failures + 1]]
    /\ UNCHANGED <<outbox, breaker, accepted, crashes, faults>>

\* ... and writes it back, opening the circuit at the threshold.
OpenCircuit(w, x) ==
    /\ worker[w].pc = "trip"
    /\ breaker' = [breaker EXCEPT ![outbox[x.id].channel] =
                      [failures |-> worker[w].failures,
                       open |-> worker[w].failures >= CircuitThreshold]]
    /\ Go(w, "markFailed")
    /\ UNCHANGED <<outbox, accepted, crashes, faults>>

\* Mutant: the row is given up one attempt too early.
RetryAllowedEarlier(x) == x.attempts + 2 < MaxAttempts

RetryAllowed(x) == x.attempts + 1 < MaxAttempts

\* fail: retry later, or give up after MaxAttempts.
MarkFailed(w, x) ==
    /\ worker[w].pc = "markFailed"
    /\ outbox' = [outbox EXCEPT ![x.id] =
          [@ EXCEPT !.status = IF RetryAllowed(x) THEN "pending" ELSE "failed",
                    !.due = ~RetryAllowed(x),
                    !.attempts = outbox[x.id].attempts + 1]]
    /\ Done(w)
    /\ UNCHANGED <<breaker, accepted, crashes, faults>>

\* The UPDATE that ends sendOne fails; its error is ignored.
UpdateFails(w, x) ==
    /\ worker[w].pc \in {"defer", "markSent", "markFailed"}
    /\ faults < MaxFaults
    /\ faults' = faults + 1
    /\ Done(w)
    /\ UNCHANGED <<outbox, breaker, accepted, crashes>>

SendOne(w, x) ==
    \/ CheckCircuit(w, x) \/ CheckBudget(w, x) \/ Defer(w, x)
    \/ ProviderAccepts(w, x) \/ ProviderFails(w, x)
    \/ CloseCircuit(w, x) \/ MarkSent(w, x)
    \/ ReadFailures(w, x) \/ OpenCircuit(w, x) \/ MarkFailed(w, x)

WorkerNext(w) ==
    \/ Boot(w)
    \/ \E S \in SUBSET DueRows : ClaimDue(w, S)
    \/ \E x \in worker[w].batch : NextRow(w, x)
    \/ \E x \in worker[w].cur : SendOne(w, x)
    \/ DrainDone(w)

-----------------------------------------------------------------------------
(* Time.                                                                   *)

BecomesDue(i) ==
    /\ outbox[i].status \in {"pending", "deferred"}
    /\ ~outbox[i].due
    /\ outbox' = [outbox EXCEPT ![i].due = TRUE]
    /\ UNCHANGED <<breaker, worker, accepted, crashes, faults>>

CircuitElapses(c) ==
    /\ breaker[c].open
    /\ breaker' = [breaker EXCEPT ![c].open = FALSE]
    /\ UNCHANGED <<outbox, worker, accepted, crashes, faults>>

HourPasses(i) ==
    /\ outbox[i].recent
    /\ outbox' = [outbox EXCEPT ![i].recent = FALSE]
    /\ UNCHANGED <<breaker, worker, accepted, crashes, faults>>

Next ==
    \/ \E i \in RowIds : Enqueue(i) \/ BecomesDue(i) \/ HourPasses(i)
    \/ \E w \in Workers : \/ WorkerNext(w) \/ Crash(w)
                          \/ \E x \in worker[w].cur : UpdateFails(w, x)
    \/ \E c \in Channels : CircuitElapses(c)

Spec == Init /\ [][Next]_vars

\* A process that is down is started again, the loop ticks, and time passes.
LiveSpec ==
    /\ Spec
    /\ \A w \in Workers : WF_vars(WorkerNext(w))
    /\ \A i \in RowIds : WF_vars(BecomesDue(i)) /\ WF_vars(HourPasses(i))
    /\ \A c \in Channels : WF_vars(CircuitElapses(c))

-----------------------------------------------------------------------------
(* Properties of one process that may die and be restarted at any step.    *)

\* The provider gets a message again only if the process died after sending it
\* and before recording that: n deaths cause at most n duplicates in all.
DuplicatesNeedCrashes == \A i \in RowIds : accepted[i] <= 1 + crashes

\* A row is given up exactly when MaxAttempts sends of it have failed, and a
\* deferral or a death never uses up an attempt.
GivenUpAfterAllAttempts ==
    \A i \in RowIds :
        /\ outbox[i].status = "failed" => outbox[i].attempts = MaxAttempts
        /\ outbox[i].status \in {"pending", "deferred", "sending"}
              => outbox[i].attempts < MaxAttempts

\* At most Budget messages of the trailing hour are marked sent per channel.
RateBudget == \A c \in Channels : Cardinality(SentLately(c)) <= Budget

\* Every message that was enqueued is sent or given up in the end, however
\* retries, deferrals, an open circuit, a used-up budget and deaths of the
\* process interfere, unless an update of the worker failed: then the row may
\* stay in 'sending'.
EveryRowSettles ==
    \A i \in RowIds :
        outbox[i].status = "pending"
        ~> (outbox[i].status \in {"sent", "failed"} \/ faults > 0)

-----------------------------------------------------------------------------
(* Several processes.                                                      *)

Holds(w, i) == \E x \in worker[w].batch \cup worker[w].cur : x.id = i

\* "two workers never send the same row" (StartLoop): no two workers have the
\* same row in hand.
OneSenderPerRow ==
    \A i \in RowIds, v, w \in Workers : Holds(v, i) /\ Holds(w, i) => v = w
=============================================================================
