------------------------------- MODULE Digests -------------------------------
(***************************************************************************)
(* Digest batches (package delivery): appendDigest and recordOverflow add  *)
(* events to the open batch of their window, FlushDigests turns each batch *)
(* whose window has passed into one summary row of the outbox.             *)
(*                                                                         *)
(* An event's window follows from the time its request (or the worker's    *)
(* pass) started at; the upsert comes later.  A flush marks its batches    *)
(* 'flushed' in one transaction and inserts the summaries after the        *)
(* commit, one by one, errors ignored.                                     *)
(*                                                                         *)
(* Time is counted in windows: a request made in window w belongs to the   *)
(* batch that is due from window w + 1 on.                                 *)
(***************************************************************************)
EXTENDS Integers, FiniteSets, Sequences

CONSTANTS
    DigestKeys,     \* digest_key: rule, label values and channel, or overflow
    Events,
    KeysOf,         \* [Events -> the batches' keys, one per channel]
    Flushers,       \* one worker loop per server process
    FlushLimit,     \* LIMIT 25 of the flush query
    MaxWindow,      \* bound on time
    MaxLosses       \* bound on deaths and failed inserts of flushers

ASSUME DigestsAssumption ==
    /\ IsFiniteSet(DigestKeys)
    /\ KeysOf \in [Events -> SUBSET DigestKeys]
    /\ FlushLimit \in Nat \ {0}
    /\ MaxWindow \in Nat
    /\ MaxLosses \in Nat

Windows == 0..MaxWindow
BatchIds == DigestKeys \X Windows     \* the unique (digest_key, window_end)

\* A batch as the flush query returned it (digestBatch).
Claim == [id : BatchIds, events : SUBSET Events]

VARIABLES
    now,        \* the current window
    request,    \* [Events -> [pc, window, appended]]; appended: when
    batch,      \* [BatchIds -> [status, events]]: digest_batches
    flusher,    \* [Flushers -> [pc, ts, claims]]
    summaries,  \* [BatchIds -> sequence of the summaries queued]
    losses      \* number of deaths and failed inserts so far

vars == <<now, request, batch, flusher, summaries, losses>>

Idle == [pc |-> "idle", ts |-> 0, claims |-> {}]

TypeOK ==
    /\ now \in Windows
    /\ request \in [Events -> [pc : {"new", "stamped", "digested", "error"},
                               window : Windows, appended : Windows]]
    /\ batch \in [BatchIds -> [status : {"absent", "open", "flushed"},
                               events : SUBSET Events]]
    /\ flusher \in [Flushers -> [pc : {"idle", "claim", "insert"},
                                 ts : Windows, claims : SUBSET Claim]]
    /\ summaries \in [BatchIds -> Seq(SUBSET Events)]
    /\ losses \in 0..MaxLosses

Init ==
    /\ now = 0
    /\ request = [e \in Events |->
                    [pc |-> "new", window |-> 0, appended |-> 0]]
    /\ batch = [b \in BatchIds |-> [status |-> "absent", events |-> {}]]
    /\ flusher = [f \in Flushers |-> Idle]
    /\ summaries = [b \in BatchIds |-> <<>>]
    /\ losses = 0

-----------------------------------------------------------------------------
(* Requests.                                                               *)

\* Dispatch, or Drain for an overflow event, takes its time stamp.
Stamp(e) ==
    /\ request[e].pc = "new"
    /\ request' = [request EXCEPT ![e] = [@ EXCEPT !.pc = "stamped",
                                                   !.window = now]]
    /\ UNCHANGED <<now, batch, flusher, summaries, losses>>

\* Mutant: the upsert's WHERE status = 'open' is missing.
UpsertedAnyway(b, e) == [status |-> IF b.status = "absent" THEN "open" ELSE b.status,
                         events |-> b.events \cup {e}]

\* INSERT ... ON CONFLICT DO UPDATE ... WHERE status = 'open'.
Upserted(b, e) ==
    IF b.status = "flushed" THEN b
    ELSE [status |-> "open", events |-> b.events \cup {e}]

\* appendDigest: one upsert per channel in the claim's transaction (one
\* statement for recordOverflow).  The request is answered "digested".
AppendDigest(e) ==
    /\ request[e].pc = "stamped"
    /\ batch' = [b \in BatchIds |->
                    IF b[1] \in KeysOf[e] /\ b[2] = request[e].window
                    THEN Upserted(batch[b], e) ELSE batch[b]]
    /\ request' = [request EXCEPT ![e] = [@ EXCEPT !.pc = "digested",
                                                   !.appended = now]]
    /\ UNCHANGED <<now, flusher, summaries, losses>>

\* The transaction is rolled back, or the process dies before it commits.
AppendFails(e) ==
    /\ request[e].pc = "stamped"
    /\ request' = [request EXCEPT ![e].pc = "error"]
    /\ UNCHANGED <<now, batch, flusher, summaries, losses>>

-----------------------------------------------------------------------------
(* FlushDigests.                                                           *)

\* ts := now().
FlushStart(f) ==
    /\ flusher[f].pc = "idle"
    /\ flusher' = [flusher EXCEPT ![f] = [@ EXCEPT !.pc = "claim", !.ts = now]]
    /\ UNCHANGED <<now, request, batch, summaries, losses>>

\* Mutant: a batch is due within its own window.
DueEarly(ts) == {b \in BatchIds : batch[b].status = "open" /\ b[2] <= ts}

\* Mutant: batches that were flushed already are due again.
DueAgain(ts) == {b \in BatchIds : batch[b].status # "absent" /\ b[2] < ts}

\* Mutant: window_end < ts, with a clock that stands at window_end.
DueLate(ts) == {b \in BatchIds : batch[b].status = "open" /\ b[2] + 1 < ts}

\* status = 'open' AND window_end <= ts.
Due(ts) == {b \in BatchIds : batch[b].status = "open" /\ b[2] < ts}

\* S is a result of ORDER BY window_end LIMIT.
OldestDue(S, ts) ==
    /\ S \subseteq Due(ts)
    /\ Cardinality(S) <= FlushLimit
    /\ \/ S = Due(ts)
       \/ Cardinality(S) = FlushLimit
    /\ \A b \in S, c \in Due(ts) \ S : b[2] <= c[2]

\* The transaction that reads the due batches and marks them flushed.
FlushClaim(f, S) ==
    /\ flusher[f].pc = "claim"
    /\ OldestDue(S, flusher[f].ts)
    /\ batch' = [b \in BatchIds |->
                    IF b \in S THEN [batch[b] EXCEPT !.status = "flushed"]
                    ELSE batch[b]]
    /\ flusher' = [flusher EXCEPT ![f] =
                      [@ EXCEPT !.pc = "insert",
                                !.claims = {[id |-> b, events |-> batch[b].events] :
                                               b \in S}]]
    /\ UNCHANGED <<now, request, summaries, losses>>

\* After the commit: one outbox row per batch.
FlushInsert(f, x) ==
    /\ flusher[f].pc = "insert"
    /\ summaries' = [summaries EXCEPT ![x.id] = Append(@, x.events)]
    /\ flusher' = [flusher EXCEPT ![f].claims = @ \ {x}]
    /\ UNCHANGED <<now, request, batch, losses>>

\* The INSERT fails; its error is ignored.
FlushInsertFails(f, x) ==
    /\ flusher[f].pc = "insert"
    /\ losses < MaxLosses
    /\ losses' = losses + 1
    /\ flusher' = [flusher EXCEPT ![f].claims = @ \ {x}]
    /\ UNCHANGED <<now, request, batch, summaries>>

FlushDone(f) ==
    /\ flusher[f].pc = "insert"
    /\ flusher[f].claims = {}
    /\ flusher' = [flusher EXCEPT ![f] = Idle]
    /\ UNCHANGED <<now, request, batch, summaries, losses>>

FlushStep(f) ==
    \/ FlushStart(f)
    \/ \E S \in SUBSET Due(flusher[f].ts) : FlushClaim(f, S)
    \/ \E x \in flusher[f].claims : FlushInsert(f, x)
    \/ FlushDone(f)

\* The process dies; what it claimed stays flushed.
FlusherDies(f) ==
    /\ flusher[f].pc # "idle"
    /\ losses < MaxLosses
    /\ losses' = losses + 1
    /\ flusher' = [flusher EXCEPT ![f] = Idle]
    /\ UNCHANGED <<now, request, batch, summaries>>

-----------------------------------------------------------------------------
ClockTick ==
    /\ now < MaxWindow
    /\ now' = now + 1
    /\ UNCHANGED <<request, batch, flusher, summaries, losses>>

Next ==
    \/ \E e \in Events : Stamp(e) \/ AppendDigest(e) \/ AppendFails(e)
    \/ \E f \in Flushers :
          \/ FlushStep(f) \/ FlusherDies(f)
          \/ \E x \in flusher[f].claims : FlushInsertFails(f, x)
    \/ ClockTick

Spec == Init /\ [][Next]_vars

\* The loop of StartLoop keeps ticking, and time passes.
LiveSpec ==
    /\ Spec
    /\ \A f \in Flushers : WF_vars(FlushStep(f))
    /\ WF_vars(ClockTick)

-----------------------------------------------------------------------------
(* Properties.                                                             *)

\* An event is told of at most once per channel: no batch is summarised twice,
\* though several processes flush at once and die between commit and insert,
\* and no event is in two batches of one key.
ToldOnce ==
    \A e \in Events, k \in DigestKeys :
        LET In(w) == {i \in 1..Len(summaries[<<k, w>>]) :
                         e \in summaries[<<k, w>>][i]}
        IN  \A v, w \in Windows : \A i \in In(v), j \in In(w) : v = w /\ i = j

\* A summary tells of everything its batch holds: no event joins a batch that
\* was already read by a flush.
SummaryComplete ==
    \A b \in BatchIds : \A i \in 1..Len(summaries[b]) :
        summaries[b][i] = batch[b].events

\* An event answered "digested" within its own window is in the batch of every
\* one of its channels, however far a flush with an older time stamp has got.
InTimeIsKept ==
    \A e \in Events :
        request[e].pc = "digested" /\ request[e].appended = request[e].window
        => \A k \in KeysOf[e] : e \in batch[<<k, request[e].window>>].events

\* An event in a batch whose window ends is told of, the LIMIT of a flush
\* notwithstanding, unless a flusher died or an insert failed.
BatchedIsTold ==
    \A e \in Events, b \in BatchIds :
        (e \in batch[b].events /\ b[2] < MaxWindow)
        ~> (losses > 0 \/ \E i \in 1..Len(summaries[b]) : e \in summaries[b][i])

-----------------------------------------------------------------------------
(* The inductive invariant of the proofs.                                  *)

\* A batch is summarised once it is flushed, once, and as it is.
SummariesOfFlushed ==
    \A b \in BatchIds :
        /\ batch[b].status # "flushed" => summaries[b] = <<>>
        /\ summaries[b] = <<>> \/ summaries[b] = <<batch[b].events>>

\* A batch that a flusher is about to summarise is flushed, is still as it was
\* read, and nobody else has it or has summarised it.
ClaimsApart ==
    \A f \in Flushers : \A x \in flusher[f].claims :
        /\ batch[x.id].status = "flushed"
        /\ batch[x.id].events = x.events
        /\ summaries[x.id] = <<>>
        /\ \A g \in Flushers : \A y \in flusher[g].claims :
              y.id = x.id => g = f /\ y = x

\* An event is in batches of its own window only.
EventsInTheirWindow ==
    \A b \in BatchIds : \A e \in batch[b].events :
        request[e].pc = "digested" /\ request[e].window = b[2]

\* Only windows that are over are flushed.
FlushedAreOver ==
    /\ \A f \in Flushers : flusher[f].ts <= now
    /\ \A b \in BatchIds : batch[b].status = "flushed" => b[2] < now

IInv ==
    /\ TypeOK
    /\ SummariesOfFlushed
    /\ ClaimsApart
    /\ EventsInTheirWindow
    /\ FlushedAreOver
    /\ InTimeIsKept
=============================================================================
