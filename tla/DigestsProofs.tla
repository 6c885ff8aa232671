---------------------------- MODULE DigestsProofs ----------------------------
(***************************************************************************)
(* Proofs about Digests, for any keys, events, flushers, windows, LIMIT    *)
(* and number of losses.                                                   *)
(***************************************************************************)
EXTENDS Digests, TLAPS

USE DigestsAssumption

RequestState == [pc : {"new", "stamped", "digested", "error"},
                 window : Windows, appended : Windows]
BatchState == [status : {"absent", "open", "flushed"}, events : SUBSET Events]
FlusherState == [pc : {"idle", "claim", "insert"}, ts : Windows, claims : SUBSET Claim]

LEMMA Types ==
    TypeOK <=> /\ now \in Windows
               /\ request \in [Events -> RequestState]
               /\ batch \in [BatchIds -> BatchState]
               /\ flusher \in [Flushers -> FlusherState]
               /\ summaries \in [BatchIds -> Seq(SUBSET Events)]
               /\ losses \in 0..MaxLosses
BY DEF TypeOK, RequestState, BatchState, FlusherState

LEMMA IdleType == Idle \in FlusherState /\ Idle.claims = {} /\ Idle.ts = 0
BY DEF Idle, FlusherState, Windows

LEMMA ClaimFields ==
    ASSUME NEW x \in Claim PROVE x.id \in BatchIds /\ x.events \in SUBSET Events
BY DEF Claim

\* The upsert leaves a flushed batch alone and adds the event to any other.
LEMMA UpsertedFacts ==
    ASSUME NEW b \in BatchState, NEW e \in Events
    PROVE  /\ Upserted(b, e) \in BatchState
           /\ b.status = "flushed" => Upserted(b, e) = b
           /\ b.status # "flushed" => /\ Upserted(b, e).status = "open"
                                      /\ Upserted(b, e).events = b.events \cup {e}
BY DEF Upserted, BatchState

LEMMA Starts == Init => IInv
<1> SUFFICES ASSUME Init PROVE IInv
  OBVIOUS
<1>1. TypeOK
  <2>1. request \in [Events -> RequestState]
    BY DEF Init, RequestState, Windows
  <2>2. batch \in [BatchIds -> BatchState]
    BY DEF Init, BatchState
  <2>3. flusher \in [Flushers -> FlusherState]
    BY IdleType DEF Init
  <2> QED BY <2>1, <2>2, <2>3, Types DEF Init, Windows
<1>2. SummariesOfFlushed /\ EventsInTheirWindow
  BY DEF Init, SummariesOfFlushed, EventsInTheirWindow
<1>3. ClaimsApart
  BY IdleType DEF Init, ClaimsApart
<1>4. FlushedAreOver
  BY IdleType DEF Init, FlushedAreOver
<1>5. InTimeIsKept
  BY DEF Init, InTimeIsKept
<1> QED BY <1>1, <1>2, <1>3, <1>4, <1>5 DEF IInv

\* Stamp and AppendFails: a request whose event is in no batch.
LEMMA RequestKeeps ==
    ASSUME IInv, NEW e \in Events, Stamp(e) \/ AppendFails(e)
    PROVE  IInv'
<1>1. request[e] \in RequestState /\ request \in [Events -> RequestState]
        /\ request[e].pc # "digested" /\ now \in Windows
        /\ UNCHANGED <<now, batch, flusher, summaries, losses>>
  BY Types DEF IInv, Stamp, AppendFails
<1>2. PICK q \in RequestState : request' = [request EXCEPT ![e] = q] /\ q.pc # "digested"
  <2>1. CASE Stamp(e)
    <3> DEFINE q == [request[e] EXCEPT !.pc = "stamped", !.window = now]
    <3>1. q \in RequestState /\ q.pc = "stamped"
      BY <1>1 DEF RequestState
    <3>2. request' = [request EXCEPT ![e] = q]
      BY <2>1 DEF Stamp
    <3> HIDE DEF q
    <3> QED BY <3>1, <3>2
  <2>2. CASE AppendFails(e)
    <3> DEFINE q == [request[e] EXCEPT !.pc = "error"]
    <3>1. q \in RequestState /\ q.pc = "error"
      BY <1>1 DEF RequestState
    <3>2. request' = [request EXCEPT ![e] = q]
      BY <2>2 DEF AppendFails
    <3> HIDE DEF q
    <3> QED BY <3>1, <3>2
  <2> QED BY <2>1, <2>2
<1>3. request' \in [Events -> RequestState] /\ request'[e].pc # "digested"
        /\ \A d \in Events : d # e => request'[d] = request[d]
  BY <1>1, <1>2
<1>4. TypeOK'
  BY <1>1, <1>3 DEF IInv, TypeOK, RequestState
<1>5. EventsInTheirWindow'
  <2> SUFFICES ASSUME NEW b \in BatchIds, NEW d \in batch[b].events
               PROVE  request'[d].pc = "digested" /\ request'[d].window = b[2]
    BY <1>1 DEF EventsInTheirWindow
  <2>1. d \in Events
    BY Types DEF IInv, BatchState
  <2>2. request[d].pc = "digested" /\ request[d].window = b[2]
    BY DEF IInv, EventsInTheirWindow
  <2> QED BY <1>1, <1>3, <2>1, <2>2
<1>6. InTimeIsKept'
  BY <1>1, <1>3 DEF IInv, InTimeIsKept
<1>7. SummariesOfFlushed' /\ ClaimsApart' /\ FlushedAreOver'
  BY <1>1 DEF IInv, SummariesOfFlushed, ClaimsApart, FlushedAreOver
<1> QED BY <1>4, <1>5, <1>6, <1>7 DEF IInv

\* The upsert: a flushed batch stays as it is, which is why a claim is still
\* right, and a batch of the present window is not flushed.
LEMMA AppendKeeps ==
    ASSUME IInv, NEW e \in Events, AppendDigest(e)
    PROVE  IInv'
<1>0. /\ request \in [Events -> RequestState] /\ batch \in [BatchIds -> BatchState]
      /\ now \in Windows /\ request[e].pc = "stamped"
      /\ UNCHANGED <<now, flusher, summaries, losses>>
      /\ KeysOf[e] \subseteq DigestKeys
  BY Types DEF IInv, AppendDigest
<1> DEFINE w == request[e].window
           Hit(b) == b[1] \in KeysOf[e] /\ b[2] = w
           q == [request[e] EXCEPT !.pc = "digested", !.appended = now]
<1>1. q \in RequestState /\ q.pc = "digested" /\ q.window = w /\ q.appended = now
  BY <1>0 DEF RequestState
<1>2. request' = [request EXCEPT ![e] = q]
  BY DEF AppendDigest
<1> HIDE DEF q
<1>3. request' \in [Events -> RequestState] /\ request'[e] = q
        /\ \A d \in Events : d # e => request'[d] = request[d]
  BY <1>0, <1>1, <1>2
<1>4. \A b \in BatchIds :
        batch'[b] = IF Hit(b) THEN Upserted(batch[b], e) ELSE batch[b]
  BY DEF AppendDigest
<1>5. \A b \in BatchIds :
        /\ batch'[b] \in BatchState
        /\ batch[b].status = "flushed" => batch'[b] = batch[b]
        /\ batch[b].status # "flushed" => batch'[b].status # "flushed"
        /\ batch[b].events \subseteq batch'[b].events
        /\ \A d \in batch'[b].events : d \in batch[b].events \/ (d = e /\ Hit(b))
        /\ Hit(b) /\ batch[b].status # "flushed" => e \in batch'[b].events
  <2> SUFFICES ASSUME NEW b \in BatchIds
      PROVE /\ batch'[b] \in BatchState
            /\ batch[b].status = "flushed" => batch'[b] = batch[b]
            /\ batch[b].status # "flushed" => batch'[b].status # "flushed"
            /\ batch[b].events \subseteq batch'[b].events
            /\ \A d \in batch'[b].events : d \in batch[b].events \/ (d = e /\ Hit(b))
            /\ Hit(b) /\ batch[b].status # "flushed" => e \in batch'[b].events
    OBVIOUS
  <2> HIDE DEF Hit
  <2>1. CASE Hit(b)
    <3>1. batch[b] \in BatchState /\ batch'[b] = Upserted(batch[b], e)
      BY <1>0, <1>4, <2>1
    <3> QED BY <2>1, <3>1, UpsertedFacts
  <2>2. CASE ~Hit(b)
    BY <1>0, <1>4, <2>2
  <2> QED BY <2>1, <2>2
<1>6. DOMAIN batch' = BatchIds /\ batch' = [b \in BatchIds |-> batch'[b]]
  BY DEF AppendDigest
<1> HIDE DEF Hit
<1>7. TypeOK'
  <2>1. batch' \in [BatchIds -> BatchState]
    BY <1>5, <1>6
  <2> QED BY <1>0, <1>3, <2>1 DEF IInv, TypeOK, RequestState, BatchState
<1>8. SummariesOfFlushed'
  BY <1>0, <1>5 DEF IInv, SummariesOfFlushed
<1>9. ClaimsApart'
  <2>1. \A f \in Flushers : \A x \in flusher[f].claims : x.id \in BatchIds
    BY Types, ClaimFields DEF IInv, FlusherState
  <2> QED BY <1>0, <1>5, <2>1 DEF IInv, ClaimsApart
<1>10. EventsInTheirWindow'
  <2> SUFFICES ASSUME NEW b \in BatchIds, NEW d \in batch'[b].events
               PROVE  request'[d].pc = "digested" /\ request'[d].window = b[2]
    BY DEF EventsInTheirWindow
  <2>1. CASE d \in batch[b].events
    <3>1. d \in Events /\ request[d].pc = "digested" /\ request[d].window = b[2]
      BY <1>0, <2>1 DEF IInv, EventsInTheirWindow, BatchState
    <3> QED BY <1>0, <1>3, <3>1
  <2>2. CASE d = e /\ Hit(b)
    BY <1>1, <1>3, <2>2 DEF Hit
  <2> QED BY <1>5, <2>1, <2>2
<1>11. FlushedAreOver'
  BY <1>0, <1>5 DEF IInv, FlushedAreOver
<1>12. InTimeIsKept'
  <2> SUFFICES ASSUME NEW d \in Events, request'[d].pc = "digested",
                      request'[d].appended = request'[d].window, NEW k \in KeysOf[d]
               PROVE  d \in batch'[<<k, request'[d].window>>].events
    BY DEF InTimeIsKept
  <2>1. CASE d = e
    <3>1. w = now /\ request'[d].window = w /\ w \in Windows
      BY <1>0, <1>1, <1>3, <2>1 DEF RequestState
    <3>2. <<k, w>> \in BatchIds /\ Hit(<<k, w>>)
      BY <1>0, <2>1, <3>1 DEF BatchIds, Hit
    <3>3. batch[<<k, w>>].status # "flushed"
      BY <3>1, <3>2 DEF IInv, FlushedAreOver, Windows
    <3> QED BY <1>5, <2>1, <3>1, <3>2, <3>3
  <2>2. CASE d # e
    <3>1. request'[d] = request[d] /\ request[d].window \in Windows /\ k \in DigestKeys
      BY <1>0, <1>3, <2>2 DEF RequestState
    <3>2. d \in batch[<<k, request[d].window>>].events
      BY <3>1 DEF IInv, InTimeIsKept
    <3>3. <<k, request[d].window>> \in BatchIds
      BY <3>1 DEF BatchIds
    <3> QED BY <1>5, <3>1, <3>2, <3>3
  <2> QED BY <2>1, <2>2
<1> QED BY <1>7, <1>8, <1>9, <1>10, <1>11, <1>12 DEF IInv

\* A step of one flusher that changes nothing but its own record and keeps, or
\* drops, claims it has.
LEMMA FlusherOnly ==
    ASSUME IInv, NEW f \in Flushers, NEW z \in FlusherState,
           flusher' = [flusher EXCEPT ![f] = z],
           z.claims \subseteq flusher[f].claims, z.ts <= now, losses' \in 0..MaxLosses,
           UNCHANGED <<now, request, batch, summaries>>
    PROVE  IInv'
<1>1. flusher' \in [Flushers -> FlusherState] /\ flusher'[f] = z
        /\ \A g \in Flushers : g # f => flusher'[g] = flusher[g]
  BY Types DEF IInv
<1>2. TypeOK'
  BY <1>1 DEF IInv, TypeOK, FlusherState
<1>3. \A g \in Flushers : flusher'[g].claims \subseteq flusher[g].claims
  BY <1>1
<1>4. ClaimsApart'
  BY <1>3 DEF IInv, ClaimsApart
<1>5. FlushedAreOver'
  BY <1>1 DEF IInv, FlushedAreOver
<1>6. SummariesOfFlushed' /\ EventsInTheirWindow' /\ InTimeIsKept'
  BY DEF IInv, SummariesOfFlushed, EventsInTheirWindow, InTimeIsKept
<1> QED BY <1>2, <1>4, <1>5, <1>6 DEF IInv

LEMMA FlusherRecords ==
    ASSUME NEW z \in FlusherState, NEW t \in Windows, NEW C \in SUBSET Claim
    PROVE  /\ LET y == [z EXCEPT !.pc = "claim", !.ts = t]
              IN  y \in FlusherState /\ y.claims = z.claims /\ y.ts = t
           /\ LET y == [z EXCEPT !.claims = C]
              IN  y \in FlusherState /\ y.claims = C /\ y.ts = z.ts
<1>1. LET y == [z EXCEPT !.pc = "claim", !.ts = t]
      IN  y \in FlusherState /\ y.claims = z.claims /\ y.ts = t
  BY DEF FlusherState
<1>2. LET y == [z EXCEPT !.claims = C]
      IN  y \in FlusherState /\ y.claims = C /\ y.ts = z.ts
  BY DEF FlusherState
<1> QED BY <1>1, <1>2

\* Start, end, death and a failed insert of a flush.
LEMMA FlushBoundsKeep ==
    ASSUME IInv, NEW f \in Flushers,
           \/ FlushStart(f) \/ FlushDone(f) \/ FlusherDies(f)
           \/ \E x \in flusher[f].claims : FlushInsertFails(f, x)
    PROVE  IInv'
<1>0. /\ flusher[f] \in FlusherState /\ now \in Windows /\ now \in Nat
      /\ losses \in 0..MaxLosses /\ flusher[f].ts <= now
      /\ flusher[f].claims \in SUBSET Claim
      /\ UNCHANGED <<now, request, batch, summaries>>
  BY Types DEF IInv, FlushedAreOver, Windows, FlusherState, FlushStart, FlushDone,
               FlusherDies, FlushInsertFails
<1>1. losses' \in 0..MaxLosses
  BY <1>0 DEF FlushStart, FlushDone, FlusherDies, FlushInsertFails
<1>2. PICK z \in FlusherState : /\ flusher' = [flusher EXCEPT ![f] = z]
                                /\ z.claims \subseteq flusher[f].claims
                                /\ z.ts <= now
  <2>1. CASE FlushStart(f)
    <3> DEFINE z == [flusher[f] EXCEPT !.pc = "claim", !.ts = now]
    <3>1. z \in FlusherState /\ z.claims = flusher[f].claims /\ z.ts = now
      BY <1>0, FlusherRecords
    <3>2. flusher' = [flusher EXCEPT ![f] = z]
      BY <2>1 DEF FlushStart
    <3> HIDE DEF z
    <3>3. z.ts <= now
      BY <1>0, <3>1
    <3> QED BY <3>1, <3>2, <3>3
  <2>2. CASE FlushDone(f) \/ FlusherDies(f)
    BY <1>0, <2>2, IdleType DEF FlushDone, FlusherDies
  <2>3. ASSUME NEW x \in flusher[f].claims, FlushInsertFails(f, x)
        PROVE \E z \in FlusherState : /\ flusher' = [flusher EXCEPT ![f] = z]
                                      /\ z.claims \subseteq flusher[f].claims
                                      /\ z.ts <= now
    <3> DEFINE z == [flusher[f] EXCEPT !.claims = flusher[f].claims \ {x}]
    <3>1. z \in FlusherState /\ z.claims = flusher[f].claims \ {x} /\ z.ts = flusher[f].ts
      BY <1>0, FlusherRecords
    <3>2. flusher' = [flusher EXCEPT ![f] = z]
      BY <2>3 DEF FlushInsertFails
    <3> HIDE DEF z
    <3> QED BY <1>0, <3>1, <3>2
  <2> QED BY <2>1, <2>2, <2>3
<1> QED BY <1>0, <1>1, <1>2, FlusherOnly

\* The transaction that marks due batches: they were open, so nobody has them.
LEMMA ClaimKeeps ==
    ASSUME IInv, NEW f \in Flushers, NEW S \in SUBSET Due(flusher[f].ts), FlushClaim(f, S)
    PROVE  IInv'
<1>0. /\ flusher \in [Flushers -> FlusherState] /\ now \in Windows
      /\ batch \in [BatchIds -> BatchState] /\ flusher[f].ts \in Windows
      /\ S \subseteq BatchIds /\ flusher[f].ts <= now
      /\ UNCHANGED <<now, request, summaries, losses>>
  BY Types DEF IInv, FlusherState, FlushedAreOver, FlushClaim, Due
<1> DEFINE C == {[id |-> b, events |-> batch[b].events] : b \in S}
           z == [flusher[f] EXCEPT !.pc = "insert", !.claims = C]
<1>1. C \in SUBSET Claim /\ \A x \in C : x.id \in S /\ x.events = batch[x.id].events
  BY <1>0 DEF BatchState, Claim
<1>2. \A x, y \in C : x.id = y.id => x = y
  OBVIOUS
<1> HIDE DEF C
<1>3. z \in FlusherState /\ z.claims = C /\ z.ts = flusher[f].ts
  <2>1. flusher[f] \in FlusherState
    BY <1>0
  <2>2. C \in SUBSET Claim /\ flusher[f].ts \in Windows
    BY <1>0, <1>1
  <2> QED BY <2>1, <2>2 DEF FlusherState
<1>4. flusher' = [flusher EXCEPT ![f] = z]
  BY DEF FlushClaim, C
<1> HIDE DEF z
<1>5. flusher' \in [Flushers -> FlusherState] /\ flusher'[f] = z
        /\ \A g \in Flushers : g # f => flusher'[g] = flusher[g]
  BY <1>0, <1>3, <1>4
<1>6. \A b \in BatchIds : /\ batch'[b] \in BatchState
                          /\ batch'[b].events = batch[b].events
                          /\ b \in S => batch'[b].status = "flushed"
                          /\ b \notin S => batch'[b] = batch[b]
  <2> SUFFICES ASSUME NEW b \in BatchIds
               PROVE /\ batch'[b] \in BatchState
                     /\ batch'[b].events = batch[b].events
                     /\ b \in S => batch'[b].status = "flushed"
                     /\ b \notin S => batch'[b] = batch[b]
    OBVIOUS
  <2>1. batch'[b] = IF b \in S THEN [batch[b] EXCEPT !.status = "flushed"] ELSE batch[b]
    BY DEF FlushClaim
  <2> QED BY <1>0, <2>1 DEF BatchState
<1>7. \A b \in S : batch[b].status = "open" /\ b[2] < now /\ summaries[b] = <<>>
  <2>1. \A b \in S : batch[b].status = "open" /\ b[2] < flusher[f].ts /\ b[2] \in Windows
    BY <1>0 DEF Due, BatchIds
  <2> QED BY <1>0, <2>1 DEF IInv, SummariesOfFlushed, Windows
<1>8. TypeOK'
  <2>1. batch' \in [BatchIds -> BatchState]
    <3>1. batch' = [b \in BatchIds |-> batch'[b]]
      BY DEF FlushClaim
    <3> QED BY <1>6, <3>1
  <2> QED BY <1>0, <1>5, <2>1 DEF IInv, TypeOK, BatchState, FlusherState
<1>9. SummariesOfFlushed'
  BY <1>0, <1>6, <1>7 DEF IInv, SummariesOfFlushed
<1>10. ClaimsApart'
  <2>1. \A g \in Flushers : \A x \in flusher[g].claims : x.id \in BatchIds /\ x.id \notin S
    <3>1. \A g \in Flushers : \A x \in flusher[g].claims :
             x.id \in BatchIds /\ batch[x.id].status = "flushed"
      BY <1>0, ClaimFields DEF IInv, ClaimsApart, FlusherState
    <3> QED BY <1>7, <3>1
  <2> SUFFICES ASSUME NEW g \in Flushers, NEW x \in flusher'[g].claims
               PROVE /\ batch'[x.id].status = "flushed"
                     /\ batch'[x.id].events = x.events
                     /\ summaries'[x.id] = <<>>
                     /\ \A h \in Flushers : \A y \in flusher'[h].claims :
                           y.id = x.id => h = g /\ y = x
    BY DEF ClaimsApart
  <2>2. CASE g = f
    <3>1. x \in C /\ x.id \in S /\ x.id \in BatchIds
      BY <1>0, <1>1, <1>3, <1>5, <2>2
    <3>2. \A h \in Flushers : \A y \in flusher'[h].claims : y.id = x.id => h = g /\ y = x
      BY <1>2, <1>3, <1>5, <2>1, <2>2, <3>1
    <3> QED BY <1>0, <1>1, <1>6, <1>7, <3>1, <3>2
  <2>3. CASE g # f
    <3>1. x \in flusher[g].claims /\ x.id \in BatchIds /\ x.id \notin S
      BY <1>5, <2>1, <2>3
    <3>2. \A h \in Flushers : \A y \in flusher'[h].claims : y.id = x.id => h # f
      BY <1>1, <1>3, <1>5, <3>1
    <3>3. \A h \in Flushers : \A y \in flusher'[h].claims : y.id = x.id => h = g /\ y = x
      BY <1>5, <3>1, <3>2 DEF IInv, ClaimsApart
    <3> QED BY <1>0, <1>6, <3>1, <3>3 DEF IInv, ClaimsApart
  <2> QED BY <2>2, <2>3
<1>11. EventsInTheirWindow'
  BY <1>0, <1>6 DEF IInv, EventsInTheirWindow
<1>12. FlushedAreOver'
  BY <1>0, <1>3, <1>5, <1>6, <1>7 DEF IInv, FlushedAreOver
<1>13. InTimeIsKept'
  <2> SUFFICES ASSUME NEW d \in Events, request[d].pc = "digested",
                      request[d].appended = request[d].window, NEW k \in KeysOf[d]
               PROVE  d \in batch'[<<k, request[d].window>>].events
    BY <1>0 DEF InTimeIsKept
  <2>1. <<k, request[d].window>> \in BatchIds
    BY Types DEF IInv, RequestState, BatchIds
  <2>2. d \in batch[<<k, request[d].window>>].events
    BY DEF IInv, InTimeIsKept
  <2> QED BY <1>6, <2>1, <2>2
<1> QED BY <1>8, <1>9, <1>10, <1>11, <1>12, <1>13 DEF IInv

\* The summary of a claimed batch: its first, and as the batch still is.
LEMMA InsertKeeps ==
    ASSUME IInv, NEW f \in Flushers, NEW x \in flusher[f].claims, FlushInsert(f, x)
    PROVE  IInv'
<1>0. /\ flusher \in [Flushers -> FlusherState] /\ flusher[f] \in FlusherState
      /\ flusher[f].claims \in SUBSET Claim /\ 0 \in Windows
      /\ summaries \in [BatchIds -> Seq(SUBSET Events)]
      /\ x.id \in BatchIds /\ x.events \in SUBSET Events
      /\ UNCHANGED <<now, request, batch, losses>>
  BY Types, ClaimFields DEF IInv, FlusherState, FlushInsert, Windows
<1> DEFINE z == [flusher[f] EXCEPT !.claims = flusher[f].claims \ {x}]
<1>1. z \in FlusherState /\ z.claims = flusher[f].claims \ {x} /\ z.ts = flusher[f].ts
  BY <1>0, FlusherRecords
<1>2. flusher' = [flusher EXCEPT ![f] = z]
  BY DEF FlushInsert
<1> HIDE DEF z
<1>3. flusher' \in [Flushers -> FlusherState] /\ flusher'[f] = z
        /\ \A g \in Flushers : g # f => flusher'[g] = flusher[g]
  BY <1>0, <1>1, <1>2
<1>4. \A g \in Flushers : /\ flusher'[g].claims \subseteq flusher[g].claims
                          /\ flusher'[g].ts = flusher[g].ts
                          /\ \A y \in flusher'[g].claims : y.id # x.id
  BY <1>1, <1>3 DEF IInv, ClaimsApart
<1>5. batch[x.id].status = "flushed" /\ batch[x.id].events = x.events /\ summaries[x.id] = <<>>
  BY DEF IInv, ClaimsApart
<1>6. Append(<<>>, x.events) = <<x.events>>
  BY <1>0
<1>7. summaries' = [summaries EXCEPT ![x.id] = <<x.events>>]
  BY <1>5, <1>6 DEF FlushInsert
<1>8. /\ summaries' \in [BatchIds -> Seq(SUBSET Events)]
      /\ summaries'[x.id] = <<x.events>>
      /\ \A b \in BatchIds : b # x.id => summaries'[b] = summaries[b]
  BY <1>0, <1>7
<1>9. TypeOK'
  BY <1>0, <1>3, <1>8 DEF IInv, TypeOK, FlusherState
<1>10. SummariesOfFlushed'
  BY <1>0, <1>5, <1>8 DEF IInv, SummariesOfFlushed
<1>11. ClaimsApart'
  <2>1. \A g \in Flushers : \A y \in flusher[g].claims : y.id \in BatchIds
    BY <1>0, ClaimFields DEF FlusherState
  <2> QED BY <1>0, <1>4, <1>8, <2>1 DEF IInv, ClaimsApart
<1>12. FlushedAreOver'
  BY <1>0, <1>4 DEF IInv, FlushedAreOver
<1>13. EventsInTheirWindow' /\ InTimeIsKept'
  BY <1>0 DEF IInv, EventsInTheirWindow, InTimeIsKept
<1> QED BY <1>9, <1>10, <1>11, <1>12, <1>13 DEF IInv

LEMMA ClockKeeps == ASSUME IInv, ClockTick PROVE IInv'
<1>1. UNCHANGED <<request, batch, flusher, summaries, losses>>
        /\ now' = now + 1 /\ now' \in Windows /\ now \in Nat
  BY DEF ClockTick, IInv, TypeOK, Windows
<1>2. TypeOK'
  BY <1>1 DEF IInv, TypeOK
<1>3. FlushedAreOver'
  <2>1. \A f \in Flushers : flusher[f].ts \in Nat
    BY Types DEF IInv, FlusherState, Windows
  <2>2. \A b \in BatchIds : b[2] \in Nat
    BY DEF BatchIds, Windows
  <2> QED BY <1>1, <2>1, <2>2 DEF IInv, FlushedAreOver
<1>4. SummariesOfFlushed' /\ ClaimsApart' /\ EventsInTheirWindow' /\ InTimeIsKept'
  BY <1>1 DEF IInv, SummariesOfFlushed, ClaimsApart, EventsInTheirWindow, InTimeIsKept
<1> QED BY <1>2, <1>3, <1>4 DEF IInv

\* The inductive invariant of the digests: batches, claims and summaries of
\* any number of flushing processes stay apart.
THEOREM DigestInvariance == Spec => []IInv
<1>1. IInv /\ [Next]_vars => IInv'
  <2> SUFFICES ASSUME IInv, [Next]_vars PROVE IInv'
    OBVIOUS
  <2>1. CASE Next
    BY <2>1, RequestKeeps, AppendKeeps, FlushBoundsKeep, ClaimKeeps, InsertKeeps, ClockKeeps
    DEF Next, FlushStep
  <2>2. CASE UNCHANGED vars
    BY <2>2 DEF vars, IInv, TypeOK, SummariesOfFlushed, ClaimsApart, EventsInTheirWindow,
                FlushedAreOver, InTimeIsKept
  <2> QED BY <2>1, <2>2
<1> QED BY <1>1, Starts, PTL DEF Spec

\* FlushDigests: a summary tells of everything its batch holds, for any number
\* of processes that flush.
THEOREM SummariesComplete == Spec => []SummaryComplete
<1>1. IInv => SummaryComplete
  BY DEF IInv, SummariesOfFlushed, SummaryComplete
<1> QED BY <1>1, DigestInvariance, PTL

\* An event is told of at most once per channel, whatever processes flush at
\* once or die between commit and insert.
THEOREM EventsToldOnce == Spec => []ToldOnce
<1>1. IInv => ToldOnce
  <2> SUFFICES ASSUME IInv, NEW e \in Events, NEW k \in DigestKeys,
                      NEW v \in Windows, NEW w \in Windows,
                      NEW i \in 1..Len(summaries[<<k, v>>]), e \in summaries[<<k, v>>][i],
                      NEW j \in 1..Len(summaries[<<k, w>>]), e \in summaries[<<k, w>>][j]
               PROVE  v = w /\ i = j
    BY DEF ToldOnce
  <2>1. ASSUME NEW u \in Windows, NEW h \in 1..Len(summaries[<<k, u>>]),
               e \in summaries[<<k, u>>][h]
        PROVE  h = 1 /\ request[e].window = u
    <3> DEFINE b == <<k, u>>
    <3>1. b \in BatchIds /\ b[2] = u
      BY DEF BatchIds
    <3>2. summaries[b] # <<>>
      BY <2>1
    <3>3. summaries[b] = <<batch[b].events>>
      BY <3>1, <3>2 DEF IInv, SummariesOfFlushed
    <3>4. h = 1 /\ e \in batch[b].events
      BY <2>1, <3>3
    <3>5. request[e].window = b[2]
      BY <3>1, <3>4 DEF IInv, EventsInTheirWindow
    <3> QED BY <3>1, <3>4, <3>5
  <2>2. i = 1 /\ request[e].window = v
    BY <2>1
  <2>3. j = 1 /\ request[e].window = w
    BY <2>1
  <2> QED BY <2>2, <2>3
<1> QED BY <1>1, DigestInvariance, PTL

\* appendDigest: an event answered within its own window is in its batches.
THEOREM InTimeEventsKept == Spec => []InTimeIsKept
BY DigestInvariance, PTL DEF IInv
=============================================================================
