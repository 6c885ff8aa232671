----------------------------- MODULE OutboxProofs -----------------------------
(***************************************************************************)
(* Proofs about Outbox for one process that dies and restarts at any step: *)
(* any number of rows and channels, any batch size, budget, threshold and  *)
(* number of attempts, any number of deaths and of failed updates.         *)
(***************************************************************************)
EXTENDS Outbox, FiniteSetTheorems, TLAPS

\* One server process.  The comment on the worker (worker.go:31) promises more,
\* but with two of them a boot puts rows back that the other is sending
\* (OneSenderPerRow), and none of the results below holds.
OneProcess == \A v, w \in Workers : v = w

-----------------------------------------------------------------------------
(* The inductive invariant.                                                *)

InHand(w) == worker[w].batch \cup worker[w].cur

\* What the worker holds at each point of Drain and sendOne.
HandShape ==
    \A w \in Workers :
        /\ worker[w].pc \in {"down", "idle"} => worker[w].batch = {}
        /\ worker[w].pc \in {"down", "idle", "drain"} => worker[w].cur = {}
        /\ \A x, y \in worker[w].cur : x = y
        /\ worker[w].batch \cap worker[w].cur = {}

\* A row in hand is marked as being sent, and the attempts the worker read
\* when it claimed the row are still those of the table.
HandFresh ==
    \A w \in Workers : \A x \in InHand(w) :
        /\ outbox[x.id].status = "sending"
        /\ outbox[x.id].attempts = x.attempts

\* The provider has taken the row in hand, and the table does not say so yet.
Unrecorded(w, x) ==
    /\ x \in worker[w].cur
    /\ worker[w].pc \in {"accepted", "markSent"}

\* Every acceptance of a row that may be sent again is paid for by a death.
Owed(i) ==
    \/ outbox[i].status \in {"absent", "pending", "deferred", "failed"}
    \/ \E w \in Workers : worker[w].pc = "down"
    \/ \E w \in Workers : \E x \in InHand(w) : x.id = i /\ ~Unrecorded(w, x)

DuplicatesPaid ==
    \A i \in RowIds : /\ accepted[i] <= 1 + crashes
                      /\ Owed(i) => accepted[i] <= crashes

\* Nothing is added to the hour's messages between the look at the budget and
\* the update that marks the row sent.
BudgetReserved ==
    \A w \in Workers : \A x \in worker[w].cur :
        worker[w].pc \in {"send", "accepted", "markSent"}
            => ~BudgetUsedUp(outbox[x.id].channel)

\* Deferrals, deaths and boots use up no attempt.
FreshUntried == \A i \in RowIds : outbox[i].status = "absent" => outbox[i].attempts = 0

Inv ==
    /\ TypeOK
    /\ FreshUntried
    /\ HandShape
    /\ HandFresh
    /\ GivenUpAfterAllAttempts
    /\ DuplicatesPaid
    /\ BudgetReserved
    /\ RateBudget

-----------------------------------------------------------------------------
(* Facts about the operators.                                              *)

WorkerState == [pc : PCs, batch : SUBSET Claim, cur : SUBSET Claim, failures : Nat]
BreakerState == [failures : Nat, open : BOOLEAN]

\* The messages of the hour are countable, and fewer of them count no more.
LEMMA SentCounts ==
    ASSUME NEW c
    PROVE  /\ IsFiniteSet(SentLately(c))
           /\ Cardinality(SentLately(c)) \in Nat
           /\ \A T \in SUBSET SentLately(c) :
                 IsFiniteSet(T) /\ Cardinality(T) \in Nat
                 /\ Cardinality(T) <= Cardinality(SentLately(c))
<1>1. IsFiniteSet(RowIds)
    BY OutboxAssumption
<1>2. SentLately(c) \in SUBSET RowIds
    BY DEF SentLately
<1>3. IsFiniteSet(SentLately(c))
    BY <1>1, <1>2, FS_Subset
<1>4. \A T \in SUBSET SentLately(c) :
         IsFiniteSet(T) /\ Cardinality(T) <= Cardinality(SentLately(c))
    BY <1>3, FS_Subset
<1>5. QED
    BY <1>3, <1>4, FS_CardinalityType

\* One message more counts at most one more.
LEMMA SentOneMore ==
    ASSUME NEW c, NEW i, NEW T \in SUBSET (SentLately(c) \cup {i})
    PROVE  /\ Cardinality(T) \in Nat
           /\ Cardinality(T) <= Cardinality(SentLately(c)) + 1
<1>1. IsFiniteSet(SentLately(c)) /\ Cardinality(SentLately(c)) \in Nat
    BY SentCounts
<1>2. /\ IsFiniteSet(SentLately(c) \cup {i})
      /\ Cardinality(SentLately(c) \cup {i}) <= Cardinality(SentLately(c)) + 1
      /\ Cardinality(SentLately(c) \cup {i}) \in Nat
    BY <1>1, FS_AddElement, FS_CardinalityType
<1>3. IsFiniteSet(T) /\ Cardinality(T) <= Cardinality(SentLately(c) \cup {i})
    BY <1>2, FS_Subset
<1>4. Cardinality(T) \in Nat
    BY <1>3, FS_CardinalityType
<1>5. QED
    BY <1>1, <1>2, <1>3, <1>4

\* When the hour's messages are no more than before, so is what the budget
\* forbids.
LEMMA RateKept ==
    ASSUME \A c \in Channels : SentLately(c)' \subseteq SentLately(c)
    PROVE  /\ RateBudget => RateBudget'
           /\ \A c \in Channels : ~BudgetUsedUp(c) => ~BudgetUsedUp(c)'
<1>1. ASSUME NEW c \in Channels
      PROVE  /\ Cardinality(SentLately(c)) \in Nat
             /\ Cardinality(SentLately(c)') \in Nat
             /\ Cardinality(SentLately(c)') <= Cardinality(SentLately(c))
    BY <1>1, SentCounts
<1>2. Budget \in Nat
    BY OutboxAssumption
<1>3. QED
    BY <1>1, <1>2 DEF RateBudget, BudgetUsedUp

-----------------------------------------------------------------------------
(* The row in hand.                                                        *)

\* Types of what a worker's step is about.
LEMMA HandTypes ==
    ASSUME TypeOK, NEW w \in Workers, NEW x \in InHand(w)
    PROVE  /\ worker[w] \in WorkerState
           /\ x \in Claim
           /\ x.id \in RowIds
           /\ outbox[x.id] \in Row
           /\ outbox[x.id].channel \in Channels
<1>1. worker[w] \in WorkerState /\ x \in Claim
    BY DEF TypeOK, WorkerState, InHand
<1>2. x.id \in RowIds
    BY <1>1 DEF Claim
<1>3. outbox[x.id] \in Row
    BY <1>2 DEF TypeOK
<1>4. QED
    BY <1>1, <1>2, <1>3 DEF Row

\* The steps of sendOne that write to no row: the worker goes on with the
\* same row in hand.
LEMMA GoesOn ==
    ASSUME OneProcess, Inv, NEW w \in Workers, NEW x \in worker[w].cur,
           NEW n \in WorkerState,
           worker' = [worker EXCEPT ![w] = n],
           n.batch = worker[w].batch, n.cur = worker[w].cur,
           n.pc \notin {"down", "idle", "drain"},
           n.pc \in {"accepted", "markSent"} <=> worker[w].pc \in {"accepted", "markSent"},
           n.pc \in {"send", "accepted", "markSent"}
              => \/ worker[w].pc \in {"send", "accepted", "markSent"}
                 \/ ~BudgetUsedUp(outbox[x.id].channel),
           breaker' \in [Channels -> BreakerState],
           UNCHANGED <<outbox, accepted, crashes, faults>>
    PROVE  Inv'
<1>1. /\ worker \in [Workers -> WorkerState]
      /\ worker'[w] = n
      /\ \A v \in Workers : v = w
      /\ worker[w].pc # "down"
    BY DEF Inv, TypeOK, WorkerState, OneProcess, HandShape
<1>2. TypeOK'
    BY <1>1 DEF Inv, TypeOK, WorkerState, BreakerState
<1>3. FreshUntried' /\ GivenUpAfterAllAttempts'
    BY DEF Inv, FreshUntried, GivenUpAfterAllAttempts
<1>4. HandShape'
    BY <1>1 DEF Inv, HandShape
<1>5. HandFresh'
    BY <1>1 DEF Inv, HandFresh, InHand
<1>6. DuplicatesPaid'
    <2>1. ASSUME NEW i \in RowIds, Owed(i)' PROVE Owed(i)
        BY <2>1, <1>1 DEF Owed, InHand, Unrecorded
    <2>2. QED
        BY <2>1 DEF Inv, DuplicatesPaid
<1>7. RateBudget' /\ \A c : SentLately(c)' = SentLately(c)
    BY DEF Inv, RateBudget, SentLately
<1>8. BudgetReserved'
    BY <1>1, <1>7 DEF Inv, BudgetReserved, BudgetUsedUp, HandShape
<1>9. QED
    BY <1>2, <1>3, <1>4, <1>5, <1>6, <1>7, <1>8 DEF Inv

\* The update that ends sendOne: the row in hand becomes r and is let go.
LEMMA RowLetGo ==
    ASSUME OneProcess, Inv, NEW w \in Workers, NEW x \in worker[w].cur,
           NEW r \in Row,
           outbox' = [outbox EXCEPT ![x.id] = r],
           Done(w),
           r.channel = outbox[x.id].channel,
           r.status # "absent",
           r.status = "failed" => r.attempts = MaxAttempts,
           r.status \in {"pending", "deferred", "sending"} => r.attempts < MaxAttempts,
           r.status \in {"pending", "deferred", "failed"} => ~Unrecorded(w, x),
           r.status = "sent" => ~BudgetUsedUp(outbox[x.id].channel),
           faults' \in 0..MaxFaults,
           UNCHANGED <<breaker, accepted, crashes>>
    PROVE  Inv'
<1> DEFINE n == [worker[w] EXCEPT !.pc = "drain", !.cur = {}]
<1>1. /\ worker[w] \in WorkerState /\ x \in InHand(w) /\ x.id \in RowIds
      /\ \A v \in Workers : v = w
      /\ outbox \in [RowIds -> Row]
    BY HandTypes DEF Inv, OneProcess, InHand, TypeOK
<1>2. /\ n \in WorkerState
      /\ n.pc = "drain" /\ n.cur = {} /\ n.batch = worker[w].batch
    BY <1>1 DEF WorkerState, PCs
<1>3. worker' = [worker EXCEPT ![w] = n]
    BY DEF Done
<1>4. /\ worker'[w] = n
      /\ outbox'[x.id] = r
      /\ \A i \in RowIds \ {x.id} : outbox'[i] = outbox[i]
    BY <1>1, <1>3 DEF Inv, TypeOK
<1> HIDE DEF n
<1>5. TypeOK'
    BY <1>1, <1>2, <1>3 DEF Inv, TypeOK, WorkerState
<1>6. FreshUntried' /\ GivenUpAfterAllAttempts'
    BY <1>1, <1>4 DEF Inv, FreshUntried, GivenUpAfterAllAttempts
<1>7. HandShape'
    BY <1>1, <1>2, <1>4 DEF Inv, HandShape
<1>8. \A y \in worker[w].batch : y.id # x.id /\ y.id \in RowIds
    <2> SUFFICES ASSUME NEW y \in worker[w].batch
                 PROVE  y.id # x.id /\ y.id \in RowIds
        OBVIOUS
    <2>1. y \in Claim /\ x \in Claim /\ y.id \in RowIds /\ y \in InHand(w)
        BY <1>1, HandTypes DEF Inv, InHand
    <2>2. y.attempts = outbox[y.id].attempts /\ x.attempts = outbox[x.id].attempts
        BY <1>1, <2>1 DEF Inv, HandFresh
    <2>3. y # x
        BY DEF Inv, HandShape
    <2>4. QED
        BY <2>1, <2>2, <2>3 DEF Claim
<1>9. HandFresh'
    BY <1>1, <1>2, <1>4, <1>8 DEF Inv, HandFresh, InHand
<1>10. DuplicatesPaid'
    <2>1. ASSUME NEW i \in RowIds, Owed(i)' PROVE Owed(i)
        <3>1. CASE i # x.id
            BY <2>1, <3>1, <1>1, <1>2, <1>4 DEF Owed, InHand, Unrecorded, Inv, HandShape
        <3>2. CASE i = x.id
            <4>1. r.status \in {"pending", "deferred", "failed"}
                BY <2>1, <3>2, <1>1, <1>2, <1>4, <1>8 DEF Owed, InHand
            <4>2. QED
                BY <4>1, <3>2, <1>1 DEF Owed
        <3>3. QED
            BY <3>1, <3>2
    <2>2. QED
        BY <2>1 DEF Inv, DuplicatesPaid
<1>11. RateBudget'
    <2> SUFFICES ASSUME NEW c \in Channels
                 PROVE  Cardinality(SentLately(c)') <= Budget
        BY DEF RateBudget
    <2>1. Cardinality(SentLately(c)) <= Budget /\ Budget \in Nat
        BY OutboxAssumption DEF Inv, RateBudget
    <2>2. CASE r.status = "sent" /\ c = outbox[x.id].channel
        <3>1. SentLately(c)' \subseteq SentLately(c) \cup {x.id}
            BY <1>4 DEF SentLately
        <3>2. Cardinality(SentLately(c)) < Budget
            BY <2>2, <2>1, SentCounts DEF BudgetUsedUp
        <3>3. /\ Cardinality(SentLately(c)') \in Nat
              /\ Cardinality(SentLately(c)') <= Cardinality(SentLately(c)) + 1
            BY <3>1, SentOneMore
        <3>4. QED
            BY <3>2, <3>3, <2>1, SentCounts
    <2>3. CASE ~(r.status = "sent" /\ c = outbox[x.id].channel)
        <3>1. SentLately(c)' \subseteq SentLately(c)
            BY <2>3, <1>4 DEF SentLately
        <3>2. QED
            BY <3>1, <2>1, SentCounts
    <2>4. QED
        BY <2>2, <2>3
<1>12. BudgetReserved'
    BY <1>1, <1>2, <1>4 DEF BudgetReserved
<1>13. QED
    BY <1>5, <1>6, <1>7, <1>9, <1>10, <1>11, <1>12 DEF Inv

\* A step of the clock or of a producer: row i becomes r.
LEMMA RowAlone ==
    ASSUME Inv, NEW i \in RowIds, NEW r \in Row,
           outbox' = [outbox EXCEPT ![i] = r],
           r.channel = outbox[i].channel,
           r.attempts = outbox[i].attempts,
           \/ r.status = outbox[i].status
           \/ outbox[i].status = "absent" /\ r.status = "pending",
           r.recent => outbox[i].recent,
           UNCHANGED <<breaker, worker, accepted, crashes, faults>>
    PROVE  Inv'
<1>1. /\ outbox \in [RowIds -> Row]
      /\ outbox'[i] = r
      /\ \A j \in RowIds \ {i} : outbox'[j] = outbox[j]
      /\ MaxAttempts \in Nat \ {0}
    BY OutboxAssumption DEF Inv, TypeOK
<1>2. TypeOK'
    BY <1>1 DEF Inv, TypeOK
<1>3. FreshUntried'
    BY <1>1 DEF Inv, FreshUntried
<1>4. GivenUpAfterAllAttempts'
    BY <1>1 DEF Inv, FreshUntried, GivenUpAfterAllAttempts
<1>5. HandShape'
    BY DEF Inv, HandShape
<1>6. ASSUME NEW w \in Workers, NEW x \in InHand(w)
      PROVE  /\ x.id \in RowIds
             /\ outbox'[x.id].status = outbox[x.id].status
             /\ outbox'[x.id].attempts = outbox[x.id].attempts
             /\ outbox'[x.id].channel = outbox[x.id].channel
    <2>1. x.id \in RowIds /\ outbox[x.id].status = "sending"
        BY <1>6, HandTypes DEF Inv, HandFresh
    <2>2. QED
        BY <2>1, <1>1
<1>7. HandFresh'
    BY <1>6 DEF Inv, HandFresh, InHand
<1>8. DuplicatesPaid'
    <2>1. ASSUME NEW j \in RowIds, Owed(j)' PROVE Owed(j)
        BY <2>1, <1>1 DEF Owed, InHand, Unrecorded
    <2>2. QED
        BY <2>1 DEF Inv, DuplicatesPaid
<1>9. \A c \in Channels : SentLately(c)' \subseteq SentLately(c)
    BY <1>1 DEF SentLately
<1>10. RateBudget'
    BY <1>9, RateKept DEF Inv
<1>11. BudgetReserved'
    <2> SUFFICES ASSUME NEW w \in Workers, NEW x \in worker[w].cur,
                        worker[w].pc \in {"send", "accepted", "markSent"}
                 PROVE  ~BudgetUsedUp(outbox[x.id].channel)'
        BY DEF BudgetReserved
    <2>1. ~BudgetUsedUp(outbox[x.id].channel) /\ outbox[x.id].channel \in Channels
        BY HandTypes DEF Inv, BudgetReserved, InHand
    <2>2. outbox'[x.id].channel = outbox[x.id].channel
        BY <1>6 DEF InHand
    <2>3. ~(Cardinality(SentLately(outbox[x.id].channel)') >= Budget)
        BY <2>1, <1>9, RateKept DEF BudgetUsedUp
    <2>4. QED
        BY <2>2, <2>3 DEF BudgetUsedUp, SentLately
<1>12. QED
    BY <1>2, <1>3, <1>4, <1>5, <1>7, <1>8, <1>10, <1>11 DEF Inv

-----------------------------------------------------------------------------
(* One lemma per action.                                                   *)

LEMMA InvInit == Init => Inv
<1> SUFFICES ASSUME Init PROVE Inv
    OBVIOUS
<1>1. PICK c \in [RowIds -> Channels] :
         outbox = [i \in RowIds |->
                     [status |-> "absent", channel |-> c[i], attempts |-> 0,
                      due |-> TRUE, recent |-> FALSE]]
    BY DEF Init
<1>2. /\ \A i \in RowIds : /\ outbox[i].status = "absent"
                            /\ outbox[i].attempts = 0
                            /\ accepted[i] = 0
      /\ worker = [w \in Workers |-> Down] /\ crashes = 0 /\ faults = 0
      /\ MaxAttempts \in Nat /\ MaxCrashes \in Nat /\ MaxFaults \in Nat
      /\ Budget \in Nat
    BY <1>1, OutboxAssumption DEF Init
<1>3. Down \in WorkerState
    BY DEF Down, WorkerState, PCs
<1>4. outbox \in [RowIds -> Row]
    BY <1>1, <1>2 DEF Row, Statuses
<1>5. TypeOK
    BY <1>2, <1>3, <1>4 DEF Init, TypeOK, WorkerState
<1>6. FreshUntried /\ GivenUpAfterAllAttempts /\ DuplicatesPaid
    BY <1>2 DEF FreshUntried, GivenUpAfterAllAttempts, DuplicatesPaid
<1>7. \A w \in Workers : worker[w].batch = {} /\ worker[w].cur = {}
    BY <1>2 DEF Down
<1>8. HandShape /\ HandFresh /\ BudgetReserved
    BY <1>7 DEF HandShape, HandFresh, InHand, BudgetReserved
<1>9. \A c1 \in Channels : SentLately(c1) = {}
    BY <1>2 DEF SentLately
<1>10. RateBudget
    <2>1. Cardinality({}) = 0
        BY FS_EmptySet
    <2>2. \A c1 \in Channels : Cardinality(SentLately(c1)) = 0
        BY <2>1, <1>9
    <2>3. QED
        BY <2>2, <1>2 DEF RateBudget
<1>11. QED
    BY <1>5, <1>6, <1>8, <1>10 DEF Inv

LEMMA EnqueueInv ==
    ASSUME Inv, NEW i \in RowIds, Enqueue(i) PROVE Inv'
<1> DEFINE r == [outbox[i] EXCEPT !.status = "pending"]
<1>1. outbox[i] \in Row
    BY DEF Inv, TypeOK
<1>2. /\ r \in Row /\ r.status = "pending" /\ r.channel = outbox[i].channel
      /\ r.attempts = outbox[i].attempts /\ r.recent = outbox[i].recent
    BY <1>1 DEF Row, Statuses
<1>3. outbox' = [outbox EXCEPT ![i] = r]
    BY DEF Enqueue
<1> HIDE DEF r
<1>4. QED
    BY <1>2, <1>3, RowAlone DEF Enqueue

LEMMA BecomesDueInv ==
    ASSUME Inv, NEW i \in RowIds, BecomesDue(i) PROVE Inv'
<1> DEFINE r == [outbox[i] EXCEPT !.due = TRUE]
<1>1. outbox[i] \in Row
    BY DEF Inv, TypeOK
<1>2. /\ r \in Row /\ r.status = outbox[i].status /\ r.channel = outbox[i].channel
      /\ r.attempts = outbox[i].attempts /\ r.recent = outbox[i].recent
    BY <1>1 DEF Row
<1>3. outbox' = [outbox EXCEPT ![i] = r]
    BY DEF BecomesDue
<1> HIDE DEF r
<1>4. QED
    BY <1>2, <1>3, RowAlone DEF BecomesDue

LEMMA HourPassesInv ==
    ASSUME Inv, NEW i \in RowIds, HourPasses(i) PROVE Inv'
<1> DEFINE r == [outbox[i] EXCEPT !.recent = FALSE]
<1>1. outbox[i] \in Row
    BY DEF Inv, TypeOK
<1>2. /\ r \in Row /\ r.status = outbox[i].status /\ r.channel = outbox[i].channel
      /\ r.attempts = outbox[i].attempts
    BY <1>1 DEF Row
<1>3. outbox' = [outbox EXCEPT ![i] = r]
    BY DEF HourPasses
<1> HIDE DEF r
<1>4. QED
    BY <1>2, <1>3, RowAlone DEF HourPasses

LEMMA CircuitElapsesInv ==
    ASSUME Inv, NEW c \in Channels, CircuitElapses(c) PROVE Inv'
<1>1. TypeOK'
    BY DEF Inv, TypeOK, CircuitElapses
<1>2. FreshUntried' /\ HandShape' /\ HandFresh' /\ GivenUpAfterAllAttempts'
    BY DEF Inv, CircuitElapses, FreshUntried, HandShape, HandFresh, InHand,
           GivenUpAfterAllAttempts
<1>3. DuplicatesPaid'
    BY DEF Inv, CircuitElapses, DuplicatesPaid, Owed, InHand, Unrecorded
<1>4. BudgetReserved' /\ RateBudget'
    BY DEF Inv, CircuitElapses, BudgetReserved, BudgetUsedUp, RateBudget, SentLately
<1>5. QED
    BY <1>1, <1>2, <1>3, <1>4 DEF Inv

\* Boot finds nothing in hand; a row it puts back was paid for by the death.
LEMMA BootInv ==
    ASSUME OneProcess, Inv, NEW w \in Workers, Boot(w) PROVE Inv'
<1> DEFINE n == [worker[w] EXCEPT !.pc = "idle"]
<1>1. /\ worker[w] \in WorkerState /\ worker \in [Workers -> WorkerState]
      /\ outbox \in [RowIds -> Row]
      /\ worker[w].batch = {} /\ worker[w].cur = {}
      /\ \A v \in Workers : v = w
    BY DEF Inv, TypeOK, WorkerState, OneProcess, HandShape, Boot
<1>2. n \in WorkerState /\ n.pc = "idle" /\ n.batch = {} /\ n.cur = {}
    BY <1>1 DEF WorkerState, PCs
<1>3. worker' = [worker EXCEPT ![w] = n] /\ worker'[w] = n
    BY <1>1 DEF Boot
<1> HIDE DEF n
<1>4. ASSUME NEW i \in RowIds
      PROVE  /\ outbox'[i] \in Row
             /\ outbox'[i].attempts = outbox[i].attempts
             /\ outbox'[i].channel = outbox[i].channel
             /\ outbox'[i].recent = outbox[i].recent
             /\ IF outbox[i].status = "sending"
                THEN outbox'[i].status = "pending"
                ELSE outbox'[i].status = outbox[i].status
    <2>1. outbox[i] \in Row
        BY <1>1
    <2>2. CASE outbox[i].status = "sending"
        <3>1. outbox'[i] = [outbox[i] EXCEPT !.status = "pending"]
            BY <2>2 DEF Boot
        <3>2. QED
            BY <2>1, <2>2, <3>1 DEF Row, Statuses
    <2>3. CASE outbox[i].status # "sending"
        BY <2>1, <2>3 DEF Boot
    <2>4. QED
        BY <2>2, <2>3
<1>5. TypeOK'
    <2>1. outbox' \in [RowIds -> Row]
        BY <1>4 DEF Boot
    <2>2. QED
        BY <2>1, <1>1, <1>2, <1>3 DEF Inv, TypeOK, WorkerState, Boot
<1>6. FreshUntried' /\ GivenUpAfterAllAttempts'
    BY <1>4 DEF Inv, FreshUntried, GivenUpAfterAllAttempts
<1>7. HandShape' /\ HandFresh' /\ BudgetReserved'
    BY <1>1, <1>2, <1>3 DEF HandShape, HandFresh, InHand, BudgetReserved
<1>8. DuplicatesPaid'
    BY DEF Inv, DuplicatesPaid, Owed, Boot
<1>9. \A c \in Channels : SentLately(c)' \subseteq SentLately(c)
    BY <1>4 DEF SentLately
<1>10. RateBudget'
    BY <1>9, RateKept DEF Inv
<1>11. QED
    BY <1>5, <1>6, <1>7, <1>8, <1>10 DEF Inv

\* A death pays for the acceptance that may have gone unrecorded.
LEMMA CrashInv ==
    ASSUME OneProcess, Inv, NEW w \in Workers, Crash(w) PROVE Inv'
<1>1. /\ worker'[w] = Down /\ Down \in WorkerState
      /\ worker' \in [Workers -> WorkerState]
      /\ \A v \in Workers : v = w
      /\ crashes \in Nat /\ crashes' = crashes + 1 /\ crashes' \in 0..MaxCrashes
    BY OutboxAssumption DEF Inv, TypeOK, WorkerState, OneProcess, Crash, Down, PCs
<1>2. TypeOK'
    BY <1>1 DEF Inv, TypeOK, WorkerState, Crash
<1>3. FreshUntried' /\ GivenUpAfterAllAttempts'
    BY DEF Inv, FreshUntried, GivenUpAfterAllAttempts, Crash
<1>4. HandShape' /\ HandFresh' /\ BudgetReserved'
    BY <1>1 DEF HandShape, HandFresh, InHand, BudgetReserved, Down
<1>5. DuplicatesPaid'
    <2>1. \A i \in RowIds : accepted[i] \in Nat /\ accepted[i] <= 1 + crashes
        BY DEF Inv, TypeOK, DuplicatesPaid
    <2>2. QED
        BY <1>1, <2>1 DEF DuplicatesPaid, Crash
<1>6. RateBudget'
    BY DEF Inv, RateBudget, SentLately, Crash
<1>7. QED
    BY <1>2, <1>3, <1>4, <1>5, <1>6 DEF Inv

\* The rows of a batch were pending or deferred: none is taken as sent.
LEMMA ClaimDueInv ==
    ASSUME OneProcess, Inv, NEW w \in Workers, NEW S \in SUBSET DueRows,
           ClaimDue(w, S)
    PROVE  Inv'
<1> DEFINE B == {[id |-> i, attempts |-> outbox[i].attempts] : i \in S}
           n == [pc |-> "drain", cur |-> {}, failures |-> 0, batch |-> B]
<1>1. /\ worker \in [Workers -> WorkerState] /\ outbox \in [RowIds -> Row]
      /\ \A v \in Workers : v = w
      /\ worker[w].pc = "idle"
      /\ S \subseteq RowIds
      /\ \A i \in S : outbox[i].status \in {"pending", "deferred"}
    BY DEF Inv, TypeOK, WorkerState, OneProcess, ClaimDue, DueRows
<1>2. B \subseteq Claim
    BY <1>1 DEF Claim, Row
<1>3. \A x \in B : x.id \in S /\ x.attempts = outbox[x.id].attempts
    OBVIOUS
<1>4. worker' = [worker EXCEPT ![w] = n] /\ worker'[w] = n
    BY <1>1 DEF ClaimDue
<1> HIDE DEF B
<1>5. n \in WorkerState /\ n.pc = "drain" /\ n.cur = {} /\ n.batch = B
    BY <1>2 DEF WorkerState, PCs
<1> HIDE DEF n
<1>6. ASSUME NEW i \in RowIds
      PROVE  /\ outbox'[i] \in Row
             /\ outbox'[i].attempts = outbox[i].attempts
             /\ outbox'[i].channel = outbox[i].channel
             /\ outbox'[i].recent = outbox[i].recent
             /\ IF i \in S THEN outbox'[i].status = "sending"
                           ELSE outbox'[i].status = outbox[i].status
    <2>1. outbox[i] \in Row
        BY <1>1
    <2>2. CASE i \in S
        <3>1. outbox'[i] = [outbox[i] EXCEPT !.status = "sending"]
            BY <2>2 DEF ClaimDue
        <3>2. QED
            BY <2>1, <2>2, <3>1 DEF Row, Statuses
    <2>3. CASE i \notin S
        BY <2>1, <2>3 DEF ClaimDue
    <2>4. QED
        BY <2>2, <2>3
<1>7. TypeOK'
    <2>1. outbox' \in [RowIds -> Row]
        BY <1>6 DEF ClaimDue
    <2>2. QED
        BY <2>1, <1>1, <1>4, <1>5 DEF Inv, TypeOK, WorkerState, ClaimDue
<1>8. FreshUntried' /\ GivenUpAfterAllAttempts'
    BY <1>1, <1>6 DEF Inv, FreshUntried, GivenUpAfterAllAttempts
<1>9. HandShape' /\ BudgetReserved'
    BY <1>1, <1>4, <1>5 DEF HandShape, BudgetReserved
<1>10. HandFresh'
    BY <1>1, <1>3, <1>4, <1>5, <1>6 DEF HandFresh, InHand
<1>11. DuplicatesPaid'
    <2>1. ASSUME NEW i \in RowIds, Owed(i)' PROVE Owed(i)
        BY <2>1, <1>1, <1>3, <1>4, <1>5, <1>6 DEF Owed, InHand, Unrecorded
    <2>2. QED
        BY <2>1 DEF Inv, DuplicatesPaid, ClaimDue
<1>12. \A c \in Channels : SentLately(c)' \subseteq SentLately(c)
    BY <1>6 DEF SentLately
<1>13. RateBudget'
    BY <1>12, RateKept DEF Inv
<1>14. QED
    BY <1>7, <1>8, <1>9, <1>10, <1>11, <1>13 DEF Inv

LEMMA NextRowInv ==
    ASSUME OneProcess, Inv, NEW w \in Workers, NEW x \in worker[w].batch,
           NextRow(w, x)
    PROVE  Inv'
<1> DEFINE n == [pc |-> "circuit", cur |-> {x}, failures |-> 0,
                 batch |-> worker[w].batch \ {x}]
<1>1. /\ worker \in [Workers -> WorkerState]
      /\ \A v \in Workers : v = w
      /\ worker[w].pc = "drain" /\ worker[w].cur = {}
      /\ worker[w].batch \subseteq Claim
    BY DEF Inv, TypeOK, WorkerState, OneProcess, NextRow, HandShape
<1>2. worker' = [worker EXCEPT ![w] = n] /\ worker'[w] = n
    BY <1>1 DEF NextRow
<1>3. /\ n \in WorkerState /\ n.pc = "circuit" /\ n.cur = {x}
      /\ n.batch = worker[w].batch \ {x}
    BY <1>1 DEF WorkerState, PCs
<1> HIDE DEF n
<1>4. TypeOK'
    BY <1>1, <1>2, <1>3 DEF Inv, TypeOK, WorkerState, NextRow
<1>5. FreshUntried' /\ GivenUpAfterAllAttempts' /\ RateBudget'
    BY DEF Inv, FreshUntried, GivenUpAfterAllAttempts, RateBudget, SentLately, NextRow
<1>6. HandShape' /\ BudgetReserved'
    BY <1>1, <1>2, <1>3 DEF HandShape, BudgetReserved
<1>7. InHand(w)' = InHand(w)
    BY <1>1, <1>2, <1>3 DEF InHand
<1>8. HandFresh'
    BY <1>1, <1>7 DEF Inv, HandFresh, NextRow
<1>9. DuplicatesPaid'
    <2>1. ASSUME NEW i \in RowIds, Owed(i)' PROVE Owed(i)
        BY <2>1, <1>1, <1>2, <1>3, <1>7 DEF Owed, Unrecorded, NextRow
    <2>2. QED
        BY <2>1 DEF Inv, DuplicatesPaid, NextRow
<1>10. QED
    BY <1>4, <1>5, <1>6, <1>8, <1>9 DEF Inv

LEMMA DrainDoneInv ==
    ASSUME OneProcess, Inv, NEW w \in Workers, DrainDone(w) PROVE Inv'
<1> DEFINE n == [worker[w] EXCEPT !.pc = "idle"]
<1>1. /\ worker \in [Workers -> WorkerState] /\ worker[w] \in WorkerState
      /\ \A v \in Workers : v = w
      /\ worker[w].pc = "drain" /\ worker[w].cur = {} /\ worker[w].batch = {}
    BY DEF Inv, TypeOK, WorkerState, OneProcess, DrainDone, HandShape
<1>2. worker' = [worker EXCEPT ![w] = n] /\ worker'[w] = n
    BY <1>1 DEF DrainDone
<1>3. n \in WorkerState /\ n.pc = "idle" /\ n.cur = {} /\ n.batch = {}
    BY <1>1 DEF WorkerState, PCs
<1> HIDE DEF n
<1>4. TypeOK'
    BY <1>1, <1>2, <1>3 DEF Inv, TypeOK, WorkerState, DrainDone
<1>5. FreshUntried' /\ GivenUpAfterAllAttempts' /\ RateBudget'
    BY DEF Inv, FreshUntried, GivenUpAfterAllAttempts, RateBudget, SentLately, DrainDone
<1>6. HandShape' /\ HandFresh' /\ BudgetReserved'
    BY <1>1, <1>2, <1>3 DEF HandShape, HandFresh, InHand, BudgetReserved
<1>7. DuplicatesPaid'
    <2>1. ASSUME NEW i \in RowIds, Owed(i)' PROVE Owed(i)
        BY <2>1, <1>1, <1>2, <1>3 DEF Owed, InHand, DrainDone
    <2>2. QED
        BY <2>1 DEF Inv, DuplicatesPaid, DrainDone
<1>8. QED
    BY <1>4, <1>5, <1>6, <1>7 DEF Inv

\* The six steps of sendOne that write to no row.
LEMMA LooksInv ==
    ASSUME OneProcess, Inv, NEW w \in Workers, NEW x \in worker[w].cur,
           \/ CheckCircuit(w, x) \/ CheckBudget(w, x) \/ ProviderFails(w, x)
           \/ CloseCircuit(w, x) \/ ReadFailures(w, x) \/ OpenCircuit(w, x)
    PROVE  Inv'
<1>1. /\ worker[w] \in WorkerState /\ x.id \in RowIds
      /\ outbox[x.id].channel \in Channels
      /\ breaker \in [Channels -> BreakerState]
    BY HandTypes DEF Inv, InHand, TypeOK, BreakerState
<1>2. breaker[outbox[x.id].channel] \in BreakerState
    BY <1>1
<1>3. ASSUME NEW pc \in PCs, Go(w, pc)
      PROVE  \E n \in WorkerState :
                /\ worker' = [worker EXCEPT ![w] = n]
                /\ n.pc = pc /\ n.batch = worker[w].batch /\ n.cur = worker[w].cur
    <2> DEFINE n == [worker[w] EXCEPT !.pc = pc]
    <2>1. worker' = [worker EXCEPT ![w] = n]
        BY <1>3 DEF Go
    <2>2. /\ n \in WorkerState
          /\ n.pc = pc /\ n.batch = worker[w].batch /\ n.cur = worker[w].cur
        BY <1>1 DEF WorkerState
    <2> HIDE DEF n
    <2>3. QED
        BY <2>1, <2>2
<1>4. CASE CheckCircuit(w, x)
    <2>1. PICK pc \in {"defer", "budget"} : Go(w, pc)
        BY <1>4 DEF CheckCircuit
    <2>2. PICK n \in WorkerState :
             /\ worker' = [worker EXCEPT ![w] = n]
             /\ n.pc = pc /\ n.batch = worker[w].batch /\ n.cur = worker[w].cur
        BY <2>1, <1>3 DEF PCs
    <2>3. QED
        BY <1>1, <1>4, <2>2, GoesOn DEF CheckCircuit
<1>5. CASE CheckBudget(w, x)
    <2>1. PICK pc \in {"defer", "send"} :
             Go(w, pc) /\ (pc = "send" => ~BudgetUsedUp(outbox[x.id].channel))
        BY <1>5 DEF CheckBudget
    <2>2. PICK n \in WorkerState :
             /\ worker' = [worker EXCEPT ![w] = n]
             /\ n.pc = pc /\ n.batch = worker[w].batch /\ n.cur = worker[w].cur
        BY <2>1, <1>3 DEF PCs
    <2>3. QED
        BY <1>1, <1>5, <2>1, <2>2, GoesOn DEF CheckBudget
<1>6. CASE ProviderFails(w, x)
    <2>1. PICK n \in WorkerState :
             /\ worker' = [worker EXCEPT ![w] = n]
             /\ n.pc = "rejected" /\ n.batch = worker[w].batch /\ n.cur = worker[w].cur
        BY <1>6, <1>3 DEF PCs, ProviderFails
    <2>2. QED
        BY <1>1, <1>6, <2>1, GoesOn DEF ProviderFails
<1>7. CASE CloseCircuit(w, x)
    <2>1. PICK n \in WorkerState :
             /\ worker' = [worker EXCEPT ![w] = n]
             /\ n.pc = "markSent" /\ n.batch = worker[w].batch /\ n.cur = worker[w].cur
        BY <1>7, <1>3 DEF PCs, CloseCircuit
    <2>2. breaker' \in [Channels -> BreakerState]
        BY <1>1, <1>7 DEF CloseCircuit, BreakerState
    <2>3. QED
        BY <1>7, <2>1, <2>2, GoesOn DEF CloseCircuit
<1>8. CASE ReadFailures(w, x)
    <2> DEFINE m == breaker[outbox[x.id].channel].failures + 1
               n == [worker[w] EXCEPT !.pc = "trip", !.failures = m]
    <2>1. worker' = [worker EXCEPT ![w] = n]
        BY <1>8 DEF ReadFailures
    <2>2. m \in Nat
        BY <1>2 DEF BreakerState
    <2> HIDE DEF m
    <2>3. /\ n \in WorkerState
          /\ n.pc = "trip" /\ n.batch = worker[w].batch /\ n.cur = worker[w].cur
        BY <1>1, <2>2 DEF WorkerState, PCs
    <2> HIDE DEF n
    <2>4. QED
        BY <1>1, <1>8, <2>1, <2>3, GoesOn DEF ReadFailures
<1>9. CASE OpenCircuit(w, x)
    <2>1. PICK n \in WorkerState :
             /\ worker' = [worker EXCEPT ![w] = n]
             /\ n.pc = "markFailed" /\ n.batch = worker[w].batch /\ n.cur = worker[w].cur
        BY <1>9, <1>3 DEF PCs, OpenCircuit
    <2>2. worker[w].failures \in Nat
        BY <1>1 DEF WorkerState
    <2>3. breaker' \in [Channels -> BreakerState]
        BY <1>1, <1>9, <2>2 DEF OpenCircuit, BreakerState
    <2>4. QED
        BY <1>9, <2>1, <2>3, GoesOn DEF OpenCircuit
<1>10. QED
    BY <1>4, <1>5, <1>6, <1>7, <1>8, <1>9

\* Only a row whose acceptances are all paid for is handed to the provider.
LEMMA ProviderAcceptsInv ==
    ASSUME OneProcess, Inv, NEW w \in Workers, NEW x \in worker[w].cur,
           ProviderAccepts(w, x)
    PROVE  Inv'
<1> DEFINE n == [worker[w] EXCEPT !.pc = "accepted"]
<1>1. /\ worker \in [Workers -> WorkerState] /\ worker[w] \in WorkerState
      /\ \A v \in Workers : v = w
      /\ worker[w].pc = "send" /\ x \in InHand(w) /\ x.id \in RowIds
      /\ accepted \in [RowIds -> Nat] /\ crashes \in Nat
    BY HandTypes, OutboxAssumption
       DEF Inv, TypeOK, WorkerState, OneProcess, ProviderAccepts, InHand
<1>2. worker' = [worker EXCEPT ![w] = n] /\ worker'[w] = n
    BY <1>1 DEF ProviderAccepts, Go
<1>3. /\ n \in WorkerState /\ n.pc = "accepted"
      /\ n.cur = worker[w].cur /\ n.batch = worker[w].batch
    BY <1>1 DEF WorkerState, PCs
<1> HIDE DEF n
<1>4. TypeOK'
    BY <1>1, <1>2, <1>3 DEF Inv, TypeOK, WorkerState, ProviderAccepts
<1>5. FreshUntried' /\ GivenUpAfterAllAttempts' /\ RateBudget'
    BY DEF Inv, FreshUntried, GivenUpAfterAllAttempts, RateBudget, SentLately,
           ProviderAccepts
<1>6. HandShape'
    BY <1>1, <1>2, <1>3 DEF Inv, HandShape
<1>7. HandFresh'
    BY <1>1, <1>2, <1>3 DEF Inv, HandFresh, InHand, ProviderAccepts
<1>8. BudgetReserved'
    BY <1>1, <1>2, <1>3 DEF Inv, BudgetReserved, BudgetUsedUp, SentLately, ProviderAccepts
<1>9. DuplicatesPaid'
    <2>1. outbox[x.id].status = "sending" /\ accepted[x.id] <= crashes
        BY <1>1 DEF Inv, HandFresh, DuplicatesPaid, Owed, Unrecorded
    <2>2. ~Owed(x.id)'
        <3>1. \A y \in InHand(w) : y.id = x.id => y = x
            <4> SUFFICES ASSUME NEW y \in InHand(w), y.id = x.id PROVE y = x
                OBVIOUS
            <4>1. y \in Claim /\ x \in Claim
                BY <1>1, HandTypes DEF Inv
            <4>2. y.attempts = x.attempts
                BY <1>1 DEF Inv, HandFresh
            <4>3. QED
                BY <4>1, <4>2 DEF Claim
        <3>2. InHand(w)' = InHand(w) /\ Unrecorded(w, x)'
            BY <1>2, <1>3 DEF InHand, Unrecorded
        <3>3. QED
            BY <2>1, <3>1, <3>2, <1>1, <1>2, <1>3 DEF Owed, ProviderAccepts
    <2>3. ASSUME NEW i \in RowIds, i # x.id, Owed(i)' PROVE Owed(i)
        BY <2>3, <1>1, <1>2, <1>3 DEF Owed, InHand, Unrecorded, ProviderAccepts
    <2>4. \A i \in RowIds : accepted'[i] = IF i = x.id THEN accepted[i] + 1 ELSE accepted[i]
        BY <1>1 DEF ProviderAccepts
    <2>5. \A i \in RowIds : accepted[i] <= 1 + crashes /\ (Owed(i) => accepted[i] <= crashes)
        BY DEF Inv, DuplicatesPaid
    <2>6. crashes' = crashes
        BY DEF ProviderAccepts
    <2>7. QED
        BY <2>1, <2>2, <2>3, <2>4, <2>5, <2>6, <1>1 DEF DuplicatesPaid
<1>10. QED
    BY <1>4, <1>5, <1>6, <1>7, <1>8, <1>9 DEF Inv

\* What is known of the row in hand.
LEMMA CurFacts ==
    ASSUME Inv, NEW w \in Workers, NEW x \in worker[w].cur
    PROVE  /\ x.id \in RowIds /\ outbox[x.id] \in Row
           /\ outbox[x.id].status = "sending"
           /\ outbox[x.id].attempts = x.attempts
           /\ outbox[x.id].attempts \in Nat /\ MaxAttempts \in Nat
           /\ outbox[x.id].attempts < MaxAttempts
<1>1. x \in InHand(w)
    BY DEF InHand
<1>2. x.id \in RowIds /\ outbox[x.id] \in Row
    BY <1>1, HandTypes DEF Inv
<1>3. outbox[x.id].status = "sending" /\ outbox[x.id].attempts = x.attempts
    BY <1>1 DEF Inv, HandFresh
<1>4. outbox[x.id].attempts \in Nat /\ MaxAttempts \in Nat
    BY <1>2, OutboxAssumption DEF Row
<1>5. QED
    BY <1>2, <1>3, <1>4 DEF Inv, GivenUpAfterAllAttempts

LEMMA DeferInv ==
    ASSUME OneProcess, Inv, NEW w \in Workers, NEW x \in worker[w].cur, Defer(w, x)
    PROVE  Inv'
<1> DEFINE r == [outbox[x.id] EXCEPT !.status = "deferred", !.due = FALSE]
<1>1. outbox' = [outbox EXCEPT ![x.id] = r]
    BY DEF Defer
<1>2. outbox[x.id] \in Row
    BY CurFacts
<1>3. /\ r \in Row /\ r.status = "deferred" /\ r.channel = outbox[x.id].channel
      /\ r.attempts = outbox[x.id].attempts
    BY <1>2 DEF Row, Statuses
<1> HIDE DEF r
<1>4. ~Unrecorded(w, x) /\ faults' \in 0..MaxFaults
    BY DEF Unrecorded, Defer, Inv, TypeOK
<1>5. QED
    BY <1>1, <1>3, <1>4, CurFacts, RowLetGo DEF Defer

LEMMA MarkSentInv ==
    ASSUME OneProcess, Inv, NEW w \in Workers, NEW x \in worker[w].cur, MarkSent(w, x)
    PROVE  Inv'
<1> DEFINE k == outbox[x.id].attempts + 1
           r == [outbox[x.id] EXCEPT !.status = "sent", !.recent = TRUE, !.attempts = k]
<1>1. outbox' = [outbox EXCEPT ![x.id] = r]
    BY DEF MarkSent
<1>2. k \in 0..MaxAttempts
    BY CurFacts
<1> HIDE DEF k
<1>3. r \in Row /\ r.status = "sent" /\ r.channel = outbox[x.id].channel
    BY <1>2, CurFacts DEF Row, Statuses
<1> HIDE DEF r
<1>4. ~BudgetUsedUp(outbox[x.id].channel) /\ faults' \in 0..MaxFaults
    BY DEF MarkSent, Inv, BudgetReserved, TypeOK
<1>5. QED
    BY <1>1, <1>3, <1>4, RowLetGo DEF MarkSent

LEMMA MarkFailedInv ==
    ASSUME OneProcess, Inv, NEW w \in Workers, NEW x \in worker[w].cur, MarkFailed(w, x)
    PROVE  Inv'
<1> DEFINE k == outbox[x.id].attempts + 1
           s == IF RetryAllowed(x) THEN "pending" ELSE "failed"
           d == ~RetryAllowed(x)
           r == [outbox[x.id] EXCEPT !.status = s, !.due = d, !.attempts = k]
<1>1. outbox' = [outbox EXCEPT ![x.id] = r]
    BY DEF MarkFailed
<1>2. /\ k \in 0..MaxAttempts
      /\ s = "pending" => k < MaxAttempts
      /\ s = "failed" => k = MaxAttempts
      /\ s \in {"pending", "failed"}
    BY CurFacts DEF RetryAllowed
<1>3. d \in BOOLEAN
    BY DEF RetryAllowed
<1> HIDE DEF k, s, d
<1>4. r \in Row /\ r.status = s /\ r.channel = outbox[x.id].channel /\ r.attempts = k
    BY <1>2, <1>3, CurFacts DEF Row, Statuses
<1> HIDE DEF r
<1>5. ~Unrecorded(w, x) /\ faults' \in 0..MaxFaults
    BY DEF Unrecorded, MarkFailed, Inv, TypeOK
<1>6. QED
    BY <1>1, <1>2, <1>4, <1>5, RowLetGo DEF MarkFailed

\* The row stays 'sending' and leaves the worker's hand: no boot puts it back
\* before the process has died.
LEMMA UpdateFailsInv ==
    ASSUME OneProcess, Inv, NEW w \in Workers, NEW x \in worker[w].cur,
           UpdateFails(w, x)
    PROVE  Inv'
<1> DEFINE r == outbox[x.id]
<1>1. r \in Row /\ r.status = "sending" /\ r.attempts < MaxAttempts
    BY CurFacts
<1>2. outbox' = [outbox EXCEPT ![x.id] = r]
    BY CurFacts DEF UpdateFails, Inv, TypeOK
<1>3. faults' \in 0..MaxFaults
    BY OutboxAssumption DEF UpdateFails, Inv, TypeOK
<1>4. QED
    BY <1>1, <1>2, <1>3, RowLetGo DEF UpdateFails

LEMMA SendOneInv ==
    ASSUME OneProcess, Inv, NEW w \in Workers, NEW x \in worker[w].cur, SendOne(w, x)
    PROVE  Inv'
BY LooksInv, ProviderAcceptsInv, DeferInv, MarkSentInv, MarkFailedInv DEF SendOne

LEMMA NextInv == ASSUME OneProcess, Inv, [Next]_vars PROVE Inv'
<1>1. CASE \E i \in RowIds : Enqueue(i) \/ BecomesDue(i) \/ HourPasses(i)
    BY <1>1, EnqueueInv, BecomesDueInv, HourPassesInv
<1>2. ASSUME NEW w \in Workers, WorkerNext(w) PROVE Inv'
    BY <1>2, BootInv, ClaimDueInv, NextRowInv, SendOneInv, DrainDoneInv DEF WorkerNext
<1>3. ASSUME NEW w \in Workers, Crash(w) \/ \E x \in worker[w].cur : UpdateFails(w, x)
      PROVE  Inv'
    BY <1>3, CrashInv, UpdateFailsInv
<1>4. CASE \E c \in Channels : CircuitElapses(c)
    BY <1>4, CircuitElapsesInv
<1>5. CASE UNCHANGED vars
    <2>1. TypeOK' /\ FreshUntried' /\ HandShape' /\ HandFresh' /\ GivenUpAfterAllAttempts'
        BY <1>5 DEF Inv, vars, TypeOK, FreshUntried, HandShape, HandFresh, InHand,
                    GivenUpAfterAllAttempts
    <2>2. DuplicatesPaid'
        BY <1>5 DEF Inv, vars, DuplicatesPaid, Owed, InHand, Unrecorded
    <2>3. BudgetReserved' /\ RateBudget'
        BY <1>5 DEF Inv, vars, BudgetReserved, BudgetUsedUp, RateBudget, SentLately
    <2>4. QED
        BY <2>1, <2>2, <2>3 DEF Inv
<1>6. QED
    BY <1>1, <1>2, <1>3, <1>4, <1>5 DEF Next

-----------------------------------------------------------------------------
(* The theorems.                                                           *)

\* The worker, the table and the breaker of one process keep the inductive
\* invariant, whatever dies or fails.
THEOREM OutboxInvariant ==
    ASSUME OneProcess PROVE Spec => []Inv
<1>1. Inv /\ [Next]_vars => Inv'
    BY NextInv
<1>2. QED
    BY InvInit, <1>1, PTL DEF Spec

\* Type correctness; it says in particular that no row is ever tried more
\* than MaxAttempts times.
THEOREM OutboxTypes ==
    ASSUME OneProcess PROVE Spec => []TypeOK
<1>1. Inv => TypeOK
    BY DEF Inv
<1>2. QED
    BY <1>1, OutboxInvariant, PTL

\* At-least-once delivery costs at most one duplicate per death: n deaths of
\* the process hand one message to the provider at most n + 1 times (worker,
\* RequeueStale).
THEOREM OutboxDuplicates ==
    ASSUME OneProcess PROVE Spec => []DuplicatesNeedCrashes
<1>1. Inv => DuplicatesNeedCrashes
    BY DEF Inv, DuplicatesPaid, DuplicatesNeedCrashes
<1>2. QED
    BY <1>1, OutboxInvariant, PTL

\* A row is given up exactly when MaxAttempts sends have failed (fail).
THEOREM OutboxGivesUp ==
    ASSUME OneProcess PROVE Spec => []GivenUpAfterAllAttempts
<1>1. Inv => GivenUpAfterAllAttempts
    BY DEF Inv
<1>2. QED
    BY <1>1, OutboxInvariant, PTL

\* No more than Budget messages of an hour are marked sent per channel.
THEOREM OutboxRate ==
    ASSUME OneProcess PROVE Spec => []RateBudget
<1>1. Inv => RateBudget
    BY DEF Inv
<1>2. QED
    BY <1>1, OutboxInvariant, PTL

\* A message that was sent or given up is settled for good: neither a boot's
\* RequeueStale nor a claim nor a late update of the worker touches its
\* status again.
SettledForGood ==
    \A i \in RowIds : outbox[i].status \in {"sent", "failed"}
                       => outbox'[i].status = outbox[i].status

LEMMA SettledStep == ASSUME Inv, [Next]_vars PROVE SettledForGood
<1> SUFFICES ASSUME NEW i \in RowIds, outbox[i].status \in {"sent", "failed"}
             PROVE  outbox'[i].status = outbox[i].status
    BY DEF SettledForGood
<1>1. outbox \in [RowIds -> Row] /\ outbox[i] \in Row
    BY DEF Inv, TypeOK
<1>2. CASE \E j \in RowIds : Enqueue(j) \/ BecomesDue(j) \/ HourPasses(j)
    <2>1. PICK j \in RowIds : Enqueue(j) \/ BecomesDue(j) \/ HourPasses(j)
        BY <1>2
    <2>2. CASE i # j
        BY <1>1, <2>1, <2>2 DEF Enqueue, BecomesDue, HourPasses
    <2>3. CASE i = j
        <3>1. outbox' = [outbox EXCEPT ![i].recent = FALSE]
            BY <2>1, <2>3 DEF Enqueue, BecomesDue, HourPasses
        <3>2. outbox'[i] = [outbox[i] EXCEPT !.recent = FALSE]
            BY <1>1, <3>1
        <3>3. QED
            BY <1>1, <3>2 DEF Row
    <2>4. QED
        BY <2>2, <2>3
<1>3. ASSUME NEW w \in Workers, WorkerNext(w)
      PROVE  outbox'[i].status = outbox[i].status
    <2>1. CASE Boot(w)
        BY <2>1 DEF Boot
    <2>2. CASE \E S \in SUBSET DueRows : ClaimDue(w, S)
        BY <2>2 DEF ClaimDue, DueRows
    <2>3. CASE (\E x \in worker[w].batch : NextRow(w, x)) \/ DrainDone(w)
        BY <2>3 DEF NextRow, DrainDone
    <2>4. ASSUME NEW x \in worker[w].cur, SendOne(w, x)
          PROVE  outbox'[i].status = outbox[i].status
        <3>1. i # x.id
            BY CurFacts
        <3>2. QED
            BY <1>1, <2>4, <3>1
               DEF SendOne, CheckCircuit, CheckBudget, Defer, ProviderAccepts,
                   ProviderFails, CloseCircuit, MarkSent, ReadFailures, OpenCircuit,
                   MarkFailed
    <2>5. QED
        BY <1>3, <2>1, <2>2, <2>3, <2>4 DEF WorkerNext
<1>4. ASSUME NEW w \in Workers, Crash(w) \/ \E x \in worker[w].cur : UpdateFails(w, x)
      PROVE  outbox'[i].status = outbox[i].status
    BY <1>4 DEF Crash, UpdateFails
<1>5. CASE (\E c \in Channels : CircuitElapses(c)) \/ UNCHANGED vars
    BY <1>5 DEF CircuitElapses, vars
<1>6. QED
    BY <1>2, <1>3, <1>4, <1>5 DEF Next

\* Sent and given up are final (claimDue, RequeueStale, sendOne).
THEOREM OutboxSettled ==
    ASSUME OneProcess PROVE Spec => [][SettledForGood]_vars
<1>1. Inv /\ [Next]_vars => [SettledForGood]_vars
    BY SettledStep
<1>2. QED
    BY OutboxInvariant, <1>1, PTL DEF Spec
=============================================================================
