---------------------------- MODULE ServiceProofs ----------------------------
(***************************************************************************)
(* Theorems about the services beside the query path: the pipelines of     *)
(* bounded queues, DecisionRecorder, Observation and Outbox, for any       *)
(* number of callers and workers, any queue and any number of events, and  *)
(* Credentials, for any starts, browsers and passwords.  Every decision,   *)
(* query, row and event is where a counter or a queue says it is, and an   *)
(* event is posted only where it may go; a session proves the password in  *)
(* force, because a proof of an earlier one has an earlier revision, and   *)
(* an active credential was delivered.                                     *)
(*                                                                         *)
(* And about Services, which runs one of eleven specifications: whichever  *)
(* runs is the one its own theorems are about, so its types hold.          *)
(***************************************************************************)
EXTENDS MCServices, BlocklistProofs, DaddyboundProofs, DecisionProofs

(* The decision recorder *)

\* Every decision offered is in one place.
Accounted ==
    tally.offered = waiting + hand + tally.written + tally.failed + tally.dropped

\* A queue that is sealed has nobody left who passed the check before.
SealedIsQuiet == sealed => \A p \in Callers : caller[p] # "sending"

\* The drain begins with the seal, and Run returns from an empty queue.
DrainIsSealed == worker \in {"draining", "returned"} => sealed
ReturnedIsEmpty == worker = "returned" => waiting = 0 /\ hand = 0

\* Only the signal starts the goroutine of context.AfterFunc.
StopperIsStarted == ~signalled => stopper = "idle"

RecorderInv ==
    /\ RecorderTypeOK
    /\ StopperIsStarted
    /\ Accounted
    /\ SealedIsQuiet
    /\ DrainIsSealed
    /\ ReturnedIsEmpty

Tally == [offered : Nat, written : Nat, failed : Nat, dropped : Nat]

-----------------------------------------------------------------------------
\* What the end of a Record call does to the queue and the counters.
LEMMA LeaveStep ==
    ASSUME NEW p \in Callers, NEW fate \in {"queued", "dropped"}, Leave(p, fate),
           tally \in Tally, waiting \in Nat, hand \in Nat, Accounted
    PROVE  /\ tally' \in Tally
           /\ waiting' = IF fate = "queued" THEN waiting + 1 ELSE waiting
           /\ tally'.offered = waiting' + hand + tally'.written + tally'.failed
                                 + tally'.dropped
           /\ caller' = [caller EXCEPT ![p] = "outside"]
<1>1. CASE fate = "queued"
  BY <1>1 DEF Leave, Tally, Accounted
<1>2. CASE fate = "dropped"
  <2>1. tally' = [offered |-> tally.offered + 1, written |-> tally.written,
                  failed |-> tally.failed, dropped |-> tally.dropped + 1]
    BY <1>2 DEF Leave, Tally
  <2> QED
    BY <1>2, <2>1 DEF Leave, Tally, Accounted
<1> QED
  BY <1>1, <1>2

\* What the end of a write does to them.
LEMMA SettleStep ==
    ASSUME NEW fate \in {"written", "failed", "dropped"}, Settle(fate),
           tally \in Tally, waiting \in Nat, Accounted
    PROVE  /\ hand = 1 /\ hand' = 0
           /\ tally' \in Tally
           /\ tally'.offered = waiting + hand' + tally'.written + tally'.failed
                                 + tally'.dropped
<1>1. CASE fate = "written"
  BY <1>1 DEF Settle, Tally, Accounted
<1>2. CASE fate = "failed"
  BY <1>2 DEF Settle, Tally, Accounted
<1>3. CASE fate = "dropped"
  BY <1>3 DEF Settle, Tally, Accounted
<1> QED
  BY <1>1, <1>2, <1>3

\* The invariant holds at the start.
LEMMA RecorderInvInit == RecorderInit => RecorderInv
<1> SUFFICES ASSUME RecorderInit
             PROVE  RecorderInv
  OBVIOUS
<1> USE RecorderAssumption DEF RecorderInit
<1>1. caller \in [Callers -> {"outside", "inside", "sending"}]
  OBVIOUS
<1>2. tally \in [offered : Nat, written : Nat, failed : Nat, dropped : Nat]
  OBVIOUS
<1>3. sealed \in BOOLEAN /\ signalled \in BOOLEAN /\ expired \in BOOLEAN
  OBVIOUS
<1>4. RecorderTypeOK
  BY <1>1, <1>2, <1>3 DEF RecorderTypeOK
<1> QED
  BY <1>4 DEF RecorderInv, Accounted, SealedIsQuiet, DrainIsSealed, ReturnedIsEmpty,
              StopperIsStarted

\* Every step keeps the invariant.
LEMMA RecorderInvStep ==
    RecorderInv /\ [RecorderNext]_recorderVars => RecorderInv'
<1> SUFFICES ASSUME RecorderInv, [RecorderNext]_recorderVars
             PROVE  RecorderInv'
  OBVIOUS
<1> USE RecorderAssumption
<1> USE DEF RecorderInv, RecorderTypeOK, SealedIsQuiet, DrainIsSealed, ReturnedIsEmpty,
           StopperIsStarted
<1>0. tally \in Tally /\ waiting \in Nat /\ hand \in Nat /\ Accounted
  BY DEF Tally
<1>1. ASSUME NEW p \in Callers, TryGate(p)
      PROVE  RecorderInv'
  <2>1. CASE sealing # "nobody"
    <3>1. Leave(p, "dropped")
      BY <1>1, <2>1 DEF TryGate
    <3> QED
      BY <1>0, <1>1, <3>1, LeaveStep DEF TryGate, Accounted, Tally
  <2>2. CASE sealing = "nobody"
    BY <1>0, <1>1, <2>2 DEF TryGate, Accounted
  <2> QED
    BY <2>1, <2>2
<1>2. ASSUME NEW p \in Callers, CheckStopped(p)
      PROVE  RecorderInv'
  <2>1. CASE sealed
    <3>1. Leave(p, "dropped")
      BY <1>2, <2>1 DEF CheckStopped
    <3> QED
      BY <1>0, <1>2, <3>1, LeaveStep DEF CheckStopped, Accounted, Tally
  <2>2. CASE ~sealed
    BY <1>0, <1>2, <2>2 DEF CheckStopped, Accounted
  <2> QED
    BY <2>1, <2>2
<1>3. ASSUME NEW p \in Callers, Send(p)
      PROVE  RecorderInv'
  <2>1. ~sealed
    BY <1>3 DEF Send
  <2>2. CASE waiting < RecorderQueue
    <3>1. Leave(p, "queued")
      BY <1>3, <2>2 DEF Send
    <3> QED
      BY <1>0, <1>3, <2>1, <2>2, <3>1, LeaveStep DEF Send, Accounted, Tally
  <2>3. CASE ~(waiting < RecorderQueue)
    <3>1. Leave(p, "dropped")
      BY <1>3, <2>3 DEF Send
    <3> QED
      BY <1>0, <1>3, <2>1, <3>1, LeaveStep DEF Send, Accounted, Tally
  <2> QED
    BY <2>2, <2>3
<1>4. CASE Signal
  BY <1>0, <1>4 DEF Signal, Accounted
<1>5. CASE StopperStep
  <2>1. CASE stopper = "locking"
    BY <1>0, <1>5, <2>1 DEF StopperStep, ClaimGate, Accounted
  <2>2. CASE stopper = "closing"
    <3>1. sealed' = TRUE /\ \A p \in Callers : caller'[p] = "outside"
      BY <1>5, <2>2 DEF StopperStep, CloseGate
    <3>2. SealedIsQuiet' /\ DrainIsSealed' /\ sealed' \in BOOLEAN
      BY <3>1
    <3> QED
      BY <1>0, <1>5, <2>2, <3>2 DEF StopperStep, CloseGate, Accounted
  <2> QED
    BY <1>5, <2>1, <2>2 DEF StopperStep
<1>6. CASE Take
  BY <1>0, <1>6 DEF Take, Accounted
<1>7. CASE LookAtContext
  BY <1>0, <1>7 DEF LookAtContext, Accounted
<1>8. CASE Write
  <2>1. PICK fate \in {"written", "failed", "dropped"} : Settle(fate)
    BY <1>8 DEF Write
  <2>2. /\ hand' = 0
        /\ tally' \in Tally
        /\ tally'.offered = waiting + hand' + tally'.written + tally'.failed
                              + tally'.dropped
    BY <1>0, <2>1, SettleStep
  <2>3. /\ worker \in {"writing", "draining"}
        /\ worker' = IF worker = "writing" THEN "loop" ELSE worker
        /\ UNCHANGED <<caller, waiting, sealing, sealed, stopper, signalled, expired>>
    BY <1>8 DEF Write
  <2> QED
    BY <2>2, <2>3 DEF Accounted, Tally
<1>9. CASE SealBeforeDrain
  <2>1. CASE worker = "locking"
    BY <1>0, <1>9, <2>1 DEF SealBeforeDrain, ClaimGate, Accounted
  <2>2. CASE worker = "closing"
    <3>1. sealed' = TRUE /\ \A p \in Callers : caller'[p] = "outside"
      BY <1>9, <2>2 DEF SealBeforeDrain, CloseGate
    <3>2. SealedIsQuiet' /\ DrainIsSealed' /\ sealed' \in BOOLEAN
      BY <3>1
    <3> QED
      BY <1>0, <1>9, <2>2, <3>2 DEF SealBeforeDrain, CloseGate, Accounted
  <2> QED
    BY <1>9, <2>1, <2>2 DEF SealBeforeDrain
<1>10. CASE Expire
  BY <1>0, <1>10 DEF Expire, Accounted
<1>11. CASE Finish
  BY <1>0, <1>11 DEF Finish, Accounted
<1>12. CASE UNCHANGED recorderVars
  BY <1>12 DEF recorderVars, Accounted
<1> QED
  BY <1>1, <1>2, <1>3, <1>4, <1>5, <1>6, <1>7, <1>8, <1>9, <1>10, <1>11, <1>12
     DEF RecorderNext

\* The recorder's variables keep their types, the queue fits and the gate is
\* held by the goroutine at the step that releases it.
THEOREM RecorderTypeCorrect == RecorderSpec => []RecorderTypeOK
<1>1. RecorderInv => RecorderTypeOK
  BY DEF RecorderInv
<1> QED
  BY <1>1, RecorderInvInit, RecorderInvStep, PTL DEF RecorderSpec

\* Whatever races the shutdown, a decision that Record accepted is counted, and
\* none is in the queue or on its way to it once Run has returned.
THEOREM DecisionsAreNotStranded == RecorderSpec => []NoDecisionStranded
<1>1. RecorderInv => NoDecisionStranded
  BY DEF RecorderInv, Accounted, SealedIsQuiet, DrainIsSealed, ReturnedIsEmpty,
         NoDecisionStranded
<1> QED
  BY <1>1, RecorderInvInit, RecorderInvStep, PTL DEF RecorderSpec

-----------------------------------------------------------------------------
\* The observer: what is on its way in, what a worker holds, and whose verdict
\* is counted but whose row is not yet offered.
Entering == {q \in Queriers : querier[q] # "outside"}
Holding == {v \in Validators : validator[v] \in {"taken", "validating"}}
Recording == {v \in Validators : validator[v] = "recording"}

\* Every query offered is counted, queued or in somebody's hands, ...
QueriesAccounted ==
    counts.offered = counts.observed + counts.dropped + requests
                       + Cardinality(Entering) + Cardinality(Holding)

\* ... and so is every row of a verdict.
RowsAccounted ==
    counts.observed = counts.private + counts.written + counts.unqueued + counts.refused
                        + rowQueue + batch + Cardinality(Recording)

\* Each stage of the shutdown follows the end of the one before it.
ShutdownInOrder ==
    /\ observer # "joining" => \A v \in Validators : validator[v] = "exited"
    /\ observer \in {"draining", "done"} => stopping
    /\ stopping => \A q \in Queriers : querier[q] # "sending"
    /\ observer = "done" => requests = 0
    /\ stopWriter => observer = "done"
    /\ writer # "run" => stopWriter
    /\ writer = "done" => rowQueue = 0 /\ batch = 0

ObservationInv ==
    /\ ObservationTypeOK
    /\ QueriesAccounted
    /\ RowsAccounted
    /\ ShutdownInOrder

Counts == [offered : Nat, observed : Nat, dropped : Nat, private : Nat,
           written : Nat, unqueued : Nat, refused : Nat]

\* A set of goroutines that one enters or leaves.
LEMMA OneMore ==
    ASSUME NEW S, IsFiniteSet(S), NEW x
    PROVE  /\ Cardinality(S) \in Nat
           /\ x \notin S => Cardinality(S \cup {x}) = Cardinality(S) + 1
           /\ x \in S => Cardinality(S) = Cardinality(S \ {x}) + 1 /\ Cardinality(S \ {x}) \in Nat
<1>1. Cardinality(S) \in Nat
  BY FS_CardinalityType
<1>2. x \notin S => Cardinality(S \cup {x}) = Cardinality(S) + 1
  BY FS_AddElement
<1>3. ASSUME x \in S
      PROVE  Cardinality(S) = Cardinality(S \ {x}) + 1 /\ Cardinality(S \ {x}) \in Nat
  <2>1. IsFiniteSet(S \ {x}) /\ x \notin S \ {x} /\ (S \ {x}) \cup {x} = S
    BY <1>3, FS_Subset
  <2> QED
    BY <2>1, FS_AddElement, FS_CardinalityType
<1> QED
  BY <1>1, <1>2, <1>3

\* The goroutines are finitely many, and so are those at any place.
LEMMA GroupsAreFinite ==
    IsFiniteSet(Entering) /\ IsFiniteSet(Holding) /\ IsFiniteSet(Recording)
BY ObservationAssumption, FS_Subset DEF Entering, Holding, Recording

\* The invariant holds when the observer starts, ...
LEMMA ObservationInvInit == ObservationInit => ObservationInv
<1> SUFFICES ASSUME ObservationInit PROVE ObservationInv
  OBVIOUS
<1> USE ObservationAssumption DEF ObservationInit
<1>1. ObservationTypeOK
  <2>1. /\ querier \in [Queriers -> {"outside", "inside", "sending"}]
        /\ validator \in [Validators -> {"loop", "taken", "validating", "recording", "exited"}]
    OBVIOUS
  <2>2. counts \in Counts
    BY DEF Counts
  <2>3. closingGate \in BOOLEAN /\ stopping \in BOOLEAN /\ cancelled \in BOOLEAN
        /\ stopWriter \in BOOLEAN
    OBVIOUS
  <2> QED
    BY <2>1, <2>2, <2>3 DEF ObservationTypeOK, Counts
<1>2. Entering = {} /\ Holding = {} /\ Recording = {}
  BY DEF Entering, Holding, Recording
<1>3. QueriesAccounted /\ RowsAccounted
  BY <1>2, FS_EmptySet DEF QueriesAccounted, RowsAccounted
<1>4. ShutdownInOrder
  BY DEF ShutdownInOrder
<1> QED
  BY <1>1, <1>3, <1>4 DEF ObservationInv

\* A batch leaves for the database: its rows are written or refused.
LEMMA FlushStep ==
    ASSUME NEW n \in Nat, counts \in Counts, Flushed(n)
    PROVE  /\ counts' \in Counts
           /\ counts'.written + counts'.refused = counts.written + counts.refused + n
           /\ counts'.offered = counts.offered /\ counts'.observed = counts.observed
           /\ counts'.dropped = counts.dropped /\ counts'.private = counts.private
           /\ counts'.unqueued = counts.unqueued
<1>1. CASE counts' = [counts EXCEPT !["written"] = @ + n]
  <2>1. counts' = [counts EXCEPT !.written = @ + n]
    BY <1>1
  <2> QED
    BY <2>1 DEF Counts
<1>2. CASE counts' = [counts EXCEPT !["refused"] = @ + n]
  <2>1. counts' = [counts EXCEPT !.refused = @ + n]
    BY <1>2
  <2> QED
    BY <2>1 DEF Counts
<1> QED
  BY <1>1, <1>2 DEF Flushed

\* A verdict is counted, as private when p is 1.
VerdictCounted(p) ==
    /\ counts' \in Counts
    /\ counts'.observed = counts.observed + 1 /\ counts'.private = counts.private + p
    /\ counts'.offered = counts.offered /\ counts'.dropped = counts.dropped
    /\ counts'.written = counts.written /\ counts'.unqueued = counts.unqueued
    /\ counts'.refused = counts.refused

\* Both ways to count one.
LEMMA VerdictStep ==
    ASSUME counts \in Counts
    PROVE  /\ counts' = [counts EXCEPT !.observed = @ + 1] => VerdictCounted(0)
           /\ counts' = [counts EXCEPT !.observed = @ + 1, !.private = @ + 1] => VerdictCounted(1)
<1>1. ASSUME counts' = [counts EXCEPT !.observed = @ + 1]
      PROVE  VerdictCounted(0)
  BY <1>1 DEF VerdictCounted, Counts
<1>2. ASSUME counts' = [counts EXCEPT !.observed = @ + 1, !.private = @ + 1]
      PROVE  VerdictCounted(1)
  <2> DEFINE c == [counts EXCEPT !.observed = @ + 1]
  <2>1. counts' = [c EXCEPT !.private = @ + 1] /\ c \in Counts
    BY <1>2 DEF Counts
  <2>2. /\ c.observed = counts.observed + 1 /\ c.private = counts.private
        /\ c.offered = counts.offered /\ c.dropped = counts.dropped
        /\ c.written = counts.written /\ c.unqueued = counts.unqueued
        /\ c.refused = counts.refused
    BY DEF Counts
  <2> HIDE DEF c
  <2> QED
    BY <2>1, <2>2 DEF VerdictCounted, Counts
<1> QED
  BY <1>1, <1>2

\* ... and every step of a query, a worker, the shutdown or the writer keeps it.
LEMMA ObservationInvStep ==
    ObservationInv /\ [ObservationNext]_observationVars => ObservationInv'
<1> SUFFICES ASSUME ObservationInv, [ObservationNext]_observationVars
             PROVE  ObservationInv'
  OBVIOUS
<1> USE ObservationAssumption
<1>0. /\ ObservationTypeOK /\ counts \in Counts
      /\ Cardinality(Entering) \in Nat /\ Cardinality(Holding) \in Nat
      /\ Cardinality(Recording) \in Nat
  BY GroupsAreFinite, FS_CardinalityType DEF ObservationInv, ObservationTypeOK, Counts
<1>1. ASSUME NEW q \in Queriers, Approach(q)
      PROVE  ObservationInv'
  <2>1. /\ querier[q] = "outside" /\ querier' = [querier EXCEPT ![q] = "inside"]
        /\ counts' = [counts EXCEPT !.offered = @ + 1]
        /\ UNCHANGED <<requests, validator, observer, closingGate, stopping, cancelled>>
        /\ UNCHANGED writerVars
    BY <1>1 DEF Approach
  <2>2. Entering' = Entering \cup {q} /\ q \notin Entering /\ Holding' = Holding
        /\ Recording' = Recording
    BY <1>0, <2>1 DEF Entering, Holding, Recording, ObservationTypeOK
  <2>3. Cardinality(Entering') = Cardinality(Entering) + 1
    BY <2>2, OneMore, GroupsAreFinite
  <2>4. ObservationTypeOK'
    BY <1>0, <2>1 DEF ObservationTypeOK, writerVars, Counts
  <2>5. QueriesAccounted' /\ RowsAccounted'
    BY <1>0, <2>1, <2>2, <2>3 DEF ObservationInv, ObservationTypeOK, QueriesAccounted,
           RowsAccounted, writerVars, Counts
  <2>6. ShutdownInOrder'
    BY <1>0, <2>1 DEF ObservationInv, ObservationTypeOK, ShutdownInOrder, writerVars
  <2> QED
    BY <2>4, <2>5, <2>6 DEF ObservationInv
<1>2. ASSUME NEW q \in Queriers, Admit(q)
      PROVE  ObservationInv'
  <2>1. /\ querier[q] = "inside"
        /\ \/ /\ querier' = [querier EXCEPT ![q] = "outside"]
              /\ counts' = [counts EXCEPT !.dropped = @ + 1]
           \/ /\ ~stopping /\ querier' = [querier EXCEPT ![q] = "sending"]
              /\ counts' = counts
        /\ UNCHANGED <<requests, validator>>
        /\ UNCHANGED <<observer, closingGate, stopping, cancelled>>
        /\ UNCHANGED writerVars
    BY <1>2, <1>0 DEF Admit
  <2>2. /\ \/ /\ q \in Entering /\ Entering' = Entering \ {q}
              /\ counts' = [counts EXCEPT !.dropped = @ + 1]
           \/ Entering' = Entering /\ counts' = counts
        /\ Holding' = Holding
        /\ Recording' = Recording
    BY <1>0, <2>1 DEF Entering, Holding, Recording, ObservationTypeOK
  <2>3. /\ \/ /\ Cardinality(Entering) = Cardinality(Entering') + 1
              /\ Cardinality(Entering') \in Nat
              /\ counts' = [counts EXCEPT !.dropped = @ + 1]
           \/ Entering' = Entering /\ counts' = counts
    BY <2>2, OneMore, GroupsAreFinite
  <2>4. ObservationTypeOK'
    BY <1>0, <2>1 DEF ObservationTypeOK, writerVars, Counts
  <2>5. QueriesAccounted' /\ RowsAccounted'
    BY <1>0, <2>1, <2>2, <2>3 DEF ObservationInv, ObservationTypeOK, QueriesAccounted,
           RowsAccounted, writerVars, Counts
  <2>6. ShutdownInOrder'
    BY <1>0, <2>1 DEF ObservationInv, ObservationTypeOK, ShutdownInOrder, writerVars
  <2> QED
    BY <2>4, <2>5, <2>6 DEF ObservationInv
<1>3. ASSUME NEW q \in Queriers, Enqueue(q)
      PROVE  ObservationInv'
  <2>1. /\ querier[q] = "sending"
        /\ querier' = [querier EXCEPT ![q] = "outside"]
        /\ \/ requests < ObserverQueue /\ requests' = requests + 1 /\ counts' = counts
           \/ counts' = [counts EXCEPT !.dropped = @ + 1] /\ requests' = requests
        /\ UNCHANGED validator
        /\ UNCHANGED <<observer, closingGate, stopping, cancelled>>
        /\ UNCHANGED writerVars
    BY <1>3, <1>0 DEF Enqueue
  <2>2. /\ q \in Entering /\ Entering' = Entering \ {q}
        /\ Holding' = Holding
        /\ Recording' = Recording
    BY <1>0, <2>1 DEF Entering, Holding, Recording, ObservationTypeOK
  <2>3. /\ Cardinality(Entering) = Cardinality(Entering') + 1
        /\ Cardinality(Entering') \in Nat
    BY <2>2, OneMore, GroupsAreFinite
  <2>4. ObservationTypeOK'
    BY <1>0, <2>1 DEF ObservationTypeOK, writerVars, Counts
  <2>5. QueriesAccounted' /\ RowsAccounted'
    BY <1>0, <2>1, <2>2, <2>3 DEF ObservationInv, ObservationTypeOK, QueriesAccounted,
           RowsAccounted, writerVars, Counts
  <2>6. ShutdownInOrder'
    BY <1>0, <2>1 DEF ObservationInv, ObservationTypeOK, ShutdownInOrder, writerVars
  <2> QED
    BY <2>4, <2>5, <2>6 DEF ObservationInv
<1>4. ASSUME NEW v \in Validators, TakeRequest(v)
      PROVE  ObservationInv'
  <2>1. /\ validator[v] = "loop" /\ requests > 0
        /\ requests' = requests - 1
        /\ validator' = [validator EXCEPT ![v] = "taken"]
        /\ UNCHANGED <<querier, counts>>
        /\ UNCHANGED <<observer, closingGate, stopping, cancelled>>
        /\ UNCHANGED writerVars
    BY <1>4, <1>0 DEF TakeRequest, Goto
  <2>2. /\ v \notin Holding /\ Holding' = Holding \cup {v}
        /\ Entering' = Entering
        /\ Recording' = Recording
    BY <1>0, <2>1 DEF Entering, Holding, Recording, ObservationTypeOK
  <2>3. /\ Cardinality(Holding') = Cardinality(Holding) + 1
    BY <2>2, OneMore, GroupsAreFinite
  <2>4. ObservationTypeOK'
    BY <1>0, <2>1 DEF ObservationTypeOK, writerVars, Counts
  <2>5. QueriesAccounted' /\ RowsAccounted'
    <3>1. RowsAccounted'
      BY <2>1, <2>2 DEF ObservationInv, RowsAccounted, writerVars
    <3>2. /\ counts.offered \in Nat /\ counts.observed \in Nat /\ counts.dropped \in Nat
          /\ requests \in Nat
      BY <1>0 DEF ObservationTypeOK, Counts
    <3>3. QueriesAccounted'
      BY <1>0, <2>1, <2>2, <2>3, <3>2 DEF ObservationInv, QueriesAccounted
    <3> QED
      BY <3>1, <3>3
  <2>6. ShutdownInOrder'
    BY <1>0, <2>1 DEF ObservationInv, ObservationTypeOK, ShutdownInOrder, writerVars
  <2> QED
    BY <2>4, <2>5, <2>6 DEF ObservationInv
<1>5. ASSUME NEW v \in Validators, BeginValidation(v)
      PROVE  ObservationInv'
  <2>1. /\ validator[v] = "taken"
        /\ \/ /\ validator' = [validator EXCEPT ![v] = "exited"]
              /\ counts' = [counts EXCEPT !.dropped = @ + 1]
           \/ /\ validator' = [validator EXCEPT ![v] = "validating"]
              /\ counts' = counts
        /\ UNCHANGED <<querier, requests>>
        /\ UNCHANGED <<observer, closingGate, stopping, cancelled>>
        /\ UNCHANGED writerVars
    BY <1>5, <1>0 DEF BeginValidation, Goto
  <2>2. /\ \/ /\ v \in Holding /\ Holding' = Holding \ {v}
              /\ counts' = [counts EXCEPT !.dropped = @ + 1]
           \/ Holding' = Holding /\ counts' = counts
        /\ Entering' = Entering
        /\ Recording' = Recording
    BY <1>0, <2>1 DEF Entering, Holding, Recording, ObservationTypeOK
  <2>3. /\ \/ /\ Cardinality(Holding) = Cardinality(Holding') + 1
              /\ Cardinality(Holding') \in Nat
              /\ counts' = [counts EXCEPT !.dropped = @ + 1]
           \/ Holding' = Holding /\ counts' = counts
    BY <2>2, OneMore, GroupsAreFinite
  <2>4. ObservationTypeOK'
    BY <1>0, <2>1 DEF ObservationTypeOK, writerVars, Counts
  <2>5. QueriesAccounted' /\ RowsAccounted'
    BY <1>0, <2>1, <2>2, <2>3 DEF ObservationInv, ObservationTypeOK, QueriesAccounted,
           RowsAccounted, writerVars, Counts
  <2>6. ShutdownInOrder'
    BY <1>0, <2>1 DEF ObservationInv, ObservationTypeOK, ShutdownInOrder, writerVars
  <2> QED
    BY <2>4, <2>5, <2>6 DEF ObservationInv
<1>6. ASSUME NEW v \in Validators, CountVerdict(v)
      PROVE  ObservationInv'
  <2>1. /\ validator[v] = "validating"
        /\ \/ /\ validator' = [validator EXCEPT ![v] = "recording"]
              /\ VerdictCounted(0)
           \/ /\ validator' = [validator EXCEPT ![v] = "loop"]
              /\ VerdictCounted(1)
        /\ UNCHANGED <<querier, requests>>
        /\ UNCHANGED <<observer, closingGate, stopping, cancelled>>
        /\ UNCHANGED writerVars
    BY <1>6, <1>0, VerdictStep DEF CountVerdict, Goto
  <2>2. /\ v \in Holding /\ Holding' = Holding \ {v}
        /\ Entering' = Entering
        /\ \/ v \notin Recording /\ Recording' = Recording \cup {v} /\ VerdictCounted(0)
           \/ Recording' = Recording /\ VerdictCounted(1)
    BY <1>0, <2>1 DEF Entering, Holding, Recording, ObservationTypeOK
  <2>3. /\ Cardinality(Holding) = Cardinality(Holding') + 1
        /\ Cardinality(Holding') \in Nat
        /\ \/ Cardinality(Recording') = Cardinality(Recording) + 1 /\ VerdictCounted(0)
           \/ Recording' = Recording /\ VerdictCounted(1)
    BY <2>2, OneMore, GroupsAreFinite
  <2>4. ObservationTypeOK'
    <3>1. counts' \in Counts
      BY <2>1 DEF VerdictCounted
    <3>2. validator' \in [Validators -> {"loop", "taken", "validating", "recording", "exited"}]
      BY <1>0, <2>1 DEF ObservationTypeOK
    <3> QED
      BY <1>0, <2>1, <3>1, <3>2 DEF ObservationTypeOK, writerVars, Counts
  <2>5. QueriesAccounted'
    BY <1>0, <2>1, <2>2, <2>3 DEF ObservationInv, ObservationTypeOK, QueriesAccounted, Counts,
           VerdictCounted
  <2>6. RowsAccounted'
    BY <1>0, <2>1, <2>2, <2>3 DEF ObservationInv, ObservationTypeOK, RowsAccounted, writerVars,
           Counts, VerdictCounted
  <2>7. ShutdownInOrder'
    BY <1>0, <2>1 DEF ObservationInv, ObservationTypeOK, ShutdownInOrder, writerVars
  <2> QED
    BY <2>4, <2>5, <2>6, <2>7 DEF ObservationInv
<1>7. ASSUME NEW v \in Validators, RecordRow(v)
      PROVE  ObservationInv'
  <2>1. /\ validator[v] = "recording"
        /\ validator' = [validator EXCEPT ![v] = "loop"]
        /\ \/ rowQueue < WriterQueue /\ rowQueue' = rowQueue + 1 /\ counts' = counts
           \/ counts' = [counts EXCEPT !.unqueued = @ + 1] /\ rowQueue' = rowQueue
        /\ UNCHANGED <<querier, requests>>
        /\ UNCHANGED <<observer, closingGate, stopping, cancelled>>
        /\ UNCHANGED <<batch, writer, stopWriter>>
    BY <1>7, <1>0 DEF RecordRow, Goto
  <2>2. /\ v \in Recording /\ Recording' = Recording \ {v}
        /\ Entering' = Entering
        /\ Holding' = Holding
    BY <1>0, <2>1 DEF Entering, Holding, Recording, ObservationTypeOK
  <2>3. /\ Cardinality(Recording) = Cardinality(Recording') + 1
        /\ Cardinality(Recording') \in Nat
    BY <2>2, OneMore, GroupsAreFinite
  <2>4. ObservationTypeOK'
    BY <1>0, <2>1 DEF ObservationTypeOK, Counts
  <2>5. QueriesAccounted' /\ RowsAccounted'
    BY <1>0, <2>1, <2>2, <2>3 DEF ObservationInv, ObservationTypeOK, QueriesAccounted,
           RowsAccounted, Counts
  <2>6. ShutdownInOrder'
    BY <1>0, <2>1 DEF ObservationInv, ObservationTypeOK, ShutdownInOrder
  <2> QED
    BY <2>4, <2>5, <2>6 DEF ObservationInv
<1>8. ASSUME NEW v \in Validators, LeavePool(v)
      PROVE  ObservationInv'
  <2>1. /\ validator[v] = "loop"
        /\ validator' = [validator EXCEPT ![v] = "exited"]
        /\ UNCHANGED <<querier, requests, counts>>
        /\ UNCHANGED <<observer, closingGate, stopping, cancelled>>
        /\ UNCHANGED writerVars
    BY <1>8, <1>0 DEF LeavePool, Goto
  <2>2. /\ Entering' = Entering
        /\ Holding' = Holding
        /\ Recording' = Recording
    BY <1>0, <2>1 DEF Entering, Holding, Recording, ObservationTypeOK
  <2>4. ObservationTypeOK'
    BY <1>0, <2>1 DEF ObservationTypeOK, writerVars, Counts
  <2>5. QueriesAccounted' /\ RowsAccounted'
    BY <1>0, <2>1, <2>2 DEF ObservationInv, ObservationTypeOK, QueriesAccounted,
           RowsAccounted, writerVars, Counts
  <2>6. ShutdownInOrder'
    BY <1>0, <2>1 DEF ObservationInv, ObservationTypeOK, ShutdownInOrder, writerVars
  <2> QED
    BY <2>4, <2>5, <2>6 DEF ObservationInv
<1>9. CASE Cancel
  <2>1. /\ cancelled' = TRUE
        /\ UNCHANGED <<querier, requests, validator, observer, closingGate, stopping, counts>>
        /\ UNCHANGED writerVars
    BY <1>9, <1>0 DEF Cancel
  <2>2. /\ Entering' = Entering
        /\ Holding' = Holding
        /\ Recording' = Recording
    BY <1>0, <2>1 DEF Entering, Holding, Recording, ObservationTypeOK
  <2>4. ObservationTypeOK'
    BY <1>0, <2>1 DEF ObservationTypeOK, writerVars, Counts
  <2>5. QueriesAccounted' /\ RowsAccounted'
    BY <1>0, <2>1, <2>2 DEF ObservationInv, ObservationTypeOK, QueriesAccounted,
           RowsAccounted, writerVars, Counts
  <2>6. ShutdownInOrder'
    BY <1>0, <2>1 DEF ObservationInv, ObservationTypeOK, ShutdownInOrder, writerVars
  <2> QED
    BY <2>4, <2>5, <2>6 DEF ObservationInv
<1>10. CASE JoinWorkers
  <2>1. /\ observer = "joining" /\ \A v \in Validators : validator[v] = "exited"
        /\ observer' = "closing" /\ closingGate' = TRUE
        /\ UNCHANGED <<querier, requests, validator, stopping, cancelled, counts>>
        /\ UNCHANGED writerVars
    BY <1>10, <1>0 DEF JoinWorkers
  <2>2. /\ Entering' = Entering
        /\ Holding' = Holding
        /\ Recording' = Recording
    BY <1>0, <2>1 DEF Entering, Holding, Recording, ObservationTypeOK
  <2>4. ObservationTypeOK'
    BY <1>0, <2>1 DEF ObservationTypeOK, writerVars, Counts
  <2>5. QueriesAccounted' /\ RowsAccounted'
    BY <1>0, <2>1, <2>2 DEF ObservationInv, ObservationTypeOK, QueriesAccounted,
           RowsAccounted, writerVars, Counts
  <2>6. ShutdownInOrder'
    BY <1>0, <2>1 DEF ObservationInv, ObservationTypeOK, ShutdownInOrder, writerVars
  <2> QED
    BY <2>4, <2>5, <2>6 DEF ObservationInv
<1>11. CASE CloseAdmission
  <2>1. /\ observer = "closing" /\ \A q \in Queriers : querier[q] = "outside"
        /\ stopping' = TRUE /\ closingGate' = FALSE /\ observer' = "draining"
        /\ UNCHANGED <<querier, requests, validator, cancelled, counts>>
        /\ UNCHANGED writerVars
    BY <1>11, <1>0 DEF CloseAdmission
  <2>2. /\ Entering' = Entering
        /\ Holding' = Holding
        /\ Recording' = Recording
    BY <1>0, <2>1 DEF Entering, Holding, Recording, ObservationTypeOK
  <2>4. ObservationTypeOK'
    BY <1>0, <2>1 DEF ObservationTypeOK, writerVars, Counts
  <2>5. QueriesAccounted' /\ RowsAccounted'
    BY <1>0, <2>1, <2>2 DEF ObservationInv, ObservationTypeOK, QueriesAccounted,
           RowsAccounted, writerVars, Counts
  <2>6. ShutdownInOrder'
    BY <1>0, <2>1 DEF ObservationInv, ObservationTypeOK, ShutdownInOrder, writerVars
  <2> QED
    BY <2>4, <2>5, <2>6 DEF ObservationInv
<1>12. CASE DrainObserver
  <2>1. /\ observer = "draining"
        /\ \/ /\ requests > 0 /\ requests' = requests - 1 /\ observer' = observer
              /\ counts' = [counts EXCEPT !.dropped = @ + 1]
           \/ /\ requests = 0 /\ requests' = requests /\ observer' = "done"
              /\ counts' = counts
        /\ UNCHANGED <<querier, validator, closingGate, stopping, cancelled>>
        /\ UNCHANGED writerVars
    BY <1>12, <1>0 DEF DrainObserver, ObservationTypeOK
  <2>2. /\ Entering' = Entering
        /\ Holding' = Holding
        /\ Recording' = Recording
    BY <1>0, <2>1 DEF Entering, Holding, Recording, ObservationTypeOK
  <2>4. ObservationTypeOK'
    BY <1>0, <2>1 DEF ObservationTypeOK, writerVars, Counts
  <2>5. QueriesAccounted' /\ RowsAccounted'
    BY <1>0, <2>1, <2>2 DEF ObservationInv, ObservationTypeOK, QueriesAccounted,
           RowsAccounted, writerVars, Counts
  <2>6. ShutdownInOrder'
    BY <1>0, <2>1 DEF ObservationInv, ObservationTypeOK, ShutdownInOrder, writerVars
  <2> QED
    BY <2>4, <2>5, <2>6 DEF ObservationInv
<1>13. CASE StopWriter
  <2>1. /\ observer = "done" /\ stopWriter' = TRUE
        /\ UNCHANGED observerVars
        /\ UNCHANGED <<rowQueue, batch, writer, counts>>
    BY <1>13, <1>0 DEF StopWriter
  <2>2. /\ Entering' = Entering
        /\ Holding' = Holding
        /\ Recording' = Recording
    BY <1>0, <2>1 DEF Entering, Holding, Recording, ObservationTypeOK, observerVars
  <2>4. ObservationTypeOK'
    BY <1>0, <2>1 DEF ObservationTypeOK, observerVars, Counts
  <2>5. QueriesAccounted' /\ RowsAccounted'
    BY <1>0, <2>1, <2>2 DEF ObservationInv, ObservationTypeOK, QueriesAccounted,
           RowsAccounted, observerVars, Counts
  <2>6. ShutdownInOrder'
    BY <1>0, <2>1 DEF ObservationInv, ObservationTypeOK, ShutdownInOrder, observerVars
  <2> QED
    BY <2>4, <2>5, <2>6 DEF ObservationInv
<1>14. CASE TakeRow
  <2>1. /\ writer \in {"run", "drain"} /\ rowQueue > 0 /\ rowQueue' = rowQueue - 1
        /\ \/ batch + 1 < BatchRows /\ batch' = batch + 1 /\ counts' = counts
           \/ batch' = 0 /\ Flushed(batch + 1)
        /\ UNCHANGED observerVars /\ UNCHANGED <<writer, stopWriter>>
    BY <1>14 DEF TakeRow
  <2>2. Entering' = Entering /\ Holding' = Holding /\ Recording' = Recording
    BY <2>1 DEF Entering, Holding, Recording, observerVars
  <2>3. /\ counts' \in Counts /\ batch' \in 0..(BatchRows - 1)
        /\ counts'.written + counts'.refused + batch' = counts.written + counts.refused + batch + 1
        /\ counts'.offered = counts.offered /\ counts'.observed = counts.observed
        /\ counts'.dropped = counts.dropped /\ counts'.private = counts.private
        /\ counts'.unqueued = counts.unqueued
    <3>1. batch \in Nat /\ counts.written \in Nat /\ counts.refused \in Nat
      BY <1>0 DEF ObservationTypeOK, Counts
    <3>2. CASE Flushed(batch + 1) /\ batch' = 0
      BY <1>0, <3>1, <3>2, FlushStep DEF Counts
    <3>3. CASE batch + 1 < BatchRows /\ batch' = batch + 1 /\ counts' = counts
      BY <1>0, <3>1, <3>3
    <3> QED
      BY <2>1, <3>2, <3>3
  <2>4. ObservationTypeOK'
    BY <1>0, <2>1, <2>3 DEF ObservationTypeOK, observerVars, Counts
  <2>5. QueriesAccounted' /\ RowsAccounted'
    BY <1>0, <2>1, <2>2, <2>3 DEF ObservationInv, ObservationTypeOK, QueriesAccounted,
           RowsAccounted, observerVars, Counts
  <2>6. ShutdownInOrder'
    BY <1>0, <2>1 DEF ObservationInv, ObservationTypeOK, ShutdownInOrder, observerVars
  <2> QED
    BY <2>4, <2>5, <2>6 DEF ObservationInv
<1>15. CASE FlushTicker
  <2>1. /\ writer = "run" /\ batch' = 0 /\ Flushed(batch)
        /\ UNCHANGED observerVars /\ UNCHANGED <<rowQueue, writer, stopWriter>>
    BY <1>15 DEF FlushTicker
  <2>2. Entering' = Entering /\ Holding' = Holding /\ Recording' = Recording
    BY <2>1 DEF Entering, Holding, Recording, observerVars
  <2>3. /\ counts' \in Counts
        /\ counts'.written + counts'.refused = counts.written + counts.refused + batch
        /\ counts'.offered = counts.offered /\ counts'.observed = counts.observed
        /\ counts'.dropped = counts.dropped /\ counts'.private = counts.private
        /\ counts'.unqueued = counts.unqueued
    BY <1>0, <2>1, FlushStep DEF ObservationTypeOK
  <2>4. ObservationTypeOK'
    BY <1>0, <2>1, <2>3 DEF ObservationTypeOK, observerVars, Counts
  <2>5. QueriesAccounted' /\ RowsAccounted'
    BY <1>0, <2>1, <2>2, <2>3 DEF ObservationInv, ObservationTypeOK, QueriesAccounted,
           RowsAccounted, observerVars, Counts
  <2>6. ShutdownInOrder'
    BY <1>0, <2>1 DEF ObservationInv, ObservationTypeOK, ShutdownInOrder, observerVars
  <2> QED
    BY <2>4, <2>5, <2>6 DEF ObservationInv
<1>16. CASE DrainWriter
  <2>1. UNCHANGED observerVars /\ UNCHANGED <<rowQueue, stopWriter>>
    BY <1>16 DEF DrainWriter
  <2>2. Entering' = Entering /\ Holding' = Holding /\ Recording' = Recording
    BY <2>1 DEF Entering, Holding, Recording, observerVars
  <2>3. CASE writer = "run" /\ stopWriter /\ writer' = "drain" /\ UNCHANGED <<batch, counts>>
    <3>1. ObservationTypeOK'
      BY <1>0, <2>1, <2>3 DEF ObservationTypeOK, observerVars
    <3>2. QueriesAccounted' /\ RowsAccounted'
      BY <2>1, <2>2, <2>3 DEF ObservationInv, QueriesAccounted, RowsAccounted, observerVars
    <3>3. ShutdownInOrder'
      BY <2>1, <2>3 DEF ObservationInv, ShutdownInOrder, observerVars
    <3> QED
      BY <3>1, <3>2, <3>3 DEF ObservationInv
  <2>4. CASE writer = "drain" /\ rowQueue = 0 /\ writer' = "done" /\ batch' = 0 /\ Flushed(batch)
    <3>1. /\ counts' \in Counts
          /\ counts'.written + counts'.refused = counts.written + counts.refused + batch
          /\ counts'.offered = counts.offered /\ counts'.observed = counts.observed
          /\ counts'.dropped = counts.dropped /\ counts'.private = counts.private
          /\ counts'.unqueued = counts.unqueued
      BY <1>0, <2>4, FlushStep DEF ObservationTypeOK
    <3>2. ObservationTypeOK'
      BY <1>0, <2>1, <2>4, <3>1 DEF ObservationTypeOK, observerVars, Counts
    <3>3. QueriesAccounted' /\ RowsAccounted'
      BY <1>0, <2>1, <2>2, <2>4, <3>1 DEF ObservationInv, ObservationTypeOK, QueriesAccounted,
             RowsAccounted, observerVars, Counts
    <3>4. ShutdownInOrder'
      BY <1>0, <2>1, <2>4 DEF ObservationInv, ObservationTypeOK, ShutdownInOrder, observerVars
    <3> QED
      BY <3>2, <3>3, <3>4 DEF ObservationInv
  <2> QED
    BY <1>16, <2>3, <2>4 DEF DrainWriter
<1>17. CASE UNCHANGED observationVars
  <2>1. Entering' = Entering /\ Holding' = Holding /\ Recording' = Recording
    BY <1>17 DEF Entering, Holding, Recording, observationVars
  <2> QED
    BY <1>17, <2>1 DEF ObservationInv, ObservationTypeOK, QueriesAccounted, RowsAccounted,
           ShutdownInOrder, observationVars
<1> QED
  BY <1>1, <1>2, <1>3, <1>4, <1>5, <1>6, <1>7, <1>8, <1>9, <1>10, <1>11, <1>12, <1>13,
     <1>14, <1>15, <1>16, <1>17 DEF ObservationNext

\* The observer's variables keep their types and its queues fit.
THEOREM ObservationTypeCorrect == ObservationSpec => []ObservationTypeOK
<1>1. ObservationInv => ObservationTypeOK
  BY DEF ObservationInv
<1> QED
  BY <1>1, ObservationInvInit, ObservationInvStep, PTL DEF ObservationSpec

\* After the shutdown of main's order, every query offered was observed or
\* counted as dropped, and every row was written, refused or counted.
THEOREM ObservationsAreAccounted == ObservationSpec => []EveryObservationAccounted
<1>1. ObservationInv => EveryObservationAccounted
  <2> SUFFICES ASSUME ObservationInv PROVE EveryObservationAccounted
    OBVIOUS
  <2>0. counts \in Counts /\ rowQueue \in Nat /\ batch \in Nat
    BY ObservationAssumption DEF ObservationInv, ObservationTypeOK, Counts
  <2>1. ASSUME observer = "done", \A q \in Queriers : querier[q] = "outside"
        PROVE  counts.offered = counts.observed + counts.dropped
    <3>1. Entering = {} /\ Holding = {} /\ requests = 0
      BY <2>1 DEF Entering, Holding, ObservationInv, ShutdownInOrder
    <3>2. Cardinality(Entering) = 0 /\ Cardinality(Holding) = 0
      BY <3>1, FS_EmptySet
    <3> QED
      BY <2>0, <3>1, <3>2 DEF ObservationInv, QueriesAccounted, Counts
  <2>2. ASSUME writer = "done"
        PROVE  /\ observer = "done"
               /\ counts.observed = counts.private + counts.written + counts.unqueued
                                      + counts.refused
    <3>1. observer = "done" /\ Recording = {} /\ rowQueue = 0 /\ batch = 0
      BY <2>2 DEF Recording, ObservationInv, ShutdownInOrder
    <3>2. Cardinality(Recording) = 0
      BY <3>1, FS_EmptySet
    <3> QED
      BY <2>0, <3>1, <3>2 DEF ObservationInv, RowsAccounted, Counts
  <2> QED
    BY <2>1, <2>2 DEF EveryObservationAccounted
<1> QED
  BY <1>1, ObservationInvInit, ObservationInvStep, PTL DEF ObservationSpec

-----------------------------------------------------------------------------
\* Every queued event was captured under the settings its row names.
CapturedInv ==
    /\ IsFiniteSet(captured)
    /\ \A e \in Waiting : [event |-> e, version |-> outbox[e].version] \in captured

\* The event under way is captured; past Judge it is of the settings the worker
\* read, and a live request of replaced settings is about to be cancelled.
CallInv ==
    /\ call.pc \notin {"idle", "claiming"} =>
           [event |-> call.event, version |-> call.row] \in captured
    /\ call.pc \in {"rechecking", "signing", "sending", "waiting"} =>
           call.row = call.version
    /\ call.pc \in {"signing", "sending"} /\ request = "live" =>
           call.version = hookSettings.version \/ saving
    /\ call.pc = "finishing" => call.outcome # "none"

OutboxInv ==
    /\ OutboxTypeOK
    /\ CapturedInv
    /\ EventsAreAccounted
    /\ CallInv

-----------------------------------------------------------------------------
\* The queued events are finitely many.
LEMMA WaitingIsFinite ==
    ASSUME OutboxTypeOK
    PROVE  IsFiniteSet(Waiting) /\ Cardinality(Waiting) \in Nat
BY OutboxAssumption, FS_Subset, FS_CardinalityType DEF OutboxTypeOK

\* The invariant holds at the start.
LEMMA OutboxInvInit == OutboxInit => OutboxInv
<1> SUFFICES ASSUME OutboxInit
             PROVE  OutboxInv
  OBVIOUS
<1> USE OutboxAssumption DEF OutboxInit
<1>0. IsFiniteSet({}) /\ Cardinality({}) = 0
  BY FS_EmptySet
<1>1. Waiting = {} /\ Cardinality(Waiting) = 0
  BY <1>0 DEF Waiting
<1>2. outbox \in [Waiting -> Rows]
  BY <1>1 DEF Waiting
<1>3. call \in Calls /\ call.pc = "idle"
  BY DEF Calls, Resting
<1>4. eventCounts \in [{"delivered", "failed", "dropped"} -> Nat]
  OBVIOUS
<1>5. hookSettings \in [version : 1..MaxSettings, enabled : BOOLEAN]
  OBVIOUS
<1>6. /\ appended \subseteq Events
      /\ captured \subseteq [event : appended, version : 1..hookSettings.version]
      /\ Waiting \subseteq Events /\ Cardinality(Waiting) <= MaxQueue
      /\ request = "none" /\ saving = FALSE /\ failures \in 0..MaxFailures
  BY <1>1
<1> HIDE DEF OutboxInit
<1>7. OutboxTypeOK
  BY <1>6, <1>1, <1>2, <1>3, <1>4, <1>5 DEF OutboxTypeOK
<1> QED
  BY <1>0, <1>1, <1>3, <1>7 DEF OutboxInit, OutboxInv, CapturedInv, EventsAreAccounted, CallInv

\* A step that leaves the tables alone keeps what is said of them.
LEMMA TablesKept ==
    ASSUME OutboxInv, UNCHANGED hookTables, call' \in Calls,
           call'.pc \in {"rechecking", "signing", "sending", "waiting"} =>
               call'.attempts <= MaxAttempts,
           request' \in {"none", "live", "cancelled"}, saving' \in BOOLEAN,
           failures' \in 0..MaxFailures, CallInv'
    PROVE  OutboxInv'
BY DEF OutboxInv, OutboxTypeOK, Rows, CapturedInv, EventsAreAccounted, hookTables, Waiting

\* Every step keeps the invariant.
LEMMA OutboxInvStep ==
    OutboxInv /\ [OutboxNext]_outboxVars => OutboxInv'
<1> SUFFICES ASSUME OutboxInv, [OutboxNext]_outboxVars
             PROVE  OutboxInv'
  OBVIOUS
<1> USE OutboxAssumption
<1>f. IsFiniteSet(Waiting) /\ Cardinality(Waiting) \in Nat /\ IsFiniteSet(captured)
      /\ Cardinality(captured) \in Nat
  BY WaitingIsFinite, FS_CardinalityType DEF OutboxInv, CapturedInv
<1>c. eventCounts.delivered \in Nat /\ eventCounts.failed \in Nat /\ eventCounts.dropped \in Nat
  BY DEF OutboxInv, OutboxTypeOK, Rows
<1>v. hookSettings.version \in 0..MaxSettings
  BY DEF OutboxInv, OutboxTypeOK, Rows
<1>k. /\ call \in Calls /\ call.version \in 0..MaxSettings
      /\ call.event \in Events \cup {NoEvent} /\ call.attempts \in Nat
  BY DEF OutboxInv, OutboxTypeOK, Rows, Calls
<1>r. failures \in 0..MaxFailures /\ (Fault => failures' \in 0..MaxFailures)
  BY DEF OutboxInv, OutboxTypeOK, Rows, Fault
<1>1. ASSUME NEW e \in Events, Capture(e)
      PROVE  OutboxInv'
  <2>1. CASE ~hookSettings.enabled
    <3>1. appended' \subseteq Events
          /\ captured' \subseteq [event : appended', version : 1..hookSettings'.version]
      BY <1>1, <2>1 DEF Capture, OutboxInv, OutboxTypeOK, Rows
    <3> QED
      BY <1>1, <2>1, <3>1 
         DEF Capture, OutboxInv, OutboxTypeOK, Rows, CapturedInv, EventsAreAccounted,
             CallInv, Waiting
  <2>2. CASE hookSettings.enabled
    <3> DEFINE new == [event |-> e, version |-> hookSettings.version]
    <3>1. captured' = captured \cup {new} /\ new \notin captured
      BY <1>1, <2>2 DEF Capture, OutboxInv, OutboxTypeOK, Rows
    <3>2. IsFiniteSet(captured') /\ Cardinality(captured') = Cardinality(captured) + 1
      BY <1>f, <3>1, FS_AddElement
    <3>3. appended' \subseteq Events
          /\ captured' \subseteq [event : appended', version : 1..hookSettings'.version]
      BY <1>1, <2>2 DEF Capture, OutboxInv, OutboxTypeOK, Rows
    <3>4. e \notin Waiting
      BY <1>1 DEF Capture, OutboxInv, OutboxTypeOK, Rows, CapturedInv
    <3>5. CallInv'
      BY <1>1, <3>1 DEF Capture, OutboxInv, CallInv
    <3>6. CASE Cardinality(Waiting) < MaxQueue
      <4>1. /\ outbox' = WithRow(e, NewRow(0, hookSettings.version, TRUE))
            /\ eventCounts' = eventCounts
        BY <1>1, <2>2, <3>6 DEF Capture
      <4>2. Waiting' = Waiting \cup {e}
        BY <4>1 DEF WithRow, Waiting
      <4>3. Cardinality(Waiting') = Cardinality(Waiting) + 1
        BY <1>f, <3>4, <4>2, FS_AddElement
      <4>4. outbox' \in [Waiting' -> Rows']
        BY <1>1, <4>1, <4>2 DEF WithRow, NewRow, Capture, OutboxInv, OutboxTypeOK, Rows
      <4>5. \A x \in Waiting' : [event |-> x, version |-> outbox'[x].version] \in captured'
        BY <1>1, <3>1, <4>1, <4>2 DEF WithRow, NewRow, OutboxInv, CapturedInv
      <4>6. EventsAreAccounted'
        BY <1>f, <1>c, <3>2, <4>1, <4>3 DEF OutboxInv, EventsAreAccounted
      <4>7. Waiting' \subseteq Events /\ Cardinality(Waiting') <= MaxQueue
        BY <1>f, <3>6, <4>2, <4>3 DEF OutboxInv, OutboxTypeOK, Rows
      <4>8. UNCHANGED <<hookSettings, call, request, saving, failures, eventCounts>>
        BY <1>1, <4>1 DEF Capture
      <4>9. OutboxTypeOK'
        BY <3>3, <4>4, <4>7, <4>8 DEF OutboxInv, OutboxTypeOK, Rows
      <4> QED
        BY <3>2, <3>5, <4>5, <4>6, <4>9 DEF OutboxInv, CapturedInv
    <3>7. CASE ~(Cardinality(Waiting) < MaxQueue)
      <4>1. outbox' = outbox /\ eventCounts' = [eventCounts EXCEPT !.dropped = @ + 1]
        BY <1>1, <2>2, <3>7 DEF Capture
      <4>2. Waiting' = Waiting
        BY <4>1 DEF Waiting
      <4>3. eventCounts' \in [{"delivered", "failed", "dropped"} -> Nat]
        BY <4>1 DEF OutboxInv, OutboxTypeOK, Rows
      <4>4. /\ eventCounts'.delivered = eventCounts.delivered
            /\ eventCounts'.failed = eventCounts.failed
            /\ eventCounts'.dropped = eventCounts.dropped + 1
        BY <4>1 DEF OutboxInv, OutboxTypeOK, Rows
      <4>5. EventsAreAccounted'
        BY <1>f, <1>c, <3>2, <4>2, <4>4 DEF OutboxInv, EventsAreAccounted
      <4>6. OutboxTypeOK'
        BY <1>1, <3>3, <4>1, <4>2, <4>3 DEF Capture, OutboxInv, OutboxTypeOK, Rows
      <4>7. CapturedInv'
        BY <3>1, <3>2, <4>1, <4>2 DEF OutboxInv, CapturedInv
      <4> QED
        BY <3>5, <4>5, <4>6, <4>7 DEF OutboxInv
    <3> QED
      BY <3>6, <3>7
  <2> QED
    BY <2>1, <2>2
<1>2. ASSUME NEW e \in Events, FallsDue(e)
      PROVE  OutboxInv'
  <2>1. Waiting' = Waiting
    BY <1>2 DEF FallsDue, Waiting
  <2>2. /\ outbox' \in [Waiting' -> Rows']
        /\ \A x \in Waiting : outbox'[x].version = outbox[x].version
    BY <1>2, <2>1 DEF FallsDue, OutboxInv, OutboxTypeOK, Rows
  <2> QED
    BY <1>2, <2>1, <2>2
       DEF FallsDue, OutboxInv, OutboxTypeOK, Rows, CapturedInv, EventsAreAccounted, CallInv
<1>3. ASSUME NEW e \in Events, ClaimDelivery(e)
      PROVE  OutboxInv'
  <2>1. Waiting' = Waiting
    BY <1>3 DEF ClaimDelivery, Waiting
  <2>2. /\ outbox' \in [Waiting' -> Rows']
        /\ \A x \in Waiting : outbox'[x].version = outbox[x].version
    BY <1>3, <2>1 DEF ClaimDelivery, OutboxInv, OutboxTypeOK, Rows
  <2>3. outbox[e].attempts \in Nat /\ outbox[e].version \in 0..MaxSettings
    BY <1>3 DEF ClaimDelivery, OutboxInv, OutboxTypeOK, Rows
  <2>4. call' = [pc |-> "judging", version |-> call.version, event |-> e,
                 attempts |-> outbox[e].attempts + 1, row |-> outbox[e].version,
                 outcome |-> call.outcome]
    BY <1>3, <1>k DEF ClaimDelivery, Calls
  <2>5. call.outcome \in {"none", "delivered", "failed", "retry"}
    BY <1>k DEF Calls
  <2>6. outbox[e].attempts + 1 \in Nat
    BY <2>3
  <2>7. /\ call' \in Calls /\ call'.pc = "judging"
        /\ call'.event = e /\ call'.row = outbox[e].version
    BY <1>k, <2>3, <2>4, <2>5, <2>6 DEF Calls
  <2>8. CallInv'
    BY <1>3, <2>7 DEF ClaimDelivery, CallInv, OutboxInv, CapturedInv
  <2>9. OutboxTypeOK'
    BY <1>3, <2>1, <2>2, <2>7 DEF ClaimDelivery, OutboxInv, OutboxTypeOK, Rows
  <2> QED
    BY <1>3, <2>1, <2>2, <2>8, <2>9 DEF ClaimDelivery, OutboxInv, CapturedInv, EventsAreAccounted
<1>4. CASE SaveSettings
  <2>1. Waiting' = {} /\ Cardinality(Waiting') = 0
    BY <1>4, FS_EmptySet DEF SaveSettings, Waiting
  <2>2. /\ eventCounts' \in [{"delivered", "failed", "dropped"} -> Nat]
        /\ eventCounts'.delivered = eventCounts.delivered
        /\ eventCounts'.failed = eventCounts.failed
        /\ eventCounts'.dropped = eventCounts.dropped + Cardinality(Waiting)
    BY <1>4, <1>f DEF SaveSettings, OutboxInv, OutboxTypeOK, Rows
  <2>3. /\ hookSettings' \in [version : 1..MaxSettings, enabled : BOOLEAN]
        /\ hookSettings'.version = hookSettings.version + 1
    BY <1>4 DEF SaveSettings, OutboxInv, OutboxTypeOK, Rows
  <2>4. captured' \subseteq [event : appended', version : 1..hookSettings'.version]
    BY <1>4, <2>3 DEF SaveSettings, OutboxInv, OutboxTypeOK, Rows
  <2>5. EventsAreAccounted'
    BY <1>4, <1>f, <1>c, <2>1, <2>2 DEF SaveSettings, OutboxInv, EventsAreAccounted
  <2>6. CapturedInv'
    BY <1>4, <2>1 DEF SaveSettings, OutboxInv, CapturedInv
  <2>7. CallInv'
    BY <1>4 DEF SaveSettings, OutboxInv, CallInv
  <2>8. outbox' \in [Waiting' -> Rows']
    BY <1>4, <2>1 DEF SaveSettings, Waiting
  <2>9. OutboxTypeOK'
    BY <1>4, <2>1, <2>2, <2>3, <2>4, <2>8 DEF SaveSettings, OutboxInv, OutboxTypeOK, Rows
  <2> QED
    BY <2>5, <2>6, <2>7, <2>9 DEF OutboxInv
<1>5. CASE Reload
  BY <1>5, <1>k, <1>r, TablesKept DEF Reload, hookTables, OutboxInv, OutboxTypeOK, Rows, CallInv
<1>6. CASE ReadSettings
  <2>1. call' = [pc |-> "claiming", version |-> hookSettings.version, event |-> NoEvent,
                 attempts |-> 0, row |-> 0, outcome |-> "none"]
    BY <1>6 DEF ReadSettings, Resting
  <2>2. call' \in Calls /\ call'.pc = "claiming"
    BY <1>v, <2>1 DEF Calls
  <2> QED
    BY <1>6, <1>r, <2>2, TablesKept DEF ReadSettings, OutboxInv, OutboxTypeOK, Rows, CallInv
<1>7. CASE ClaimNothing
  <2>1. call' \in Calls /\ call'.pc = "idle"
    BY <1>7 DEF ClaimNothing, Resting, Calls
  <2> QED
    BY <1>7, <1>r, <2>1, TablesKept DEF ClaimNothing, OutboxInv, OutboxTypeOK, Rows, CallInv
<1>8. CASE Judge
  <2>1. CASE call.row # call.version \/ call.attempts > MaxAttempts
    <3>1. call' \in Calls /\ call'.pc = "finishing" /\ call'.event = call.event
          /\ call'.row = call.row /\ call'.outcome # "none"
      BY <1>8, <2>1, <1>k DEF Judge, EndCall, Calls
    <3> QED
      BY <1>8, <2>1, <1>r, <3>1, TablesKept
         DEF Judge, HookAt, OutboxInv, OutboxTypeOK, Rows, CallInv, hookTables
  <2>2. CASE ~(call.row # call.version \/ call.attempts > MaxAttempts)
    <3>1. /\ call' \in Calls /\ call'.pc = "rechecking" /\ call'.event = call.event
          /\ call'.row = call.row /\ call'.version = call.version /\ call'.attempts = call.attempts
      BY <1>8, <2>2, <1>k DEF Judge, CallAt, Calls
    <3>2. CallInv'
      BY <1>8, <2>2, <3>1 DEF Judge, HookAt, OutboxInv, CallInv, hookTables
    <3> QED
      BY <1>8, <2>2, <1>r, <1>k, <3>1, <3>2, TablesKept DEF Judge, OutboxInv, OutboxTypeOK, Rows
  <2> QED
    BY <2>1, <2>2
<1>9. CASE Recheck
  <2>1. CASE /\ CallAt("signing") /\ hookSettings.version = call.version
             /\ UNCHANGED <<request, failures>>
    <3>1. /\ call' \in Calls /\ call'.pc = "signing" /\ call'.event = call.event
          /\ call'.row = call.row /\ call'.version = call.version /\ call'.attempts = call.attempts
      BY <2>1, <1>k DEF CallAt, Calls
    <3>2. CallInv'
      BY <1>9, <2>1, <3>1 DEF Recheck, HookAt, OutboxInv, CallInv, hookTables
    <3> QED
      BY <1>9, <2>1, <1>r, <3>1, <3>2, TablesKept DEF Recheck, HookAt, OutboxInv, OutboxTypeOK, Rows
  <2>2. CASE call' = Resting /\ request' = "none" /\ failures' \in 0..MaxFailures
    <3>1. call' \in Calls /\ call'.pc = "idle"
      BY <2>2 DEF Resting, Calls
    <3> QED
      BY <1>9, <2>2, <3>1, TablesKept DEF Recheck, OutboxInv, OutboxTypeOK, Rows, CallInv
  <2> QED
    BY <1>9, <1>r, <2>1, <2>2 DEF Recheck
<1>10. CASE ReadSecret
  <2>1. CASE CallAt("sending") /\ hookSettings.version = call.version
    <3>1. /\ call' \in Calls /\ call'.pc = "sending" /\ call'.event = call.event
          /\ call'.row = call.row /\ call'.version = call.version /\ call'.attempts = call.attempts
      BY <2>1, <1>k DEF CallAt, Calls
    <3>2. CallInv'
      BY <1>10, <2>1, <3>1 DEF ReadSecret, HookAt, OutboxInv, CallInv, hookTables
    <3> QED
      BY <1>10, <1>r, <3>1, <3>2, TablesKept DEF ReadSecret, HookAt, OutboxInv, OutboxTypeOK, Rows
  <2>2. CASE EndCall("failed")
    <3>1. call' \in Calls /\ call'.pc = "finishing" /\ call'.event = call.event
          /\ call'.row = call.row /\ call'.outcome # "none"
      BY <2>2, <1>k DEF EndCall, Calls
    <3> QED
      BY <1>10, <1>r, <3>1, TablesKept
         DEF ReadSecret, HookAt, OutboxInv, OutboxTypeOK, Rows, CallInv, hookTables
  <2> QED
    BY <1>10, <2>1, <2>2 DEF ReadSecret
<1>11. CASE Post
  <2>1. CASE CallAt("waiting")
    <3>1. /\ call' \in Calls /\ call'.pc = "waiting" /\ call'.event = call.event
          /\ call'.row = call.row /\ call'.version = call.version /\ call'.attempts = call.attempts
      BY <2>1, <1>k DEF CallAt, Calls
    <3>2. CallInv'
      BY <1>11, <3>1 DEF Post, HookAt, OutboxInv, CallInv, hookTables
    <3> QED
      BY <1>11, <1>r, <3>1, <3>2, TablesKept DEF Post, HookAt, OutboxInv, OutboxTypeOK, Rows
  <2>2. CASE EndCall("retry")
    <3>1. call' \in Calls /\ call'.pc = "finishing" /\ call'.event = call.event
          /\ call'.row = call.row /\ call'.outcome # "none"
      BY <2>2, <1>k DEF EndCall, Calls
    <3> QED
      BY <1>11, <1>r, <3>1, TablesKept
         DEF Post, HookAt, OutboxInv, OutboxTypeOK, Rows, CallInv, hookTables
  <2> QED
    BY <1>11, <2>1, <2>2 DEF Post
<1>12. CASE ReceiverAnswers
  <2>1. call' \in Calls /\ call'.pc = "finishing" /\ call'.event = call.event
          /\ call'.row = call.row /\ call'.outcome # "none"
    BY <1>12, <1>k DEF ReceiverAnswers, EndCall, Calls
  <2> QED
    BY <1>12, <1>r, <2>1, TablesKept
       DEF ReceiverAnswers, HookAt, OutboxInv, OutboxTypeOK, Rows, CallInv, hookTables
<1>13. CASE FinishDelivery
  <2> DEFINE fate == IF call.outcome = "retry" /\ call.attempts >= MaxAttempts
                     THEN "failed" ELSE call.outcome
  <2>1. call' \in Calls /\ call'.pc = "idle" /\ request' = "none"
    BY <1>13 DEF FinishDelivery, Resting, Calls
  <2>2. CallInv'
    BY <2>1 DEF CallInv
  <2>3. CASE UNCHANGED <<outbox, eventCounts>>
    BY <1>13, <1>r, <2>1, <2>2, <2>3, TablesKept
       DEF FinishDelivery, OutboxInv, OutboxTypeOK, Rows, hookTables
  <2>4. CASE /\ RowOfCall /\ outbox' = WithoutRow(call.event)
             /\ eventCounts' = [eventCounts EXCEPT ![fate] = @ + 1]
             /\ fate \in {"delivered", "failed"}
    <3>1. Waiting' = Waiting \ {call.event} /\ call.event \in Waiting
      BY <2>4 DEF WithoutRow, Waiting, RowOfCall
    <3>2. Cardinality(Waiting') = Cardinality(Waiting) - 1
      BY <1>f, <3>1, FS_RemoveElement
    <3>3. outbox' \in [Waiting' -> Rows']
      BY <1>13, <2>4, <3>1 DEF FinishDelivery, WithoutRow, OutboxInv, OutboxTypeOK, Rows
    <3>4. /\ eventCounts' \in [{"delivered", "failed", "dropped"} -> Nat]
          /\ eventCounts'.delivered + eventCounts'.failed =
                 eventCounts.delivered + eventCounts.failed + 1
          /\ eventCounts'.dropped = eventCounts.dropped
      BY <1>c, <2>4 DEF OutboxInv, OutboxTypeOK, Rows
    <3>5. EventsAreAccounted'
      BY <1>13, <1>f, <1>c, <3>2, <3>4
         DEF FinishDelivery, OutboxInv, OutboxTypeOK, Rows, EventsAreAccounted
    <3>6. CapturedInv'
      BY <1>13, <2>4, <3>1 DEF FinishDelivery, WithoutRow, OutboxInv, CapturedInv
    <3>7. OutboxTypeOK'
      BY <1>13, <1>f, <1>r, <2>1, <3>1, <3>2, <3>3, <3>4
         DEF FinishDelivery, OutboxInv, OutboxTypeOK, Rows
    <3> QED
      BY <2>2, <3>5, <3>6, <3>7 DEF OutboxInv
  <2>5. call.outcome \in {"delivered", "failed", "retry"}
    BY <1>13, <1>k DEF FinishDelivery, HookAt, OutboxInv, CallInv, Calls
  <2> QED
    BY <1>13, <2>3, <2>4, <2>5 DEF FinishDelivery
<1>14. CASE FinishDeliveryFails
  <2>1. call' \in Calls /\ call'.pc = "idle"
    BY <1>14 DEF FinishDeliveryFails, Resting, Calls
  <2> QED
    BY <1>14, <1>r, <2>1, TablesKept DEF FinishDeliveryFails, OutboxInv, OutboxTypeOK, Rows, CallInv
<1>15. CASE CrashAndStart
  <2>1. call' \in Calls /\ call'.pc = "idle"
    BY <1>15 DEF CrashAndStart, Resting, Calls
  <2> QED
    BY <1>15, <1>r, <2>1, TablesKept DEF CrashAndStart, OutboxInv, OutboxTypeOK, Rows, CallInv
<1>16. CASE UNCHANGED outboxVars
  BY <1>16, <1>k, <1>r, TablesKept
     DEF outboxVars, hookTables, OutboxInv, OutboxTypeOK, Rows, CallInv
<1> QED
  BY <1>1, <1>2, <1>3, <1>4, <1>5, <1>6, <1>7, <1>8, <1>9, <1>10, <1>11, <1>12, <1>13, <1>14,
     <1>15, <1>16 DEF OutboxNext

\* The invariant holds in every state.
LEMMA OutboxInvHolds == OutboxSpec => []OutboxInv
BY OutboxInvInit, OutboxInvStep, PTL DEF OutboxSpec

\* The worker, the handlers and the tables hold values of their kinds, and the outbox
\* never exceeds its limit (webhook_schema.sql, service.go).
THEOREM OutboxTypeCorrect == OutboxSpec => []OutboxTypeOK
<1>1. OutboxInv => OutboxTypeOK
  BY DEF OutboxInv
<1> QED
  BY <1>1, OutboxInvHolds, PTL

\* Every captured event is queued or counted exactly once (webhooks.go).
THEOREM EventsAccounted == OutboxSpec => []EventsAreAccounted
<1>1. OutboxInv => EventsAreAccounted
  BY DEF OutboxInv
<1> QED
  BY <1>1, OutboxInvHolds, PTL

\* No event is posted but to the receiver it was captured for (service.go).
THEOREM EventsGoWhereConsented == OutboxSpec => SentAsConsented
<1>1. OutboxInv /\ [OutboxNext]_outboxVars =>
          [StartsSending => /\ [event |-> call.event, version |-> call.version] \in captured
                            /\ call.version = hookSettings.version \/ saving]_outboxVars
  <2> SUFFICES ASSUME OutboxInv, OutboxNext, StartsSending
               PROVE  /\ [event |-> call.event, version |-> call.version] \in captured
                      /\ call.version = hookSettings.version \/ saving
    OBVIOUS
  <2>1. call.pc = "sending" /\ call \in Calls /\ call'.pc = "waiting"
    BY DEF StartsSending, HookAt, OutboxInv, OutboxTypeOK
  <2>2. ~UNCHANGED call /\ call' # Resting
    BY <2>1 DEF Resting
  <2>3. Post
    BY <2>1, <2>2
       DEF OutboxNext, Capture, SaveSettings, Reload, FallsDue, ReadSettings, ClaimDelivery,
           ClaimNothing, Judge, Recheck, ReadSecret, ReceiverAnswers, FinishDelivery,
           FinishDeliveryFails, CrashAndStart, HookAt
  <2>4. request = "live"
    BY <2>1, <2>3 DEF Post, EndCall, Calls
  <2> QED
    BY <2>1, <2>4 DEF OutboxInv, CallInv
<1> QED
  BY <1>1, OutboxInvHolds, PTL DEF OutboxSpec, SentAsConsented

-----------------------------------------------------------------------------
(* The administrator's credential *)

\* Whoever is about to activate a password, or finds one in the file, finds one
\* that was delivered.
DeliveredInv ==
    /\ ActiveIsDelivered
    /\ file \in Passwords => file \in known
    /\ \A s \in Starters :
           /\ starter[s].pc \in {"configuring", "generating", "creating", "filling", "resuming",
                                 "activating"} => starter[s].password \in Passwords
           /\ starter[s].pc \in {"configuring", "activating"} => starter[s].password \in known

\* A proof of an earlier password has an earlier revision.  Before there is a
\* credential nobody has proved anything.
Proven(p) ==
    /\ p.revision <= credential.revision
    /\ p.revision = credential.revision => p.password = credential.hash

ProvenInv ==
    /\ \A s \in sessions : Proven(s)
    /\ \A b \in Browsers : login[b] # NoProof => Proven(login[b])
    /\ change # NoProof => Proven(change)
    /\ ~Active => sessions = {} /\ change = NoProof /\ \A b \in Browsers : login[b] = NoProof

CredentialInv == CredentialTypeOK /\ DeliveredInv /\ ProvenInv

\* What a start's move does to its record and to no other.
LEMMA StarterMoves ==
    ASSUME starter \in [Starters -> StarterStates], NEW s \in Starters, NEW q \in Stages,
           NEW p \in Passwords \cup {Unset}, StarterAt(s, q, p)
    PROVE  /\ starter' \in [Starters -> StarterStates]
           /\ starter'[s].pc = q /\ starter'[s].password = p
           /\ \A t \in Starters \ {s} : starter'[t] = starter[t]
BY DEF StarterStates, StarterAt

\* The record of a start that is somewhere.
LEMMA StarterTyped ==
    ASSUME CredentialInv, NEW s \in Starters
    PROVE  /\ starter[s].pc \in Stages
           /\ starter[s].password \in Passwords \cup {Unset}
BY DEF CredentialInv, CredentialTypeOK, StarterStates

LEMMA CredentialInitially == CredentialInit => CredentialInv
<1>. SUFFICES ASSUME CredentialInit PROVE CredentialInv
  OBVIOUS
<1>1. /\ credential \in CredentialStates /\ (Active => credential.hash # Unset)
      /\ credential.hash # Unset => credential.hash \in Passwords
      /\ Active => credential.hash \in Passwords
  <2>0. 0 \in 0..MaxRevision
    BY CredentialAssumption
  <2>1. CASE credential = Credential("bootstrap_pending", "", 0, Unset)
    BY <2>0, <2>1, CredentialAssumption DEF CredentialStates, Credential, Active
  <2>2. CASE credential = Credential("recovery_required", "legacy", 0, Unset)
    BY <2>0, <2>2, CredentialAssumption DEF CredentialStates, Credential, Active
  <2>3. ASSUME NEW p \in Passwords, credential = Credential("active", "legacy", 0, p)
        PROVE  /\ credential \in CredentialStates /\ (Active => credential.hash # Unset)
               /\ credential.hash # Unset => credential.hash \in Passwords
               /\ Active => credential.hash \in Passwords
    BY <2>0, <2>3, CredentialAssumption DEF CredentialStates, Credential, Active
  <2>. QED BY <2>1, <2>2, <2>3 DEF CredentialInit
<1>2. starter \in [Starters -> StarterStates] /\ \A s \in Starters : starter[s].pc = "off"
  BY DEF CredentialInit, StarterStates, Stages
<1>3. CredentialTypeOK
  BY <1>1, <1>2 DEF CredentialInit, CredentialTypeOK, SessionRows, Proofs
<1>4. DeliveredInv
  BY <1>1, <1>2, CredentialAssumption DEF CredentialInit, DeliveredInv, ActiveIsDelivered
<1>5. ProvenInv
  BY DEF CredentialInit, ProvenInv
<1>. QED BY <1>3, <1>4, <1>5 DEF CredentialInv

\* A step that leaves the credential and who proved it alone.
LEMMA ProofsStay ==
    ASSUME ProvenInv, UNCHANGED <<credential, sessions, login, change>>
    PROVE  ProvenInv'
BY DEF ProvenInv, Proven, Active, NoProof

\* A step that leaves the credential, the file and the starts alone.
LEMMA DeliveryStays ==
    ASSUME DeliveredInv, UNCHANGED <<credential, file, known, starter>>
    PROVE  DeliveredInv'
BY DEF DeliveredInv, ActiveIsDelivered, Active

\* A step that makes a pending credential active, or another pending one.
LEMMA FirstCredential ==
    ASSUME ProvenInv, ~Active, sessions' = {}, UNCHANGED <<login, change>>
    PROVE  ProvenInv'
BY DEF ProvenInv, NoProof

\* A start may go on to anything that it has a delivered password for.
LEMMA StartGoesOn ==
    ASSUME CredentialInv, NEW s \in Starters, NEW q \in Stages,
           NEW p \in Passwords \cup {Unset}, StarterAt(s, q, p),
           known \subseteq known', file' \in Passwords => file' \in known',
           Active' => credential'.hash \in known',
           q \in {"configuring", "generating", "creating", "filling", "resuming", "activating"}
               => p \in Passwords,
           q \in {"configuring", "activating"} => p \in known'
    PROVE  starter' \in [Starters -> StarterStates] /\ DeliveredInv'
<1>1. /\ starter' \in [Starters -> StarterStates]
      /\ starter'[s].pc = q /\ starter'[s].password = p
      /\ \A t \in Starters \ {s} : starter'[t] = starter[t]
  BY StarterMoves DEF CredentialInv, CredentialTypeOK
<1>. QED BY <1>1 DEF CredentialInv, DeliveredInv, ActiveIsDelivered

\* What an action of a start must establish.
CredentialKept == CredentialTypeOK' /\ DeliveredInv' /\ ProvenInv'

-----------------------------------------------------------------------------
(* Each action of a start keeps the invariant. *)

LEMMA ConsiderKeeps ==
    ASSUME CredentialInv, NEW s \in Starters, Consider(s)
    PROVE  CredentialKept
<1>1. ASSUME NEW q \in Stages, NEW p \in Passwords \cup {Unset}, StarterAt(s, q, p),
             known \subseteq known', known' \subseteq Passwords,
             q \in {"serving", "failed", "resuming", "configuring", "generating"},
             q \in {"resuming", "configuring", "generating"} => p \in Passwords,
             q = "configuring" => p \in known'
      PROVE  CredentialKept
  <2>1. UNCHANGED <<credential, file, sessions, login, change>>
    BY DEF Consider
  <2>2. starter' \in [Starters -> StarterStates] /\ DeliveredInv'
    BY <1>1, <2>1, StartGoesOn DEF CredentialInv, DeliveredInv, ActiveIsDelivered, Active
  <2>3. ProvenInv'
    BY <2>1, ProofsStay DEF CredentialInv
  <2>. QED BY <1>1, <2>1, <2>2, <2>3 DEF CredentialKept, CredentialInv, CredentialTypeOK, Active
<1>2. known \subseteq Passwords
  BY DEF CredentialInv, CredentialTypeOK
<1>3. CASE StarterAt(s, "serving", Unset) /\ UNCHANGED known
  BY <1>1, <1>2, <1>3 DEF Stages
<1>4. CASE StarterAt(s, "failed", Unset) /\ UNCHANGED known
  BY <1>1, <1>2, <1>4 DEF Stages
<1>5. CASE credential.hash # Unset /\ StarterAt(s, "resuming", credential.hash) /\ UNCHANGED known
  <2>1. credential.hash \in Passwords
    BY <1>5 DEF CredentialInv, CredentialTypeOK, CredentialStates
  <2>. QED BY <1>1, <1>2, <1>5, <2>1 DEF Stages
<1>6. ASSUME NEW p \in Passwords, StarterAt(s, "configuring", p), known' = known \cup {p}
      PROVE  CredentialKept
  BY <1>1, <1>2, <1>6 DEF Stages
<1>7. ASSUME NEW p \in Passwords, StarterAt(s, "generating", p), UNCHANGED known
      PROVE  CredentialKept
  BY <1>1, <1>2, <1>7 DEF Stages
<1>. QED BY <1>3, <1>4, <1>5, <1>6, <1>7 DEF Consider

\* A start that is making a credential: the first insert decides it.
LEMMA InitializeKeeps ==
    ASSUME CredentialInv, NEW s \in Starters, Initialize(s)
    PROVE  CredentialKept
<1> DEFINE p == starter[s].password
<1>0. /\ p \in Passwords /\ (starter[s].pc = "configuring" => p \in known)
      /\ 0 \in 0..MaxRevision /\ 1 \in 0..MaxRevision
  BY CredentialAssumption DEF Initialize, CredentialInv, DeliveredInv
<1>1. UNCHANGED <<file, known, login, change>>
  BY DEF Initialize
<1>2. CASE /\ Empty /\ starter[s].pc = "configuring" /\ sessions' = {}
           /\ credential' = Credential("active", "configured", 1, p)
           /\ StarterAt(s, "serving", Unset)
  <2>1. credential' \in CredentialStates /\ credential'.hash = p
    BY <1>0, <1>2 DEF Credential, CredentialStates
  <2>2. starter' \in [Starters -> StarterStates] /\ DeliveredInv'
    BY <1>0, <1>1, <1>2, <2>1, StartGoesOn DEF Stages, CredentialInv, DeliveredInv
  <2>3. ProvenInv'
    BY <1>1, <1>2, FirstCredential DEF CredentialInv, Empty, BootstrapPending, Active
  <2>. QED BY <1>0, <1>1, <1>2, <2>1, <2>2, <2>3, CredentialAssumption
           DEF CredentialKept, CredentialInv, CredentialTypeOK
<1>3. CASE /\ Empty /\ starter[s].pc = "generating" /\ sessions' = {}
           /\ credential' = Credential("bootstrap_pending", "generated", 0, p)
           /\ StarterAt(s, "creating", p)
  <2>1. credential' \in CredentialStates /\ ~Active'
    BY <1>0, <1>3 DEF Credential, CredentialStates, Active
  <2>2. starter' \in [Starters -> StarterStates] /\ DeliveredInv'
    BY <1>0, <1>1, <1>3, <2>1, StartGoesOn DEF Stages, CredentialInv, DeliveredInv
  <2>3. ProvenInv'
    BY <1>1, <1>3, FirstCredential DEF CredentialInv, Empty, BootstrapPending, Active
  <2>. QED BY <1>1, <1>3, <2>1, <2>2, <2>3 DEF CredentialKept, CredentialInv, CredentialTypeOK
<1>4. CASE StarterAt(s, "losing", Unset) /\ UNCHANGED <<credential, sessions>>
  <2>1. starter' \in [Starters -> StarterStates] /\ DeliveredInv'
    BY <1>1, <1>4, StartGoesOn
       DEF Stages, CredentialInv, DeliveredInv, ActiveIsDelivered, Active
  <2>2. ProvenInv'
    BY <1>1, <1>4, ProofsStay DEF CredentialInv
  <2>. QED BY <1>1, <1>4, <2>1, <2>2 DEF CredentialKept, CredentialInv, CredentialTypeOK, Active
<1>. QED BY <1>2, <1>3, <1>4 DEF Initialize

\* The steps that only move the start, by what it has found.
LEMMA LoseOrResumeKeeps ==
    ASSUME CredentialInv, NEW s \in Starters, Lose(s) \/ Resume(s) \/ Stop(s)
    PROVE  CredentialKept
<1>1. UNCHANGED <<credential, file, known, sessions>>
  BY DEF Lose, Resume, Stop
<1>2. starter' \in [Starters -> StarterStates] /\ DeliveredInv'
  <2>1. ASSUME NEW q \in {"serving", "failed"}, StarterAt(s, q, Unset)
        PROVE  starter' \in [Starters -> StarterStates] /\ DeliveredInv'
    BY <1>1, <2>1, StartGoesOn
       DEF Stages, CredentialInv, DeliveredInv, ActiveIsDelivered, Active
  <2>2. CASE /\ StarterAt(s, "activating", starter[s].password)
             /\ starter[s].pc = "resuming" /\ file = starter[s].password
    <3>1. starter[s].password \in Passwords /\ starter[s].password \in known
      BY <2>2 DEF CredentialInv, DeliveredInv
    <3>. QED BY <1>1, <2>2, <3>1, StartGoesOn
             DEF Stages, CredentialInv, DeliveredInv, ActiveIsDelivered, Active
  <2>. QED BY <2>1, <2>2 DEF Lose, Resume, Stop
<1>3. login' \in [Browsers -> Proofs] /\ change' \in Proofs /\ ProvenInv'
  <2>1. CASE UNCHANGED <<login, change>>
    BY <1>1, <2>1, ProofsStay DEF CredentialInv, CredentialTypeOK
  <2>2. CASE login' = [b \in Browsers |-> NoProof] /\ change' = NoProof
    BY <1>1, <2>2 DEF CredentialInv, ProvenInv, Proven, Active, Proofs, NoProof
  <2>. QED BY <2>1, <2>2 DEF Lose, Resume, Stop
<1>. QED BY <1>1, <1>2, <1>3 DEF CredentialKept, CredentialInv, CredentialTypeOK, Active

\* The file is nobody's, or delivers the start's own password.
LEMMA FileKeeps ==
    ASSUME CredentialInv, NEW s \in Starters, CreateFile(s) \/ FillFile(s)
    PROVE  CredentialKept
<1> DEFINE p == starter[s].password
<1>0. p \in Passwords
  BY DEF CreateFile, FillFile, CredentialInv, DeliveredInv
<1>1. UNCHANGED <<credential, sessions, login, change>>
  BY DEF CreateFile, FillFile
<1>2. /\ known \subseteq known' /\ known' \subseteq Passwords
      /\ file' \in Passwords \cup {Unset, Partial} /\ (file' \in Passwords => file' \in known')
  BY <1>0, CredentialAssumption
     DEF CreateFile, FillFile, CredentialInv, CredentialTypeOK, DeliveredInv
<1>3. starter' \in [Starters -> StarterStates] /\ DeliveredInv'
  <2>1. Active' => credential'.hash \in known'
    BY <1>1, <1>2 DEF CredentialInv, DeliveredInv, ActiveIsDelivered, Active
  <2>2. CASE StarterAt(s, "failed", Unset)
    BY <1>2, <2>1, <2>2, StartGoesOn DEF Stages
  <2>3. CASE StarterAt(s, "filling", p)
    BY <1>0, <1>2, <2>1, <2>3, StartGoesOn DEF Stages
  <2>4. CASE StarterAt(s, "activating", p) /\ p \in known'
    BY <1>0, <1>2, <2>1, <2>4, StartGoesOn DEF Stages
  <2>. QED BY <2>2, <2>3, <2>4 DEF CreateFile, FillFile
<1>4. ProvenInv'
  BY <1>1, ProofsStay DEF CredentialInv
<1>. QED BY <1>1, <1>2, <1>3, <1>4 DEF CredentialKept, CredentialInv, CredentialTypeOK, Active

\* The pending hash of a delivered password becomes the credential.
LEMMA ActivationKeeps ==
    ASSUME CredentialInv, NEW p \in known, Awaits(p),
           credential' = [credential EXCEPT !.state = "active", !.revision = 1],
           sessions' = {}, UNCHANGED <<file, known, login, change>>
    PROVE  /\ credential' \in CredentialStates /\ Active' /\ credential'.hash = p
           /\ p # Unset /\ ProvenInv'
<1>1. p # Unset /\ 1 \in 0..MaxRevision
  BY CredentialAssumption DEF CredentialInv, CredentialTypeOK
<1>2. credential' \in CredentialStates /\ Active' /\ credential'.hash = p
  BY <1>1 DEF CredentialInv, CredentialTypeOK, CredentialStates, Active, Awaits
<1>3. ProvenInv'
  BY FirstCredential DEF CredentialInv, Awaits, BootstrapPending, Active
<1>. QED BY <1>1, <1>2, <1>3

LEMMA ActivateKeeps ==
    ASSUME CredentialInv, NEW s \in Starters, Activate(s)
    PROVE  CredentialKept
<1> DEFINE p == starter[s].password
<1>0. p \in Passwords /\ p \in known
  BY DEF Activate, CredentialInv, DeliveredInv
<1>1. UNCHANGED <<file, known, login, change>>
  BY DEF Activate
<1>2. CASE /\ Awaits(p) /\ sessions' = {} /\ StarterAt(s, "serving", Unset)
           /\ credential' = [credential EXCEPT !.state = "active", !.revision = 1]
  <2>1. /\ credential' \in CredentialStates /\ Active' /\ credential'.hash = p
        /\ p # Unset /\ ProvenInv'
    BY <1>0, <1>1, <1>2, ActivationKeeps
  <2>2. starter' \in [Starters -> StarterStates] /\ DeliveredInv'
    BY <1>0, <1>1, <1>2, <2>1, StartGoesOn DEF Stages, CredentialInv, DeliveredInv
  <2>. QED BY <1>1, <1>2, <2>1, <2>2 DEF CredentialKept, CredentialInv, CredentialTypeOK
<1>3. CASE StarterAt(s, "failed", Unset) /\ UNCHANGED <<credential, sessions>>
  <2>1. starter' \in [Starters -> StarterStates] /\ DeliveredInv'
    BY <1>1, <1>3, StartGoesOn
       DEF Stages, CredentialInv, DeliveredInv, ActiveIsDelivered, Active
  <2>2. ProvenInv'
    BY <1>1, <1>3, ProofsStay DEF CredentialInv
  <2>. QED BY <1>1, <1>3, <2>1, <2>2 DEF CredentialKept, CredentialInv, CredentialTypeOK, Active
<1>. QED BY <1>2, <1>3 DEF Activate

-----------------------------------------------------------------------------
(* Each action of the operator and of the browsers keeps the invariant. *)

LEMMA OperatorKeeps ==
    ASSUME CredentialInv, DeleteFile \/ \E p \in Passwords : Recover(p)
    PROVE  CredentialKept
<1>1. CASE DeleteFile
  <2>1. ProvenInv'
    BY <1>1, ProofsStay DEF DeleteFile, CredentialInv
  <2>2. DeliveredInv'
    BY <1>1, CredentialAssumption
       DEF DeleteFile, CredentialInv, DeliveredInv, ActiveIsDelivered, Active
  <2>. QED BY <1>1, <2>1, <2>2 DEF DeleteFile, CredentialKept, CredentialInv, CredentialTypeOK, Active
<1>2. ASSUME NEW p \in Passwords, Recover(p)
      PROVE  CredentialKept
  <2>1. /\ credential' \in CredentialStates /\ Active' /\ credential'.hash = p
        /\ p # Unset /\ p \in known /\ ProvenInv'
    BY <1>2, ActivationKeeps DEF Recover
  <2>2. sessions' = {} /\ UNCHANGED <<file, known, starter, login, change>>
    BY <1>2 DEF Recover
  <2>3. DeliveredInv'
    BY <2>1, <2>2 DEF CredentialInv, DeliveredInv, ActiveIsDelivered
  <2>. QED BY <2>1, <2>2, <2>3 DEF CredentialKept, CredentialInv, CredentialTypeOK
<1>. QED BY <1>1, <1>2

\* What is verified now proves the password in force.
LEMMA ProofProves ==
    ASSUME CredentialInv, Active
    PROVE  Proof \in Proofs /\ Proof # NoProof /\ Proven(Proof)
<1>1. credential.revision \in 0..MaxRevision /\ credential.hash \in Passwords
  BY DEF CredentialInv, CredentialTypeOK, CredentialStates
<1>. QED BY <1>1, CredentialAssumption DEF Proof, Proofs, NoProof, Proven

LEMMA LoginKeeps ==
    ASSUME CredentialInv, NEW b \in Browsers, VerifyLogin(b) \/ AbandonLogin(b) \/ CreateSession(b)
    PROVE  CredentialKept
<1>1. UNCHANGED <<credential, file, known, starter, change>>
  BY DEF VerifyLogin, AbandonLogin, CreateSession
<1>2. DeliveredInv'
  BY <1>1, DeliveryStays DEF CredentialInv
<1>3. sessions' \subseteq SessionRows /\ login' \in [Browsers -> Proofs] /\ ProvenInv'
  <2>1. CASE VerifyLogin(b)
    BY <2>1, <1>1, ProofProves
       DEF VerifyLogin, CredentialInv, CredentialTypeOK, ProvenInv, Proven, Active
  <2>2. CASE AbandonLogin(b)
    BY <2>2, <1>1
       DEF AbandonLogin, CredentialInv, CredentialTypeOK, ProvenInv, Proven, Active, Proofs
  <2>3. CASE CreateSession(b) /\ UNCHANGED sessions
    BY <2>3, <1>1
       DEF CreateSession, CredentialInv, CredentialTypeOK, ProvenInv, Proven, Active, Proofs
  <2>4. CASE CreateSession(b) /\ Active /\ credential.revision = login[b].revision
    <3> DEFINE row == [browser |-> b, revision |-> credential.revision,
                       password |-> login[b].password]
    <3>1. /\ login' = [login EXCEPT ![b] = NoProof] /\ sessions' = sessions \cup {row}
          /\ login[b] # NoProof
      BY <2>4 DEF CreateSession
    <3>2. login[b] \in Proofs /\ Proven(login[b])
      BY <3>1 DEF CredentialInv, CredentialTypeOK, ProvenInv
    <3>3. row \in SessionRows /\ Proven(row)
      BY <2>4, <3>1, <3>2
         DEF Proofs, SessionRows, Proven, CredentialInv, CredentialTypeOK, CredentialStates
    <3>. QED BY <1>1, <2>4, <3>1, <3>3
             DEF CredentialInv, CredentialTypeOK, ProvenInv, Proven, Active, Proofs
  <2>. QED BY <2>1, <2>2, <2>3, <2>4 DEF CreateSession
<1>. QED BY <1>1, <1>2, <1>3 DEF CredentialKept, CredentialInv, CredentialTypeOK, Active

LEMMA ChangeKeeps ==
    ASSUME CredentialInv, EndSession \/ VerifyChange \/ \E p \in Passwords : ReplaceCredential(p)
    PROVE  CredentialKept
<1>1. CASE EndSession
  <2>1. DeliveredInv'
    BY <1>1, DeliveryStays DEF EndSession, CredentialInv
  <2>2. ProvenInv'
    BY <1>1 DEF EndSession, CredentialInv, ProvenInv, Proven, Active
  <2>. QED BY <1>1, <2>1, <2>2 DEF EndSession, CredentialKept, CredentialInv, CredentialTypeOK, Active
<1>2. CASE VerifyChange
  <2>1. DeliveredInv'
    BY <1>2, DeliveryStays DEF VerifyChange, CredentialInv
  <2>2. ProvenInv' /\ change' \in Proofs
    BY <1>2, ProofProves DEF VerifyChange, CredentialInv, ProvenInv, Proven, Active
  <2>. QED BY <1>2, <2>1, <2>2 DEF VerifyChange, CredentialKept, CredentialInv, CredentialTypeOK, Active
<1>3. ASSUME NEW p \in Passwords, ReplaceCredential(p)
      PROVE  CredentialKept
  <2>1. change' = NoProof /\ change' \in Proofs /\ UNCHANGED <<file, starter, login>>
    BY <1>3 DEF ReplaceCredential, Proofs
  <2>2. CASE UNCHANGED <<credential, known, sessions>>
    <3>1. DeliveredInv'
      BY <2>1, <2>2, DeliveryStays DEF CredentialInv
    <3>2. ProvenInv'
      BY <2>1, <2>2 DEF CredentialInv, ProvenInv, Proven, Active
    <3>. QED BY <2>1, <2>2, <3>1, <3>2 DEF CredentialKept, CredentialInv, CredentialTypeOK, Active
  <2>3. CASE /\ Active /\ credential.revision < MaxRevision
             /\ credential' = [credential EXCEPT !.hash = p, !.revision = @ + 1]
             /\ known' = known \cup {p} /\ sessions' = {}
    <3>0. credential \in CredentialStates /\ p # Unset
      BY CredentialAssumption DEF CredentialInv, CredentialTypeOK
    <3>1. /\ credential' \in CredentialStates /\ Active' /\ credential'.hash = p
          /\ credential'.revision = credential.revision + 1
          /\ credential.revision \in Nat
      <4>1. credential.revision \in Nat /\ credential.revision + 1 \in 0..MaxRevision
        <5>1. credential.revision \in 0..MaxRevision
          BY <3>0 DEF CredentialStates
        <5>. QED BY <2>3, <5>1, CredentialAssumption
      <4> DEFINE r == credential.revision + 1
      <4>2. /\ credential' = [credential EXCEPT !.hash = p, !.revision = r]
            /\ r \in 0..MaxRevision
        BY <2>3, <4>1
      <4> HIDE DEF r
      <4>3. /\ credential' \in CredentialStates /\ Active' /\ credential'.hash = p
            /\ credential'.revision = r
        BY <2>3, <3>0, <4>2 DEF CredentialStates, Active
      <4>. QED BY <4>1, <4>3 DEF r
    <3>2. DeliveredInv'
      BY <2>1, <2>3, <3>1 DEF CredentialInv, DeliveredInv, ActiveIsDelivered
    <3>3. ASSUME NEW b \in Browsers, login[b] # NoProof
          PROVE  Proven(login[b])'
      <4>1. login[b].revision <= credential.revision /\ login[b].revision \in Nat
        BY <3>3, CredentialAssumption
           DEF CredentialInv, CredentialTypeOK, ProvenInv, Proven, Proofs
      <4>. QED BY <2>1, <3>1, <4>1 DEF Proven
    <3>4. ProvenInv'
      BY <2>1, <2>3, <3>1, <3>3 DEF ProvenInv, NoProof
    <3>. QED BY <2>1, <2>3, <3>0, <3>1, <3>2, <3>4 DEF CredentialKept, CredentialInv, CredentialTypeOK
  <2>. QED BY <1>3, <2>2, <2>3 DEF ReplaceCredential
<1>. QED BY <1>1, <1>2, <1>3

-----------------------------------------------------------------------------
\* Every step keeps the invariant.
LEMMA CredentialSteps == CredentialInv /\ [CredentialNext]_credentialVars => CredentialInv'
<1>. SUFFICES ASSUME CredentialInv, [CredentialNext]_credentialVars PROVE CredentialInv'
  OBVIOUS
<1>1. ASSUME NEW s \in Starters,
             \/ Consider(s) \/ Initialize(s) \/ Lose(s) \/ CreateFile(s) \/ FillFile(s)
             \/ Resume(s) \/ Activate(s) \/ Stop(s)
      PROVE  CredentialKept
  BY <1>1, ConsiderKeeps, InitializeKeeps, LoseOrResumeKeeps, FileKeeps, ActivateKeeps
<1>2. ASSUME NEW p \in Passwords, Recover(p) \/ ReplaceCredential(p) PROVE CredentialKept
  BY <1>2, OperatorKeeps, ChangeKeeps
<1>3. ASSUME NEW b \in Browsers, VerifyLogin(b) \/ CreateSession(b) \/ AbandonLogin(b)
      PROVE  CredentialKept
  BY <1>3, LoginKeeps
<1>4. ASSUME DeleteFile \/ EndSession \/ VerifyChange PROVE CredentialKept
  BY <1>4, OperatorKeeps, ChangeKeeps
<1>5. ASSUME UNCHANGED credentialVars PROVE CredentialKept
  <2>1. ProvenInv' /\ DeliveredInv'
    BY <1>5, ProofsStay, DeliveryStays DEF credentialVars, CredentialInv
  <2>. QED BY <1>5, <2>1 DEF credentialVars, CredentialKept, CredentialInv, CredentialTypeOK, Active
<1>6. CredentialKept
  BY <1>1, <1>2, <1>3, <1>4, <1>5 DEF CredentialNext
<1>. QED BY <1>6 DEF CredentialKept, CredentialInv

LEMMA CredentialsInvariant == CredentialSpec => []CredentialInv
BY CredentialInitially, CredentialSteps, PTL DEF CredentialSpec

\* The credential, the file, the starts, the sessions and what was verified are
\* always of their kinds.
THEOREM CredentialTypeCorrect == CredentialSpec => []CredentialTypeOK
<1>1. CredentialInv => CredentialTypeOK
  BY DEF CredentialInv
<1>. QED BY <1>1, CredentialsInvariant, PTL

\* A session that is accepted was opened with the password in force, however
\* logins and password changes overlap.
THEOREM SessionsProve == CredentialSpec => []SessionsProveThePassword
<1>1. CredentialInv => SessionsProveThePassword
  BY DEF CredentialInv, ProvenInv, Proven, SessionsProveThePassword
<1>. QED BY <1>1, CredentialsInvariant, PTL

\* An active credential's password was given to somebody, wherever starts were
\* interrupted and however many shared the data directory.
THEOREM ActivesAreDelivered == CredentialSpec => []ActiveIsDelivered
<1>1. CredentialInv => ActiveIsDelivered
  BY DEF CredentialInv, DeliveredInv
<1>. QED BY <1>1, CredentialsInvariant, PTL

-----------------------------------------------------------------------------
(* Services *)

\* The step of Services as the services see it: one makes a step of its own and
\* all others stand still.
LEMMA OneServiceSteps ==
    ASSUME [ServicesNext]_<<focus, feeds, others>>
    PROVE
        /\ [Next]_vars
        /\ [ClaimsNext]_claimVars
        /\ [AnchorsNext]_anchorVars
        /\ [RecorderNext]_recorderVars
        /\ [ObservationNext]_observationVars
        /\ [ProviderNext]_providerVars
        /\ [RecursionNext]_recursionVars
        /\ [ValidatorNext]_validatorVars
        /\ [DecisionNext]_decisionVars
        /\ [CredentialNext]_credentialVars
        /\ [OutboxNext]_outboxVars
BY DEF ServicesNext, feeds, others

\* Services runs each of its specifications and adds nothing to any of them, so
\* that what is proved of a component is true of it where the components are
\* checked together.
THEOREM ServicesRunTheirSpecifications ==
    ServicesSpec =>
        /\ Spec
        /\ ClaimsSpec
        /\ AnchorsSpec
        /\ RecorderSpec
        /\ ObservationSpec
        /\ ProviderSpec
        /\ RecursionSpec
        /\ ValidatorSpec
        /\ DecisionSpec
        /\ CredentialSpec
        /\ OutboxSpec
<1>1. ServicesInit =>
        /\ Init
        /\ ClaimsInit
        /\ AnchorsInit
        /\ RecorderInit
        /\ ObservationInit
        /\ ProviderInit
        /\ RecursionInit
        /\ ValidatorInit
        /\ DecisionInit
        /\ CredentialInit
        /\ OutboxInit
  BY DEF ServicesInit
<1>2. [ServicesNext]_<<focus, feeds, others>> => [Next]_vars
  BY OneServiceSteps, Zenon
<1>3. [ServicesNext]_<<focus, feeds, others>> => [ClaimsNext]_claimVars
  BY OneServiceSteps, Zenon
<1>4. [ServicesNext]_<<focus, feeds, others>> => [AnchorsNext]_anchorVars
  BY OneServiceSteps, Zenon
<1>5. [ServicesNext]_<<focus, feeds, others>> => [RecorderNext]_recorderVars
  BY OneServiceSteps, Zenon
<1>6. [ServicesNext]_<<focus, feeds, others>> => [ObservationNext]_observationVars
  BY OneServiceSteps, Zenon
<1>7. [ServicesNext]_<<focus, feeds, others>> => [ProviderNext]_providerVars
  BY OneServiceSteps, Zenon
<1>8. [ServicesNext]_<<focus, feeds, others>> => [RecursionNext]_recursionVars
  BY OneServiceSteps, Zenon
<1>9. [ServicesNext]_<<focus, feeds, others>> => [ValidatorNext]_validatorVars
  BY OneServiceSteps, Zenon
<1>10. [ServicesNext]_<<focus, feeds, others>> => [DecisionNext]_decisionVars
  BY OneServiceSteps, Zenon
<1>11. [ServicesNext]_<<focus, feeds, others>> => [CredentialNext]_credentialVars
  BY OneServiceSteps, Zenon
<1>12. [ServicesNext]_<<focus, feeds, others>> => [OutboxNext]_outboxVars
  BY OneServiceSteps, Zenon
<1> QED
  BY <1>1, <1>2, <1>3, <1>4, <1>5, <1>6, <1>7, <1>8, <1>9, <1>10, <1>11, <1>12, PTL
     DEF ServicesSpec, Spec, ClaimsSpec, AnchorsSpec, RecorderSpec, ObservationSpec,
         ProviderSpec, RecursionSpec, ValidatorSpec, DecisionSpec, CredentialSpec, OutboxSpec

\* Whichever service runs, its variables keep their types, within their bounds.
THEOREM ServicesTypeCorrect == ServicesSpec => []ServicesTypeOK
<1>1. ServicesSpec => []TypeOK
  BY ServicesRunTheirSpecifications, FeedTypeCorrect, PTL
<1>2. ServicesSpec => []ClaimsTypeOK
  BY ServicesRunTheirSpecifications, ClaimsTypeCorrect, PTL
<1>3. ServicesSpec => []AnchorsTypeOK
  BY ServicesRunTheirSpecifications, AnchorsTypeCorrect, PTL
<1>4. ServicesSpec => []RecorderTypeOK
  BY ServicesRunTheirSpecifications, RecorderTypeCorrect, PTL
<1>5. ServicesSpec => []ObservationTypeOK
  BY ServicesRunTheirSpecifications, ObservationTypeCorrect, PTL
<1>6. ServicesSpec => []ProviderTypeOK
  BY ServicesRunTheirSpecifications, ProviderTypeCorrect, PTL
<1>7. ServicesSpec => []RecursionTypeOK
  BY ServicesRunTheirSpecifications, RecursionTypeCorrect, PTL
<1>8. ServicesSpec => []ValidatorTypeOK
  BY ServicesRunTheirSpecifications, ValidatorTypeCorrect, PTL
<1>9. ServicesSpec => []DecisionTypeOK
  BY ServicesRunTheirSpecifications, DecisionTypeCorrect, PTL
<1>10. ServicesSpec => []CredentialTypeOK
  BY ServicesRunTheirSpecifications, CredentialTypeCorrect, PTL
<1>11. ServicesSpec => []OutboxTypeOK
  BY ServicesRunTheirSpecifications, OutboxTypeCorrect, PTL
<1> DEFINE AllTyped ==
      /\ TypeOK /\ ClaimsTypeOK /\ AnchorsTypeOK /\ RecorderTypeOK
      /\ ObservationTypeOK /\ ProviderTypeOK /\ RecursionTypeOK
      /\ ValidatorTypeOK /\ DecisionTypeOK /\ CredentialTypeOK /\ OutboxTypeOK
<1>12. ServicesSpec => []AllTyped
  BY <1>1, <1>2, <1>3, <1>4, <1>5, <1>6, <1>7, <1>8, <1>9, <1>10, <1>11, PTL
<1>13. AllTyped => ServicesTypeOK
  BY DEF ServicesTypeOK
<1> HIDE DEF AllTyped
<1> QED
  BY <1>12, <1>13, PTL
=============================================================================
