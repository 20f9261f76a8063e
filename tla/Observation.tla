---------------------------- MODULE Observation ----------------------------
(***************************************************************************)
(* Local validation as an observer: queries wait in a bounded queue for a  *)
(* worker that validates them, counts the verdict and hands a row to the   *)
(* writer's own bounded queue, which is written in batches.  At shutdown   *)
(* the observer closes admission, joins its workers and drains; only then  *)
(* is the writer stopped.                                                  *)
(***************************************************************************)
EXTENDS Naturals, FiniteSets

CONSTANTS
    Queriers,         \* handler goroutines
    Validators,       \* the observer's workers
    ObserverQueue, WriterQueue, BatchRows,
    MaxObserved       \* bound on the queries offered

ASSUME ObservationAssumption ==
    /\ IsFiniteSet(Queriers) /\ IsFiniteSet(Validators)
    /\ ObserverQueue \in Nat \ {0} /\ WriterQueue \in Nat \ {0}
    /\ BatchRows \in Nat \ {0} /\ MaxObserved \in Nat

VARIABLES
    querier,      \* where each Observe call is
    requests,     \* Observer.queue
    validator,    \* where each worker is
    observer,     \* Run, after its workers have started
    closingGate,  \* Run wants or holds admission as a writer
    stopping,     \* Observer.stopping
    cancelled,    \* the process context is done
    rowQueue,     \* Writer.ch
    batch,        \* rows taken and not flushed
    writer,       \* Writer.Run
    stopWriter,   \* the writer's own context is done
    counts        \* Stats of both, what was offered and what no one counts

observationVars == <<querier, requests, validator, observer, closingGate, stopping,
                     cancelled, rowQueue, batch, writer, stopWriter, counts>>
observerVars == <<querier, requests, validator, observer, closingGate, stopping, cancelled>>
writerVars == <<rowQueue, batch, writer, stopWriter>>

ObservationInit ==
    /\ querier = [q \in Queriers |-> "outside"]
    /\ requests = 0
    /\ validator = [v \in Validators |-> "loop"]
    /\ observer = "joining"
    /\ closingGate = FALSE /\ stopping = FALSE /\ cancelled = FALSE
    /\ rowQueue = 0 /\ batch = 0
    /\ writer = "run" /\ stopWriter = FALSE
    /\ counts = [offered |-> 0, observed |-> 0, dropped |-> 0, private |-> 0,
                 written |-> 0, unqueued |-> 0, refused |-> 0]

\* RLock: waits while Run wants the gate.
Approach(q) ==
    /\ querier[q] = "outside" /\ ~closingGate
    /\ counts.offered < MaxObserved
    /\ querier' = [querier EXCEPT ![q] = "inside"]
    /\ counts' = [counts EXCEPT !.offered = @ + 1]
    /\ UNCHANGED <<requests, validator, observer, closingGate, stopping, cancelled, writerVars>>

\* A stopped observer drops; any other tries the queue.
Admit(q) ==
    /\ querier[q] = "inside"
    /\ IF stopping \/ cancelled
         THEN /\ querier' = [querier EXCEPT ![q] = "outside"]
              /\ counts' = [counts EXCEPT !.dropped = @ + 1]
         ELSE /\ querier' = [querier EXCEPT ![q] = "sending"]
              /\ UNCHANGED counts
    /\ UNCHANGED <<requests, validator, observer, closingGate, stopping, cancelled, writerVars>>

Enqueue(q) ==
    /\ querier[q] = "sending"
    /\ querier' = [querier EXCEPT ![q] = "outside"]
    /\ IF requests < ObserverQueue
         THEN requests' = requests + 1 /\ UNCHANGED counts
         ELSE counts' = [counts EXCEPT !.dropped = @ + 1] /\ UNCHANGED requests
    /\ UNCHANGED <<validator, observer, closingGate, stopping, cancelled, writerVars>>
-----------------------------------------------------------------------------
Goto(v, pc) == validator' = [validator EXCEPT ![v] = pc]

TakeRequest(v) ==
    /\ validator[v] = "loop" /\ requests > 0
    /\ requests' = requests - 1
    /\ Goto(v, "taken")
    /\ UNCHANGED <<querier, observer, closingGate, stopping, cancelled, counts, writerVars>>

\* A worker that took a request after all does not validate it.
BeginValidation(v) ==
    /\ validator[v] = "taken"
    /\ IF cancelled
         THEN Goto(v, "exited") /\ counts' = [counts EXCEPT !.dropped = @ + 1]
         ELSE Goto(v, "validating") /\ UNCHANGED counts
    /\ UNCHANGED <<querier, requests, observer, closingGate, stopping, cancelled, writerVars>>

\* The verdict is counted; the row is kept only where the log may name it.
CountVerdict(v) ==
    /\ validator[v] = "validating"
    /\ \/ /\ Goto(v, "recording")
          /\ counts' = [counts EXCEPT !.observed = @ + 1]
       \/ /\ Goto(v, "loop")
          /\ counts' = [counts EXCEPT !.observed = @ + 1, !.private = @ + 1]
    /\ UNCHANGED <<querier, requests, observer, closingGate, stopping, cancelled, writerVars>>

RecordRow(v) ==
    /\ validator[v] = "recording"
    /\ Goto(v, "loop")
    /\ IF rowQueue < WriterQueue
         THEN rowQueue' = rowQueue + 1 /\ UNCHANGED counts
         ELSE counts' = [counts EXCEPT !.unqueued = @ + 1] /\ UNCHANGED rowQueue
    /\ UNCHANGED <<querier, requests, observer, closingGate, stopping, cancelled,
                   batch, writer, stopWriter>>

LeavePool(v) ==
    /\ validator[v] = "loop" /\ cancelled
    /\ Goto(v, "exited")
    /\ UNCHANGED <<querier, requests, observer, closingGate, stopping, cancelled,
                   counts, writerVars>>

Cancel ==
    /\ ~cancelled
    /\ cancelled' = TRUE
    /\ UNCHANGED <<querier, requests, validator, observer, closingGate, stopping,
                   counts, writerVars>>
-----------------------------------------------------------------------------
\* The workers have joined: Run asks for the gate, ...
JoinWorkers ==
    /\ observer = "joining"
    /\ \A v \in Validators : validator[v] = "exited"
    /\ observer' = "closing" /\ closingGate' = TRUE
    /\ UNCHANGED <<querier, requests, validator, stopping, cancelled, counts, writerVars>>

\* ... gets it when every call inside has left, ...
CloseAdmission ==
    /\ observer = "closing"
    /\ \A q \in Queriers : querier[q] = "outside"
    /\ stopping' = TRUE /\ closingGate' = FALSE
    /\ observer' = "draining"
    /\ UNCHANGED <<querier, requests, validator, cancelled, counts, writerVars>>

\* ... and drops what is left.
DrainObserver ==
    /\ observer = "draining"
    /\ IF requests > 0
         THEN /\ requests' = requests - 1
              /\ counts' = [counts EXCEPT !.dropped = @ + 1]
              /\ UNCHANGED observer
         ELSE observer' = "done" /\ UNCHANGED <<requests, counts>>
    /\ UNCHANGED <<querier, validator, closingGate, stopping, cancelled, writerVars>>

FaultyStopWriter ==
    /\ cancelled /\ ~stopWriter
    /\ stopWriter' = TRUE
    /\ UNCHANGED <<observerVars, rowQueue, batch, writer, counts>>

\* Wait, and the backstop beside it: the writer outlives its producers.
StopWriter ==
    /\ observer = "done" /\ ~stopWriter
    /\ stopWriter' = TRUE
    /\ UNCHANGED <<observerVars, rowQueue, batch, writer, counts>>
-----------------------------------------------------------------------------
\* A batch is written, or the database refuses it and its rows are gone.
Flushed(n) ==
    \E fate \in {"written", "refused"} : counts' = [counts EXCEPT ![fate] = @ + n]

TakeRow ==
    /\ writer \in {"run", "drain"} /\ rowQueue > 0
    /\ rowQueue' = rowQueue - 1
    /\ IF batch + 1 < BatchRows
         THEN batch' = batch + 1 /\ UNCHANGED counts
         ELSE batch' = 0 /\ Flushed(batch + 1)
    /\ UNCHANGED <<observerVars, writer, stopWriter>>

FlushTicker ==
    /\ writer = "run" /\ batch > 0
    /\ batch' = 0 /\ Flushed(batch)
    /\ UNCHANGED <<observerVars, rowQueue, writer, stopWriter>>

\* The writer's context is done: it drains what is queued, flushes, returns.
DrainWriter ==
    /\ \/ /\ writer = "run" /\ stopWriter
          /\ writer' = "drain"
          /\ UNCHANGED <<batch, counts>>
       \/ /\ writer = "drain" /\ rowQueue = 0
          /\ writer' = "done"
          /\ batch' = 0 /\ Flushed(batch)
    /\ UNCHANGED <<observerVars, rowQueue, stopWriter>>

ObservationNext ==
    \/ \E q \in Queriers : Approach(q) \/ Admit(q) \/ Enqueue(q)
    \/ \E v \in Validators :
          \/ TakeRequest(v) \/ BeginValidation(v) \/ CountVerdict(v)
          \/ RecordRow(v) \/ LeavePool(v)
    \/ Cancel \/ JoinWorkers \/ CloseAdmission \/ DrainObserver \/ StopWriter
    \/ TakeRow \/ FlushTicker \/ DrainWriter

ObservationSpec == ObservationInit /\ [][ObservationNext]_observationVars
-----------------------------------------------------------------------------
\* Every variable holds a value of its kind and the queues fit.
ObservationTypeOK ==
    /\ querier \in [Queriers -> {"outside", "inside", "sending"}]
    /\ requests \in 0..ObserverQueue
    /\ validator \in [Validators -> {"loop", "taken", "validating", "recording", "exited"}]
    /\ observer \in {"joining", "closing", "draining", "done"}
    /\ closingGate \in BOOLEAN /\ stopping \in BOOLEAN /\ cancelled \in BOOLEAN
    /\ rowQueue \in 0..WriterQueue
    /\ batch \in 0..(BatchRows - 1)
    /\ writer \in {"run", "drain", "done"}
    /\ stopWriter \in BOOLEAN
    /\ counts \in [offered : Nat, observed : Nat, dropped : Nat, private : Nat,
                    written : Nat, unqueued : Nat, refused : Nat]

\* Once both have returned, everything offered was observed or counted as
\* dropped, and every row of it was written, counted as unqueued or refused
\* with its batch: no row is queued behind a writer that has gone.
EveryObservationAccounted ==
    /\ observer = "done" /\ (\A q \in Queriers : querier[q] = "outside") =>
         counts.offered = counts.observed + counts.dropped
    /\ writer = "done" =>
         /\ observer = "done"
         /\ counts.observed = counts.private + counts.written + counts.unqueued
                                + counts.refused
=============================================================================
