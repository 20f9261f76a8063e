-------------------------- MODULE DecisionRecorder --------------------------
(***************************************************************************)
(* The decision recorder: handlers offer decisions to a bounded queue, one *)
(* worker writes them, and shutdown closes the queue and drains it within  *)
(* a budget.  The gate is a readers-writer lock that Record only tries:    *)
(* while a writer waits for it, Record drops.  A decision is a unit; the   *)
(* model counts them, as Stats does.                                       *)
(***************************************************************************)
EXTENDS Naturals

CONSTANTS
    Callers,         \* handler goroutines
    RecorderQueue,   \* the queue's capacity
    MaxDecisions     \* bound on the decisions offered

ASSUME RecorderAssumption ==
    RecorderQueue \in Nat \ {0} /\ MaxDecisions \in Nat

VARIABLES
    caller,      \* where each Record call is: outside, past the gate, sending
    waiting,     \* decisions in the queue
    sealing,     \* who holds or waits for the gate as a writer
    sealed,      \* Recorder.stopped
    stopper,     \* the goroutine that context.AfterFunc starts
    worker,      \* Run
    hand,        \* decisions the worker has taken and not settled: 0 or 1
    signalled,   \* the process context is done
    expired,     \* the drain's budget is spent
    tally        \* offered, and the counters written, failed and dropped

recorderVars == <<caller, waiting, sealing, sealed, stopper, worker, hand,
                  signalled, expired, tally>>

RecorderInit ==
    /\ caller = [p \in Callers |-> "outside"]
    /\ waiting = 0
    /\ sealing = "nobody" /\ sealed = FALSE
    /\ stopper = "idle"
    /\ worker = "loop" /\ hand = 0
    /\ signalled = FALSE /\ expired = FALSE
    /\ tally = [offered |-> 0, written |-> 0, failed |-> 0, dropped |-> 0]

\* Record returns: the decision is in the queue or counted as dropped.
Leave(p, fate) ==
    /\ caller' = [caller EXCEPT ![p] = "outside"]
    /\ tally' = IF fate = "queued" THEN [tally EXCEPT !.offered = @ + 1]
                ELSE [tally EXCEPT !.offered = @ + 1, !.dropped = @ + 1]
    /\ waiting' = IF fate = "queued" THEN waiting + 1 ELSE waiting

\* TryRLock: fails while anybody wants the gate as a writer.
TryGate(p) ==
    /\ caller[p] = "outside"
    /\ tally.offered < MaxDecisions
    /\ IF sealing # "nobody" THEN Leave(p, "dropped")
       ELSE /\ caller' = [caller EXCEPT ![p] = "inside"]
            /\ UNCHANGED <<tally, waiting>>
    /\ UNCHANGED <<sealing, sealed, stopper, worker, hand, signalled, expired>>

CheckStopped(p) ==
    /\ caller[p] = "inside"
    /\ IF sealed THEN Leave(p, "dropped")
       ELSE /\ caller' = [caller EXCEPT ![p] = "sending"]
            /\ UNCHANGED <<tally, waiting>>
    /\ UNCHANGED <<sealing, sealed, stopper, worker, hand, signalled, expired>>

Send(p) ==
    /\ caller[p] = "sending"
    /\ Leave(p, IF waiting < RecorderQueue THEN "queued" ELSE "dropped")
    /\ UNCHANGED <<sealing, sealed, stopper, worker, hand, signalled, expired>>

\* The process is told to stop; AfterFunc and the worker both seal the queue.
Signal ==
    /\ ~signalled
    /\ signalled' = TRUE
    /\ stopper' = "locking"
    /\ UNCHANGED <<caller, waiting, sealing, sealed, worker, hand, expired, tally>>

ClaimGate(who) ==
    /\ sealing = "nobody"
    /\ sealing' = who

FaultyCloseGate(who) ==
    /\ sealing = who
    /\ sealed' = TRUE
    /\ sealing' = "nobody"

\* The writer has the gate once every call inside has left; it marks the queue
\* as stopped and lets go.
CloseGate(who) ==
    /\ sealing = who
    /\ \A p \in Callers : caller[p] = "outside"
    /\ sealed' = TRUE
    /\ sealing' = "nobody"

StopperStep ==
    /\ \/ /\ stopper = "locking" /\ ClaimGate("stopper")
          /\ stopper' = "closing" /\ UNCHANGED sealed
       \/ /\ stopper = "closing" /\ CloseGate("stopper")
          /\ stopper' = "done"
    /\ UNCHANGED <<caller, waiting, worker, hand, signalled, expired, tally>>

\* The worker takes a decision, whether or not it was told to stop, and only
\* then looks at the context.
Take ==
    /\ worker \in {"loop", "draining"}
    /\ hand = 0 /\ waiting > 0
    /\ waiting' = waiting - 1
    /\ hand' = 1
    /\ worker' = IF worker = "loop" THEN "taken" ELSE "draining"
    /\ UNCHANGED <<caller, sealing, sealed, stopper, signalled, expired, tally>>

LookAtContext ==
    /\ \/ worker = "taken" /\ worker' = IF signalled THEN "locking" ELSE "writing"
       \/ worker = "loop" /\ signalled /\ worker' = "locking"
    /\ UNCHANGED <<caller, waiting, sealing, sealed, stopper, hand, signalled,
                   expired, tally>>

Settle(fate) ==
    /\ hand = 1 /\ hand' = 0
    /\ tally' = [tally EXCEPT ![fate] = @ + 1]

\* The evidence and the decision are written, or one of them fails; a drain
\* whose budget is spent only counts.
Write ==
    /\ \/ /\ worker = "writing" /\ worker' = "loop"
          /\ \E fate \in {"written", "failed"} : Settle(fate)
       \/ /\ worker = "draining" /\ UNCHANGED worker
          /\ \E fate \in IF expired THEN {"dropped"} ELSE {"written", "failed"} :
                Settle(fate)
    /\ UNCHANGED <<caller, waiting, sealing, sealed, stopper, signalled, expired>>

SealBeforeDrain ==
    /\ \/ /\ worker = "locking" /\ ClaimGate("worker")
          /\ worker' = "closing" /\ UNCHANGED sealed
       \/ /\ worker = "closing" /\ CloseGate("worker")
          /\ worker' = "draining"
    /\ UNCHANGED <<caller, waiting, stopper, hand, signalled, expired, tally>>

Expire ==
    /\ worker = "draining" /\ ~expired
    /\ expired' = TRUE
    /\ UNCHANGED <<caller, waiting, sealing, sealed, stopper, worker, hand,
                   signalled, tally>>

Finish ==
    /\ worker = "draining"
    /\ hand = 0 /\ waiting = 0
    /\ worker' = "returned"
    /\ UNCHANGED <<caller, waiting, sealing, sealed, stopper, hand, signalled,
                   expired, tally>>

RecorderNext ==
    \/ \E p \in Callers : TryGate(p) \/ CheckStopped(p) \/ Send(p)
    \/ Signal \/ StopperStep
    \/ Take \/ LookAtContext \/ Write \/ SealBeforeDrain \/ Expire \/ Finish

RecorderSpec == RecorderInit /\ [][RecorderNext]_recorderVars
-----------------------------------------------------------------------------
\* Every variable holds a value of its kind, the queue fits its capacity and
\* whoever claims the gate is at the step that releases it.
RecorderTypeOK ==
    /\ caller \in [Callers -> {"outside", "inside", "sending"}]
    /\ waiting \in 0..RecorderQueue
    /\ sealing \in {"nobody", "stopper", "worker"}
    /\ sealed \in BOOLEAN /\ signalled \in BOOLEAN /\ expired \in BOOLEAN
    /\ stopper \in {"idle", "locking", "closing", "done"}
    /\ worker \in {"loop", "taken", "writing", "locking", "closing", "draining",
                   "returned"}
    /\ hand \in 0..1
    /\ tally \in [offered : Nat, written : Nat, failed : Nat, dropped : Nat]
    /\ (sealing = "stopper") <=> (stopper = "closing")
    /\ (sealing = "worker") <=> (worker = "closing")

\* Every decision whose Record returned is in one place, and once Run has
\* returned that place is one of the counters: nothing is left in a queue that
\* nobody reads, whatever raced the shutdown.
NoDecisionStranded ==
    /\ tally.offered = waiting + hand + tally.written + tally.failed + tally.dropped
    /\ worker = "returned" =>
         /\ waiting = 0 /\ hand = 0
         /\ \A p \in Callers : caller[p] # "sending"
=============================================================================
