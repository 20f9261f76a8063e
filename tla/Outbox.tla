------------------------------- MODULE Outbox -------------------------------
(***************************************************************************)
(* The webhook's durable outbox.  Appending a finding or a review captures *)
(* its event in the same transaction; one worker claims rows under a       *)
(* lease, posts them and records the outcome; saving new settings discards *)
(* what was captured under the old ones, so that nothing consented to for  *)
(* one receiver is sent to another.                                        *)
(*                                                                         *)
(* Settings are known by their version, which stands for the receiver and  *)
(* its signing key.  An event of a type that is not selected is one that   *)
(* finds delivery disabled.  A lease ends, and a retry falls due, at any   *)
(* moment.  The process may crash and writes of the worker may fail.       *)
(***************************************************************************)
EXTENDS Naturals, FiniteSets

CONSTANTS
    Events,         \* findings and reviews
    NoEvent,
    MaxQueue,       \* webhook_config.max_queue
    MaxAttempts,    \* ... max_attempts
    MaxSettings,     \* bound on the saved settings
    MaxFailures     \* bound on crashes and failed writes

ASSUME OutboxAssumption ==
    /\ IsFiniteSet(Events) /\ NoEvent \notin Events
    /\ MaxQueue \in Nat \ {0} /\ MaxAttempts \in Nat \ {0}
    /\ MaxSettings \in Nat \ {0} /\ MaxFailures \in Nat

VARIABLES
    hookSettings,     \* the version and whether it delivers
    appended,     \* the findings and reviews that are stored
    captured,     \* [event, version] for those that were to be delivered
    outbox,       \* webhook_outbox, a row by its event
    eventCounts,       \* webhook_stats
    call,         \* the worker
    request,      \* Service.requestCancel and whether it was called
    saving,       \* a settings handler has stored and not yet reloaded
    failures

hookTables == <<hookSettings, appended, captured, outbox, eventCounts>>
outboxVars == <<hookTables, call, request, saving, failures>>

Waiting == DOMAIN outbox
NewRow(attempts, version, due) == [attempts |-> attempts, version |-> version, due |-> due]
Resting == [pc |-> "idle", version |-> 0, event |-> NoEvent, attempts |-> 0, row |-> 0,
         outcome |-> "none"]
HookAt(pc) == call.pc = pc
CallAt(pc) == call' = [call EXCEPT !.pc = pc]
EndCall(outcome) == call' = [call EXCEPT !.pc = "finishing", !.outcome = outcome]
WithRow(e, row) == [x \in Waiting \cup {e} |-> IF x = e THEN row ELSE outbox[x]]
WithoutRow(e) == [x \in Waiting \ {e} |-> outbox[x]]
Fault == failures < MaxFailures /\ failures' = failures + 1

OutboxInit ==
    /\ hookSettings = [version |-> 1, enabled |-> FALSE]
    /\ appended = {} /\ captured = {}
    /\ outbox = [x \in {} |-> NewRow(0, 1, TRUE)]
    /\ eventCounts = [delivered |-> 0, failed |-> 0, dropped |-> 0]
    /\ call = Resting /\ request = "none" /\ saving = FALSE
    /\ failures = 0
-----------------------------------------------------------------------------
\* InsertFindings or SetFindingReview, with the trigger on its table: a full
\* outbox costs the event and not the finding.
Capture(e) ==
    /\ e \notin appended
    /\ appended' = appended \cup {e}
    /\ IF ~hookSettings.enabled THEN UNCHANGED <<captured, outbox, eventCounts>>
       ELSE /\ captured' = captured \cup {[event |-> e, version |-> hookSettings.version]}
            /\ IF Cardinality(Waiting) < MaxQueue
                 THEN /\ outbox' = WithRow(e, NewRow(0, hookSettings.version, TRUE))
                      /\ UNCHANGED eventCounts
                 ELSE /\ eventCounts' = [eventCounts EXCEPT !.dropped = @ + 1]
                      /\ UNCHANGED outbox
    /\ UNCHANGED <<hookSettings, call, request, saving, failures>>

\* SaveWebhookConfig: the rows of the old settings go, and are counted.  The
\* handlers run one at a time, and the version they read is still the stored one.
SaveSettings ==
    /\ ~saving /\ hookSettings.version < MaxSettings
    /\ \E on \in BOOLEAN :
          hookSettings' = [version |-> hookSettings.version + 1, enabled |-> on]
    /\ eventCounts' = [eventCounts EXCEPT !.dropped = @ + Cardinality(Waiting)]
    /\ outbox' = [x \in {} |-> outbox[x]]
    /\ saving' = TRUE
    /\ UNCHANGED <<appended, captured, call, request, failures>>

\* A Reload that wakes the worker only.
FaultyReload ==
    /\ saving
    /\ saving' = FALSE
    /\ UNCHANGED <<hookTables, call, request, failures>>

\* Service.Reload: the request under way is cancelled.
Reload ==
    /\ saving
    /\ saving' = FALSE
    /\ request' = IF request = "live" THEN "cancelled" ELSE request
    /\ UNCHANGED <<hookTables, call, failures>>

FallsDue(e) ==
    /\ e \in Waiting /\ ~outbox[e].due
    /\ outbox' = [outbox EXCEPT ![e].due = TRUE]
    /\ UNCHANGED <<hookSettings, appended, captured, eventCounts, call, request, saving, failures>>
-----------------------------------------------------------------------------
\* Service.run

ReadSettings ==
    /\ HookAt("idle") /\ hookSettings.enabled
    /\ call' = [Resting EXCEPT !.pc = "claiming", !.version = hookSettings.version]
    /\ UNCHANGED <<hookTables, request, saving, failures>>

\* ClaimWebhookDelivery: the attempt and its lease are stored before the network.
ClaimDelivery(e) ==
    /\ HookAt("claiming") /\ e \in Waiting /\ outbox[e].due
    /\ outbox' = [outbox EXCEPT ![e].attempts = @ + 1, ![e].due = FALSE]
    /\ call' = [call EXCEPT !.pc = "judging", !.event = e, !.row = outbox[e].version,
                            !.attempts = outbox[e].attempts + 1]
    /\ UNCHANGED <<hookSettings, appended, captured, eventCounts, request, saving, failures>>

\* Nothing is due, or the claim fails.
ClaimNothing ==
    /\ HookAt("claiming")
    /\ call' = Resting
    /\ UNCHANGED <<hookTables, request, saving, failures>>

\* What the worker may not send fails; for the rest it installs a cancellation ...
Judge ==
    /\ HookAt("judging")
    /\ IF call.row # call.version \/ call.attempts > MaxAttempts
         THEN EndCall("failed") /\ UNCHANGED request
         ELSE CallAt("rechecking") /\ request' = "live"
    /\ UNCHANGED <<hookTables, saving, failures>>

\* ... and reads the settings again, under it.  A row left here waits for its lease.
Recheck ==
    /\ HookAt("rechecking")
    /\ \/ hookSettings.version = call.version /\ request = "live"
          /\ CallAt("signing") /\ UNCHANGED <<request, failures>>
       \/ (hookSettings.version # call.version \/ request # "live")
          /\ call' = Resting /\ request' = "none" /\ UNCHANGED failures
       \/ Fault /\ call' = Resting /\ request' = "none"
    /\ UNCHANGED <<hookTables, saving>>

\* WebhookSecretForVersion
ReadSecret ==
    /\ HookAt("signing")
    /\ IF hookSettings.version = call.version /\ request = "live" THEN CallAt("sending")
       ELSE EndCall("failed")
    /\ UNCHANGED <<hookTables, request, saving, failures>>

\* client.Do posts the event, unless the context is cancelled.
Post ==
    /\ HookAt("sending")
    /\ IF request = "live" THEN CallAt("waiting") ELSE EndCall("retry")
    /\ UNCHANGED <<hookTables, request, saving, failures>>

\* The receiver accepts, refuses for good, or may be asked again.
ReceiverAnswers ==
    /\ HookAt("waiting")
    /\ \E outcome \in {"delivered", "failed", "retry"} : EndCall(outcome)
    /\ UNCHANGED <<hookTables, request, saving, failures>>

\* An outcome recorded whatever has become of the row.
FaultyRowOfCall == TRUE

\* The row that was claimed is still there: newer settings have not counted and
\* discarded it.
RowOfCall == call.event \in Waiting /\ outbox[call.event].version = call.row

\* FinishWebhookDelivery.  A retry leaves the row to fall due.
FinishDelivery ==
    LET outcome == IF call.outcome = "retry" /\ call.attempts >= MaxAttempts
                   THEN "failed" ELSE call.outcome
    IN
    /\ HookAt("finishing")
    /\ IF ~RowOfCall \/ outcome = "retry" THEN UNCHANGED <<outbox, eventCounts>>
       ELSE /\ outbox' = WithoutRow(call.event)
            /\ eventCounts' = [eventCounts EXCEPT ![outcome] = @ + 1]
    /\ call' = Resting /\ request' = "none"
    /\ UNCHANGED <<hookSettings, appended, captured, saving, failures>>

\* The outcome cannot be stored: the attempt is made again when its lease ends.
FinishDeliveryFails ==
    /\ HookAt("finishing") /\ Fault
    /\ call' = Resting /\ request' = "none"
    /\ UNCHANGED <<hookTables, saving>>

CrashAndStart ==
    /\ Fault
    /\ call' = Resting /\ request' = "none" /\ saving' = FALSE
    /\ UNCHANGED hookTables

OutboxNext ==
    \/ \E e \in Events : Capture(e) \/ FallsDue(e) \/ ClaimDelivery(e)
    \/ SaveSettings \/ Reload \/ ReadSettings \/ ClaimNothing \/ Judge \/ Recheck
    \/ ReadSecret \/ Post \/ ReceiverAnswers \/ FinishDelivery \/ FinishDeliveryFails
    \/ CrashAndStart

OutboxSpec == OutboxInit /\ [][OutboxNext]_outboxVars
-----------------------------------------------------------------------------
Rows == [attempts : Nat, version : {hookSettings.version}, due : BOOLEAN]
Calls ==
    [pc : {"idle", "claiming", "judging", "rechecking", "signing", "sending", "waiting",
           "finishing"},
     version : 0..MaxSettings, event : Events \cup {NoEvent}, attempts : Nat,
     row : 0..MaxSettings, outcome : {"none", "delivered", "failed", "retry"}]

\* Every variable holds a value of its kind, the outbox fits and holds rows of the
\* stored settings only, and no attempt beyond the last is sent.
OutboxTypeOK ==
    /\ hookSettings \in [version : 1..MaxSettings, enabled : BOOLEAN]
    /\ appended \subseteq Events
    /\ captured \subseteq [event : appended, version : 1..hookSettings.version]
    /\ Waiting \subseteq Events /\ Cardinality(Waiting) <= MaxQueue
    /\ outbox \in [Waiting -> Rows]
    /\ eventCounts \in [{"delivered", "failed", "dropped"} -> Nat]
    /\ call \in Calls
    /\ call.pc \in {"rechecking", "signing", "sending", "waiting"} =>
           call.attempts <= MaxAttempts
    /\ request \in {"none", "live", "cancelled"}
    /\ saving \in BOOLEAN
    /\ failures \in 0..MaxFailures

\* Every event that was to be delivered is queued or counted exactly once, as
\* delivered, failed or dropped, whatever settings, crashes and retries came
\* between.
EventsAreAccounted ==
    Cardinality(captured) =
        Cardinality(Waiting) + eventCounts.delivered + eventCounts.failed + eventCounts.dropped

\* An event is only ever posted to the receiver it was captured for, and to a
\* replaced one only while the handler that replaces it has not returned.
StartsSending == HookAt("sending") /\ call'.pc = "waiting"

SentAsConsented ==
    [][StartsSending =>
          /\ [event |-> call.event, version |-> call.version] \in captured
          /\ call.version = hookSettings.version \/ saving]_outboxVars
=============================================================================
