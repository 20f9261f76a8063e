---------------------------- MODULE ConfigChange ----------------------------
(***************************************************************************)
(* How a change made in the dashboard is journalled, stored and put in     *)
(* force.  The management API runs one change at a time, under             *)
(* API.configWrites: it captures the stored configuration, writes an       *)
(* intent row, runs the handler, captures again and completes the row with *)
(* the difference.  The handler commits its write, reads it back and       *)
(* reloads what depends on it: the policy engine's snapshot (Engine.Reload,*)
(* three reads and one store) and, for a network, the client ACL           *)
(* (Controller.Reload).  API.networkWrites and Controller.reloading are    *)
(* taken inside and never contended.                                       *)
(*                                                                         *)
(* Any read or write of the database may fail, the request's context being *)
(* one reason: a client that disconnects cancels what its handler still    *)
(* has to do, but not the completion of the journal.  The process may      *)
(* crash at any moment.                                                    *)
(*                                                                         *)
(* A table is known by the writes committed to it, a snapshot by the       *)
(* writes it has read of each table.                                       *)
(***************************************************************************)
EXTENDS Naturals, FiniteSets

CONSTANTS
    NetworkWrites,   \* requests that create, update or delete a network
    PolicyWrites,    \* ... a policy or one of its rules
    ClientWrites,    \* ... the name of a client
    MaxCrashes,      \* bound on the crashes
    Nobody

Requests == NetworkWrites \cup PolicyWrites \cup ClientWrites
Tables == {"policies", "networks", "clients"}

TableOf(h) == IF h \in NetworkWrites THEN "networks"
              ELSE IF h \in PolicyWrites THEN "policies" ELSE "clients"

ASSUME RequestAssumption ==
    /\ Nobody \notin Requests
    /\ NetworkWrites \cap (PolicyWrites \cup ClientWrites) = {}
    /\ PolicyWrites \cap ClientWrites = {}
    /\ MaxCrashes \in Nat

VARIABLES
    pc,        \* where each request is
    writer,    \* the holder of API.configWrites
    db,        \* the writes committed to each table
    before,    \* what each request captured of its table
    journal,   \* the status of each request's row of config_change_history
    recorded,  \* the writes its completed row lists
    outcome,   \* what its handler answered, withheld or sent
    read,      \* the rows Engine.Reload has read so far
    engine,    \* what Engine.snap was built from
    acl,       \* the networks Controller.snap was built from
    stale,     \* Controller.stale
    past,      \* every configuration the database has been in
    crashes

vars == <<pc, writer, db, before, journal, recorded, outcome, read, engine, acl, stale,
          past, crashes>>
inForce == <<engine, acl, stale>>
history == <<before, journal, recorded>>

Phases == {"received", "capturing", "intending", "committing", "reading back",
           "policies", "networks", "clients", "compiled", "access", "handled",
           "captured", "answered", "lost"}
Statuses == {"none", "pending", "complete", "failed", "incomplete"}
Outcomes == {"none", "ok", "warning", "error", "refused", "unrecorded"}

Init ==
    /\ pc = [h \in Requests |-> "received"]
    /\ writer = Nobody
    /\ db = [t \in Tables |-> {}]
    /\ before = [h \in Requests |-> {}]
    /\ journal = [h \in Requests |-> "none"]
    /\ recorded = [h \in Requests |-> {}]
    /\ outcome = [h \in Requests |-> "none"]
    /\ read = [t \in Tables |-> {}]
    /\ engine = read
    /\ acl = {}
    /\ stale = FALSE
    /\ past = {db}
    /\ crashes = 0

Goto(h, phase) == pc' = [pc EXCEPT ![h] = phase]
Outcome(h, o) == outcome' = [outcome EXCEPT ![h] = o]
-----------------------------------------------------------------------------
(* withConfigAudit, before the handler *)

\* Faulty variants of a definition stand before it, are named Faulty... and take
\* no part in the specification: each is a bug one of the properties catches.

\* The session or token is gone by the time withConfigAudit looks again.
Unauthenticated(h) ==
    /\ pc[h] = "received"
    /\ Outcome(h, "refused")
    /\ Goto(h, "answered")
    /\ UNCHANGED <<writer, db, history, read, inForce, past, crashes>>

\* Without configWrites.
FaultyBegin(h) ==
    /\ pc[h] = "received"
    /\ writer' = h
    /\ Goto(h, "capturing")
    /\ UNCHANGED <<db, history, outcome, read, inForce, past, crashes>>

Begin(h) ==
    /\ pc[h] = "received" /\ writer = Nobody
    /\ writer' = h
    /\ Goto(h, "capturing")
    /\ UNCHANGED <<db, history, outcome, read, inForce, past, crashes>>

\* A change that cannot be journalled is refused.
Refuse(h) ==
    /\ pc[h] \in {"capturing", "intending"}
    /\ writer' = Nobody
    /\ Outcome(h, "refused")
    /\ Goto(h, "answered")
    /\ UNCHANGED <<db, history, read, inForce, past, crashes>>

CaptureBefore(h) ==
    /\ pc[h] = "capturing"
    /\ before' = [before EXCEPT ![h] = db[TableOf(h)]]
    /\ Goto(h, "intending")
    /\ UNCHANGED <<writer, db, journal, recorded, outcome, read, inForce, past, crashes>>

\* The handler runs whether the intent could be written or not.
FaultyBeginConfigChange(h) ==
    /\ pc[h] = "intending"
    /\ journal' \in {journal, [journal EXCEPT ![h] = "pending"]}
    /\ Goto(h, "committing")
    /\ UNCHANGED <<writer, db, before, recorded, outcome, read, inForce, past, crashes>>

BeginConfigChange(h) ==
    /\ pc[h] = "intending"
    /\ journal' = [journal EXCEPT ![h] = "pending"]
    /\ Goto(h, "committing")
    /\ UNCHANGED <<writer, db, before, recorded, outcome, read, inForce, past, crashes>>
-----------------------------------------------------------------------------
(* The handler *)

\* CreateNetwork, UpdateNetwork, CreatePolicy and UpdatePolicy read the row back
\* after the commit; the deletions, the rules and the client names do not.
Commit(h) ==
    /\ pc[h] = "committing"
    /\ db' = [db EXCEPT ![TableOf(h)] = @ \cup {h}]
    /\ past' = past \cup {db'}
    /\ \/ h \in NetworkWrites \cup PolicyWrites /\ Goto(h, "reading back")
       \/ Goto(h, "policies")
    /\ UNCHANGED <<writer, history, outcome, read, inForce, crashes>>

\* The store refuses the write.
Reject(h) ==
    /\ pc[h] = "committing"
    /\ Outcome(h, "error")
    /\ Goto(h, "handled")
    /\ UNCHANGED <<writer, db, history, read, inForce, past, crashes>>

ReadBack(h) ==
    /\ pc[h] = "reading back"
    /\ Goto(h, "policies")
    /\ UNCHANGED <<writer, db, history, outcome, read, inForce, past, crashes>>

\* The row cannot be read back: the handler takes the committed write for a
\* failed one, answers the error and reloads nothing.
ReadBackFails(h) ==
    /\ pc[h] = "reading back"
    /\ Outcome(h, "error")
    /\ Goto(h, "handled")
    /\ UNCHANGED <<writer, db, history, read, inForce, past, crashes>>

\* Engine.Reload: ListPolicies, ListNetworks, ListClients, then snap.Store.
After(table) == CASE table = "policies" -> "networks"
                  [] table = "networks" -> "clients"
                  [] table = "clients"  -> "compiled"

ReadTable(h) ==
    /\ pc[h] \in Tables
    /\ read' = [read EXCEPT ![pc[h]] = db[pc[h]]]
    /\ Goto(h, After(pc[h]))
    /\ UNCHANGED <<writer, db, history, outcome, inForce, past, crashes>>

\* What follows the engine: a network handler reloads the ACL, the others have
\* succeeded, but that one which added a rule may fail to read its policy.
Reloaded(h) ==
    \/ h \in NetworkWrites /\ Goto(h, "access") /\ UNCHANGED outcome
    \/ h \notin NetworkWrites /\ Goto(h, "handled") /\ Outcome(h, "ok")
    \/ h \in PolicyWrites /\ Goto(h, "handled") /\ Outcome(h, "error")

\* A failed reload leaves the old snapshot and a line in the log.
ReadTableFails(h) ==
    /\ pc[h] \in Tables
    /\ Reloaded(h)
    /\ UNCHANGED <<writer, db, history, read, inForce, past, crashes>>

PublishEngine(h) ==
    /\ pc[h] = "compiled"
    /\ engine' = read
    /\ Reloaded(h)
    /\ UNCHANGED <<writer, db, history, read, acl, stale, past, crashes>>

\* Controller.Reload: the networks are read and the set built from them published.
ReloadAccess(h) ==
    /\ pc[h] = "access"
    /\ acl' = db["networks"] /\ stale' = FALSE
    /\ Outcome(h, "ok")
    /\ Goto(h, "handled")
    /\ UNCHANGED <<writer, db, history, read, engine, past, crashes>>

\* A handler that drops the warning.
FaultyReloadAccessFails(h) ==
    /\ pc[h] = "access"
    /\ stale' = TRUE
    /\ Outcome(h, "ok")
    /\ Goto(h, "handled")
    /\ UNCHANGED <<writer, db, history, read, engine, acl, past, crashes>>

\* A controller that leaves it to the caller.
FaultyReloadAccessUnnoted(h) ==
    /\ pc[h] = "access"
    /\ Outcome(h, "warning")
    /\ Goto(h, "handled")
    /\ UNCHANGED <<writer, db, history, read, inForce, past, crashes>>

\* The old set stays in force, the controller says that it may be out of date,
\* and the answer carries a warning.
ReloadAccessFails(h) ==
    /\ pc[h] = "access"
    /\ stale' = TRUE
    /\ Outcome(h, "warning")
    /\ Goto(h, "handled")
    /\ UNCHANGED <<writer, db, history, read, engine, acl, past, crashes>>
-----------------------------------------------------------------------------
(* withConfigAudit, after the handler: the answer is still withheld *)

CaptureAfter(h) ==
    /\ pc[h] = "handled"
    /\ recorded' = [recorded EXCEPT ![h] = db[TableOf(h)] \ before[h]]
    /\ Goto(h, "captured")
    /\ UNCHANGED <<writer, db, before, journal, outcome, read, inForce, past, crashes>>

Complete(h) ==
    /\ pc[h] = "captured"
    /\ journal' = [journal EXCEPT ![h] = IF outcome[h] = "error" THEN "failed" ELSE "complete"]
    /\ writer' = Nobody
    /\ Goto(h, "answered")
    /\ UNCHANGED <<db, before, recorded, outcome, read, inForce, past, crashes>>

\* What the configuration has become cannot be read: the row says so, and the
\* answer too.
CaptureAfterFails(h) ==
    /\ pc[h] = "handled"
    /\ journal' = [journal EXCEPT ![h] = "incomplete"]
    /\ writer' = Nobody
    /\ Outcome(h, "unrecorded")
    /\ Goto(h, "answered")
    /\ UNCHANGED <<db, before, recorded, read, inForce, past, crashes>>

\* The row cannot be completed: it stays pending, and the answer says so.
CompleteFails(h) ==
    /\ pc[h] \in {"handled", "captured"}
    /\ recorded' = [recorded EXCEPT ![h] = {}]
    /\ writer' = Nobody
    /\ Outcome(h, "unrecorded")
    /\ Goto(h, "answered")
    /\ UNCHANGED <<db, before, journal, read, inForce, past, crashes>>
-----------------------------------------------------------------------------
\* The process dies and starts again: what was running is lost, and both
\* snapshots are built from the database before anything is served.
Crash ==
    /\ crashes < MaxCrashes
    /\ crashes' = crashes + 1
    /\ pc' = [h \in Requests |-> IF pc[h] \in {"received", "answered"} THEN pc[h] ELSE "lost"]
    /\ writer' = Nobody
    /\ read' = db /\ engine' = db
    /\ acl' = db["networks"] /\ stale' = FALSE
    /\ recorded' = [h \in Requests |->
                       IF journal[h] \in {"complete", "failed"} THEN recorded[h] ELSE {}]
    /\ UNCHANGED <<db, before, journal, outcome, past>>

Step(h) ==
    \/ Unauthenticated(h) \/ Begin(h) \/ Refuse(h) \/ CaptureBefore(h) \/ BeginConfigChange(h)
    \/ Commit(h) \/ Reject(h) \/ ReadBack(h) \/ ReadBackFails(h)
    \/ ReadTable(h) \/ ReadTableFails(h) \/ PublishEngine(h)
    \/ ReloadAccess(h) \/ ReloadAccessFails(h)
    \/ CaptureAfter(h) \/ Complete(h) \/ CaptureAfterFails(h) \/ CompleteFails(h)

Over == \A h \in Requests : pc[h] \in {"answered", "lost"}
Idle == Over /\ UNCHANGED vars

Next == (\E h \in Requests : Step(h)) \/ Crash \/ Idle

Spec == Init /\ [][Next]_vars
-----------------------------------------------------------------------------
(* Properties *)

Running(h) == pc[h] \notin {"received", "answered", "lost"}

\* Types of the variables; configWrites is held by the one request at work.
TypeOK ==
    /\ pc \in [Requests -> Phases]
    /\ writer \in Requests \cup {Nobody}
    /\ db \in [Tables -> SUBSET Requests]
    /\ before \in [Requests -> SUBSET Requests]
    /\ journal \in [Requests -> Statuses]
    /\ recorded \in [Requests -> SUBSET Requests]
    /\ outcome \in [Requests -> Outcomes]
    /\ read \in [Tables -> SUBSET Requests]
    /\ engine \in [Tables -> SUBSET Requests]
    /\ acl \in SUBSET Requests
    /\ stale \in BOOLEAN
    /\ past \subseteq [Tables -> SUBSET Requests]
    /\ crashes \in 0..MaxCrashes
    /\ \A h \in Requests : Running(h) <=> writer = h

Stored(h) == h \in db[TableOf(h)]

\* The journal accounts for every stored write, across failures and crashes: a
\* completed row lists its own request's write and no other's, and a write no
\* completed row lists has a row that says it is unfinished.  A success is
\* answered only when its row is complete.
JournalAccountsForWrites ==
    \A h \in Requests :
        /\ journal[h] \in {"complete", "failed"} => recorded[h] = {h} \cap db[TableOf(h)]
        /\ Stored(h) => journal[h] # "none"
        /\ pc[h] = "answered" /\ outcome[h] \in {"ok", "warning"} => journal[h] = "complete"

\* Queries are decided under a configuration that was stored as a whole at some
\* moment, although the snapshot is read table by table.
SnapshotWasStored == engine \in past

\* A network write that was answered with success, and no warning, is in force
\* in the ACL, a revocation included, and stays so.
UnwarnedWriteIsInForce ==
    \A h \in NetworkWrites :
        pc[h] = "answered" /\ outcome[h] = "ok" => h \in acl

\* An ACL that is not the stored one is owned up to: the controller says it may
\* be stale, the write is still being handled, or it was answered an error.
DriftIsReported ==
    \A h \in NetworkWrites :
        Stored(h) /\ h \notin acl =>
            \/ stale
            \/ Running(h)
            \/ outcome[h] \in {"error", "unrecorded"}

\* Once no change is running, the ACL in force is the stored one or the
\* controller says that it may not be, whatever failed.
AccessFollowsStore ==
    writer = Nobody => stale \/ acl = db["networks"]
=============================================================================
