------------------------- MODULE ConfigChangeProofs -------------------------
(***************************************************************************)
(* Theorems about ConfigChange, for any requests and any number of         *)
(* crashes: the journal accounts for every stored write, queries are       *)
(* decided under a configuration that was stored as a whole, an unwarned   *)
(* network write is in force, and an ACL that is not the stored one is     *)
(* owned up to.  All of it rests on API.configWrites: what one request     *)
(* captured or read is still so when it uses it, because no other commits  *)
(* in between.                                                             *)
(***************************************************************************)
EXTENDS ConfigChange, TLAPS

Undecided == {"received", "capturing", "intending"}
Committed == {"reading back", "policies", "networks", "clients", "compiled", "access"}

\* What a request has captured differs from its table by its own write at most,
\* and its row is there before it commits and finished only at its answer.
JournalAt(h) ==
    /\ pc[h] \in Undecided => journal[h] = "none" /\ ~Stored(h)
    /\ pc[h] \in {"intending", "committing", "handled"} \cup Committed =>
           before[h] = db[TableOf(h)] \ {h}
    /\ pc[h] \in {"committing", "handled", "captured"} \cup Committed =>
           journal[h] = "pending"
    /\ pc[h] = "captured" => recorded[h] = {h} \cap db[TableOf(h)]
    /\ journal[h] \in {"complete", "failed"} =>
           pc[h] = "answered" /\ recorded[h] = {h} \cap db[TableOf(h)]
    /\ Stored(h) => journal[h] # "none"
    /\ pc[h] = "answered" /\ outcome[h] \in {"ok", "warning"} => journal[h] = "complete"

JournalInv == \A h \in Requests : JournalAt(h)

\* The rows a reload has read are still the stored ones.
ReadAt(h) ==
    /\ pc[h] \in {"networks", "clients", "compiled"} => read["policies"] = db["policies"]
    /\ pc[h] \in {"clients", "compiled"} => read["networks"] = db["networks"]
    /\ pc[h] = "compiled" => read["clients"] = db["clients"]

SnapshotInv ==
    /\ db \in past
    /\ SnapshotWasStored
    /\ \A h \in Requests : ReadAt(h)

\* A network write on its way to the ACL is stored; one that is past it is in
\* the ACL, or the controller or its answer says otherwise.
AccessAt(h) ==
    /\ pc[h] \in Undecided \cup {"committing"} => outcome[h] = "none"
    /\ pc[h] \in Committed => Stored(h)
    /\ pc[h] = "access" => h \in NetworkWrites
    /\ h \in NetworkWrites =>
           /\ outcome[h] = "ok" => h \in acl
           /\ Stored(h) /\ h \notin acl =>
                  stale \/ pc[h] \in Committed \/ outcome[h] \in {"error", "unrecorded"}

AccessInv ==
    /\ acl \subseteq db["networks"]
    /\ \A h \in Requests : AccessAt(h)

ChangeInv == TypeOK /\ JournalInv /\ SnapshotInv /\ AccessInv

-----------------------------------------------------------------------------
\* The initial states are typed.
LEMMA TypeInit == Init => TypeOK
<1> SUFFICES ASSUME Init
             PROVE  TypeOK
  OBVIOUS
<1>1. \A h \in Requests : pc[h] = "received" /\ writer # h
  BY RequestAssumption DEF Init
<1>2. 0 \in 0..MaxCrashes
  BY RequestAssumption
<1>3. db \in [Tables -> SUBSET Requests] /\ past = {db}
  BY DEF Init
<1>4. read \in [Tables -> SUBSET Requests] /\ engine = read
  BY DEF Init
<1>5. past \subseteq [Tables -> SUBSET Requests]
  BY <1>3
<1> QED
  BY <1>1, <1>2, <1>3, <1>4, <1>5 DEF Init, TypeOK, Running, Phases, Statuses, Outcomes

\* The table of a request is a table.
LEMMA TableOfIsTable == \A h \in Requests : TableOf(h) \in Tables
BY DEF TableOf, Tables, Requests

\* What follows a reload of the engine.
LEMMA ReloadedMoves ==
    ASSUME TypeOK, NEW h \in Requests, Reloaded(h)
    PROVE  /\ \/ pc' = [pc EXCEPT ![h] = "access"]
              \/ pc' = [pc EXCEPT ![h] = "handled"]
           /\ outcome' \in [Requests -> Outcomes]
<1>1. CASE h \in NetworkWrites /\ Goto(h, "access") /\ UNCHANGED outcome
  BY <1>1 DEF TypeOK, Goto
<1>2. CASE h \notin NetworkWrites /\ Goto(h, "handled") /\ Outcome(h, "ok")
  BY <1>2 DEF TypeOK, Goto, Outcome, Outcomes
<1>3. CASE h \in PolicyWrites /\ Goto(h, "handled") /\ Outcome(h, "error")
  BY <1>3 DEF TypeOK, Goto, Outcome, Outcomes
<1> QED
  BY <1>1, <1>2, <1>3 DEF Reloaded

\* Every step keeps the types, and configWrites with the request at work.
LEMMA TypeStep == TypeOK /\ [Next]_vars => TypeOK'
<1> SUFFICES ASSUME TypeOK, [Next]_vars
             PROVE  TypeOK'
  OBVIOUS
<1>0. Nobody \notin Requests /\ MaxCrashes \in Nat
  BY RequestAssumption
<1> USE <1>0 DEF TypeOK, Running, Phases, Statuses, Outcomes, Goto, Outcome
<1>1. ASSUME NEW h \in Requests, Unauthenticated(h)
      PROVE  TypeOK'
  BY <1>1 DEF Unauthenticated, history, inForce
<1>2. ASSUME NEW h \in Requests, Begin(h)
      PROVE  TypeOK'
  BY <1>2 DEF Begin, history, inForce
<1>3. ASSUME NEW h \in Requests, Refuse(h)
      PROVE  TypeOK'
  BY <1>3 DEF Refuse, history, inForce
<1>4. ASSUME NEW h \in Requests, CaptureBefore(h)
      PROVE  TypeOK'
  BY <1>4, TableOfIsTable DEF CaptureBefore, inForce
<1>5. ASSUME NEW h \in Requests, BeginConfigChange(h)
      PROVE  TypeOK'
  BY <1>5 DEF BeginConfigChange, inForce
<1>6. ASSUME NEW h \in Requests, Commit(h)
      PROVE  TypeOK'
  <2>1. db' \in [Tables -> SUBSET Requests]
    <3>1. db' = [db EXCEPT ![TableOf(h)] = @ \cup {h}]
      BY <1>6 DEF Commit
    <3>2. TableOf(h) \in Tables /\ db[TableOf(h)] \cup {h} \in SUBSET Requests
      BY TableOfIsTable
    <3> QED
      BY <3>1, <3>2
  <2>2. past' = past \cup {db'}
    BY <1>6 DEF Commit
  <2>3. past' \subseteq [Tables -> SUBSET Requests]
    BY <2>1, <2>2
  <2>4. pc[h] = "committing" /\ (\/ pc' = [pc EXCEPT ![h] = "reading back"]
                                 \/ pc' = [pc EXCEPT ![h] = "policies"])
    BY <1>6 DEF Commit
  <2>5. UNCHANGED <<writer, before, journal, recorded, outcome, read, engine, acl, stale, crashes>>
    BY <1>6 DEF Commit, history, inForce
  <2> QED
    BY <2>1, <2>3, <2>4, <2>5
<1>7. ASSUME NEW h \in Requests, Reject(h)
      PROVE  TypeOK'
  BY <1>7 DEF Reject, history, inForce
<1>8. ASSUME NEW h \in Requests, ReadBack(h)
      PROVE  TypeOK'
  BY <1>8 DEF ReadBack, history, inForce
<1>9. ASSUME NEW h \in Requests, ReadBackFails(h)
      PROVE  TypeOK'
  BY <1>9 DEF ReadBackFails, history, inForce
<1>10. ASSUME NEW h \in Requests, ReadTable(h)
       PROVE  TypeOK'
  <2>1. pc[h] \in Tables /\ read' = [read EXCEPT ![pc[h]] = db[pc[h]]]
    BY <1>10 DEF ReadTable
  <2>2. read' \in [Tables -> SUBSET Requests]
    BY <2>1
  <2>3. pc[h] \in {"policies", "networks", "clients"}
    BY <2>1 DEF Tables
  <2>4. pc' = [pc EXCEPT ![h] = After(pc[h])] /\ After(pc[h]) \in {"networks", "clients", "compiled"}
    BY <1>10, <2>3 DEF ReadTable, After
  <2>5. UNCHANGED <<writer, db, before, journal, recorded, outcome, engine, acl, stale, past, crashes>>
    BY <1>10 DEF ReadTable, history, inForce
  <2> QED
    BY <2>2, <2>3, <2>4, <2>5
<1>11. ASSUME NEW h \in Requests, ReadTableFails(h)
       PROVE  TypeOK'
  <2>1. pc[h] \notin {"received", "answered", "lost"}
    BY <1>11 DEF ReadTableFails, Tables
  <2>2. UNCHANGED <<writer, db, before, journal, recorded, read, engine, acl, stale, past, crashes>>
    BY <1>11 DEF ReadTableFails, history, inForce
  <2>3. Reloaded(h)
    BY <1>11 DEF ReadTableFails
  <2>4. \/ pc' = [pc EXCEPT ![h] = "access"]
        \/ pc' = [pc EXCEPT ![h] = "handled"]
    BY <2>3, ReloadedMoves
  <2>5. \A k \in Requests : Running(k)' <=> Running(k)
    BY <2>1, <2>4
  <2>6. outcome' \in [Requests -> Outcomes]
    BY <2>3, ReloadedMoves
  <2> QED
    BY <2>2, <2>4, <2>5, <2>6
<1>12. ASSUME NEW h \in Requests, PublishEngine(h)
       PROVE  TypeOK'
  <2>1. pc[h] = "compiled" /\ engine' = read
    BY <1>12 DEF PublishEngine
  <2>2. UNCHANGED <<writer, db, before, journal, recorded, read, acl, stale, past, crashes>>
    BY <1>12 DEF PublishEngine, history
  <2>3. Reloaded(h)
    BY <1>12 DEF PublishEngine
  <2> QED
    BY <2>1, <2>2, <2>3, ReloadedMoves
<1>13. ASSUME NEW h \in Requests, ReloadAccess(h)
       PROVE  TypeOK'
  <2>1. db["networks"] \in SUBSET Requests
    BY DEF Tables
  <2> QED
    BY <1>13, <2>1 DEF ReloadAccess, history
<1>14. ASSUME NEW h \in Requests, ReloadAccessFails(h)
       PROVE  TypeOK'
  BY <1>14 DEF ReloadAccessFails, history
<1>15. ASSUME NEW h \in Requests, CaptureAfter(h)
       PROVE  TypeOK'
  BY <1>15, TableOfIsTable DEF CaptureAfter, inForce
<1>16. ASSUME NEW h \in Requests, Complete(h)
       PROVE  TypeOK'
  BY <1>16 DEF Complete, inForce
<1>17. ASSUME NEW h \in Requests, CaptureAfterFails(h)
       PROVE  TypeOK'
  BY <1>17 DEF CaptureAfterFails, inForce
<1>18. ASSUME NEW h \in Requests, CompleteFails(h)
       PROVE  TypeOK'
  BY <1>18 DEF CompleteFails, inForce
<1>19. CASE Crash
  <2>1. \A h \in Requests : pc'[h] \in {"received", "answered", "lost"} /\ writer' # h
    BY <1>19 DEF Crash
  <2>2. recorded' \in [Requests -> SUBSET Requests]
    <3>1. recorded' = [h \in Requests |-> IF journal[h] \in {"complete", "failed"}
                                          THEN recorded[h] ELSE {}]
      BY <1>19 DEF Crash
    <3> QED
      BY <3>1
  <2>3. crashes' \in 0..MaxCrashes
    <3>1. crashes < MaxCrashes /\ crashes' = crashes + 1
      BY <1>19 DEF Crash
    <3> HIDE DEF TypeOK, Running, Phases, Statuses, Outcomes, Goto, Outcome
    <3>2. crashes \in 0..MaxCrashes
      BY DEF TypeOK
    <3> QED
      BY <1>0, <3>1, <3>2
  <2>4. read' \in [Tables -> SUBSET Requests] /\ engine' \in [Tables -> SUBSET Requests]
    BY <1>19 DEF Crash
  <2>6. acl' \in SUBSET Requests
    <3>1. "networks" \in Tables
      BY DEF Tables
    <3> QED
      BY <1>19, <3>1 DEF Crash
  <2>5. pc' \in [Requests -> Phases]
    BY <1>19 DEF Crash
  <2> QED
    BY <1>19, <2>1, <2>2, <2>3, <2>4, <2>5, <2>6 DEF Crash
<1>20. CASE UNCHANGED vars
  BY <1>20 DEF vars
<1> QED
  BY <1>1, <1>2, <1>3, <1>4, <1>5, <1>6, <1>7, <1>8, <1>9, <1>10, <1>11, <1>12, <1>13,
     <1>14, <1>15, <1>16, <1>17, <1>18, <1>19, <1>20 DEF Next, Step, Idle

\* The types hold in every reachable state, and configWrites is held by the one
\* request at work.
THEOREM TypeCorrect == Spec => []TypeOK
BY TypeInit, TypeStep, PTL DEF Spec
-----------------------------------------------------------------------------
\* While one request is at work the others have not begun or are over.
LEMMA OthersAreAtRest ==
    ASSUME TypeOK, NEW h \in Requests, writer \in {h, Nobody}
    PROVE  \A k \in Requests \ {h} : pc[k] \in {"received", "answered", "lost"}
BY RequestAssumption DEF TypeOK, Running

\* A step of a request moves no other request.
LEMMA OneMoves ==
    ASSUME TypeOK, NEW h \in Requests, Step(h)
    PROVE  /\ \A k \in Requests \ {h} :
                 /\ pc'[k] = pc[k] /\ outcome'[k] = outcome[k] /\ before'[k] = before[k]
                 /\ journal'[k] = journal[k] /\ recorded'[k] = recorded[k]
           /\ pc[h] # "received" => writer = h
           /\ pc'[h] # "received" /\ pc[h] \notin {"answered", "lost"}
<1> USE DEF TypeOK, Running, Goto, Outcome, history, inForce
<1>1. CASE Unauthenticated(h)
  BY <1>1 DEF Unauthenticated
<1>2. CASE Begin(h)
  BY <1>2 DEF Begin
<1>3. CASE Refuse(h)
  BY <1>3 DEF Refuse
<1>4. CASE CaptureBefore(h)
  BY <1>4 DEF CaptureBefore
<1>5. CASE BeginConfigChange(h)
  BY <1>5 DEF BeginConfigChange
<1>6. CASE Commit(h)
  BY <1>6 DEF Commit
<1>7. CASE Reject(h)
  BY <1>7 DEF Reject
<1>8. CASE ReadBack(h)
  BY <1>8 DEF ReadBack
<1>9. CASE ReadBackFails(h)
  BY <1>9 DEF ReadBackFails
<1>10. CASE ReadTable(h)
  BY <1>10 DEF ReadTable, Tables, After
<1>11. CASE ReadTableFails(h)
  BY <1>11 DEF ReadTableFails, Reloaded, Tables
<1>12. CASE PublishEngine(h)
  BY <1>12 DEF PublishEngine, Reloaded
<1>13. CASE ReloadAccess(h)
  BY <1>13 DEF ReloadAccess
<1>14. CASE ReloadAccessFails(h)
  BY <1>14 DEF ReloadAccessFails
<1>15. CASE CaptureAfter(h)
  BY <1>15 DEF CaptureAfter
<1>16. CASE Complete(h)
  BY <1>16 DEF Complete
<1>17. CASE CaptureAfterFails(h)
  BY <1>17 DEF CaptureAfterFails
<1>18. CASE CompleteFails(h)
  BY <1>18 DEF CompleteFails
<1> QED
  BY <1>1, <1>2, <1>3, <1>4, <1>5, <1>6, <1>7, <1>8, <1>9,
     <1>10, <1>11, <1>12, <1>13, <1>14, <1>15, <1>16, <1>17, <1>18 DEF Step
-----------------------------------------------------------------------------
\* Only a commit changes the tables, and only its own request's entry of them.
LEMMA TablesKept ==
    ASSUME TypeOK, NEW h \in Requests, Step(h)
    PROVE  /\ db' # db => Commit(h)
           /\ \A k \in Requests \ {h} : Stored(k)' <=> Stored(k)
<1>1. CASE Commit(h)
  <2>1. db' = [db EXCEPT ![TableOf(h)] = @ \cup {h}]
    BY <1>1 DEF Commit
  <2> QED
    BY <1>1, <2>1, TableOfIsTable DEF Stored, TypeOK
<1>2. CASE ~Commit(h)
  BY <1>2 DEF Step, Unauthenticated, Begin, Refuse, CaptureBefore, BeginConfigChange, Reject,
     ReadBack, ReadBackFails, ReadTable, ReadTableFails, PublishEngine, ReloadAccess,
     ReloadAccessFails, CaptureAfter, Complete, CaptureAfterFails, CompleteFails, Stored
<1> QED
  BY <1>1, <1>2

\* Every step keeps the journal's account.
LEMMA JournalStep == TypeOK /\ JournalInv /\ [Next]_vars => JournalInv'
<1> SUFFICES ASSUME TypeOK, JournalInv, [Next]_vars
             PROVE  JournalInv'
  OBVIOUS
<1>1. ASSUME NEW h \in Requests, Step(h)
      PROVE  JournalInv'
  <2>1. ASSUME NEW k \in Requests \ {h}
        PROVE  JournalAt(k)'
    <3>1. /\ pc'[k] = pc[k] /\ outcome'[k] = outcome[k] /\ before'[k] = before[k]
          /\ journal'[k] = journal[k] /\ recorded'[k] = recorded[k]
      BY <1>1, OneMoves
    <3>2. CASE db' = db
      BY <3>1, <3>2 DEF JournalInv, JournalAt, Stored
    <3>3. CASE db' # db
      <4>1. pc[h] = "committing" /\ writer = h
        BY <1>1, <3>3, TablesKept, OneMoves DEF Commit
      <4>2. pc[k] \in {"received", "answered", "lost"}
        BY <4>1, OthersAreAtRest
      <4>3. Stored(k)' <=> Stored(k)
        BY <1>1, TablesKept
      <4>4. JournalAt(k)
        BY DEF JournalInv
      <4> QED
        BY <3>1, <4>2, <4>3, <4>4 DEF JournalAt, Stored, Undecided, Committed
    <3> QED
      BY <3>2, <3>3
  <2>2. JournalAt(h)'
    <3>0. /\ pc \in [Requests -> Phases] /\ db \in [Tables -> SUBSET Requests]
          /\ before \in [Requests -> SUBSET Requests]
          /\ journal \in [Requests -> Statuses]
          /\ recorded \in [Requests -> SUBSET Requests]
          /\ outcome \in [Requests -> Outcomes]
          /\ JournalAt(h) /\ TableOf(h) \in Tables
      BY TableOfIsTable DEF TypeOK, JournalInv
    <3> HIDE DEF TypeOK
    <3> USE DEF JournalAt, Stored, Undecided, Committed, Goto, Outcome
    <3>1. CASE Unauthenticated(h)
      BY <3>0, <3>1 DEF Unauthenticated, history, inForce
    <3>2. CASE Begin(h)
      BY <3>0, <3>2 DEF Begin, history, inForce
    <3>3. CASE Refuse(h)
      BY <3>0, <3>3 DEF Refuse, history, inForce
    <3>4. CASE CaptureBefore(h)
      BY <3>0, <3>4 DEF CaptureBefore, history, inForce
    <3>5. CASE BeginConfigChange(h)
      BY <3>0, <3>5 DEF BeginConfigChange, history, inForce
    <3>6. CASE Commit(h)
      BY <3>0, <3>6 DEF Commit, history, inForce
    <3>7. CASE Reject(h)
      BY <3>0, <3>7 DEF Reject, history, inForce
    <3>8. CASE ReadBack(h)
      BY <3>0, <3>8 DEF ReadBack, history, inForce
    <3>9. CASE ReadBackFails(h)
      BY <3>0, <3>9 DEF ReadBackFails, history, inForce
    <3>10. CASE ReadTable(h)
      BY <3>0, <3>10 DEF ReadTable, Tables, After, history, inForce
    <3>11. CASE ReadTableFails(h)
      BY <3>0, <3>11 DEF ReadTableFails, Reloaded, Tables, history, inForce
    <3>12. CASE PublishEngine(h)
      BY <3>0, <3>12 DEF PublishEngine, Reloaded, history, inForce
    <3>13. CASE ReloadAccess(h)
      BY <3>0, <3>13 DEF ReloadAccess, history, inForce
    <3>14. CASE ReloadAccessFails(h)
      BY <3>0, <3>14 DEF ReloadAccessFails, history, inForce
    <3>15. CASE CaptureAfter(h)
      BY <3>0, <3>15 DEF CaptureAfter, history, inForce
    <3>16. CASE Complete(h)
      BY <3>0, <3>16 DEF Complete, history, inForce
    <3>17. CASE CaptureAfterFails(h)
      BY <3>0, <3>17 DEF CaptureAfterFails, history, inForce
    <3>18. CASE CompleteFails(h)
      BY <3>0, <3>18 DEF CompleteFails, history, inForce
    <3> QED
      BY <1>1, <3>1, <3>2, <3>3, <3>4, <3>5, <3>6, <3>7, <3>8, <3>9,
         <3>10, <3>11, <3>12, <3>13, <3>14, <3>15, <3>16, <3>17, <3>18 DEF Step
  <2> QED
    BY <2>1, <2>2 DEF JournalInv
<1>2. CASE Crash
  BY <1>2 DEF Crash, TypeOK, JournalInv, JournalAt, Stored, Undecided, Committed
<1>3. CASE UNCHANGED vars
  BY <1>3 DEF vars, JournalInv, JournalAt, Stored
<1> QED
  BY <1>1, <1>2, <1>3 DEF Next, Idle

-----------------------------------------------------------------------------
\* What is read of the tables, the engine and the history change only while
\* their request holds configWrites.
LEMMA ReadsKept ==
    ASSUME TypeOK, NEW h \in Requests, Step(h)
    PROVE  /\ db' # db \/ read' # read => writer = h
           /\ past' = past \cup {db'}  \/ (db' = db /\ past' = past)
           /\ engine' = engine \/ (pc[h] = "compiled" /\ engine' = read)
<1> USE DEF TypeOK, Running, history, inForce
<1>1. CASE Unauthenticated(h)
  BY <1>1 DEF Unauthenticated, Goto
<1>2. CASE Begin(h)
  BY <1>2 DEF Begin, Goto
<1>3. CASE Refuse(h)
  BY <1>3 DEF Refuse, Goto
<1>4. CASE CaptureBefore(h)
  BY <1>4 DEF CaptureBefore, Goto
<1>5. CASE BeginConfigChange(h)
  BY <1>5 DEF BeginConfigChange, Goto
<1>6. CASE Commit(h)
  BY <1>6 DEF Commit, Goto
<1>7. CASE Reject(h)
  BY <1>7 DEF Reject, Goto
<1>8. CASE ReadBack(h)
  BY <1>8 DEF ReadBack, Goto
<1>9. CASE ReadBackFails(h)
  BY <1>9 DEF ReadBackFails, Goto
<1>10. CASE ReadTable(h)
  BY <1>10 DEF ReadTable, Tables, After, Goto
<1>11. CASE ReadTableFails(h)
  BY <1>11 DEF ReadTableFails, Reloaded, Tables, Goto
<1>12. CASE PublishEngine(h)
  BY <1>12 DEF PublishEngine, Reloaded, Goto
<1>13. CASE ReloadAccess(h)
  BY <1>13 DEF ReloadAccess, Goto
<1>14. CASE ReloadAccessFails(h)
  BY <1>14 DEF ReloadAccessFails, Goto
<1>15. CASE CaptureAfter(h)
  BY <1>15 DEF CaptureAfter, Goto
<1>16. CASE Complete(h)
  BY <1>16 DEF Complete, Goto
<1>17. CASE CaptureAfterFails(h)
  BY <1>17 DEF CaptureAfterFails, Goto
<1>18. CASE CompleteFails(h)
  BY <1>18 DEF CompleteFails, Goto
<1> QED
  BY <1>1, <1>2, <1>3, <1>4, <1>5, <1>6, <1>7, <1>8, <1>9,
     <1>10, <1>11, <1>12, <1>13, <1>14, <1>15, <1>16, <1>17, <1>18 DEF Step

\* Every step keeps the snapshot one that was stored.
LEMMA SnapshotStep == TypeOK /\ SnapshotInv /\ [Next]_vars => SnapshotInv'
<1> SUFFICES ASSUME TypeOK, SnapshotInv, [Next]_vars
             PROVE  SnapshotInv'
  OBVIOUS
<1>1. ASSUME NEW h \in Requests, Step(h)
      PROVE  SnapshotInv'
  <2>1. ASSUME NEW k \in Requests \ {h}
        PROVE  ReadAt(k)'
    <3>1. pc'[k] = pc[k]
      BY <1>1, OneMoves
    <3>2. CASE db' = db /\ read' = read
      BY <3>1, <3>2 DEF SnapshotInv, ReadAt
    <3>3. CASE db' # db \/ read' # read
      <4>1. pc[k] \in {"received", "answered", "lost"}
        BY <1>1, <3>3, ReadsKept, OthersAreAtRest
      <4> QED
        BY <3>1, <4>1 DEF ReadAt
    <3> QED
      BY <3>2, <3>3
  <2>2. ReadAt(h)'
    <3>0. /\ pc \in [Requests -> Phases] /\ db \in [Tables -> SUBSET Requests]
          /\ read \in [Tables -> SUBSET Requests] /\ ReadAt(h)
      BY DEF TypeOK, SnapshotInv
    <3> USE DEF ReadAt, Goto, Outcome
    <3>1. CASE Unauthenticated(h)
      BY <3>0, <3>1 DEF Unauthenticated, history, inForce
    <3>2. CASE Begin(h)
      BY <3>0, <3>2 DEF Begin, history, inForce
    <3>3. CASE Refuse(h)
      BY <3>0, <3>3 DEF Refuse, history, inForce
    <3>4. CASE CaptureBefore(h)
      BY <3>0, <3>4 DEF CaptureBefore, history, inForce
    <3>5. CASE BeginConfigChange(h)
      BY <3>0, <3>5 DEF BeginConfigChange, history, inForce
    <3>6. CASE Commit(h)
      BY <3>0, <3>6 DEF Commit, history, inForce
    <3>7. CASE Reject(h)
      BY <3>0, <3>7 DEF Reject, history, inForce
    <3>8. CASE ReadBack(h)
      BY <3>0, <3>8 DEF ReadBack, history, inForce
    <3>9. CASE ReadBackFails(h)
      BY <3>0, <3>9 DEF ReadBackFails, history, inForce
    <3>10. CASE ReadTable(h)
      BY <3>0, <3>10 DEF ReadTable, Tables, After, history, inForce
    <3>11. CASE ReadTableFails(h)
      BY <3>0, <3>11 DEF ReadTableFails, Reloaded, Tables, history, inForce
    <3>12. CASE PublishEngine(h)
      BY <3>0, <3>12 DEF PublishEngine, Reloaded, history, inForce
    <3>13. CASE ReloadAccess(h)
      BY <3>0, <3>13 DEF ReloadAccess, history, inForce
    <3>14. CASE ReloadAccessFails(h)
      BY <3>0, <3>14 DEF ReloadAccessFails, history, inForce
    <3>15. CASE CaptureAfter(h)
      BY <3>0, <3>15 DEF CaptureAfter, history, inForce
    <3>16. CASE Complete(h)
      BY <3>0, <3>16 DEF Complete, history, inForce
    <3>17. CASE CaptureAfterFails(h)
      BY <3>0, <3>17 DEF CaptureAfterFails, history, inForce
    <3>18. CASE CompleteFails(h)
      BY <3>0, <3>18 DEF CompleteFails, history, inForce
    <3> QED
      BY <1>1, <3>1, <3>2, <3>3, <3>4, <3>5, <3>6, <3>7, <3>8, <3>9,
         <3>10, <3>11, <3>12, <3>13, <3>14, <3>15, <3>16, <3>17, <3>18 DEF Step
  <2>3. db' \in past'
    BY <1>1, ReadsKept DEF SnapshotInv
  <2>4. engine' \in past'
    <3>1. past \subseteq past'
      BY <1>1, ReadsKept
    <3>2. CASE engine' = engine
      BY <3>1, <3>2 DEF SnapshotInv, SnapshotWasStored
    <3>3. CASE pc[h] = "compiled" /\ engine' = read
      <4>1. \A t \in Tables : read[t] = db[t]
        BY <3>3 DEF SnapshotInv, ReadAt, Tables
      <4>2. read = db
        BY <4>1 DEF TypeOK
      <4> QED
        BY <3>1, <3>3, <4>2 DEF SnapshotInv
    <3> QED
      BY <1>1, <3>2, <3>3, ReadsKept
  <2> QED
    BY <2>1, <2>2, <2>3, <2>4 DEF SnapshotInv, SnapshotWasStored
<1>2. CASE Crash
  BY <1>2 DEF Crash, TypeOK, SnapshotInv, SnapshotWasStored, ReadAt
<1>3. CASE UNCHANGED vars
  BY <1>3 DEF vars, SnapshotInv, SnapshotWasStored, ReadAt
<1> QED
  BY <1>1, <1>2, <1>3 DEF Next, Idle

-----------------------------------------------------------------------------
\* The ACL is never cut back by a step, and a controller that stops being stale
\* has just read the stored networks.
LEMMA AccessKept ==
    ASSUME TypeOK, AccessInv, NEW h \in Requests, Step(h)
    PROVE  /\ acl' = db'["networks"] \/ (acl' = acl /\ (stale => stale'))
           /\ acl \subseteq acl' /\ acl' \subseteq db'["networks"]
<1>0. /\ db \in [Tables -> SUBSET Requests] /\ TableOf(h) \in Tables /\ "networks" \in Tables
      /\ acl \subseteq db["networks"]
  BY TableOfIsTable DEF TypeOK, AccessInv, Tables
<1>1. CASE Unauthenticated(h)
  BY <1>0, <1>1 DEF Unauthenticated, history, inForce
<1>2. CASE Begin(h)
  BY <1>0, <1>2 DEF Begin, history, inForce
<1>3. CASE Refuse(h)
  BY <1>0, <1>3 DEF Refuse, history, inForce
<1>4. CASE CaptureBefore(h)
  BY <1>0, <1>4 DEF CaptureBefore, history, inForce
<1>5. CASE BeginConfigChange(h)
  BY <1>0, <1>5 DEF BeginConfigChange, history, inForce
<1>6. CASE Commit(h)
  BY <1>0, <1>6 DEF Commit, history, inForce
<1>7. CASE Reject(h)
  BY <1>0, <1>7 DEF Reject, history, inForce
<1>8. CASE ReadBack(h)
  BY <1>0, <1>8 DEF ReadBack, history, inForce
<1>9. CASE ReadBackFails(h)
  BY <1>0, <1>9 DEF ReadBackFails, history, inForce
<1>10. CASE ReadTable(h)
  BY <1>0, <1>10 DEF ReadTable, Tables, After, history, inForce
<1>11. CASE ReadTableFails(h)
  BY <1>0, <1>11 DEF ReadTableFails, Reloaded, Tables, history, inForce
<1>12. CASE PublishEngine(h)
  BY <1>0, <1>12 DEF PublishEngine, Reloaded, history, inForce
<1>13. CASE ReloadAccess(h)
  BY <1>0, <1>13 DEF ReloadAccess, history, inForce
<1>14. CASE ReloadAccessFails(h)
  BY <1>0, <1>14 DEF ReloadAccessFails, history, inForce
<1>15. CASE CaptureAfter(h)
  BY <1>0, <1>15 DEF CaptureAfter, history, inForce
<1>16. CASE Complete(h)
  BY <1>0, <1>16 DEF Complete, history, inForce
<1>17. CASE CaptureAfterFails(h)
  BY <1>0, <1>17 DEF CaptureAfterFails, history, inForce
<1>18. CASE CompleteFails(h)
  BY <1>0, <1>18 DEF CompleteFails, history, inForce
<1> QED
  BY <1>1, <1>2, <1>3, <1>4, <1>5, <1>6, <1>7, <1>8, <1>9,
     <1>10, <1>11, <1>12, <1>13, <1>14, <1>15, <1>16, <1>17, <1>18 DEF Step

\* Every step keeps the account of the ACL.
LEMMA AccessStep == TypeOK /\ JournalInv /\ AccessInv /\ [Next]_vars => AccessInv'
<1> SUFFICES ASSUME TypeOK, JournalInv, AccessInv, [Next]_vars
             PROVE  AccessInv'
  OBVIOUS
<1>0. \A h \in NetworkWrites : h \in Requests /\ (Stored(h) <=> h \in db["networks"])
  BY DEF Requests, Stored, TableOf
<1>1. ASSUME NEW h \in Requests, Step(h)
      PROVE  AccessInv'
  <2>0. \A k \in NetworkWrites : Stored(k)' <=> k \in db'["networks"]
    BY DEF Stored, TableOf
  <2>1. ASSUME NEW k \in Requests \ {h}
        PROVE  AccessAt(k)'
    <3>1. pc'[k] = pc[k] /\ outcome'[k] = outcome[k] /\ (Stored(k)' <=> Stored(k))
      BY <1>1, OneMoves, TablesKept
    <3>2. AccessAt(k)
      BY DEF AccessInv
    <3> QED
      BY <1>1, <2>0, <3>1, <3>2, AccessKept DEF AccessAt
  <2>2. AccessAt(h)'
    <3>0. /\ pc \in [Requests -> Phases] /\ db \in [Tables -> SUBSET Requests]
          /\ outcome \in [Requests -> Outcomes]
          /\ AccessAt(h) /\ TableOf(h) \in Tables
          /\ pc[h] \in Undecided => ~Stored(h)
      BY TableOfIsTable DEF TypeOK, AccessInv, JournalInv, JournalAt
    <3> USE <1>0, <2>0, RequestAssumption DEF AccessAt, Undecided, Committed, Goto, Outcome
    <3>1. CASE Unauthenticated(h)
      BY <3>0, <3>1 DEF Unauthenticated, Stored, history, inForce
    <3>2. CASE Begin(h)
      BY <3>0, <3>2 DEF Begin, Stored, history, inForce
    <3>3. CASE Refuse(h)
      BY <3>0, <3>3 DEF Refuse, Stored, history, inForce
    <3>4. CASE CaptureBefore(h)
      BY <3>0, <3>4 DEF CaptureBefore, Stored, history, inForce
    <3>5. CASE BeginConfigChange(h)
      BY <3>0, <3>5 DEF BeginConfigChange, Stored, history, inForce
    <3>6. CASE Commit(h)
      BY <3>0, <3>6 DEF Commit, Stored, history, inForce
    <3>7. CASE Reject(h)
      BY <3>0, <3>7 DEF Reject, Stored, history, inForce
    <3>8. CASE ReadBack(h)
      BY <3>0, <3>8 DEF ReadBack, Stored, history, inForce
    <3>9. CASE ReadBackFails(h)
      BY <3>0, <3>9 DEF ReadBackFails, Stored, history, inForce
    <3>10. CASE ReadTable(h)
      BY <3>0, <3>10 DEF ReadTable, Tables, After, Stored, history, inForce
    <3>11. CASE ReadTableFails(h)
      BY <3>0, <3>11 DEF ReadTableFails, Reloaded, Tables, Stored, history, inForce
    <3>12. CASE PublishEngine(h)
      BY <3>0, <3>12 DEF PublishEngine, Reloaded, Stored, history, inForce
    <3>13. CASE ReloadAccess(h)
      BY <3>0, <3>13 DEF ReloadAccess, Stored, history, inForce
    <3>14. CASE ReloadAccessFails(h)
      BY <3>0, <3>14 DEF ReloadAccessFails, Stored, history, inForce
    <3>15. CASE CaptureAfter(h)
      BY <3>0, <3>15 DEF CaptureAfter, Stored, history, inForce
    <3>16. CASE Complete(h)
      BY <3>0, <3>16 DEF Complete, Stored, history, inForce
    <3>17. CASE CaptureAfterFails(h)
      BY <3>0, <3>17 DEF CaptureAfterFails, Stored, history, inForce
    <3>18. CASE CompleteFails(h)
      BY <3>0, <3>18 DEF CompleteFails, Stored, history, inForce
    <3> QED
      BY <1>1, <3>1, <3>2, <3>3, <3>4, <3>5, <3>6, <3>7, <3>8, <3>9,
         <3>10, <3>11, <3>12, <3>13, <3>14, <3>15, <3>16, <3>17, <3>18 DEF Step
  <2> QED
    BY <1>1, <2>1, <2>2, AccessKept DEF AccessInv
<1>2. CASE Crash
  BY <1>0, <1>2 DEF Crash, TypeOK, AccessInv, AccessAt, Undecided, Committed, Stored
<1>3. CASE UNCHANGED vars
  BY <1>3 DEF vars, AccessInv, AccessAt, Stored
<1> QED
  BY <1>1, <1>2, <1>3 DEF Next, Idle

-----------------------------------------------------------------------------
\* The inductive invariant holds in every reachable state.
THEOREM ChangesAccounted == Spec => []ChangeInv
<1>1. Init => ChangeInv
  <2> SUFFICES ASSUME Init
               PROVE  ChangeInv
    OBVIOUS
  <2>1. TypeOK
    BY TypeInit
  <2>2. \A h \in Requests : ~Stored(h)
    BY TableOfIsTable DEF Init, Stored
  <2>3. JournalInv
    BY <2>2 DEF Init, JournalInv, JournalAt, Undecided, Committed
  <2>4. SnapshotInv
    BY DEF Init, SnapshotInv, SnapshotWasStored, ReadAt
  <2>5. AccessInv
    BY <2>2 DEF Init, AccessInv, AccessAt, Undecided, Committed
  <2> QED
    BY <2>1, <2>3, <2>4, <2>5 DEF ChangeInv
<1>2. ChangeInv /\ [Next]_vars => ChangeInv'
  BY TypeStep, JournalStep, SnapshotStep, AccessStep DEF ChangeInv
<1> QED
  BY <1>1, <1>2, PTL DEF Spec

\* The journal of withConfigAudit accounts for every stored write, and a success
\* is answered only when its row is complete.
THEOREM WritesAreJournalled == Spec => []JournalAccountsForWrites
<1>1. ChangeInv => JournalAccountsForWrites
  BY DEF ChangeInv, JournalInv, JournalAt, JournalAccountsForWrites
<1> QED
  BY <1>1, ChangesAccounted, PTL

\* Engine.Reload publishes only what was stored as a whole, although it reads
\* table by table.
THEOREM SnapshotsWereStored == Spec => []SnapshotWasStored
<1>1. ChangeInv => SnapshotWasStored
  BY DEF ChangeInv, SnapshotInv
<1> QED
  BY <1>1, ChangesAccounted, PTL

\* A network write answered without a warning is in force in the ACL.
THEOREM UnwarnedWritesHold == Spec => []UnwarnedWriteIsInForce
<1>1. ChangeInv => UnwarnedWriteIsInForce
  BY DEF ChangeInv, AccessInv, AccessAt, UnwarnedWriteIsInForce, Requests
<1> QED
  BY <1>1, ChangesAccounted, PTL

\* A stored network write that the ACL does not hold is owned up to.
THEOREM DriftsAreReported == Spec => []DriftIsReported
<1>1. ChangeInv => DriftIsReported
  BY DEF ChangeInv, AccessInv, AccessAt, DriftIsReported, Requests, Committed, Running
<1> QED
  BY <1>1, ChangesAccounted, PTL
=============================================================================
