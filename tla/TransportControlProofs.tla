----------------------- MODULE TransportControlProofs -----------------------
(***************************************************************************)
(* Theorems about TransportControl, for any number of queries and changes: *)
(* the types hold, anchor refresh has one owner, the saved settings are    *)
(* those that run, a bundle outlives its users, encrypted means encrypted, *)
(* and what a change waits for only dwindles.                              *)
(***************************************************************************)
EXTENDS TransportControl, FiniteSetTheorems, TLAPS

\* The phases before the publication, and those after each wait of the drain.
Publishing == {"prepared", "saved"}
RouteLeft == {"closingRoute", "drained"}
RuntimeQuiet == {"stoppingRefresh"} \cup RouteLeft
LearnQuiet == {"closingRuntime"} \cup RuntimeQuiet

\* A selection has a runtime exactly when its mode is not off, and that runtime
\* uses the route of the selection.
Coherent(s) ==
    /\ s \in Selections
    /\ s.mode = "off" <=> s.runtime = None
    /\ s.runtime # None => s.runtime.route = s.route
    /\ s.route.transport = s.transport

\* The operation is Close: nothing comes next.
Closing == op.next.mode = "closed"

\* TypeOK, and what it says nothing of.
ControlTypes ==
    /\ TypeOK
    /\ published \in Seq(Selections)
    /\ op = None \/ op \in Operations
    /\ pc \in [Queries -> {"arrived", "native", "inNative", "forward", "routed",
                           "forwarding", "done"}]

\* What the operation replaces and what is published at its place.
OperationInv ==
    /\ Coherent(current)
    /\ op # None =>
         /\ Coherent(op.old)
         /\ op.at \in Publishing => ~Closing /\ current = op.old
         /\ Closing => current = [op.old EXCEPT !.mode = "off", !.runtime = None]
         /\ ~Closing => Coherent(op.next)
         /\ op.at \notin Publishing /\ ~Closing => current = op.next

\* The settings are those of the selection that runs, or of the one to come.
SettingsInv ==
    /\ op = None => (current.route \notin retired => settings = Saved(current))
    /\ op # None =>
         IF op.at = "prepared" \/ Closing THEN settings = Saved(op.old)
                                          ELSE settings = Saved(op.next)

\* Routes are numbered in the order they are made; only the one an operation
\* replaces is retired, and a bundle is closed behind a retired route.
RetiredInv ==
    /\ bundlesShut \subseteq retired
    /\ \A r \in retired : r.gen <= serial
    /\ current.route.gen <= serial /\ (op # None => op.old.route.gen <= serial)
    /\ op = None => (current.runtime # None => current.route \notin retired)
    /\ op # None =>
         /\ ~Closing => op.next.route \notin retired /\ op.next.route.gen <= serial
         /\ op.at \in RouteLeft /\ Replaces("route") <=> op.old.route \in retired

\* The refresh loop is that of the selection the operation replaces, until it is
\* waited for.
Before == IF op = None THEN current ELSE op.old

RefreshInv ==
    /\ refreshing \subseteq {Before.runtime}
    /\ op # None /\ op.at \in RouteLeft /\ Replaces("runtime") => refreshing = {}

\* The selections that may be in use.
InUse ==
    IF op = None THEN {current}
    ELSE IF op.at \in Publishing \/ Closing THEN {op.old}
    ELSE {op.old, op.next}

\* Learn workers belong to an observing selection in use, and are gone from the
\* one that no longer observes once they were waited for.
LearnInv ==
    \A rt \in observing \cup looking :
        /\ \E s \in InUse : s.mode = "observe" /\ s.runtime = rt
        /\ op # None /\ op.at \in LearnQuiet /\ EndsLearn => rt # op.old.runtime
        /\ op # None /\ op.at = "stoppingLearn" /\ EndsLearn => op.old.runtime \notin observing

\* A query that captured a runtime holds one in use or finds it shut; none is
\* inside a runtime that was shut.
NativeInv ==
    \A q \in Queries :
        /\ pc[q] \in {"native", "inNative"} =>
             \/ \E s \in InUse : s.runtime = native[q] /\ native[q] # None
             \/ pc[q] = "native" /\ native[q] \in shut
        /\ pc[q] = "inNative" =>
             ~(op # None /\ op.at \in RuntimeQuiet /\ Replaces("runtime")
                 /\ native[q] = op.old.runtime)

ShutInv ==
    op # None /\ op.at \in RuntimeQuiet /\ Replaces("runtime") => op.old.runtime \in shut

\* A query that captured a route holds one in use or finds it retired; none is
\* forwarded over a route whose bundle is closed.
ForwardInv ==
    \A q \in Queries :
        /\ pc[q] \in {"routed", "forwarding"} =>
             \/ \E s \in InUse : s.route = route[q]
             \/ pc[q] = "routed" /\ route[q] \in retired
        /\ pc[q] = "forwarding" =>
             /\ route[q] \notin bundlesShut
             /\ ~(op # None /\ op.at = "drained" /\ Replaces("route") /\ route[q] = op.old.route)

ControlInv ==
    /\ ControlTypes
    /\ OperationInv
    /\ SettingsInv
    /\ RetiredInv
    /\ RefreshInv
    /\ LearnInv
    /\ NativeInv
    /\ ShutInv
    /\ ForwardInv

-----------------------------------------------------------------------------
\* What a step to another phase leaves alone.
LEMMA Advance ==
    ASSUME op \in Operations, NEW p \in Phases, op' = [op EXCEPT !.at = p]
    PROVE  /\ op' \in Operations /\ op' # None
           /\ op'.at = p /\ op'.old = op.old /\ op'.next = op.next
BY ControlAssumption DEF Operations

\* What storing a selection does to the history of this process.
LEMMA PublishStep ==
    ASSUME published \in Seq(Selections), NEW s \in Selections,
           published' = Append(published, s)
    PROVE  /\ published' \in Seq(Selections) /\ published' # <<>>
           /\ current' = s
           /\ Len(published') = Len(published) + 1
           /\ published'[Len(published) + 1] = s
           /\ \A i \in 1..Len(published) : published'[i] = published[i]
BY DEF current

\* The invariant holds at the start.
LEMMA ControlInit == Init => ControlInv
<1> SUFFICES ASSUME Init PROVE ControlInv
  OBVIOUS
<1> USE ControlAssumption
<1> DEFINE r == [gen |-> 1, transport |-> "native"]
           s == Selection("off", "native", r, None)
<1>1. s \in Selections /\ s.mode = "off" /\ s.transport = "native" /\ s.runtime = None /\ s.route = r
  BY DEF Selection, Selections, RouteRecords, Modes, Transports
<1>2. published = <<s>> /\ current = s
  BY DEF Init, current
<1>3. ControlTypes
  BY <1>1, <1>2 DEF ControlTypes, TypeOK, Init, Modes, Transports
<1>4. Coherent(current)
  BY <1>1, <1>2 DEF Coherent
<1> HIDE DEF s
<1>5. SettingsInv /\ OperationInv
  BY <1>1, <1>2, <1>4 DEF SettingsInv, OperationInv, Init, Saved
<1>6. RetiredInv
  BY <1>1, <1>2 DEF RetiredInv, Init
<1>7. RefreshInv /\ LearnInv /\ NativeInv /\ ShutInv /\ ForwardInv
  BY DEF RefreshInv, LearnInv, NativeInv, ShutInv, ForwardInv, Init
<1> QED
  BY <1>3, <1>5, <1>6, <1>7 DEF ControlInv

\* Steps of the background and of queries leave the operation alone.
LEMMA Undisturbed ==
    ASSUME ControlInv, UNCHANGED <<ctlVars, routeVars>>
    PROVE  OperationInv' /\ SettingsInv' /\ RetiredInv' /\ Before' = Before
           /\ InUse' = InUse /\ current' = current /\ op' = op
<1> USE DEF ctlVars, routeVars
<1>1. current' = current /\ op' = op
  BY DEF current
<1>2. OperationInv'
  BY <1>1 DEF ControlInv, OperationInv, Coherent, Closing
<1>3. SettingsInv'
  BY <1>1 DEF ControlInv, SettingsInv, Closing, Saved
<1>4. RetiredInv'
  BY <1>1 DEF ControlInv, RetiredInv, Replaces, Closing
<1>5. Before' = Before /\ InUse' = InUse
  BY <1>1 DEF Before, InUse, Closing
<1> QED
  BY <1>1, <1>2, <1>3, <1>4, <1>5

\* What is published is in use: its route always, its runtime if it enforces.
LEMMA CurrentInUse ==
    ASSUME ControlInv
    PROVE  /\ \E s \in InUse : s.route = current.route
           /\ current.mode = "enforce" => \E s \in InUse : s.runtime = current.runtime
<1> USE DEF ControlInv, InUse
<1>1. CASE op = None
  BY <1>1
<1>2. CASE op # None /\ op.at \in Publishing
  BY <1>2 DEF OperationInv
<1>3. CASE op # None /\ op.at \notin Publishing /\ Closing
  <2>1. op.old \in Selections /\ current = [op.old EXCEPT !.mode = "off", !.runtime = None]
    BY <1>3 DEF OperationInv, Coherent
  <2>2. current.mode = "off" /\ current.route = op.old.route
    BY <2>1 DEF Selections
  <2> QED
    BY <1>3, <2>2
<1>4. CASE op # None /\ op.at \notin Publishing /\ ~Closing
  BY <1>4 DEF OperationInv
<1> QED
  BY <1>1, <1>2, <1>3, <1>4

\* A query moves on: it captures what is in use, or enters what it captured.
LEMMA QueryStep ==
    ASSUME ControlInv, NEW q \in Queries, Query(q)
    PROVE  ControlInv'
<1> USE DEF ControlInv
<1>1. UNCHANGED <<ctlVars, routeVars>> /\ UNCHANGED nativeVars
  BY DEF Query, LoadNative, EnterNative, LoadRoute, EnterRoute, Leave
<1>2. /\ OperationInv' /\ SettingsInv' /\ RetiredInv' /\ Before' = Before
      /\ InUse' = InUse /\ current' = current /\ op' = op
  BY <1>1, Undisturbed
<1>3. RefreshInv' /\ ShutInv'
  BY <1>1, <1>2 DEF RefreshInv, ShutInv, Replaces, nativeVars
<1>4. LearnInv'
  BY <1>1, <1>2 DEF LearnInv, EndsLearn, Replaces, nativeVars
<1>5. current \in Selections /\ (current.mode = "off" <=> current.runtime = None)
  BY DEF OperationInv, Coherent
<1>6. /\ pc' \in [Queries -> {"arrived", "native", "inNative", "forward", "routed",
                              "forwarding", "done"}]
      /\ native' \in [Queries -> RuntimeRecords \cup {None}]
      /\ route' \in [Queries -> RouteRecords \cup {None}]
  BY <1>5 DEF ControlTypes, TypeOK, Query, LoadNative, EnterNative, LoadRoute, EnterRoute,
         Leave, Goto, Selections
<1>7. ControlTypes'
  BY <1>1, <1>6 DEF ControlTypes, TypeOK, ctlVars, routeVars, nativeVars
<1>8. /\ \E s \in InUse : s.route = current.route
      /\ current.mode = "enforce" => \E s \in InUse : s.runtime = current.runtime
  BY CurrentInUse
<1>9. /\ \A p \in Queries \ {q} : pc'[p] = pc[p] /\ native'[p] = native[p] /\ route'[p] = route[p]
      /\ shut' = shut /\ retired' = retired /\ bundlesShut' = bundlesShut
  BY <1>1 DEF ControlTypes, TypeOK, Query, LoadNative, EnterNative, LoadRoute, EnterRoute,
         Leave, Goto, nativeVars, routeVars
<1>10. CASE LoadNative(q)
  <2>1. \/ /\ pc'[q] = "native" /\ native'[q] = current.runtime /\ current.runtime # None
           /\ current.mode = "enforce"
        \/ pc'[q] = "forward"
    BY <1>10 DEF LoadNative, Goto, ControlTypes, TypeOK
  <2>2. NativeInv'
    BY <1>2, <1>8, <1>9, <2>1 DEF NativeInv, Replaces
  <2>3. ForwardInv'
    BY <1>2, <1>9, <2>1 DEF ForwardInv, Replaces
  <2> QED
    BY <1>2, <1>3, <1>4, <1>7, <2>2, <2>3
<1>11. CASE EnterNative(q)
  <2>1. /\ pc[q] = "native" /\ native' = native
        /\ pc'[q] = IF native[q] \in shut \cup cancelled THEN "done" ELSE "inNative"
    BY <1>11 DEF EnterNative, Goto, ControlTypes, TypeOK
  <2>2. NativeInv'
    BY <1>2, <1>9, <2>1 DEF NativeInv, ShutInv, Replaces
  <2>3. ForwardInv'
    BY <1>2, <1>9, <2>1 DEF ForwardInv, Replaces
  <2> QED
    BY <1>2, <1>3, <1>4, <1>7, <2>2, <2>3
<1>12. CASE LoadRoute(q)
  <2>1. pc'[q] = "routed" /\ route'[q] = current.route
    BY <1>12 DEF LoadRoute, Goto, ControlTypes, TypeOK
  <2>2. NativeInv'
    BY <1>2, <1>9, <2>1 DEF NativeInv, Replaces
  <2>3. ForwardInv'
    BY <1>2, <1>8, <1>9, <2>1 DEF ForwardInv, Replaces
  <2> QED
    BY <1>2, <1>3, <1>4, <1>7, <2>2, <2>3
<1>13. CASE EnterRoute(q)
  <2>1. /\ pc[q] = "routed" /\ route' = route
        /\ pc'[q] = IF route[q] \in retired THEN "done" ELSE "forwarding"
    BY <1>13 DEF EnterRoute, Goto, ControlTypes, TypeOK
  <2>2. NativeInv'
    BY <1>2, <1>9, <2>1 DEF NativeInv, Replaces
  <2>3. ForwardInv'
    BY <1>2, <1>9, <2>1 DEF ForwardInv, RetiredInv, RouteLeft, Replaces
  <2> QED
    BY <1>2, <1>3, <1>4, <1>7, <2>2, <2>3
<1>14. CASE Leave(q)
  <2>1. pc'[q] = "done"
    BY <1>14 DEF Leave, Goto, ControlTypes, TypeOK
  <2>2. NativeInv'
    BY <1>2, <1>9, <2>1 DEF NativeInv, Replaces
  <2>3. ForwardInv'
    BY <1>2, <1>9, <2>1 DEF ForwardInv, Replaces
  <2> QED
    BY <1>2, <1>3, <1>4, <1>7, <2>2, <2>3
<1> QED
  BY <1>10, <1>11, <1>12, <1>13, <1>14 DEF Query

\* Refresh loops end, learn lookups begin and end.
LEMMA BackgroundStep ==
    ASSUME ControlInv, Background
    PROVE  ControlInv'
<1> USE DEF ControlInv
<1>1. UNCHANGED <<ctlVars, routeVars>> /\ UNCHANGED queryVars
      /\ UNCHANGED <<cancelled, shut, observing>>
  BY DEF Background, RefreshEnds, LearnStarts, LearnEnds
<1>2. /\ OperationInv' /\ SettingsInv' /\ RetiredInv' /\ Before' = Before
      /\ InUse' = InUse /\ current' = current /\ op' = op
  BY <1>1, Undisturbed
<1>3. refreshing' \subseteq refreshing /\ looking' \subseteq looking \cup observing
  BY DEF Background, RefreshEnds, LearnStarts, LearnEnds
<1>4. ControlTypes'
  BY <1>1, <1>3 DEF ControlTypes, TypeOK, ctlVars, routeVars, queryVars
<1>5. RefreshInv' /\ ShutInv'
  BY <1>1, <1>2, <1>3 DEF RefreshInv, ShutInv, Replaces
<1>6. LearnInv'
  BY <1>1, <1>2, <1>3 DEF LearnInv, EndsLearn, Replaces
<1>7. NativeInv' /\ ForwardInv'
  BY <1>1, <1>2 DEF NativeInv, ForwardInv, Replaces, queryVars, routeVars
<1> QED
  BY <1>2, <1>4, <1>5, <1>6, <1>7

-----------------------------------------------------------------------------
\* A change begins: on the selection in force, with a route that is that of the
\* selection or new.
LEMMA PrepareStep ==
    ASSUME ControlInv, op = None, current.route \notin retired, serial < MaxChanges,
           NEW s, Coherent(s), s.route = current.route \/ s.route.gen = serial + 1,
           serial' = serial + 1, op' = [at |-> "prepared", old |-> current, next |-> s],
           UNCHANGED <<settings, published, nativeVars, routeVars, queryVars>>
    PROVE  ControlInv'
<1> USE ControlAssumption DEF ControlInv
<1>1. op'.at = "prepared" /\ op'.old = current /\ op'.next = s /\ current' = current
  BY DEF current
<1>2. Coherent(current) /\ current \in Selections /\ s \in Selections /\ s.mode # "closed"
  BY DEF OperationInv, Coherent, Selections, Modes
<1>3. op' \in Operations /\ op' # None
  BY <1>2 DEF Operations, Phases
<1>4. ControlTypes'
  BY <1>1, <1>2, <1>3 DEF ControlTypes, TypeOK, nativeVars, routeVars, queryVars
<1>5. OperationInv'
  <2>1. Coherent(current)' /\ Coherent(op.old)' /\ Coherent(op.next)'
    BY <1>1, <1>2 DEF Coherent
  <2> QED
    BY <1>1, <1>2, <2>1 DEF OperationInv, Closing, Publishing
<1>6. SettingsInv'
  BY <1>1, <1>3 DEF SettingsInv, Saved
<1>7. RetiredInv'
  <2>1. serial \in Nat /\ \A r \in retired : r.gen <= serial /\ r.gen \in Nat
    BY DEF ControlTypes, TypeOK, RetiredInv, RouteRecords
  <2>2. s.route \notin retired
    BY <2>1
  <2>3. current.route.gen \in Nat
    BY <1>2 DEF Selections, RouteRecords
  <2> QED
    BY <1>1, <1>3, <2>1, <2>2, <2>3 DEF RetiredInv, RouteLeft, Closing, routeVars
<1>8. Before' = Before /\ InUse' = InUse
  BY <1>1, <1>3 DEF Before, InUse, Publishing
<1>9. RefreshInv' /\ ShutInv'
  BY <1>1, <1>3, <1>8 DEF RefreshInv, ShutInv, RuntimeQuiet, RouteLeft, nativeVars
<1>10. LearnInv'
  BY <1>1, <1>3, <1>8 DEF LearnInv, LearnQuiet, RuntimeQuiet, RouteLeft, nativeVars
<1>11. NativeInv' /\ ForwardInv'
  BY <1>1, <1>3, <1>8 DEF NativeInv, ForwardInv, RuntimeQuiet, RouteLeft, nativeVars, queryVars,
         routeVars
<1> QED
  BY <1>4, <1>5, <1>6, <1>7, <1>9, <1>10, <1>11

\* A change of mode or of transport begins.
LEMMA BeginStep ==
    ASSUME ControlInv, (\E m \in Modes : BeginMode(m)) \/ (\E t \in Transports : BeginTransport(t))
    PROVE  ControlInv'
<1>1. Coherent(current) /\ serial \in 1..MaxChanges
  BY DEF ControlInv, OperationInv, ControlTypes, TypeOK
<1>2. ASSUME NEW m \in Modes, BeginMode(m)
      PROVE  ControlInv'
  <2> DEFINE rt == IF m = "off" THEN None
                   ELSE IF current.runtime # None THEN current.runtime
                   ELSE [id |-> serial', route |-> current.route]
             s == Selection(m, current.transport, current.route, rt)
  <2>1. serial' = serial + 1 /\ serial < MaxChanges /\ op = None /\ current.route \notin retired
        /\ op' = [at |-> "prepared", old |-> current, next |-> s]
        /\ UNCHANGED <<settings, published, nativeVars, routeVars, queryVars>>
    BY <1>2 DEF BeginMode
  <2>2. rt \in RuntimeRecords \cup {None} /\ (rt # None => rt.route = current.route)
        /\ (m = "off" <=> rt = None)
    BY <1>1, <2>1, ControlAssumption DEF Coherent, RuntimeRecords, Selections
  <2> HIDE DEF rt
  <2>3. Coherent(s) /\ s.route = current.route
    BY <1>1, <2>2 DEF Coherent, Selection, Selections
  <2> HIDE DEF s
  <2> QED
    BY <2>1, <2>3, PrepareStep
<1>3. ASSUME NEW t \in Transports, BeginTransport(t)
      PROVE  ControlInv'
  <2> DEFINE r == [gen |-> serial', transport |-> t]
             rt == IF current.mode = "off" THEN None ELSE [id |-> serial', route |-> r]
             s == Selection(current.mode, t, r, rt)
  <2>1. serial' = serial + 1 /\ serial < MaxChanges /\ op = None /\ current.route \notin retired
        /\ op' = [at |-> "prepared", old |-> current, next |-> s]
        /\ UNCHANGED <<settings, published, nativeVars, routeVars, queryVars>>
    BY <1>3 DEF BeginTransport
  <2>2. r \in RouteRecords /\ r.gen = serial + 1 /\ r.transport = t
    BY <1>1, <2>1, ControlAssumption DEF RouteRecords
  <2> HIDE DEF r
  <2>3. rt \in RuntimeRecords \cup {None} /\ (rt # None => rt.route = r)
        /\ (current.mode = "off" <=> rt = None)
    BY <1>1, <2>1, <2>2, ControlAssumption DEF RuntimeRecords
  <2> HIDE DEF rt
  <2>4. Coherent(s) /\ s.route = r
    BY <1>1, <2>2, <2>3 DEF Coherent, Selection, Selections
  <2> HIDE DEF s
  <2> QED
    BY <2>1, <2>2, <2>4, PrepareStep
<1> QED
  BY <1>2, <1>3

\* The setting is written.
LEMMA SaveStep ==
    ASSUME ControlInv, Save
    PROVE  ControlInv'
<1> USE DEF ControlInv
<1>1. /\ op \in Operations /\ op # None /\ op.at = "prepared"
      /\ op' = [op EXCEPT !.at = "saved"] /\ settings' = Saved(op.next)
      /\ UNCHANGED <<published, serial, nativeVars, routeVars, queryVars>>
  BY DEF ControlTypes, Save
<1>2. /\ op' \in Operations /\ op' # None
      /\ op'.at = "saved" /\ op'.old = op.old /\ op'.next = op.next
  BY <1>1, Advance DEF Phases
<1>3. current' = current
  BY <1>1 DEF current
<1>4. Coherent(op.next) /\ ~Closing
  BY <1>1 DEF OperationInv, Publishing
<1>5. ControlTypes'
  BY <1>1, <1>2, <1>4 DEF ControlTypes, TypeOK, nativeVars, routeVars, queryVars, Coherent, Selections,
         Saved
<1>6. OperationInv'
  BY <1>1, <1>2, <1>3 DEF OperationInv, Coherent, Closing, Publishing
<1>7. SettingsInv'
  BY <1>1, <1>2, <1>3, <1>4 DEF SettingsInv, Closing, Saved
<1>8. RetiredInv' /\ RefreshInv' /\ ShutInv'
  BY <1>1, <1>2, <1>3 DEF RetiredInv, RefreshInv, ShutInv, Before, RuntimeQuiet, RouteLeft,
         Replaces, Closing, nativeVars, routeVars
<1>9. InUse' = InUse
  BY <1>1, <1>2 DEF InUse, Publishing
<1>10. LearnInv'
  BY <1>1, <1>2, <1>9 DEF LearnInv, LearnQuiet, RuntimeQuiet, RouteLeft, nativeVars
<1>11. NativeInv' /\ ForwardInv'
  BY <1>1, <1>2, <1>9 DEF NativeInv, ForwardInv, RuntimeQuiet, RouteLeft, nativeVars, queryVars,
         routeVars
<1> QED
  BY <1>5, <1>6, <1>7, <1>8, <1>10, <1>11

\* Or it is not, and the operation returns.
LEMMA SaveFailsStep ==
    ASSUME ControlInv, SaveFails
    PROVE  ControlInv'
<1> USE DEF ControlInv
<1>1. /\ op # None /\ op.at = "prepared" /\ op' = None
      /\ UNCHANGED <<settings, published, serial, nativeVars, routeVars, queryVars>>
  BY DEF SaveFails
<1>2. current' = current /\ current = op.old
  BY <1>1 DEF OperationInv, Publishing, current
<1>3. ControlTypes'
  BY <1>1 DEF ControlTypes, TypeOK, nativeVars, routeVars, queryVars
<1>4. OperationInv' /\ SettingsInv'
  BY <1>1, <1>2 DEF OperationInv, SettingsInv, Coherent, Saved
<1>5. RetiredInv'
  BY <1>1, <1>2 DEF RetiredInv, RouteLeft, routeVars
<1>6. InUse' = InUse /\ Before' = Before
  BY <1>1, <1>2 DEF InUse, Before, Publishing
<1>7. RefreshInv' /\ ShutInv' /\ LearnInv'
  BY <1>1, <1>6 DEF RefreshInv, ShutInv, LearnInv, nativeVars
<1>8. NativeInv' /\ ForwardInv'
  BY <1>1, <1>6 DEF NativeInv, ForwardInv, nativeVars, queryVars, routeVars
<1> QED
  BY <1>3, <1>4, <1>5, <1>7, <1>8

\* The next selection is published and its learn workers start.
LEMMA PublicationStep ==
    ASSUME ControlInv, Publish
    PROVE  ControlInv'
<1> USE DEF ControlInv
<1>1. /\ op \in Operations /\ op # None /\ op.at = "saved"
      /\ op' = [op EXCEPT !.at = "published"] /\ published' = Append(published, op.next)
      /\ observing' = IF op.next.mode = "observe" THEN observing \cup {op.next.runtime} ELSE observing
      /\ UNCHANGED <<settings, serial, cancelled, shut, refreshing, looking, routeVars, queryVars>>
  BY DEF ControlTypes, Publish
<1>2. /\ op' \in Operations /\ op' # None
      /\ op'.at = "published" /\ op'.old = op.old /\ op'.next = op.next
  BY <1>1, Advance DEF Phases
<1>3. Coherent(op.next) /\ ~Closing /\ op.next \in Selections
      /\ (op.next.mode = "observe" => op.next.runtime \in RuntimeRecords)
  BY <1>1 DEF OperationInv, Publishing, Coherent, Selections
<1>4. /\ published' \in Seq(Selections) /\ published' # <<>>
      /\ current' = op.next
      /\ Len(published') = Len(published) + 1
      /\ published'[Len(published) + 1] = op.next
      /\ \A i \in 1..Len(published) : published'[i] = published[i]
  BY <1>1, <1>3, PublishStep DEF ControlTypes
<1>5. ControlTypes'
  <2>1. \A i \in 1..Len(published') :
          published'[i] \in Selections /\ (published'[i].mode = "off" <=> published'[i].runtime = None)
    BY <1>3, <1>4 DEF ControlTypes, TypeOK, Coherent
  <2> QED
    BY <1>1, <1>2, <1>3, <1>4, <2>1 DEF ControlTypes, TypeOK, routeVars, queryVars
<1>6. OperationInv'
  BY <1>1, <1>2, <1>3, <1>4 DEF OperationInv, Coherent, Closing, Publishing
<1>7. SettingsInv'
  BY <1>1, <1>2, <1>3 DEF SettingsInv, Closing, Saved
<1>8. RetiredInv'
  <2>1. op.next.route.gen <= serial
    BY <1>1, <1>3 DEF RetiredInv, Closing
  <2> QED
    BY <1>1, <1>2, <1>4, <2>1 DEF RetiredInv, RouteLeft, Replaces, Closing, routeVars
<1>9. RefreshInv' /\ ShutInv'
  BY <1>1, <1>2 DEF RefreshInv, ShutInv, Before, RuntimeQuiet, RouteLeft
<1>10. InUse = {op.old} /\ InUse' = {op.old, op.next}
  BY <1>1, <1>2, <1>3 DEF InUse, Publishing, Closing
<1>11. LearnInv'
  BY <1>1, <1>2, <1>10 DEF LearnInv, LearnQuiet, RuntimeQuiet, RouteLeft
<1>12. NativeInv' /\ ForwardInv'
  BY <1>1, <1>2, <1>10 DEF NativeInv, ForwardInv, RuntimeQuiet, RouteLeft, queryVars, routeVars
<1> QED
  BY <1>5, <1>6, <1>7, <1>8, <1>9, <1>11, <1>12

\* A step of the drain that publishes nothing and ends nothing: the operation
\* advances to a phase after its publication.
LEMMA DrainStep ==
    ASSUME ControlInv, op # None, op.at \notin Publishing, NEW p \in Phases \ Publishing,
           op' = [op EXCEPT !.at = p],
           UNCHANGED <<settings, published, serial, queryVars>>
    PROVE  /\ op' \in Operations /\ op' # None
           /\ op'.at = p /\ op'.old = op.old /\ op'.next = op.next
           /\ current' = current /\ Before' = Before /\ InUse' = InUse
           /\ OperationInv' /\ (Closing' <=> Closing)
           /\ (EndsLearn' <=> EndsLearn)
           /\ (Replaces("runtime")' <=> Replaces("runtime"))
           /\ (Replaces("route")' <=> Replaces("route"))
<1> USE DEF ControlInv
<1>1. /\ op' \in Operations /\ op' # None
      /\ op'.at = p /\ op'.old = op.old /\ op'.next = op.next
  BY Advance DEF ControlTypes
<1>2. current' = current /\ (Closing' <=> Closing)
  BY <1>1 DEF current, Closing
<1>3. Before' = Before /\ InUse' = InUse
  BY <1>1, <1>2 DEF Before, InUse
<1>4. OperationInv'
  BY <1>1, <1>2 DEF OperationInv, Coherent, Closing
<1>5. /\ (EndsLearn' <=> EndsLearn)
      /\ (Replaces("runtime")' <=> Replaces("runtime"))
      /\ (Replaces("route")' <=> Replaces("route"))
  BY <1>1 DEF EndsLearn, Replaces
<1> QED
  BY <1>1, <1>2, <1>3, <1>4, <1>5

\* A selection's route is a route, so that what Close puts in its place replaces it.
LEMMA ReplacedRoute ==
    ASSUME ControlInv, op # None
    PROVE  /\ Coherent(op.old) /\ op.old \in Selections
           /\ op.old.runtime # None => op.old.runtime.route = op.old.route
           /\ Closing => op.next.route = None /\ op.next.runtime = None /\ Replaces("route")
           /\ ~Closing => op.next \in Selections /\ Coherent(op.next)
           /\ op.old.route # None /\ op.old.route \in RouteRecords
<1>1. Coherent(op.old) /\ (~Closing => Coherent(op.next)) /\ op \in Operations
  BY DEF ControlInv, ControlTypes, OperationInv
<1>2. op.old \in Selections /\ op.old.route \in RouteRecords /\ op.old.route # None
  BY <1>1, ControlAssumption DEF Coherent, Selections
<1>3. op.next \in Selections \cup Closings
  BY <1>1 DEF Operations
<1>4. Closing => op.next.route = None /\ op.next.runtime = None
  BY <1>3 DEF Closing, Closings, Selections, Modes
<1> QED
  BY <1>1, <1>2, <1>4 DEF Coherent, Replaces

\* Learn workers of a mode or runtime left behind take no more.
LEMMA StopLearnStep ==
    ASSUME ControlInv, StopLearn
    PROVE  ControlInv'
<1> USE DEF ControlInv
<1>1. /\ op # None /\ op.at = "published" /\ op' = [op EXCEPT !.at = "stoppingLearn"]
      /\ observing' = IF EndsLearn THEN observing \ {op.old.runtime} ELSE observing
      /\ UNCHANGED <<settings, published, serial, queryVars>>
      /\ UNCHANGED <<cancelled, shut, refreshing, looking, routeVars>>
  BY DEF StopLearn
<1>2. /\ op' \in Operations /\ op' # None
      /\ op'.at = "stoppingLearn" /\ op'.old = op.old /\ op'.next = op.next
      /\ current' = current /\ Before' = Before /\ InUse' = InUse
      /\ OperationInv' /\ (Closing' <=> Closing)
      /\ (EndsLearn' <=> EndsLearn)
      /\ (Replaces("runtime")' <=> Replaces("runtime"))
      /\ (Replaces("route")' <=> Replaces("route"))
  BY <1>1, DrainStep DEF Publishing, Phases
<1>3. ControlTypes'
  BY <1>1, <1>2 DEF ControlTypes, TypeOK, queryVars, routeVars
<1>4. SettingsInv' /\ RetiredInv' /\ RefreshInv' /\ ShutInv'
  BY <1>1, <1>2 DEF SettingsInv, RetiredInv, RefreshInv, ShutInv, RouteLeft, RuntimeQuiet,
         Saved, routeVars
<1>5. LearnInv'
  BY <1>1, <1>2 DEF LearnInv, LearnQuiet, RuntimeQuiet, RouteLeft
<1>6. NativeInv' /\ ForwardInv'
  BY <1>1, <1>2 DEF NativeInv, ForwardInv, RuntimeQuiet, RouteLeft, queryVars, routeVars
<1> QED
  BY <1>2, <1>3, <1>4, <1>5, <1>6

\* They have ended, and the runtime is cancelled.
LEMMA LearnStoppedStep ==
    ASSUME ControlInv, LearnStopped
    PROVE  ControlInv'
<1> USE DEF ControlInv
<1>1. /\ op # None /\ op.at = "stoppingLearn" /\ op' = [op EXCEPT !.at = "closingRuntime"]
      /\ EndsLearn => op.old.runtime \notin looking
      /\ cancelled' = IF Replaces("runtime") THEN cancelled \cup {op.old.runtime} ELSE cancelled
      /\ UNCHANGED <<settings, published, serial, queryVars>>
      /\ UNCHANGED <<shut, refreshing, observing, looking, routeVars>>
  BY DEF LearnStopped
<1>2. /\ op' \in Operations /\ op' # None
      /\ op'.at = "closingRuntime" /\ op'.old = op.old /\ op'.next = op.next
      /\ current' = current /\ Before' = Before /\ InUse' = InUse
      /\ OperationInv' /\ (Closing' <=> Closing)
      /\ (EndsLearn' <=> EndsLearn)
      /\ (Replaces("runtime")' <=> Replaces("runtime"))
      /\ (Replaces("route")' <=> Replaces("route"))
  BY <1>1, DrainStep DEF Publishing, Phases
<1>3. op.old \in Selections
  BY <1>1, ReplacedRoute
<1>4. ControlTypes'
  BY <1>1, <1>2, <1>3 DEF ControlTypes, TypeOK, queryVars, routeVars, Replaces, Selections
<1>5. SettingsInv' /\ RetiredInv' /\ RefreshInv' /\ ShutInv'
  BY <1>1, <1>2 DEF SettingsInv, RetiredInv, RefreshInv, ShutInv, RouteLeft, RuntimeQuiet,
         Saved, routeVars
<1>6. LearnInv'
  BY <1>1, <1>2 DEF LearnInv, LearnQuiet, RuntimeQuiet, RouteLeft
<1>7. NativeInv' /\ ForwardInv'
  BY <1>1, <1>2 DEF NativeInv, ForwardInv, RuntimeQuiet, RouteLeft, queryVars, routeVars
<1> QED
  BY <1>2, <1>4, <1>5, <1>6, <1>7

\* No query is inside the runtime, and it is shut.
LEMMA ShutRuntimeStep ==
    ASSUME ControlInv, ShutRuntime
    PROVE  ControlInv'
<1> USE DEF ControlInv
<1>1. /\ op # None /\ op.at = "closingRuntime" /\ op' = [op EXCEPT !.at = "stoppingRefresh"]
      /\ Replaces("runtime") => Inside(op.old.runtime) = {}
      /\ shut' = IF Replaces("runtime") THEN shut \cup {op.old.runtime} ELSE shut
      /\ UNCHANGED <<settings, published, serial, queryVars>>
      /\ UNCHANGED <<cancelled, refreshing, observing, looking, routeVars>>
  BY DEF ShutRuntime
<1>2. /\ op' \in Operations /\ op' # None
      /\ op'.at = "stoppingRefresh" /\ op'.old = op.old /\ op'.next = op.next
      /\ current' = current /\ Before' = Before /\ InUse' = InUse
      /\ OperationInv' /\ (Closing' <=> Closing)
      /\ (EndsLearn' <=> EndsLearn)
      /\ (Replaces("runtime")' <=> Replaces("runtime"))
      /\ (Replaces("route")' <=> Replaces("route"))
  BY <1>1, DrainStep DEF Publishing, Phases
<1>3. op.old \in Selections
  BY <1>1, ReplacedRoute
<1>4. ControlTypes'
  BY <1>1, <1>2, <1>3 DEF ControlTypes, TypeOK, queryVars, routeVars, Replaces, Selections
<1>5. SettingsInv' /\ RetiredInv' /\ RefreshInv' /\ ShutInv'
  BY <1>1, <1>2 DEF SettingsInv, RetiredInv, RefreshInv, ShutInv, RouteLeft, RuntimeQuiet,
         Saved, routeVars
<1>6. LearnInv'
  BY <1>1, <1>2 DEF LearnInv, LearnQuiet, RuntimeQuiet, RouteLeft
<1>7. NativeInv' /\ ForwardInv'
  BY <1>1, <1>2 DEF NativeInv, ForwardInv, Inside, RuntimeQuiet, RouteLeft, queryVars, routeVars
<1> QED
  BY <1>2, <1>4, <1>5, <1>6, <1>7

\* Its refresh loop has ended, and the route is retired.
LEMMA RefreshStoppedStep ==
    ASSUME ControlInv, RefreshStopped
    PROVE  ControlInv'
<1> USE DEF ControlInv
<1>1. /\ op # None /\ op.at = "stoppingRefresh" /\ op' = [op EXCEPT !.at = "closingRoute"]
      /\ Replaces("runtime") => op.old.runtime \notin refreshing
      /\ retired' = IF Replaces("route") THEN retired \cup {op.old.route} ELSE retired
      /\ UNCHANGED <<settings, published, serial, queryVars>>
      /\ UNCHANGED nativeVars /\ UNCHANGED bundlesShut
  BY DEF RefreshStopped
<1>2. /\ op' \in Operations /\ op' # None
      /\ op'.at = "closingRoute" /\ op'.old = op.old /\ op'.next = op.next
      /\ current' = current /\ Before' = Before /\ InUse' = InUse
      /\ OperationInv' /\ (Closing' <=> Closing)
      /\ (EndsLearn' <=> EndsLearn)
      /\ (Replaces("runtime")' <=> Replaces("runtime"))
      /\ (Replaces("route")' <=> Replaces("route"))
  BY <1>1, DrainStep DEF Publishing, Phases
<1>3. /\ op.old.route \in RouteRecords /\ (~Closing => op.next # op.old \/ ~Replaces("route"))
      /\ (Replaces("route") => op.next.route # op.old.route)
  BY <1>1, ReplacedRoute DEF Replaces
<1>4. ControlTypes'
  BY <1>1, <1>2, <1>3 DEF ControlTypes, TypeOK, queryVars, nativeVars
<1>5. SettingsInv' /\ ShutInv'
  BY <1>1, <1>2 DEF SettingsInv, ShutInv, RouteLeft, RuntimeQuiet, Saved, nativeVars
<1>6. RetiredInv'
  <2>1. op.old.route.gen <= serial
    BY <1>1 DEF RetiredInv
  <2> QED
    BY <1>1, <1>2, <1>3, <2>1 DEF RetiredInv, RouteLeft
<1>7. RefreshInv'
  BY <1>1, <1>2 DEF RefreshInv, RouteLeft, Before, nativeVars
<1>8. LearnInv'
  BY <1>1, <1>2 DEF LearnInv, LearnQuiet, RuntimeQuiet, RouteLeft, nativeVars
<1>9. NativeInv' /\ ForwardInv'
  BY <1>1, <1>2 DEF NativeInv, ForwardInv, RuntimeQuiet, RouteLeft, queryVars, nativeVars
<1> QED
  BY <1>2, <1>4, <1>5, <1>6, <1>7, <1>8, <1>9

\* No query is forwarded over the route, and its bundle is closed.
LEMMA RouteClosedStep ==
    ASSUME ControlInv, RouteClosed
    PROVE  ControlInv'
<1> USE DEF ControlInv
<1>1. /\ op # None /\ op.at = "closingRoute" /\ op' = [op EXCEPT !.at = "drained"]
      /\ Replaces("route") => Forwarding(op.old.route) = {}
      /\ bundlesShut' = IF Replaces("route") THEN bundlesShut \cup {op.old.route} ELSE bundlesShut
      /\ UNCHANGED <<settings, published, serial, queryVars>>
      /\ UNCHANGED nativeVars /\ UNCHANGED retired
  BY DEF RouteClosed
<1>2. /\ op' \in Operations /\ op' # None
      /\ op'.at = "drained" /\ op'.old = op.old /\ op'.next = op.next
      /\ current' = current /\ Before' = Before /\ InUse' = InUse
      /\ OperationInv' /\ (Closing' <=> Closing)
      /\ (EndsLearn' <=> EndsLearn)
      /\ (Replaces("runtime")' <=> Replaces("runtime"))
      /\ (Replaces("route")' <=> Replaces("route"))
  BY <1>1, DrainStep DEF Publishing, Phases
<1>3. op.old.route \in RouteRecords
  BY <1>1, ReplacedRoute
<1>4. ControlTypes'
  BY <1>1, <1>2, <1>3 DEF ControlTypes, TypeOK, queryVars, nativeVars
<1>5. SettingsInv' /\ ShutInv'
  BY <1>1, <1>2 DEF SettingsInv, ShutInv, RouteLeft, RuntimeQuiet, Saved, nativeVars
<1>6. RetiredInv' /\ RefreshInv'
  BY <1>1, <1>2 DEF RetiredInv, RefreshInv, RouteLeft, nativeVars
<1>7. LearnInv'
  BY <1>1, <1>2 DEF LearnInv, LearnQuiet, RuntimeQuiet, RouteLeft, nativeVars
<1>8. NativeInv' /\ ForwardInv'
  BY <1>1, <1>2 DEF NativeInv, ForwardInv, Forwarding, RuntimeQuiet, RouteLeft, queryVars,
         nativeVars
<1> QED
  BY <1>2, <1>4, <1>5, <1>6, <1>7, <1>8

\* The operation returns: what was replaced is quiet, so that only the
\* selection in force is in use.
LEMMA ActivateStep ==
    ASSUME ControlInv, Activate
    PROVE  ControlInv'
<1> USE DEF ControlInv
<1>1. /\ op # None /\ op.at = "drained" /\ op' = None
      /\ refreshing' = IF op.next.runtime # None /\ op.next.runtime # op.old.runtime
                       THEN refreshing \cup {op.next.runtime} ELSE refreshing
      /\ UNCHANGED <<settings, published, serial, routeVars, queryVars>>
      /\ UNCHANGED <<cancelled, shut, observing, looking>>
  BY DEF Activate
<1>2. current' = current
  BY <1>1 DEF current
<1>3. /\ Coherent(op.old) /\ op.old \in Selections
      /\ Closing => op.next.route = None /\ op.next.runtime = None /\ Replaces("route")
      /\ ~Closing => op.next \in Selections /\ Coherent(op.next)
      /\ op.old.route # None
  BY <1>1, ReplacedRoute
<1>4. /\ Closing => /\ current = [op.old EXCEPT !.mode = "off", !.runtime = None]
      /\ ~Closing => current = op.next
  BY <1>1 DEF OperationInv, Publishing
<1>5. Closing => /\ current.mode = "off" /\ current.runtime = None /\ current.route = op.old.route
                 /\ current.transport = op.old.transport
  BY <1>3, <1>4 DEF Selections
<1>6. op.next.runtime # None => op.next.runtime \in RuntimeRecords
  BY <1>3 DEF Selections
<1>7. ControlTypes'
  BY <1>1, <1>6 DEF ControlTypes, TypeOK, routeVars, queryVars
<1>8. OperationInv'
  BY <1>1, <1>2 DEF OperationInv, Coherent
<1>9. SettingsInv'
  <2>1. CASE Closing
    BY <1>1, <1>2, <1>3, <1>5, <2>1 DEF SettingsInv, RetiredInv, RouteLeft, routeVars
  <2>2. CASE ~Closing
    BY <1>1, <1>2, <1>4, <2>2 DEF SettingsInv, Saved
  <2> QED
    BY <2>1, <2>2
<1>10. RetiredInv'
  BY <1>1, <1>2, <1>4, <1>5 DEF RetiredInv, routeVars
<1>11. RefreshInv'
  <2>1. refreshing \subseteq RuntimeRecords /\ None \notin refreshing
    BY ControlAssumption DEF ControlTypes, TypeOK
  <2>2. refreshing \subseteq {op.old.runtime} /\ (Replaces("runtime") => refreshing = {})
    BY <1>1 DEF RefreshInv, RouteLeft, Before
  <2>3. refreshing' \subseteq {op.next.runtime} /\ None \notin refreshing'
    BY <1>1, <2>1, <2>2 DEF Replaces
  <2>4. current.runtime = op.next.runtime
    BY <1>3, <1>4, <1>5
  <2> QED
    BY <1>1, <1>2, <2>3, <2>4 DEF RefreshInv, Before
<1>12. InUse' = {current} /\ InUse = IF Closing THEN {op.old} ELSE {op.old, op.next}
  BY <1>1, <1>2 DEF InUse, Publishing
<1>13. LearnInv'
  <2> SUFFICES ASSUME NEW rt \in observing \cup looking
               PROVE  current.mode = "observe" /\ current.runtime = rt
    BY <1>1, <1>12 DEF LearnInv
  <2>1. rt # None
    BY ControlAssumption DEF ControlTypes, TypeOK
  <2>2. PICK s \in InUse : s.mode = "observe" /\ s.runtime = rt
    BY DEF LearnInv
  <2>3. EndsLearn => rt # op.old.runtime
    BY <1>1 DEF LearnInv, LearnQuiet, RuntimeQuiet, RouteLeft
  <2>4. CASE s = op.old
    BY <1>3, <1>4, <2>1, <2>2, <2>3, <2>4 DEF EndsLearn, Replaces, Closing
  <2>5. CASE s = op.next /\ ~Closing
    BY <1>4, <2>2, <2>5
  <2> QED
    BY <1>12, <2>2, <2>4, <2>5
<1>14. NativeInv'
  <2>1. Replaces("runtime") => op.old.runtime \in shut
    BY <1>1 DEF ShutInv, RuntimeQuiet, RouteLeft
  <2> SUFFICES ASSUME NEW q \in Queries, pc[q] \in {"native", "inNative"}
               PROVE  \/ current.runtime = native[q] /\ native[q] # None
                      \/ pc[q] = "native" /\ native[q] \in shut
    BY <1>1, <1>12 DEF NativeInv, queryVars
  <2>2. pc[q] = "inNative" => ~(Replaces("runtime") /\ native[q] = op.old.runtime)
    BY <1>1 DEF NativeInv, RuntimeQuiet, RouteLeft
  <2>3. CASE pc[q] = "native" /\ native[q] \in shut
    BY <2>3
  <2>4. CASE \E s \in InUse : s.runtime = native[q] /\ native[q] # None
    <3>1. PICK s \in InUse : s.runtime = native[q] /\ native[q] # None
      BY <2>4
    <3>2. CASE s = op.old
      BY <1>3, <1>4, <2>1, <2>2, <3>1, <3>2 DEF Replaces
    <3>3. CASE s = op.next /\ ~Closing
      BY <1>4, <3>1, <3>3
    <3> QED
      BY <1>12, <3>1, <3>2, <3>3
  <2> QED
    BY <2>3, <2>4 DEF NativeInv
<1>15. ForwardInv'
  <2>1. Replaces("route") <=> op.old.route \in retired
    BY <1>1 DEF RetiredInv, RouteLeft
  <2> SUFFICES ASSUME NEW q \in Queries, pc[q] \in {"routed", "forwarding"}
               PROVE  \/ current.route = route[q]
                      \/ pc[q] = "routed" /\ route[q] \in retired
    BY <1>1, <1>12 DEF ForwardInv, queryVars, routeVars
  <2>2. pc[q] = "forwarding" => ~(Replaces("route") /\ route[q] = op.old.route)
    BY <1>1 DEF ForwardInv
  <2>3. CASE pc[q] = "routed" /\ route[q] \in retired
    BY <2>3
  <2>4. CASE \E s \in InUse : s.route = route[q]
    <3>1. PICK s \in InUse : s.route = route[q]
      BY <2>4
    <3>2. CASE s = op.old
      BY <1>3, <1>4, <1>5, <2>1, <2>2, <3>1, <3>2 DEF Replaces
    <3>3. CASE s = op.next /\ ~Closing
      BY <1>4, <3>1, <3>3
    <3> QED
      BY <1>12, <3>1, <3>2, <3>3
  <2> QED
    BY <2>3, <2>4 DEF ForwardInv
<1>16. ShutInv'
  BY <1>1 DEF ShutInv
<1> QED
  BY <1>7, <1>8, <1>9, <1>10, <1>11, <1>13, <1>14, <1>15, <1>16

\* Shutdown begins.
LEMMA CloseStep ==
    ASSUME ControlInv, Close
    PROVE  ControlInv'
<1> USE DEF ControlInv
<1> DEFINE off == [current EXCEPT !.mode = "off", !.runtime = None]
           end == [off EXCEPT !.route = None, !.mode = "closed"]
<1>1. /\ op = None /\ current.route \notin retired
      /\ published' = Append(published, off)
      /\ op' = [at |-> "published", old |-> current, next |-> end]
      /\ UNCHANGED <<settings, serial, nativeVars, routeVars, queryVars>>
  BY DEF Close
<1>2. Coherent(current) /\ current \in Selections
  BY DEF OperationInv, Coherent
<1>3. /\ off \in Selections /\ off.mode = "off" /\ off.runtime = None
      /\ off.route = current.route /\ off.transport = current.transport
  BY <1>2 DEF Selections, Modes
<1>4. end \in Closings /\ end.mode = "closed" /\ end.route = None
  BY <1>2 DEF Selections, Closings
<1> HIDE DEF end, off
<1>5. /\ op' \in Operations /\ op' # None /\ op'.at = "published" /\ op'.old = current
      /\ op'.next = end
  BY <1>1, <1>2, <1>4, ControlAssumption DEF Operations, Phases
<1>6. /\ published' \in Seq(Selections) /\ published' # <<>>
      /\ current' = off
      /\ Len(published') = Len(published) + 1
      /\ published'[Len(published) + 1] = off
      /\ \A i \in 1..Len(published) : published'[i] = published[i]
  BY <1>1, <1>3, PublishStep DEF ControlTypes
<1>7. ControlTypes'
  <2>1. \A i \in 1..Len(published') :
          published'[i] \in Selections /\ (published'[i].mode = "off" <=> published'[i].runtime = None)
    BY <1>3, <1>6 DEF ControlTypes, TypeOK
  <2> QED
    BY <1>1, <1>2, <1>5, <1>6, <2>1 DEF ControlTypes, TypeOK, nativeVars, routeVars, queryVars
<1>8. Coherent(off)
  BY <1>2, <1>3 DEF Coherent
<1>9. OperationInv'
  <2>1. Coherent(current)' /\ Coherent(op.old)'
    BY <1>2, <1>5, <1>6, <1>8 DEF Coherent
  <2> QED
    BY <1>4, <1>5, <1>6, <2>1 DEF OperationInv, Closing, Publishing, off
<1>10. SettingsInv'
  BY <1>1, <1>4, <1>5 DEF SettingsInv, Closing, Saved
<1>11. RetiredInv'
  BY <1>1, <1>3, <1>4, <1>5, <1>6 DEF RetiredInv, Closing, RouteLeft, routeVars
<1>12. Before' = Before /\ InUse' = InUse
  BY <1>1, <1>4, <1>5 DEF Before, InUse, Closing
<1>13. RefreshInv' /\ ShutInv' /\ LearnInv'
  BY <1>1, <1>5, <1>12 DEF RefreshInv, ShutInv, LearnInv, LearnQuiet, RuntimeQuiet, RouteLeft,
         nativeVars
<1>14. NativeInv' /\ ForwardInv'
  BY <1>1, <1>5, <1>12 DEF NativeInv, ForwardInv, RuntimeQuiet, RouteLeft, nativeVars,
         queryVars, routeVars
<1> QED
  BY <1>7, <1>9, <1>10, <1>11, <1>13, <1>14

\* Nothing of the process before it is left after a restart.
LEMMA RestartStep ==
    ASSUME ControlInv, Restart
    PROVE  ControlInv'
<1> USE ControlAssumption DEF ControlInv
<1> DEFINE r == [gen |-> serial', transport |-> settings.transport]
           rt == IF settings.mode = "off" THEN None ELSE [id |-> serial', route |-> r]
           s == Selection(settings.mode, settings.transport, r, rt)
<1>1. /\ serial < MaxChanges /\ serial' = serial + 1 /\ published' = <<s>> /\ op' = None
      /\ refreshing' = {rt} \ {None}
      /\ observing' = IF settings.mode = "observe" THEN {rt} \ {None} ELSE {}
      /\ cancelled' = {} /\ shut' = {} /\ looking' = {} /\ retired' = {} /\ bundlesShut' = {}
      /\ pc' = [q \in Queries |-> IF pc[q] = "arrived" THEN "arrived" ELSE "done"]
      /\ UNCHANGED <<settings, native, route>>
  BY DEF Restart
<1>2. settings \in [mode : Modes, transport : Transports] /\ serial \in 1..MaxChanges
  BY DEF ControlTypes, TypeOK
<1>3. r \in RouteRecords /\ r.gen = serial' /\ r.transport = settings.transport
      /\ serial' \in 1..MaxChanges
  BY <1>1, <1>2 DEF RouteRecords
<1> HIDE DEF r
<1>4. /\ rt \in RuntimeRecords \cup {None} /\ (rt # None => rt.route = r)
      /\ (settings.mode = "off" <=> rt = None)
  BY <1>3 DEF RuntimeRecords
<1> HIDE DEF rt
<1>5. /\ s \in Selections /\ Coherent(s) /\ s.route = r /\ s.runtime = rt
      /\ s.mode = settings.mode /\ s.transport = settings.transport
  BY <1>2, <1>3, <1>4 DEF Selection, Selections, Coherent
<1> HIDE DEF s
<1>6. current' = s /\ published' \in Seq(Selections) /\ published' # <<>>
      /\ Len(published') = 1 /\ published'[1] = s
  BY <1>1, <1>5 DEF current
<1>7. ControlTypes'
  BY <1>1, <1>2, <1>3, <1>4, <1>5, <1>6 DEF ControlTypes, TypeOK, Coherent
<1>8. OperationInv' /\ SettingsInv'
  BY <1>1, <1>2, <1>5, <1>6 DEF OperationInv, SettingsInv, Coherent, Saved
<1>9. RetiredInv'
  BY <1>1, <1>3, <1>5, <1>6 DEF RetiredInv
<1>10. RefreshInv' /\ ShutInv'
  BY <1>1, <1>5, <1>6 DEF RefreshInv, ShutInv, Before
<1>11. LearnInv'
  BY <1>1, <1>4, <1>5, <1>6 DEF LearnInv, InUse
<1>12. NativeInv' /\ ForwardInv'
  BY <1>1 DEF NativeInv, ForwardInv
<1> QED
  BY <1>7, <1>8, <1>9, <1>10, <1>11, <1>12

\* Every step keeps the invariant.
LEMMA ControlStep == ControlInv /\ [Next]_vars => ControlInv'
<1> SUFFICES ASSUME ControlInv, [Next]_vars PROVE ControlInv'
  OBVIOUS
<1>1. CASE UNCHANGED vars
  <2>1. /\ OperationInv' /\ SettingsInv' /\ RetiredInv' /\ Before' = Before
        /\ InUse' = InUse /\ current' = current /\ op' = op
    BY <1>1, Undisturbed DEF vars
  <2>2. ControlTypes'
    BY <1>1 DEF ControlInv, ControlTypes, TypeOK, vars, ctlVars, nativeVars, routeVars, queryVars
  <2>3. RefreshInv' /\ LearnInv' /\ NativeInv' /\ ShutInv' /\ ForwardInv'
    BY <1>1, <2>1 DEF ControlInv, RefreshInv, LearnInv, NativeInv, ShutInv, ForwardInv, Replaces,
           EndsLearn, vars, nativeVars, routeVars, queryVars
  <2> QED
    BY <2>1, <2>2, <2>3 DEF ControlInv
<1>2. CASE Drain
  BY <1>2, SaveStep, SaveFailsStep, PublicationStep, StopLearnStep, LearnStoppedStep,
     ShutRuntimeStep, RefreshStoppedStep, RouteClosedStep, ActivateStep DEF Drain
<1>3. CASE Idle
  BY <1>1, <1>3 DEF Idle
<1> QED
  BY <1>1, <1>2, <1>3, BeginStep, CloseStep, RestartStep, BackgroundStep, QueryStep DEF Next

\* So it always holds.
LEMMA ControlInvHolds == Spec => []ControlInv
<1> QED
  BY ControlInit, ControlStep, PTL DEF Spec

-----------------------------------------------------------------------------
\* The controller's variables keep their types through every change, shutdown
\* and restart, and a selection has a runtime exactly when its mode is not off.
THEOREM TypeCorrect == Spec => []TypeOK
<1>1. ControlInv => TypeOK
  BY DEF ControlInv, ControlTypes
<1> QED
  BY <1>1, ControlInvHolds, PTL

\* The RFC 5011 state has one writer, however many runtimes come and go.
THEOREM RefreshHasOneOwner == Spec => []OneRefreshOwner
<1>1. ControlInv => OneRefreshOwner
  <2> SUFFICES ASSUME ControlInv PROVE Cardinality(refreshing) <= 1
    BY DEF OneRefreshOwner
  <2>1. refreshing \subseteq {Before.runtime}
    BY DEF ControlInv, RefreshInv
  <2>2. CASE refreshing = {}
    BY <2>2, FS_EmptySet
  <2>3. CASE refreshing = {Before.runtime}
    <3>1. Cardinality({Before.runtime}) = 1
      BY FS_Singleton, Zenon
    <3> QED
      BY <2>3, <3>1
  <2> QED
    BY <2>1, <2>2, <2>3
<1> QED
  BY <1>1, ControlInvHolds, PTL

\* What a restart would select is what runs, or one end of the change under way.
THEOREM SettingsAreRunning == Spec => []SavedIsRunning
<1>1. ControlInv => SavedIsRunning
  <2> SUFFICES ASSUME ControlInv PROVE SavedIsRunning
    OBVIOUS
  <2>1. op = None => (current.route \notin retired => settings = Saved(current))
    BY DEF ControlInv, SettingsInv
  <2>2. op # None => settings \in {Saved(op.old), Saved(op.next)}
    BY DEF ControlInv, SettingsInv
  <2> QED
    BY <2>1, <2>2 DEF SavedIsRunning
<1> QED
  BY <1>1, ControlInvHolds, PTL

\* The runtimes that work, in the background or for a query.
LEMMA RunningRuntimes ==
    ASSUME ControlInv, NEW rt \in Runtimes
    PROVE  /\ rt # None
           /\ \E s \in InUse : s.runtime = rt
           /\ op # None /\ op.at \in RouteLeft /\ Replaces("runtime") => rt # op.old.runtime
<1> USE DEF ControlInv
<1>1. CASE rt \in refreshing
  <2>1. rt # None /\ rt = Before.runtime
        /\ ~(op # None /\ op.at \in RouteLeft /\ Replaces("runtime"))
    BY <1>1, ControlAssumption DEF RefreshInv, ControlTypes, TypeOK
  <2> QED
    BY <2>1 DEF Before, InUse
<1>2. CASE rt \in looking
  <2>1. rt # None
    BY <1>2, ControlAssumption DEF ControlTypes, TypeOK
  <2>2. PICK s \in InUse : s.mode = "observe" /\ s.runtime = rt
    BY <1>2 DEF LearnInv
  <2>3. ASSUME op # None, op.at \in RouteLeft, Replaces("runtime"), rt = op.old.runtime
        PROVE  FALSE
    <3>1. ~EndsLearn
      BY <1>2, <2>3 DEF LearnInv, LearnQuiet, RuntimeQuiet
    <3>2. op.old.mode # "observe"
      BY <2>3, <3>1 DEF EndsLearn
    <3>3. s = op.next /\ ~Closing
      BY <2>2, <2>3, <3>2 DEF InUse
    <3> QED
      BY <2>2, <2>3, <3>3 DEF Replaces
  <2> QED
    BY <2>1, <2>2, <2>3
<1>3. CASE \E q \in Queries : pc[q] = "inNative" /\ rt = native[q]
  <2>1. PICK q \in Queries : pc[q] = "inNative" /\ rt = native[q]
    BY <1>3
  <2>2. \E s \in InUse : s.runtime = native[q] /\ native[q] # None
    BY <2>1 DEF NativeInv
  <2>3. ~(op # None /\ op.at \in RuntimeQuiet /\ Replaces("runtime") /\ native[q] = op.old.runtime)
    BY <2>1 DEF NativeInv
  <2> QED
    BY <2>1, <2>2, <2>3 DEF RuntimeQuiet
<1> QED
  BY <1>1, <1>2, <1>3 DEF Runtimes

\* A bundle is closed after its last user, for any number of changes.
THEOREM BundlesOutliveTheirUsers == Spec => []BundleOutlivesItsUsers
<1>1. ControlInv => BundleOutlivesItsUsers
  <2> SUFFICES ASSUME ControlInv, NEW r \in RoutesUsed PROVE r \notin bundlesShut
    BY DEF BundleOutlivesItsUsers
  <2>1. ASSUME NEW q \in Queries, pc[q] = "forwarding", r = route[q]
        PROVE  r \notin bundlesShut
    BY <2>1 DEF ControlInv, ForwardInv
  <2>2. ASSUME NEW rt \in Runtimes, r = rt.route
        PROVE  r \notin bundlesShut
    <3>1. /\ rt # None
          /\ \E s \in InUse : s.runtime = rt
          /\ op # None /\ op.at \in RouteLeft /\ Replaces("runtime") => rt # op.old.runtime
      BY RunningRuntimes
    <3>2. CASE op = None
      BY <2>2, <3>1, <3>2 DEF ControlInv, OperationInv, Coherent, RetiredInv, InUse
    <3>3. CASE op # None /\ rt = op.old.runtime
      <4>1. /\ rt.route = op.old.route
            /\ Closing => op.next.runtime = None
            /\ ~Closing => Coherent(op.next)
        BY <3>1, <3>3, ReplacedRoute
      <4>2. op.old.route \notin retired
        BY <3>1, <3>3, <4>1 DEF ControlInv, RetiredInv, Replaces, Coherent
      <4> QED
        BY <2>2, <4>1, <4>2 DEF ControlInv, RetiredInv
    <3>4. CASE op # None /\ rt = op.next.runtime /\ ~Closing
      <4>1. rt.route = op.next.route
        BY <3>1, <3>4 DEF ControlInv, OperationInv, Coherent
      <4> QED
        BY <2>2, <3>4, <4>1 DEF ControlInv, RetiredInv
    <3> QED
      BY <3>1, <3>2, <3>3, <3>4 DEF InUse
  <2> QED
    BY <2>1, <2>2 DEF RoutesUsed
<1> QED
  BY <1>1, ControlInvHolds, PTL

\* Once a switch to encrypted has returned, no query, learn lookup or anchor
\* refresh uses the plaintext transport.
THEOREM EncryptedIsEncrypted == Spec => []EncryptedMeansEncrypted
<1>1. ControlInv => EncryptedMeansEncrypted
  <2> SUFFICES ASSUME ControlInv, op = None, current.transport = "encrypted", NEW r \in RoutesUsed
               PROVE  r.transport = "encrypted"
    BY DEF EncryptedMeansEncrypted
  <2>1. Coherent(current) /\ InUse = {current}
    BY DEF ControlInv, OperationInv, InUse
  <2>2. ASSUME NEW q \in Queries, pc[q] = "forwarding", r = route[q]
        PROVE  r = current.route
    BY <2>1, <2>2 DEF ControlInv, ForwardInv
  <2>3. ASSUME NEW rt \in Runtimes, r = rt.route
        PROVE  r = current.route
    BY <2>1, <2>3, RunningRuntimes DEF Coherent
  <2>4. r = current.route
    BY <2>2, <2>3 DEF RoutesUsed
  <2> QED
    BY <2>1, <2>4 DEF Coherent
<1> QED
  BY <1>1, ControlInvHolds, PTL

-----------------------------------------------------------------------------
(* What an operation waits for *)

\* The learn worker, the queries or the refresh loop that hold its next step up.
WaitedFor ==
    IF op = None THEN {}
    ELSE CASE op.at = "stoppingLearn" /\ EndsLearn -> looking \cap {op.old.runtime}
           [] op.at = "closingRuntime" /\ Replaces("runtime") -> Inside(op.old.runtime)
           [] op.at = "stoppingRefresh" /\ Replaces("runtime") ->
                refreshing \cap {op.old.runtime}
           [] op.at = "closingRoute" /\ Replaces("route") -> Forwarding(op.old.route)
           [] OTHER -> {}

\* A runtime is told to stop before anything is waited for that only ends then.
ToldInv ==
    op # None /\ op.at \in {"closingRuntime", "stoppingRefresh"} /\ Replaces("runtime") =>
        op.old.runtime \in cancelled

\* It waits, and a step is not its own.
Waits == op # None /\ op' = op
NoMoreWaitedFor == Waits => WaitedFor' \subseteq WaitedFor

LEMMA ToldStep == ControlInv /\ ToldInv /\ [Next]_vars => ToldInv'
<1> SUFFICES ASSUME ControlInv, ToldInv, [Next]_vars PROVE ToldInv'
  OBVIOUS
<1>1. op = None \/ op \in Operations
  BY DEF ControlInv, ControlTypes
<1>2. CASE op' = op /\ cancelled' = cancelled
  BY <1>2 DEF ToldInv, Replaces
<1>3. CASE op' = None
  BY <1>3 DEF ToldInv
<1>4. ASSUME op # None, NEW p \in Phases \ {"closingRuntime"}, op' = [op EXCEPT !.at = p],
             p = "stoppingRefresh" => op.at = "closingRuntime", cancelled' = cancelled
      PROVE  ToldInv'
  <2>1. op'.at = p /\ op'.old = op.old /\ op'.next = op.next
    BY <1>1, <1>4, Advance
  <2> QED BY <1>4, <2>1 DEF ToldInv, Replaces
<1>5. CASE op'.at \in {"prepared", "published"}
  BY <1>5 DEF ToldInv
<1>6. CASE LearnStopped
  <2>1. op'.at = "closingRuntime" /\ op'.old = op.old /\ op'.next = op.next
    BY <1>1, <1>6, Advance DEF LearnStopped, Phases
  <2> QED BY <1>6, <2>1 DEF ToldInv, Replaces, LearnStopped
<1>7. CASE Save
  BY <1>4, <1>7 DEF Save, Phases, nativeVars
<1>8. CASE Publish
  BY <1>4, <1>8 DEF Publish, Phases
<1>9. CASE StopLearn
  BY <1>4, <1>9 DEF StopLearn, Phases
<1>10. CASE ShutRuntime
  BY <1>4, <1>10 DEF ShutRuntime, Phases
<1>11. CASE RefreshStopped
  BY <1>4, <1>11 DEF RefreshStopped, Phases, nativeVars
<1>12. CASE RouteClosed
  BY <1>4, <1>12 DEF RouteClosed, Phases, nativeVars
<1>13. CASE SaveFails \/ Activate \/ Restart
  BY <1>3, <1>13 DEF SaveFails, Activate, Restart
<1>14. CASE Close \/ (\E m \in Modes : BeginMode(m)) \/ (\E t \in Transports : BeginTransport(t))
  <2>1. CASE Close
    BY <1>5, <2>1 DEF Close
  <2>2. ASSUME NEW m \in Modes, BeginMode(m) PROVE ToldInv'
    BY <1>5, <2>2 DEF BeginMode
  <2>3. ASSUME NEW t \in Transports, BeginTransport(t) PROVE ToldInv'
    BY <1>5, <2>3 DEF BeginTransport
  <2> QED BY <1>14, <2>1, <2>2, <2>3
<1>15. CASE Background \/ (\E q \in Queries : Query(q)) \/ Idle \/ UNCHANGED vars
  <2>1. CASE Background
    BY <1>2, <2>1 DEF Background, RefreshEnds, LearnStarts, LearnEnds, ctlVars
  <2>2. CASE \E q \in Queries : Query(q)
    BY <1>2, <2>2 DEF Query, LoadNative, EnterNative, LoadRoute, EnterRoute, Leave, ctlVars,
       nativeVars
  <2>3. CASE Idle \/ UNCHANGED vars
    BY <1>2, <2>3 DEF Idle, vars, ctlVars, nativeVars
  <2> QED BY <1>15, <2>1, <2>2, <2>3
<1> QED BY <1>6, <1>7, <1>8, <1>9, <1>10, <1>11, <1>12, <1>13, <1>14, <1>15 DEF Next, Drain

LEMMA WaitedForIs ==
    /\ op # None /\ op.at = "stoppingLearn" /\ EndsLearn =>
         WaitedFor = looking \cap {op.old.runtime}
    /\ op # None /\ op.at = "closingRuntime" /\ Replaces("runtime") =>
         WaitedFor = Inside(op.old.runtime)
    /\ op # None /\ op.at = "stoppingRefresh" /\ Replaces("runtime") =>
         WaitedFor = refreshing \cap {op.old.runtime}
    /\ op # None /\ op.at = "closingRoute" /\ Replaces("route") =>
         WaitedFor = Forwarding(op.old.route)
    /\ \/ op # None /\ op.at = "stoppingLearn" /\ EndsLearn
       \/ op # None /\ op.at = "closingRuntime" /\ Replaces("runtime")
       \/ op # None /\ op.at = "stoppingRefresh" /\ Replaces("runtime")
       \/ op # None /\ op.at = "closingRoute" /\ Replaces("route")
       \/ WaitedFor = {}
  BY DEF WaitedFor

\* While it waits, nothing joins what it waits for.
LEMMA NothingJoins ==
    ASSUME ControlInv, ToldInv, [Next]_vars, op # None, op' = op
    PROVE  WaitedFor' \subseteq WaitedFor
<1>0. op \in Operations
  BY DEF ControlInv, ControlTypes
<1>1. \/ Background \/ (\E q \in Queries : Query(q)) \/ UNCHANGED vars
  <2>1. ASSUME NEW p, op.at # p, op' = [op EXCEPT !.at = p] PROVE FALSE
    BY <1>0, <2>1 DEF Operations
  <2> QED BY <2>1, Zenon DEF Next, Drain, BeginMode, BeginTransport, Save, SaveFails, Publish,
        StopLearn, LearnStopped, ShutRuntime, RefreshStopped, RouteClosed, Activate, Close,
        Restart, Idle
<1>2. /\ EndsLearn' = EndsLearn
      /\ Replaces("runtime")' = Replaces("runtime") /\ Replaces("route")' = Replaces("route")
  BY DEF EndsLearn, Replaces
<1>8. /\ pc \in [Queries -> {"arrived", "native", "inNative", "forward", "routed",
                             "forwarding", "done"}]
      /\ native \in [Queries -> RuntimeRecords \cup {None}]
      /\ route \in [Queries -> RouteRecords \cup {None}]
  BY DEF ControlInv, ControlTypes, TypeOK
<1>3. CASE op.at = "stoppingLearn" /\ EndsLearn
  <2>1. op.old.runtime \notin observing
    BY <1>3 DEF ControlInv, LearnInv
  <2>2. looking' \cap {op.old.runtime} \subseteq looking \cap {op.old.runtime}
    BY <1>1, <2>1 DEF Background, RefreshEnds, LearnStarts, LearnEnds, Query, LoadNative,
       EnterNative, LoadRoute, EnterRoute, Leave, vars, nativeVars
  <2>3. WaitedFor = looking \cap {op.old.runtime}
    BY <1>3, WaitedForIs
  <2>4. WaitedFor' = looking' \cap {op.old.runtime}
    BY <1>2, <1>3 DEF WaitedFor
  <2> QED BY <2>2, <2>3, <2>4
<1>4. CASE op.at = "closingRuntime" /\ Replaces("runtime")
  <2>1. op.old.runtime \in cancelled
    BY <1>4 DEF ToldInv
  <2>2. Inside(op.old.runtime)' \subseteq Inside(op.old.runtime)
    <3>1. ASSUME NEW q \in Queries, pc'[q] = "inNative", native'[q] = op.old.runtime
          PROVE  pc[q] = "inNative" /\ native[q] = op.old.runtime
      <4>1. ASSUME NEW p \in Queries, Query(p)
            PROVE  pc[q] = "inNative" /\ native[q] = op.old.runtime
        BY <1>8, <2>1, <3>1, <4>1 DEF Query, LoadNative, EnterNative, LoadRoute, EnterRoute,
           Leave, Goto
      <4>2. Background \/ UNCHANGED vars => UNCHANGED <<pc, native>>
        BY DEF Background, RefreshEnds, LearnStarts, LearnEnds, vars, queryVars
      <4> QED BY <1>1, <3>1, <4>1, <4>2
    <3> QED BY <3>1 DEF Inside
  <2>3. WaitedFor = Inside(op.old.runtime)
    BY <1>4, WaitedForIs
  <2>4. WaitedFor' = Inside(op.old.runtime)'
    BY <1>2, <1>4 DEF WaitedFor, Inside
  <2> QED BY <2>2, <2>3, <2>4
<1>5. CASE op.at = "stoppingRefresh" /\ Replaces("runtime")
  <2>1. refreshing' \subseteq refreshing
    BY <1>1 DEF Background, RefreshEnds, LearnStarts, LearnEnds, Query,
       LoadNative, EnterNative, LoadRoute, EnterRoute, Leave, vars, nativeVars
  <2>2. WaitedFor = refreshing \cap {op.old.runtime}
    BY <1>5, WaitedForIs
  <2>3. WaitedFor' = refreshing' \cap {op.old.runtime}
    BY <1>2, <1>5 DEF WaitedFor
  <2> QED BY <2>1, <2>2, <2>3
<1>6. CASE op.at = "closingRoute" /\ Replaces("route")
  <2>1. op.old.route \in retired
    BY <1>6 DEF ControlInv, RetiredInv, RouteLeft
  <2>2. Forwarding(op.old.route)' \subseteq Forwarding(op.old.route)
    <3>1. ASSUME NEW q \in Queries, pc'[q] = "forwarding", route'[q] = op.old.route
          PROVE  pc[q] = "forwarding" /\ route[q] = op.old.route
      <4>1. ASSUME NEW p \in Queries, Query(p)
            PROVE  pc[q] = "forwarding" /\ route[q] = op.old.route
        BY <1>8, <2>1, <3>1, <4>1 DEF Query, LoadNative, EnterNative, LoadRoute, EnterRoute,
           Leave, Goto
      <4>2. Background \/ UNCHANGED vars => UNCHANGED <<pc, route>>
        BY DEF Background, RefreshEnds, LearnStarts, LearnEnds, vars, queryVars
      <4> QED BY <1>1, <3>1, <4>1, <4>2
    <3> QED BY <3>1 DEF Forwarding
  <2>3. WaitedFor = Forwarding(op.old.route)
    BY <1>6, WaitedForIs
  <2>4. WaitedFor' = Forwarding(op.old.route)'
    BY <1>2, <1>6 DEF WaitedFor, Forwarding
  <2> QED BY <2>2, <2>3, <2>4
<1>7. CASE /\ ~(op.at = "stoppingLearn" /\ EndsLearn)
           /\ ~(op.at = "closingRuntime" /\ Replaces("runtime"))
           /\ ~(op.at = "stoppingRefresh" /\ Replaces("runtime"))
           /\ ~(op.at = "closingRoute" /\ Replaces("route"))
  BY <1>2, <1>7 DEF WaitedFor
<1> QED BY <1>3, <1>4, <1>5, <1>6, <1>7

\* While an operation waits, what it waits for only dwindles, and the refresh loop
\* it waits for was told to stop: no query, learn worker or refresh loop can hold a
\* change of mode or transport up by coming late.
THEOREM ChangesAreNotHeldUp ==
    Spec => /\ []ToldInv
            /\ [][NoMoreWaitedFor]_vars
<1>1. Init => ToldInv
  BY DEF Init, ToldInv
<1>2. ControlInv /\ ToldInv /\ [Next]_vars => [NoMoreWaitedFor]_vars
  BY NothingJoins DEF NoMoreWaitedFor, Waits
<1> QED BY <1>1, <1>2, ToldStep, ControlInvHolds, PTL DEF Spec
=============================================================================
