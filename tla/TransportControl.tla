-------------------------- MODULE TransportControl --------------------------
(***************************************************************************)
(* The controller that owns how names are resolved: the Daddybound mode    *)
(* (off, observe, enforce) and the resolution transport (native,           *)
(* encrypted).  A change is prepared, saved, published in one atomic       *)
(* store, and only then are the learn workers, the local-validation        *)
(* runtime and the forward route it replaces stopped and drained, the      *)
(* encrypted bundle closed and the new anchor refresh started.  Queries    *)
(* load the selection twice: for the native client, then for the route.    *)
(* The process may crash at any moment and starts again from its settings. *)
(*                                                                         *)
(* A route is [gen, transport]; a runtime is [id, route], the route being  *)
(* the one whose encrypted bundle (or whose native transport) it uses.     *)
(***************************************************************************)
EXTENDS Naturals, FiniteSets, Sequences

CONSTANTS
    Queries,
    MaxChanges,  \* bound: changes of mode or transport, restarts included
    None         \* no runtime, no route, no operation

Modes      == {"off", "observe", "enforce"}
Transports == {"native", "encrypted"}

RouteRecords == [gen : 1..MaxChanges, transport : Transports]
RuntimeRecords == [id : 1..MaxChanges, route : RouteRecords]
Selections == [mode : Modes, transport : Transports, route : RouteRecords,
               runtime : RuntimeRecords \cup {None}]

\* What Close puts in the place of the selection that would come next.
Closings == [mode : {"closed"}, transport : Transports, route : {None}, runtime : {None}]

Phases == {"prepared", "saved", "published", "stoppingLearn", "closingRuntime",
           "stoppingRefresh", "closingRoute", "drained"}
Operations == [at : Phases, old : Selections, next : Selections \cup Closings]

ASSUME ControlAssumption ==
    /\ MaxChanges \in Nat \ {0}
    /\ None \notin RouteRecords /\ None \notin RuntimeRecords /\ None \notin Operations

VARIABLES
    settings,    \* the saved mode and transport
    published,   \* the selections of this process, the current one last
    op,          \* the operation that holds the controller's mutex
    serial,      \* routes, runtimes and operations so far
    cancelled,   \* runtimes whose context is cancelled
    shut,        \* runtimes with controlledNative.closed set
    refreshing,  \* runtimes whose anchor-refresh loop runs
    observing,   \* runtimes whose learn workers take submissions
    looking,     \* runtimes a learn worker is resolving with
    retired,     \* routes that admit no more
    bundlesShut, \* routes whose encrypted bundle is closed
    pc, native, route  \* each query: where it is, what it loaded

ctlVars    == <<settings, published, op, serial>>
nativeVars == <<cancelled, shut, refreshing, observing, looking>>
routeVars  == <<retired, bundlesShut>>
queryVars  == <<pc, native, route>>
vars == <<ctlVars, nativeVars, routeVars, queryVars>>

current == published[Len(published)]

\* What a selection runs with: a runtime unless the mode is off.
Selection(mode, transport, r, rt) ==
    [mode |-> mode, transport |-> transport, route |-> r, runtime |-> rt]

Init ==
    LET r == [gen |-> 1, transport |-> "native"] IN
    /\ settings = [mode |-> "off", transport |-> "native"]
    /\ published = <<Selection("off", "native", r, None)>>
    /\ op = None
    /\ serial = 1
    /\ cancelled = {}
    /\ shut = {}
    /\ refreshing = {}
    /\ observing = {}
    /\ looking = {}
    /\ retired = {}
    /\ bundlesShut = {}
    /\ pc = [q \in Queries |-> "arrived"]
    /\ native = [q \in Queries |-> None]
    /\ route = [q \in Queries |-> None]

-----------------------------------------------------------------------------
\* SetMode and SetTransport under the controller's mutex, up to the
\* publication.  A runtime that fails to build changes nothing.

\* transition: the runtime is kept between observe and enforce.
BeginMode(m) ==
    /\ op = None
    /\ current.route \notin retired
    /\ serial < MaxChanges
    /\ serial' = serial + 1
    /\ LET old == current
           rt  == IF m = "off" THEN None
                  ELSE IF old.runtime # None THEN old.runtime
                  ELSE [id |-> serial', route |-> old.route]
       IN  op' = [at |-> "prepared", old |-> old,
                  next |-> Selection(m, old.transport, old.route, rt)]
    /\ UNCHANGED <<settings, published, nativeVars, routeVars, queryVars>>

\* SetTransport: a new route, and a new runtime unless the mode is off.
BeginTransport(t) ==
    /\ op = None
    /\ current.route \notin retired
    /\ serial < MaxChanges
    /\ serial' = serial + 1
    /\ LET old == current
           r   == [gen |-> serial', transport |-> t]
           rt  == IF old.mode = "off" THEN None ELSE [id |-> serial', route |-> r]
       IN  op' = [at |-> "prepared", old |-> old,
                  next |-> Selection(old.mode, t, r, rt)]
    /\ UNCHANGED <<settings, published, nativeVars, routeVars, queryVars>>

\* Save only what the change was about, and only then publish.
Saved(selection) ==
    [mode |-> selection.mode, transport |-> selection.transport]

Save ==
    /\ op # None
    /\ op.at = "prepared"
    /\ settings' = Saved(op.next)
    /\ op' = [op EXCEPT !.at = "saved"]
    /\ UNCHANGED <<published, serial, nativeVars, routeVars, queryVars>>

\* Faulty variants of a definition stand before it, are named Faulty... and take
\* no part in the specification: each is a bug one of the properties catches.

\* An error answered after the setting was written.
FaultySaveFails ==
    /\ op # None
    /\ op.at = "prepared"
    /\ settings' = Saved(op.next)
    /\ op' = None
    /\ UNCHANGED <<published, serial, nativeVars, routeVars, queryVars>>

\* The setting could not be written: what was prepared is closed unused.
SaveFails ==
    /\ op # None
    /\ op.at = "prepared"
    /\ op' = None
    /\ UNCHANGED <<settings, published, serial, nativeVars, routeVars,
                   queryVars>>

\* Learn workers start on the new runtime, then the selection is stored.
Publish ==
    /\ op # None
    /\ op.at = "saved"
    /\ observing' = IF op.next.mode = "observe"
                    THEN observing \cup {op.next.runtime} ELSE observing
    /\ published' = Append(published, op.next)
    /\ op' = [op EXCEPT !.at = "published"]
    /\ UNCHANGED <<settings, serial, cancelled, shut, refreshing, looking,
                   routeVars, queryVars>>

-----------------------------------------------------------------------------
\* Draining what was replaced.

Replaces(field) == op.old[field] # None /\ op.old[field] # op.next[field]

\* Learn is kept only by a change that leaves both mode and runtime alone.
EndsLearn == op.old.mode = "observe" /\ (op.next.mode # "observe" \/ Replaces("runtime"))

\* stopLearn, and Wait for its workers.
StopLearn ==
    /\ op # None
    /\ op.at = "published"
    /\ observing' = IF EndsLearn THEN observing \ {op.old.runtime} ELSE observing
    /\ op' = [op EXCEPT !.at = "stoppingLearn"]
    /\ UNCHANGED <<settings, published, serial, cancelled, shut,
                   refreshing, looking, routeVars, queryVars>>

\* The runtime's refresh loop waited for but never told to stop.
FaultyLearnStopped ==
    /\ op # None
    /\ op.at = "stoppingLearn"
    /\ EndsLearn => op.old.runtime \notin looking
    /\ op' = [op EXCEPT !.at = "closingRuntime"]
    /\ UNCHANGED <<settings, published, serial, nativeVars, routeVars,
                   queryVars>>

LearnStopped ==
    /\ op # None
    /\ op.at = "stoppingLearn"
    /\ EndsLearn => op.old.runtime \notin looking
    /\ cancelled' = IF Replaces("runtime") THEN cancelled \cup {op.old.runtime}
                                           ELSE cancelled
    /\ op' = [op EXCEPT !.at = "closingRuntime"]
    /\ UNCHANGED <<settings, published, serial, shut, refreshing,
                   observing, looking, routeVars, queryVars>>

Inside(rt) == {q \in Queries : pc[q] = "inNative" /\ native[q] = rt}

\* controlledNative.close: cancelled, then the write lock waits for queries ...
ShutRuntime ==
    /\ op # None
    /\ op.at = "closingRuntime"
    /\ Replaces("runtime") => Inside(op.old.runtime) = {}
    /\ shut' = IF Replaces("runtime") THEN shut \cup {op.old.runtime} ELSE shut
    /\ op' = [op EXCEPT !.at = "stoppingRefresh"]
    /\ UNCHANGED <<settings, published, serial, cancelled, refreshing,
                   observing, looking, routeVars, queryVars>>

\* Stop without Wait.
FaultyRefreshStopped ==
    /\ op # None
    /\ op.at = "stoppingRefresh"
    /\ retired' = IF Replaces("route") THEN retired \cup {op.old.route} ELSE retired
    /\ op' = [op EXCEPT !.at = "closingRoute"]
    /\ UNCHANGED <<settings, published, serial, nativeVars, bundlesShut,
                   queryVars>>

\* ... and Wait for the refresh loop; then the old route is retired.
RefreshStopped ==
    /\ op # None
    /\ op.at = "stoppingRefresh"
    /\ Replaces("runtime") => op.old.runtime \notin refreshing
    /\ retired' = IF Replaces("route") THEN retired \cup {op.old.route} ELSE retired
    /\ op' = [op EXCEPT !.at = "closingRoute"]
    /\ UNCHANGED <<settings, published, serial, nativeVars, bundlesShut,
                   queryVars>>

Forwarding(r) == {q \in Queries : pc[q] = "forwarding" /\ route[q] = r}

\* The bundle closed as soon as the route is retired.
FaultyRouteClosed ==
    /\ op # None
    /\ op.at = "closingRoute"
    /\ bundlesShut' = IF Replaces("route") THEN bundlesShut \cup {op.old.route}
                                           ELSE bundlesShut
    /\ op' = [op EXCEPT !.at = "drained"]
    /\ UNCHANGED <<settings, published, serial, nativeVars, retired,
                   queryVars>>

\* route.Close returns when its work is over; then the bundle is closed.
RouteClosed ==
    /\ op # None
    /\ op.at = "closingRoute"
    /\ Replaces("route") => Forwarding(op.old.route) = {}
    /\ bundlesShut' = IF Replaces("route") THEN bundlesShut \cup {op.old.route}
                                           ELSE bundlesShut
    /\ op' = [op EXCEPT !.at = "drained"]
    /\ UNCHANGED <<settings, published, serial, nativeVars, retired,
                   queryVars>>

\* Activate: the one refresh loop of the runtime that was built; then return.
Activate ==
    /\ op # None
    /\ op.at = "drained"
    /\ refreshing' =
        IF op.next.runtime # None /\ op.next.runtime # op.old.runtime
        THEN refreshing \cup {op.next.runtime} ELSE refreshing
    /\ op' = None
    /\ UNCHANGED <<settings, published, serial, cancelled, shut, observing,
                   looking, routeVars, queryVars>>

-----------------------------------------------------------------------------
\* Close, when the process stops: the selection without its runtime, and the
\* route itself retired.  It saves nothing.
Close ==
    /\ op = None
    /\ current.route \notin retired
    /\ LET off == [current EXCEPT !.mode = "off", !.runtime = None] IN
       /\ published' = Append(published, off)
       /\ op' = [at |-> "published", old |-> current,
                 next |-> [off EXCEPT !.route = None, !.mode = "closed"]]
    /\ UNCHANGED <<settings, serial, nativeVars, routeVars, queryVars>>

\* The process ends at any moment and starts again from the saved settings,
\* all of it before the listeners open; queries it was answering are lost.
Restart ==
    /\ serial < MaxChanges
    /\ serial' = serial + 1
    /\ LET r  == [gen |-> serial', transport |-> settings.transport]
           rt == IF settings.mode = "off" THEN None
                 ELSE [id |-> serial', route |-> r]
           up == {rt} \ {None}
       IN  /\ published' = <<Selection(settings.mode, settings.transport, r, rt)>>
           /\ refreshing' = up
           /\ observing' = IF settings.mode = "observe" THEN up ELSE {}
    /\ op' = None
    /\ cancelled' = {} /\ shut' = {} /\ looking' = {}
    /\ retired' = {} /\ bundlesShut' = {}
    /\ pc' = [q \in Queries |-> IF pc[q] = "arrived" THEN "arrived" ELSE "done"]
    /\ UNCHANGED <<settings, native, route>>

-----------------------------------------------------------------------------
\* Background work of a runtime: the refresh loop ends after its context does,
\* a learn worker resolves what was submitted.

RefreshEnds(rt) ==
    /\ rt \in refreshing \cap cancelled
    /\ refreshing' = refreshing \ {rt}
    /\ UNCHANGED <<ctlVars, cancelled, shut, observing, looking, routeVars,
                   queryVars>>

LearnStarts(rt) ==
    /\ rt \in observing
    /\ looking' = looking \cup {rt}
    /\ UNCHANGED <<ctlVars, cancelled, shut, refreshing, observing, routeVars,
                   queryVars>>

LearnEnds(rt) ==
    /\ rt \in looking
    /\ looking' = looking \ {rt}
    /\ UNCHANGED <<ctlVars, cancelled, shut, refreshing, observing, routeVars,
                   queryVars>>

-----------------------------------------------------------------------------
\* A query.

Goto(q, phase) == pc' = [pc EXCEPT ![q] = phase]

\* NativeClient: the runtime of the selection, when it enforces.
LoadNative(q) ==
    /\ pc[q] = "arrived"
    /\ IF current.mode = "enforce" /\ current.runtime # None
       THEN native' = [native EXCEPT ![q] = current.runtime] /\ Goto(q, "native")
       ELSE UNCHANGED native /\ Goto(q, "forward")
    /\ UNCHANGED <<route, ctlVars, nativeVars, routeVars>>

\* A captured runtime is entered although it has been shut.
FaultyEnterNative(q) ==
    /\ pc[q] = "native"
    /\ Goto(q, "inNative")
    /\ UNCHANGED <<native, route, ctlVars, nativeVars, routeVars>>

\* controlledNative.ResolveClient: a runtime that has stopped answers SERVFAIL;
\* the query never turns to forwarding.
EnterNative(q) ==
    /\ pc[q] = "native"
    /\ Goto(q, IF native[q] \in shut \cup cancelled THEN "done" ELSE "inNative")
    /\ UNCHANGED <<native, route, ctlVars, nativeVars, routeVars>>

\* ForwardRoute: the selection again, some time later.
LoadRoute(q) ==
    /\ pc[q] = "forward"
    /\ route' = [route EXCEPT ![q] = current.route]
    /\ Goto(q, "routed")
    /\ UNCHANGED <<native, ctlVars, nativeVars, routeVars>>

\* route.Begin fails on a retired route.
EnterRoute(q) ==
    /\ pc[q] = "routed"
    /\ Goto(q, IF route[q] \in retired THEN "done" ELSE "forwarding")
    /\ UNCHANGED <<native, route, ctlVars, nativeVars, routeVars>>

\* Answered, timed out, or cancelled by the runtime or the route.
Leave(q) ==
    /\ pc[q] \in {"inNative", "forwarding"}
    /\ Goto(q, "done")
    /\ UNCHANGED <<native, route, ctlVars, nativeVars, routeVars>>

-----------------------------------------------------------------------------
Query(q) ==
    \/ LoadNative(q)
    \/ EnterNative(q)
    \/ LoadRoute(q)
    \/ EnterRoute(q)
    \/ Leave(q)

Drain ==
    \/ Save
    \/ SaveFails
    \/ Publish
    \/ StopLearn
    \/ LearnStopped
    \/ ShutRuntime
    \/ RefreshStopped
    \/ RouteClosed
    \/ Activate

Background ==
    \/ \E rt \in refreshing : RefreshEnds(rt)
    \/ \E rt \in observing : LearnStarts(rt)
    \/ \E rt \in looking : LearnEnds(rt)

Idle == op = None /\ (\A q \in Queries : pc[q] = "done") /\ UNCHANGED vars

Next ==
    \/ \E m \in Modes : BeginMode(m)
    \/ \E t \in Transports : BeginTransport(t)
    \/ Drain
    \/ Close
    \/ Restart
    \/ Background
    \/ \E q \in Queries : Query(q)
    \/ Idle

Spec == Init /\ [][Next]_vars

\* The operation goes on when it can; queries, refresh loops and learn lookups
\* end, each having a timeout and a context that is cancelled.
Fairness ==
    /\ WF_vars(Drain)
    /\ \A i \in 1..MaxChanges :
        /\ WF_vars(\E rt \in refreshing : rt.id = i /\ RefreshEnds(rt))
        /\ WF_vars(\E rt \in looking : rt.id = i /\ LearnEnds(rt))
    /\ \A q \in Queries : WF_vars(Leave(q))

FairSpec == Spec /\ Fairness

-----------------------------------------------------------------------------
\* Properties.

\* Types of the variables: the published selection has a runtime exactly when
\* its mode is not off, and only runtimes that exist run in the background.
TypeOK ==
    /\ settings \in [mode : Modes, transport : Transports]
    /\ published # <<>>
    /\ \A i \in 1..Len(published) :
        /\ published[i] \in Selections
        /\ published[i].mode = "off" <=> published[i].runtime = None
    /\ op # None => op.old \in Selections
    /\ serial \in 1..MaxChanges
    /\ cancelled \cup shut \cup refreshing \cup observing \cup looking
        \subseteq RuntimeRecords
    /\ retired \cup bundlesShut \subseteq RouteRecords
    /\ native \in [Queries -> RuntimeRecords \cup {None}]
    /\ route \in [Queries -> RouteRecords \cup {None}]

Runtimes == refreshing \cup looking \cup
            {native[q] : q \in {p \in Queries : pc[p] = "inNative"}}
RoutesUsed == {route[q] : q \in {p \in Queries : pc[p] = "forwarding"}} \cup
              {rt.route : rt \in Runtimes}

\* Once the switch to encrypted has returned, nothing resolves in plaintext:
\* no query on the old route or in the old runtime, no learn lookup and no
\* anchor refresh.
EncryptedMeansEncrypted ==
    op = None /\ current.transport = "encrypted" =>
        \A r \in RoutesUsed : r.transport = "encrypted"

\* A bundle is closed only after its last user: queries forwarded through it
\* and runtimes that validate over it alike.
BundleOutlivesItsUsers == RoutesUsed \cap bundlesShut = {}

\* The RFC 5011 state has one writer: two refresh loops never run at once, the
\* new one starting only after the old one ended.
OneRefreshOwner == Cardinality(refreshing) <= 1

\* A restart selects what runs; in the middle of a change, what ran before it
\* or what it was asked for, never a mode and a transport of both.
SavedIsRunning ==
    current.route \notin retired =>
        IF op = None THEN settings = Saved(current)
                     ELSE settings \in {Saved(op.old), Saved(op.next)}

\* A transport switch cannot mix two active profiles: some one selection gave
\* the query both its native client (or the want of one) and its route.
OneProfilePerQuery ==
    \A q \in Queries :
        pc[q] = "forwarding" =>
            \E i \in 1..Len(published) :
                /\ published[i].mode # "enforce"
                /\ published[i].route = route[q]

\* A change of mode or transport always returns: nothing it drains waits for
\* it.
ChangeReturns == (op # None) ~> (op = None)
=============================================================================
