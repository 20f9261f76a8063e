------------------------------ MODULE Resolver ------------------------------
(***************************************************************************)
(* The forwarding path of one DNS query, many of them at once: the         *)
(* blocklist generation the handler reads, then Resolver.Resolve with its  *)
(* route admission, answer cache, collapsed flights, upstream slots and    *)
(* the exchanges with the upstreams, while a feed refresh moves the        *)
(* generation and the transport controller publishes a new ForwardRoute    *)
(* and drains the old one.                                                 *)
(*                                                                         *)
(* A message is known by the query whose flight obtained it: origin[q] is  *)
(* the query that led the exchange q's answer came from.  The maps of the  *)
(* code that are keyed by a string (Cache.entries, Resolver.inflight) are  *)
(* sets of such leaders, looked up by the key of each member.              *)
(***************************************************************************)
EXTENDS Naturals, FiniteSets

CONSTANTS
    Queries,          \* the client queries of a behaviour
    Questions,        \* what a query may ask: records [name, do, cd]
    NumUpstreams,     \* the legacy upstreams, in their configured order
    Mode,             \* dns.upstream_mode: "race", anything else fails over
    EncryptedRoutes,  \* the routes that carry an EncryptedUpstreams bundle
    MaxInflight,      \* dns.max_inflight
    MaxRoute,         \* bound: transport selections published
    MaxGeneration,    \* bound: feed refreshes
    None              \* no query

ASSUME NoneAssumption == None \notin Queries
\* A question is its name, its type and class among it, and two bits.
ASSUME QuestionAssumption ==
    \A a, b \in Questions :
        a.name = b.name /\ a.do = b.do /\ a.cd = b.cd => a = b
ASSUME BoundAssumption ==
    /\ NumUpstreams \in Nat \ {0}
    /\ MaxInflight \in Nat \ {0}
    /\ MaxRoute \in Nat \ {0}
    /\ MaxGeneration \in Nat

VARIABLES
    pc,            \* where each query's goroutine is
    question,      \* the question each query asks
    generation,    \* the blocklist generation it hands to Resolve
    route,         \* the ForwardRoute it loaded
    dead,          \* its context is done (given up, timed out or retired)
    origin,        \* the leader whose exchange gave its answer
    reply,         \* what it is going to return
    flight,        \* the result in the call it leads
    part,          \* each upstream exchange made for it
    slots,         \* the queries holding a slot of Resolver.sem
    registered,    \* the leaders in Resolver.inflight
    cached,        \* the leaders whose message is in Cache.entries
    holderGen,     \* Holder.gen
    current,       \* the generation of the published route
    retired,       \* the routes with ForwardRoute.retired set
    closed,        \* the routes whose Close returned: bundle closed
    closing,       \* the route the controller is closing, 0 if none
    active         \* ForwardRoute.active: the admissions held on each route

queryVars == <<pc, question, generation, route, dead, origin, reply>>
workVars  == <<flight, part, slots, registered, cached>>
ctlVars   == <<current, retired, closed, closing>>
vars == <<queryVars, workVars, holderGen, ctlVars, active>>

Routes    == 1..MaxRoute
Upstreams == 1..NumUpstreams
Tokens    == Queries \X (0..NumUpstreams)  \* <<q, 0>> is held by Resolve itself

Phases == {"arrived", "stamped", "routed", "lookup", "miss",
           "follow", "slot", "exchange", "settle", "unregister", "leaving",
           "cached", "done"}
\* From Resolve's admission to its return.
Resolving == {"lookup", "miss", "follow", "slot", "exchange", "settle",
              "unregister", "leaving", "cached"}
Replies == {"none", "cacheable", "uncacheable", "error"}
Parts   == {"idle", "spawned", "running", "cacheable", "uncacheable", "failed"}
Answers == {"cacheable", "uncacheable"}

\* Faulty variants of a definition stand before it, are named Faulty... and take
\* no part in the specification: each is a bug one of the properties catches.

\* A key that leaves the CD bit out.
FaultyCacheKey(q) ==
    [name |-> question[q].name, do |-> question[q].do, route |-> route[q]]

\* resolver.Key with the cd and route suffixes Resolve appends.
CacheKey(q) ==
    [name |-> question[q].name, do |-> question[q].do, cd |-> question[q].cd,
     route |-> route[q]]

\* A flight that outlives a feed refresh.
FaultyFlightKey(q) == [key |-> CacheKey(q)]

FlightKey(q) == [key |-> CacheKey(q), blocklist |-> generation[q]]

\* An encrypted route exchanges once through its bundle; a legacy one has the
\* configured upstreams.
Workers(q) == IF route[q] \in EncryptedRoutes THEN {1} ELSE Upstreams
Racing(q)  == Mode = "race" /\ route[q] \notin EncryptedRoutes

Init ==
    /\ pc = [q \in Queries |-> "arrived"]
    /\ question \in [Queries -> Questions]
    /\ generation = [q \in Queries |-> 0]
    /\ route = [q \in Queries |-> 0]
    /\ dead = [q \in Queries |-> FALSE]
    /\ origin = [q \in Queries |-> None]
    /\ reply = [q \in Queries |-> "none"]
    /\ flight = [q \in Queries |-> "none"]
    /\ part = [q \in Queries |-> [u \in Upstreams |-> "idle"]]
    /\ slots = {}
    /\ registered = {}
    /\ cached = {}
    /\ holderGen = 0
    /\ current = 1
    /\ retired = {}
    /\ closed = {}
    /\ closing = 0
    /\ active = [g \in Routes |-> {}]

-----------------------------------------------------------------------------
\* Helpers shared by the actions.

Goto(q, phase) == pc' = [pc EXCEPT ![q] = phase]
Answer(q, r)   == reply' = [reply EXCEPT ![q] = r]

\* ForwardRoute.Begin under the route's mutex, and the done it returns.
CanBegin(g)      == g \notin retired
Admit(g, tok)    == active' = [active EXCEPT ![g] = @ \cup {tok}]
Release(g, tok)  == active' = [active EXCEPT ![g] = @ \ {tok}]

\* A context is live until its client gives up, its timeout fires or its
\* route's retirement reaches it.
Live(q) == ~dead[q]

-----------------------------------------------------------------------------
\* The handler, up to Resolve.

\* handle: h.lists.Generation(), an argument of Resolve, once the policy has
\* allowed the name.
ReadGeneration(q) ==
    /\ pc[q] = "arrived"
    /\ generation' = [generation EXCEPT ![q] = holderGen]
    /\ Goto(q, "stamped")
    /\ UNCHANGED <<question, route, dead, origin, reply, workVars, holderGen,
                   ctlVars, active>>

\* currentRoute: one atomic load of the controller's selection.
LoadRoute(q) ==
    /\ pc[q] = "stamped"
    /\ route' = [route EXCEPT ![q] = current]
    /\ Goto(q, "routed")
    /\ UNCHANGED <<question, generation, dead, origin, reply, workVars,
                   holderGen, ctlVars, active>>

\* Resolve's own route.Begin.
BeginQuery(q) ==
    /\ pc[q] = "routed"
    /\ IF Live(q) /\ CanBegin(route[q])
       THEN /\ Admit(route[q], <<q, 0>>)
            /\ Goto(q, "lookup")
            /\ UNCHANGED reply
       ELSE /\ Goto(q, "done")
            /\ Answer(q, "error")
            /\ UNCHANGED active
    /\ UNCHANGED <<question, generation, route, dead, origin, workVars,
                   holderGen, ctlVars>>

-----------------------------------------------------------------------------
\* The answer cache.

CacheEntries(q) == {l \in cached : CacheKey(l) = CacheKey(q)}
Fresh(l, q)     == generation[l] = generation[q]

CacheHit(q) ==
    /\ pc[q] = "lookup"
    /\ \E l \in CacheEntries(q) :
        /\ Fresh(l, q)
        /\ origin' = [origin EXCEPT ![q] = l]
    /\ Answer(q, IF Live(q) THEN "cacheable" ELSE "error")
    /\ Goto(q, "cached")
    /\ UNCHANGED <<question, generation, route, dead, workVars,
                   holderGen, ctlVars, active>>

\* An entry of another blocklist generation is deleted, newer or older.
CacheMiss(q) ==
    /\ pc[q] = "lookup"
    /\ \A l \in CacheEntries(q) : ~Fresh(l, q)
    /\ cached' = cached \ CacheEntries(q)
    /\ Goto(q, "miss")
    /\ UNCHANGED <<question, generation, route, dead, origin, reply,
                   flight, part, slots, registered, holderGen, ctlVars, active>>

\* Cache.Put replaces whatever the key held.
CachePut(q) == (cached \ CacheEntries(q)) \cup {q}

\* Expiry, eviction from a full shard and Purge, at any time.
CacheDrop(l) ==
    /\ l \in cached
    /\ cached' = cached \ {l}
    /\ UNCHANGED <<queryVars, flight, part, slots, registered, holderGen,
                   ctlVars, active>>

-----------------------------------------------------------------------------
\* forwardOnce: identical concurrent questions share one flight.

Flights(q) == {l \in registered : FlightKey(l) = FlightKey(q)}

JoinFlight(q) ==
    /\ pc[q] = "miss"
    /\ \E l \in Flights(q) : origin' = [origin EXCEPT ![q] = l]
    /\ Goto(q, "follow")
    /\ UNCHANGED <<question, generation, route, dead, reply, workVars,
                   holderGen, ctlVars, active>>

\* The lookup and the registration under two locks instead of one.
FaultyLeadFlight(q) ==
    /\ pc[q] = "miss"
    /\ registered' = registered \cup {q}
    /\ flight' = [flight EXCEPT ![q] = "open"]
    /\ origin' = [origin EXCEPT ![q] = q]
    /\ Goto(q, "slot")
    /\ UNCHANGED <<question, generation, route, dead, reply, part,
                   slots, cached, holderGen, ctlVars, active>>

LeadFlight(q) ==
    /\ pc[q] = "miss"
    /\ Flights(q) = {}
    /\ registered' = registered \cup {q}
    /\ flight' = [flight EXCEPT ![q] = "open"]
    /\ origin' = [origin EXCEPT ![q] = q]
    /\ Goto(q, "slot")
    /\ UNCHANGED <<question, generation, route, dead, reply, part,
                   slots, cached, holderGen, ctlVars, active>>

\* case <-c.done
FollowerWakes(q) ==
    /\ pc[q] = "follow"
    /\ flight[origin[q]] # "open"
    /\ Answer(q, IF Live(q) THEN flight[origin[q]] ELSE "error")
    /\ Goto(q, "leaving")
    /\ UNCHANGED <<question, generation, route, dead, origin, workVars,
                   holderGen, ctlVars, active>>

\* case <-ctx.Done()
FollowerGivesUp(q) ==
    /\ pc[q] = "follow"
    /\ dead[q]
    /\ Answer(q, "error")
    /\ Goto(q, "leaving")
    /\ UNCHANGED <<question, generation, route, dead, origin, workVars,
                   holderGen, ctlVars, active>>

-----------------------------------------------------------------------------
\* forward: one slot per flight, then the exchanges.

\* One slot too many.
FaultyAcquireSlot(q) ==
    /\ pc[q] = "slot"
    /\ Cardinality(slots) <= MaxInflight
    /\ slots' = slots \cup {q}
    /\ Goto(q, "exchange")
    /\ UNCHANGED <<question, generation, route, dead, origin, reply,
                   flight, part, registered, cached, holderGen, ctlVars, active>>

AcquireSlot(q) ==
    /\ pc[q] = "slot"
    /\ Cardinality(slots) < MaxInflight
    /\ slots' = slots \cup {q}
    /\ Goto(q, "exchange")
    /\ UNCHANGED <<question, generation, route, dead, origin, reply,
                   flight, part, registered, cached, holderGen, ctlVars, active>>

\* forward's own timeout, or the query's context, ends the wait for a slot.
SlotTimeout(q) ==
    /\ pc[q] = "slot"
    /\ Answer(q, "error")
    /\ Goto(q, "settle")
    /\ UNCHANGED <<question, generation, route, dead, origin, workVars,
                   holderGen, ctlVars, active>>

Started(q) == \E u \in Workers(q) : part[q][u] # "idle"
Busy(q)    == \E u \in Workers(q) : part[q][u] \in {"spawned", "running"}

\* race: a goroutine for every upstream.
SpawnRace(q) ==
    /\ pc[q] = "exchange"
    /\ Racing(q)
    /\ ~Started(q)
    /\ part' = [part EXCEPT ![q] = [u \in Upstreams |-> "spawned"]]
    /\ UNCHANGED <<queryVars, flight, slots, registered, cached, holderGen,
                   ctlVars, active>>

\* failover (and the one exchange of an encrypted route): the next upstream,
\* after every earlier one failed.
TryNext(q, u) ==
    /\ pc[q] = "exchange"
    /\ ~Racing(q)
    /\ Live(q)
    /\ u \in Workers(q)
    /\ part[q][u] = "idle"
    /\ \A v \in Workers(q) : v < u => part[q][v] = "failed"
    /\ part' = [part EXCEPT ![q][u] = "spawned"]
    /\ UNCHANGED <<queryVars, flight, slots, registered, cached, holderGen,
                   ctlVars, active>>

\* exchangeForwardUpstream takes an admission of its own.
ExchangeBegins(q, u) ==
    /\ part[q][u] = "spawned"
    /\ pc[q] = "exchange"
    /\ Live(q)
    /\ CanBegin(route[q])
    /\ Admit(route[q], <<q, u>>)
    /\ part' = [part EXCEPT ![q][u] = "running"]
    /\ UNCHANGED <<queryVars, flight, slots, registered, cached, holderGen,
                   ctlVars>>

\* Begin refuses: the route is retired, or one of the contexts above is done
\* (the client's, forward's timeout, the race's cancel, a failover attempt's
\* share of the budget).
ExchangeRefused(q, u) ==
    /\ part[q][u] = "spawned"
    /\ part' = [part EXCEPT ![q][u] = "failed"]
    /\ UNCHANGED <<queryVars, flight, slots, registered, cached, holderGen,
                   ctlVars, active>>

\* A message came back while the context was still live.
ExchangeAnswers(q, u) ==
    /\ part[q][u] = "running"
    /\ pc[q] = "exchange"
    /\ Live(q)
    /\ \E a \in Answers : part' = [part EXCEPT ![q][u] = a]
    /\ Release(route[q], <<q, u>>)
    /\ UNCHANGED <<queryVars, flight, slots, registered, cached, holderGen,
                   ctlVars>>

\* An error, a timeout, a cancellation; or an answer a done context discards.
ExchangeFails(q, u) ==
    /\ part[q][u] = "running"
    /\ part' = [part EXCEPT ![q][u] = "failed"]
    /\ Release(route[q], <<q, u>>)
    /\ UNCHANGED <<queryVars, flight, slots, registered, cached, holderGen,
                   ctlVars>>

\* The first good answer ends forward and frees the slot; the losers of a
\* race go on cancelling by themselves.
ForwardSucceeds(q) ==
    /\ pc[q] = "exchange"
    /\ \E u \in Workers(q) : part[q][u] \in Answers /\ Answer(q, part[q][u])
    /\ slots' = slots \ {q}
    /\ Goto(q, "settle")
    /\ UNCHANGED <<question, generation, route, dead, origin, flight,
                   part, registered, cached, holderGen, ctlVars, active>>

\* Failover that forgets its own context between two attempts.
FaultyForwardFails(q) ==
    /\ pc[q] = "exchange"
    /\ \A u \in Workers(q) : part[q][u] = "failed"
    /\ Answer(q, "error")
    /\ slots' = slots \ {q}
    /\ Goto(q, "settle")
    /\ UNCHANGED <<question, generation, route, dead, origin, flight,
                   part, registered, cached, holderGen, ctlVars, active>>

\* Every upstream failed, or forward's context is done: a race returns at
\* once, a failover between two attempts.
ForwardFails(q) ==
    /\ pc[q] = "exchange"
    /\ IF Racing(q) THEN Started(q)
                    ELSE ~Busy(q) /\ \A u \in Workers(q) : part[q][u] \notin Answers
    /\ Answer(q, "error")
    /\ slots' = slots \ {q}
    /\ Goto(q, "settle")
    /\ UNCHANGED <<question, generation, route, dead, origin, flight,
                   part, registered, cached, holderGen, ctlVars, active>>

-----------------------------------------------------------------------------
\* forwardOnce again: publish the result, then take the flight out of the map.

Verdict(q) == IF dead[q] THEN "error" ELSE reply[q]

\* The channel is closed for an answer only.
FaultySettle(q) ==
    /\ pc[q] = "settle"
    /\ Answer(q, Verdict(q))
    /\ flight' = IF Verdict(q) = "error" THEN flight
                 ELSE [flight EXCEPT ![q] = Verdict(q)]
    /\ cached' = IF Verdict(q) = "cacheable" THEN CachePut(q) ELSE cached
    /\ Goto(q, "unregister")
    /\ UNCHANGED <<question, generation, route, dead, origin, part,
                   slots, registered, holderGen, ctlVars, active>>

Settle(q) ==
    /\ pc[q] = "settle"
    /\ Answer(q, Verdict(q))
    /\ flight' = [flight EXCEPT ![q] = Verdict(q)]
    /\ cached' = IF Verdict(q) = "cacheable" THEN CachePut(q) ELSE cached
    /\ Goto(q, "unregister")
    /\ UNCHANGED <<question, generation, route, dead, origin, part,
                   slots, registered, holderGen, ctlVars, active>>

Unregister(q) ==
    /\ pc[q] = "unregister"
    /\ registered' = registered \ Flights(q)
    /\ Goto(q, "leaving")
    /\ UNCHANGED <<question, generation, route, dead, origin, reply,
                   flight, part, slots, cached, holderGen, ctlVars, active>>

\* An early return that skips the admission's done.
FaultyReturn(q) ==
    /\ pc[q] \in {"leaving", "cached"}
    /\ Answer(q, IF pc[q] = "leaving" THEN Verdict(q) ELSE reply[q])
    /\ Goto(q, "done")
    /\ IF reply'[q] = "error" THEN UNCHANGED active
                              ELSE Release(route[q], <<q, 0>>)
    /\ UNCHANGED <<question, generation, route, dead, origin, workVars,
                   holderGen, ctlVars>>

\* Resolve returns: a forwarded answer is checked against the context a last
\* time, and the deferred done gives the admission back.
Return(q) ==
    /\ pc[q] \in {"leaving", "cached"}
    /\ Answer(q, IF pc[q] = "leaving" THEN Verdict(q) ELSE reply[q])
    /\ Release(route[q], <<q, 0>>)
    /\ Goto(q, "done")
    /\ UNCHANGED <<question, generation, route, dead, origin, workVars,
                   holderGen, ctlVars>>

-----------------------------------------------------------------------------
\* Contexts, feed refreshes and the transport controller.

\* The handler's rctx, made just before Resolve: its timeout, or the client
\* leaving.  It is first looked at by Begin.
ClientGivesUp(q) ==
    /\ pc[q] \in Resolving \cup {"routed"}
    /\ Live(q)
    /\ dead' = [dead EXCEPT ![q] = TRUE]
    /\ UNCHANGED <<pc, question, generation, route, origin, reply,
                   workVars, holderGen, ctlVars, active>>

\* context.AfterFunc runs in a goroutine of its own some time after retirement.
RetirementReaches(q) ==
    /\ route[q] \in retired
    /\ <<q, 0>> \in active[route[q]]
    /\ Live(q)
    /\ dead' = [dead EXCEPT ![q] = TRUE]
    /\ UNCHANGED <<pc, question, generation, route, origin, reply,
                   workVars, holderGen, ctlVars, active>>

\* Holder.Store, at the end of a feed refresh.
StoreIndex ==
    /\ holderGen < MaxGeneration
    /\ holderGen' = holderGen + 1
    /\ UNCHANGED <<queryVars, workVars, ctlVars, active>>

\* SetTransport: publication, under the controller's mutex.
PublishRoute ==
    /\ closing = 0
    /\ current \notin retired
    /\ current < MaxRoute
    /\ current' = current + 1
    /\ closing' = current
    /\ UNCHANGED <<queryVars, workVars, holderGen, retired, closed, active>>

\* Controller.Close retires the current route and publishes no other.
Shutdown ==
    /\ closing = 0
    /\ current \notin retired
    /\ closing' = current
    /\ UNCHANGED <<queryVars, workVars, holderGen, current, retired, closed,
                   active>>

\* ForwardRoute.Close: retire admission and cancel ...
RetireRoute ==
    /\ closing \in Routes \ retired
    /\ retired' = retired \cup {closing}
    /\ UNCHANGED <<queryVars, workVars, holderGen, current, closed, closing,
                   active>>

\* A Close that does not wait.
FaultyCloseReturns ==
    /\ closing \in retired
    /\ closed' = closed \cup {closing}
    /\ closing' = 0
    /\ UNCHANGED <<queryVars, workVars, holderGen, current, retired, active>>

\* ... then active.Wait returns and the owner closes the encrypted bundle.
CloseReturns ==
    /\ closing \in retired
    /\ active[closing] = {}
    /\ closed' = closed \cup {closing}
    /\ closing' = 0
    /\ UNCHANGED <<queryVars, workVars, holderGen, current, retired, active>>

-----------------------------------------------------------------------------
Exchange(q, u) ==
    \/ ExchangeBegins(q, u)
    \/ ExchangeRefused(q, u)
    \/ ExchangeAnswers(q, u)
    \/ ExchangeFails(q, u)

\* What the goroutine of a query does.
Step(q) ==
    \/ ReadGeneration(q)
    \/ LoadRoute(q)
    \/ BeginQuery(q)
    \/ CacheHit(q)
    \/ CacheMiss(q)
    \/ JoinFlight(q)
    \/ LeadFlight(q)
    \/ FollowerWakes(q)
    \/ FollowerGivesUp(q)
    \/ AcquireSlot(q)
    \/ SlotTimeout(q)
    \/ SpawnRace(q)
    \/ \E u \in Upstreams : TryNext(q, u)
    \/ ForwardSucceeds(q)
    \/ ForwardFails(q)
    \/ Settle(q)
    \/ Unregister(q)
    \/ Return(q)

Control ==
    \/ StoreIndex
    \/ PublishRoute
    \/ Shutdown
    \/ RetireRoute
    \/ CloseReturns

\* Nothing is left to do: no query, no exchange and no Close.
Idle ==
    /\ \A q \in Queries :
        /\ pc[q] = "done"
        /\ \A u \in Upstreams : part[q][u] \notin {"spawned", "running"}
    /\ closing = 0
    /\ UNCHANGED vars

Next ==
    \/ \E q \in Queries :
        \/ Step(q)
        \/ \E u \in Upstreams : Exchange(q, u)
        \/ ClientGivesUp(q)
        \/ RetirementReaches(q)
        \/ CacheDrop(q)
    \/ Control
    \/ Idle

Spec == Init /\ [][Next]_vars

\* A goroutine that can go on does; an exchange ends because its timeout does;
\* AfterFunc runs; a Close once begun is carried through.  Nothing promises
\* that an upstream answers, that a client gives up or that a slot is granted.
Fairness ==
    /\ \A q \in Queries :
        /\ WF_vars(Step(q))
        /\ WF_vars(RetirementReaches(q))
        /\ \A u \in Upstreams :
            WF_vars(ExchangeRefused(q, u) \/ ExchangeFails(q, u))
    /\ WF_vars(RetireRoute)
    /\ WF_vars(CloseReturns)

FairSpec == Spec /\ Fairness

-----------------------------------------------------------------------------
\* Properties.

\* Types of the variables.
TypeOK ==
    /\ pc \in [Queries -> Phases]
    /\ question \in [Queries -> Questions]
    /\ generation \in [Queries -> 0..MaxGeneration]
    /\ route \in [Queries -> 0..MaxRoute]
    /\ dead \in [Queries -> BOOLEAN]
    /\ origin \in [Queries -> Queries \cup {None}]
    /\ reply \in [Queries -> Replies]
    /\ flight \in [Queries -> Replies \cup {"open"}]
    /\ part \in [Queries -> [Upstreams -> Parts]]
    /\ slots \subseteq Queries
    /\ registered \subseteq Queries
    /\ cached \subseteq Queries
    /\ holderGen \in 0..MaxGeneration
    /\ current \in Routes
    /\ retired \subseteq Routes
    /\ closed \subseteq Routes
    /\ closing \in Routes \cup {0}
    /\ active \in [Routes -> SUBSET Tokens]

\* Whatever query led the exchange, from the cache, from a shared flight or by
\* itself, the answer a client gets was obtained for exactly its question (the
\* DO and CD bits included), over the route it loaded and under the blocklist
\* generation it read.
AnswerIsForThisRequest ==
    \A q \in Queries :
        pc[q] = "done" /\ reply[q] \in Answers =>
            LET l == origin[q] IN
            /\ l \in Queries
            /\ question[l] = question[q]
            /\ route[l] = route[q]
            /\ generation[l] = generation[q]

\* Once Close of a route has returned, and its owner closes the encrypted
\* bundle, no exchange runs on it and no Resolve is still inside it: the loser
\* of a race that outlives its query included.
ClosedRouteIsQuiet ==
    \A q \in Queries :
        route[q] \in closed =>
            /\ pc[q] \notin Resolving
            /\ \A u \in Upstreams : part[q][u] # "running"

\* Identical questions asked at once cost one upstream query: two leaders of
\* the same flight key are never between the cache miss and their result.
OneExchangePerFlight ==
    \A p, q \in Queries :
        /\ p # q
        /\ pc[p] \in {"slot", "exchange"}
        /\ pc[q] \in {"slot", "exchange"}
        => FlightKey(p) # FlightKey(q)

\* A follower waits for a leader that is still at work on the same key and will
\* close the channel, or has closed it already.
FollowersAreNotStranded ==
    \A q \in Queries :
        pc[q] = "follow" =>
            \/ /\ origin[q] \in registered
               /\ pc[origin[q]] \in {"slot", "exchange", "settle"}
            \/ flight[origin[q]] \in Answers \cup {"error"}

\* The upstream exchanges that run at once, as dns.max_inflight counts them.
Exchanging == {t \in Tokens : t[2] # 0 /\ part[t[1]][t[2]] = "running"}
ExchangesBounded == Cardinality(Exchanging) <= MaxInflight

\* A retired route admits nothing more: every holder it still has leaves.
NoAdmissionAfterRetirement ==
    [][\A g \in retired : active'[g] \subseteq active[g]]_vars

\* The admissions of queries and exchanges keep what RouteGate promises.
Gate == INSTANCE RouteGate
RouteGateHolds == Gate!Spec

\* Every query that arrives is answered, though a slot may never be granted and
\* an upstream may never reply.
EveryQueryEnds == \A q \in Queries : pc[q] = "arrived" ~> pc[q] = "done"

\* Close of a retired route returns, without waiting for any client to give up.
RetiredRouteCloses == \A g \in Routes : closing = g ~> g \in closed
=============================================================================
