--------------------------- MODULE ResolverProofs ---------------------------
(***************************************************************************)
(* Theorems about Resolver, for every number of queries, upstreams, routes *)
(* and slots: its types, that an answer is for the request it is given to, *)
(* that a closed route is quiet, that flights are shared, that a retired   *)
(* route admits nothing, that the route gate is implemented, and that      *)
(* failover keeps to max_inflight.                                         *)
(***************************************************************************)
EXTENDS Resolver, FiniteSetTheorems, TLAPS

-----------------------------------------------------------------------------
\* The parts of the inductive invariants.

\* A follower waits on a query, so there is a flight to read its result from.
FollowsAQuery == \A q \in Queries : pc[q] = "follow" => origin[q] \in Queries

TypeInv == TypeOK /\ FollowsAQuery

Unrouted == {"arrived", "stamped"}

\* Nothing runs ahead of the published route.
RoutesInOrder ==
    /\ retired \subseteq 1..current
    /\ closed \subseteq retired
    /\ closing \in 0..current
    /\ \A q \in Queries :
        /\ route[q] \in 0..current
        /\ pc[q] \notin Unrouted => route[q] # 0

\* Whatever runs holds an admission on its route.
WorkIsAdmitted ==
    \A q \in Queries :
        /\ pc[q] \in Resolving => <<q, 0>> \in active[route[q]]
        /\ \A u \in Upstreams :
            /\ part[q][u] = "running" => <<q, u>> \in active[route[q]]
            /\ part[q][u] # "idle" =>
                pc[q] \in {"exchange", "settle", "unregister", "leaving", "done"}

ClosedIsEmpty == \A g \in closed : active[g] = {}

RouteInv == RoutesInOrder /\ WorkIsAdmitted /\ ClosedIsEmpty

SameRequest(l, q) ==
    /\ question[l] = question[q]
    /\ route[l] = route[q]
    /\ generation[l] = generation[q]

\* From the moment a query has an origin, the origin made the same request.
OriginIsForThisRequest ==
    \A q \in Queries :
        \/ pc[q] \in {"follow", "slot", "exchange", "settle", "unregister",
                      "leaving", "cached"}
        \/ pc[q] = "done" /\ reply[q] \in Answers
        => /\ origin[q] \in Queries
           /\ pc[origin[q]] \notin Unrouted
           /\ SameRequest(origin[q], q)

\* What the maps hold belongs to queries whose key no longer changes.
StoredWorkIsRouted == \A l \in registered \cup cached : pc[l] \notin Unrouted

AnswerInv == OriginIsForThisRequest /\ StoredWorkIsRouted

Leading == {"slot", "exchange", "settle", "unregister"}
Settled == Answers \cup {"error"}

\* Resolver.inflight holds the leaders, one for each key ...
LeadersAreRegistered ==
    \A q \in Queries : q \in registered <=> pc[q] \in Leading

FlightsAreDistinct ==
    \A p, q \in registered : FlightKey(p) = FlightKey(q) => p = q

\* ... which settle before they leave it ...
LeadersSettle ==
    \A q \in Queries :
        /\ pc[q] = "settle" => reply[q] \in Settled
        /\ pc[q] = "unregister" => flight[q] \in Settled

\* ... and a follower's leader has settled or is on its way.
LeadersOfFollowers ==
    \A q \in Queries :
        pc[q] = "follow" =>
            \/ pc[origin[q]] \in {"slot", "exchange", "settle"}
            \/ /\ pc[origin[q]] \in {"unregister", "leaving", "done"}
               /\ flight[origin[q]] \in Settled

FlightInv ==
    /\ LeadersAreRegistered
    /\ FlightsAreDistinct
    /\ LeadersSettle
    /\ LeadersOfFollowers

\* The slots are held by the leaders that exchange, and outside race mode each
\* of them has at most one exchange under way.
SlotsAreCounted ==
    /\ IsFiniteSet(slots)
    /\ Cardinality(slots) <= MaxInflight
    /\ \A q \in Queries : q \in slots <=> pc[q] = "exchange"

OneAfterTheOther ==
    \A q \in Queries : \A u \in Upstreams :
        /\ part[q][u] # "idle" => u \in Workers(q) /\ pc[q] \notin Unrouted
        /\ part[q][u] = "running" => pc[q] = "exchange"
        /\ \A v \in Upstreams :
            u < v /\ part[q][u] # "failed" => part[q][v] = "idle"

SlotInv == SlotsAreCounted /\ OneAfterTheOther

-----------------------------------------------------------------------------
\* Facts about the operators.

\* An admission is a token of its query.
LEMMA TokenOfQuery ==
  ASSUME NEW q \in Queries
  PROVE  /\ <<q, 0>> \in Tokens
         /\ \A u \in Upstreams : <<q, u>> \in Tokens
BY BoundAssumption DEF Tokens, Upstreams

\* Admissions of a query and of its exchanges are different tokens.
LEMMA TokensDiffer ==
  ASSUME NEW p \in Queries, NEW q \in Queries,
         NEW w \in Upstreams, NEW u \in Upstreams
  PROVE  /\ <<p, w>> # <<q, 0>>
         /\ p # q \/ w # u => <<p, w>> # <<q, u>>
BY BoundAssumption DEF Upstreams

\* Admitting and releasing change one route's admissions and no other's.
LEMMA GateUpdate ==
  ASSUME NEW f \in [Routes -> SUBSET Tokens], NEW tok \in Tokens, NEW g
  PROVE  /\ [f EXCEPT ![g] = @ \cup {tok}] \in [Routes -> SUBSET Tokens]
         /\ [f EXCEPT ![g] = @ \ {tok}] \in [Routes -> SUBSET Tokens]
<1>1. CASE g \in Routes
  BY <1>1
<1>2. CASE g \notin Routes
  BY <1>2
<1> QED
  BY <1>1, <1>2

\* ... and that one by the token.
LEMMA GateEffect ==
  ASSUME NEW f \in [Routes -> SUBSET Tokens], NEW tok, NEW g \in Routes
  PROVE  /\ [f EXCEPT ![g] = @ \cup {tok}][g] = f[g] \cup {tok}
         /\ [f EXCEPT ![g] = @ \ {tok}][g] = f[g] \ {tok}
         /\ \A r \in Routes \ {g} :
             /\ [f EXCEPT ![g] = @ \cup {tok}][r] = f[r]
             /\ [f EXCEPT ![g] = @ \ {tok}][r] = f[r]
OBVIOUS

\* A cache or flight key, with the generation, tells requests apart.
LEMMA KeysIdentifyRequests ==
  ASSUME TypeOK, NEW l \in Queries, NEW q \in Queries
  PROVE  /\ CacheKey(l) = CacheKey(q) /\ Fresh(l, q) => SameRequest(l, q)
         /\ FlightKey(l) = FlightKey(q) => SameRequest(l, q)
BY QuestionAssumption
   DEF TypeOK, CacheKey, FlightKey, Fresh, SameRequest

\* A query's key changes only while it is unrouted.
LEMMA KeysAreStable ==
  ASSUME NEW q \in Queries, UNCHANGED question,
         generation'[q] = generation[q], route'[q] = route[q]
  PROVE  FlightKey(q)' = FlightKey(q)
BY DEF FlightKey, CacheKey

\* A query that has loaded its route holds one that was published.
LEMMA RouteIsPublished ==
  ASSUME TypeOK, RoutesInOrder, NEW q \in Queries, pc[q] \notin Unrouted
  PROVE  route[q] \in Routes
BY BoundAssumption DEF TypeOK, RoutesInOrder, Routes

-----------------------------------------------------------------------------
\* Types.

\* The initial states are typed.
LEMMA TypeInit == Init => TypeInv
BY BoundAssumption
   DEF Init, TypeInv, TypeOK, FollowsAQuery, Phases, Replies, Parts, Routes,
       Upstreams, Tokens

\* Every step keeps the types.
LEMMA TypeStep == TypeInv /\ [Next]_vars => TypeInv'
<1> SUFFICES ASSUME TypeInv, [Next]_vars
             PROVE  TypeInv'
  OBVIOUS
<1> USE BoundAssumption
    DEF TypeInv, TypeOK, FollowsAQuery, Phases, Replies, Parts, Answers, Routes,
        Upstreams, Goto, Answer, vars, queryVars, workVars, ctlVars
<1>1. ASSUME NEW q \in Queries, ReadGeneration(q)
      PROVE  TypeInv'
  BY <1>1 DEF ReadGeneration
<1>2. ASSUME NEW q \in Queries, LoadRoute(q)
      PROVE  TypeInv'
  BY <1>2 DEF LoadRoute
<1>3. ASSUME NEW q \in Queries, BeginQuery(q)
      PROVE  TypeInv'
  <2>1. active' \in [Routes -> SUBSET Tokens]
    BY <1>3, TokenOfQuery, GateUpdate DEF BeginQuery, Admit
  <2> QED
    BY <1>3, <2>1 DEF BeginQuery
<1>4. ASSUME NEW q \in Queries, CacheHit(q)
      PROVE  TypeInv'
  BY <1>4 DEF CacheHit, CacheEntries, Live
<1>5. ASSUME NEW q \in Queries, CacheMiss(q)
      PROVE  TypeInv'
  BY <1>5 DEF CacheMiss, CacheEntries
<1>6. ASSUME NEW q \in Queries, JoinFlight(q)
      PROVE  TypeInv'
  BY <1>6 DEF JoinFlight, Flights
<1>7. ASSUME NEW q \in Queries, LeadFlight(q)
      PROVE  TypeInv'
  BY <1>7 DEF LeadFlight, Flights
<1>8. ASSUME NEW q \in Queries, FollowerWakes(q)
      PROVE  TypeInv'
  BY <1>8 DEF FollowerWakes, Live
<1>9. ASSUME NEW q \in Queries, FollowerGivesUp(q)
      PROVE  TypeInv'
  BY <1>9 DEF FollowerGivesUp
<1>10. ASSUME NEW q \in Queries, AcquireSlot(q)
      PROVE  TypeInv'
  BY <1>10 DEF AcquireSlot
<1>11. ASSUME NEW q \in Queries, SlotTimeout(q)
      PROVE  TypeInv'
  BY <1>11 DEF SlotTimeout
<1>12. ASSUME NEW q \in Queries, SpawnRace(q)
      PROVE  TypeInv'
  BY <1>12 DEF SpawnRace, Racing
<1>13. ASSUME NEW q \in Queries, ForwardSucceeds(q)
      PROVE  TypeInv'
  BY <1>13 DEF ForwardSucceeds, Workers
<1>14. ASSUME NEW q \in Queries, ForwardFails(q)
      PROVE  TypeInv'
  BY <1>14 DEF ForwardFails
<1>15. ASSUME NEW q \in Queries, Settle(q)
      PROVE  TypeInv'
  BY <1>15 DEF Settle, Verdict, CachePut, CacheEntries
<1>16. ASSUME NEW q \in Queries, Unregister(q)
      PROVE  TypeInv'
  BY <1>16 DEF Unregister, Flights
<1>17. ASSUME NEW q \in Queries, Return(q)
      PROVE  TypeInv'
  <2>1. active' \in [Routes -> SUBSET Tokens]
    BY <1>17, TokenOfQuery, GateUpdate DEF Return, Release
  <2> QED
    BY <1>17, <2>1 DEF Return, Verdict
<1>18. ASSUME NEW q \in Queries, ClientGivesUp(q)
      PROVE  TypeInv'
  BY <1>18 DEF ClientGivesUp
<1>19. ASSUME NEW q \in Queries, RetirementReaches(q)
      PROVE  TypeInv'
  BY <1>19 DEF RetirementReaches
<1>20. ASSUME NEW q \in Queries, CacheDrop(q)
      PROVE  TypeInv'
  BY <1>20 DEF CacheDrop
<1>21. ASSUME NEW q \in Queries, NEW u \in Upstreams, TryNext(q, u)
      PROVE  TypeInv'
  BY <1>21 DEF TryNext
<1>22. ASSUME NEW q \in Queries, NEW u \in Upstreams, ExchangeBegins(q, u)
      PROVE  TypeInv'
  <2>1. active' \in [Routes -> SUBSET Tokens]
    BY <1>22, TokenOfQuery, GateUpdate DEF ExchangeBegins, Admit
  <2> QED
    BY <1>22, <2>1 DEF ExchangeBegins
<1>23. ASSUME NEW q \in Queries, NEW u \in Upstreams, ExchangeRefused(q, u)
      PROVE  TypeInv'
  BY <1>23 DEF ExchangeRefused
<1>24. ASSUME NEW q \in Queries, NEW u \in Upstreams, ExchangeAnswers(q, u)
      PROVE  TypeInv'
  <2>1. active' \in [Routes -> SUBSET Tokens]
    BY <1>24, TokenOfQuery, GateUpdate DEF ExchangeAnswers, Release
  <2> QED
    BY <1>24, <2>1 DEF ExchangeAnswers
<1>25. ASSUME NEW q \in Queries, NEW u \in Upstreams, ExchangeFails(q, u)
      PROVE  TypeInv'
  <2>1. active' \in [Routes -> SUBSET Tokens]
    BY <1>25, TokenOfQuery, GateUpdate DEF ExchangeFails, Release
  <2> QED
    BY <1>25, <2>1 DEF ExchangeFails
<1>26. CASE StoreIndex
  BY <1>26 DEF StoreIndex
<1>27. CASE PublishRoute
  BY <1>27 DEF PublishRoute
<1>28. CASE Shutdown
  BY <1>28 DEF Shutdown
<1>29. CASE RetireRoute
  BY <1>29 DEF RetireRoute
<1>30. CASE CloseReturns
  BY <1>30 DEF CloseReturns
<1>31. CASE UNCHANGED vars
  BY <1>31
<1> QED
  BY <1>1, <1>2, <1>3, <1>4, <1>5, <1>6, <1>7, <1>8, <1>9, <1>10, <1>11,
     <1>12, <1>13, <1>14, <1>15, <1>16, <1>17, <1>18, <1>19, <1>20, <1>21,
     <1>22, <1>23, <1>24, <1>25, <1>26, <1>27, <1>28, <1>29, <1>30, <1>31
  DEF Next, Step, Exchange, Control, Idle

\* Resolver's variables have their types: TypeOK, the lookups of the code never
\* leaving their maps.
THEOREM TypeCorrect == Spec => []TypeOK
<1>1. Spec => []TypeInv
  BY TypeInit, TypeStep, PTL DEF Spec
<1>2. TypeInv => TypeOK
  BY DEF TypeInv
<1> QED
  BY <1>1, <1>2, PTL

-----------------------------------------------------------------------------
\* Route admission.

\* No route is in use initially.
LEMMA RouteInit == Init => RouteInv
BY BoundAssumption
   DEF Init, RouteInv, RoutesInOrder, WorkIsAdmitted, ClosedIsEmpty, Unrouted,
       Resolving, Routes, Upstreams

\* Every step keeps work admitted and closed routes empty.
LEMMA RouteStep == TypeInv /\ RouteInv /\ [Next]_vars => RouteInv'
<1> SUFFICES ASSUME TypeInv, RouteInv, [Next]_vars
             PROVE  RouteInv'
  OBVIOUS
<1> USE BoundAssumption
    DEF TypeInv, TypeOK, RouteInv, RoutesInOrder, WorkIsAdmitted, ClosedIsEmpty,
        Unrouted, Resolving, Goto, Answer, vars, queryVars,
        workVars, ctlVars
<1>1. ASSUME NEW q \in Queries, ReadGeneration(q)
      PROVE  RouteInv'
  BY <1>1 DEF ReadGeneration
<1>2. ASSUME NEW q \in Queries, LoadRoute(q)
      PROVE  RouteInv'
  BY <1>2 DEF LoadRoute, Routes
<1>3. ASSUME NEW q \in Queries, BeginQuery(q)
      PROVE  RouteInv'
  <2>1. route[q] \in Routes
    BY <1>3, RouteIsPublished DEF BeginQuery
  <2>2. CASE Live(q) /\ CanBegin(route[q])
    <3>1. /\ active'[route[q]] = active[route[q]] \cup {<<q, 0>>}
          /\ \A g \in Routes \ {route[q]} : active'[g] = active[g]
      BY <1>3, <2>1, <2>2, GateEffect DEF BeginQuery, Admit
    <3>2. RoutesInOrder'
      BY <1>3, <2>2 DEF BeginQuery
    <3>3. WorkIsAdmitted'
      <4> HIDE DEF RoutesInOrder, ClosedIsEmpty
      <4>1. \A g \in Routes : active[g] \subseteq active'[g]
        BY <2>1, <3>1
      <4>2. \A p \in Queries : pc[p] \notin Unrouted => route[p] \in Routes
        BY RouteIsPublished
      <4> QED
        BY <1>3, <2>1, <2>2, <3>1, <4>1, <4>2 DEF BeginQuery
    <3>4. ClosedIsEmpty'
      BY <1>3, <2>1, <2>2, <3>1 DEF BeginQuery, CanBegin
    <3> QED
      BY <3>2, <3>3, <3>4
  <2>3. CASE ~(Live(q) /\ CanBegin(route[q]))
    BY <1>3, <2>3 DEF BeginQuery
  <2> QED
    BY <2>2, <2>3
<1>4. ASSUME NEW q \in Queries, CacheHit(q)
      PROVE  RouteInv'
  BY <1>4 DEF CacheHit, CacheEntries, Live
<1>5. ASSUME NEW q \in Queries, CacheMiss(q)
      PROVE  RouteInv'
  BY <1>5 DEF CacheMiss, CacheEntries
<1>6. ASSUME NEW q \in Queries, JoinFlight(q)
      PROVE  RouteInv'
  BY <1>6 DEF JoinFlight, Flights
<1>7. ASSUME NEW q \in Queries, LeadFlight(q)
      PROVE  RouteInv'
  BY <1>7 DEF LeadFlight, Flights
<1>8. ASSUME NEW q \in Queries, FollowerWakes(q)
      PROVE  RouteInv'
  BY <1>8 DEF FollowerWakes, Live
<1>9. ASSUME NEW q \in Queries, FollowerGivesUp(q)
      PROVE  RouteInv'
  BY <1>9 DEF FollowerGivesUp
<1>10. ASSUME NEW q \in Queries, AcquireSlot(q)
      PROVE  RouteInv'
  BY <1>10 DEF AcquireSlot
<1>11. ASSUME NEW q \in Queries, SlotTimeout(q)
      PROVE  RouteInv'
  BY <1>11 DEF SlotTimeout
<1>12. ASSUME NEW q \in Queries, SpawnRace(q)
      PROVE  RouteInv'
  BY <1>12 DEF SpawnRace, Racing
<1>13. ASSUME NEW q \in Queries, ForwardSucceeds(q)
      PROVE  RouteInv'
  BY <1>13 DEF ForwardSucceeds, Workers
<1>14. ASSUME NEW q \in Queries, ForwardFails(q)
      PROVE  RouteInv'
  BY <1>14 DEF ForwardFails
<1>15. ASSUME NEW q \in Queries, Settle(q)
      PROVE  RouteInv'
  BY <1>15 DEF Settle, Verdict, CachePut, CacheEntries
<1>16. ASSUME NEW q \in Queries, Unregister(q)
      PROVE  RouteInv'
  BY <1>16 DEF Unregister, Flights
<1>17. ASSUME NEW q \in Queries, Return(q)
      PROVE  RouteInv'
  <2>1. route[q] \in Routes
    BY <1>17, RouteIsPublished DEF Return
  <2>2. /\ active'[route[q]] = active[route[q]] \ {<<q, 0>>}
        /\ \A g \in Routes \ {route[q]} : active'[g] = active[g]
    BY <1>17, <2>1, GateEffect DEF Return, Release
  <2>3. RoutesInOrder'
    BY <1>17 DEF Return
  <2>4. WorkIsAdmitted'
    <3> HIDE DEF RoutesInOrder, ClosedIsEmpty
    <3>1. \A g \in Routes : \A t \in active[g] : t # <<q, 0>> => t \in active'[g]
      BY <2>1, <2>2
    <3>2. \A p \in Queries : pc[p] \notin Unrouted => route[p] \in Routes
      BY RouteIsPublished
    <3>3. \A p \in Queries :
            pc'[p] \in Resolving => <<p, 0>> \in active'[route'[p]]
      BY <1>17, <2>1, <2>2, <3>1, <3>2 DEF Return, Upstreams
    <3>4. \A p \in Queries : \A w \in Upstreams :
            part'[p][w] = "running" => <<p, w>> \in active'[route'[p]]
      BY <1>17, <3>1, <3>2, TokensDiffer DEF Return
    <3>5. \A p \in Queries : \A w \in Upstreams :
            part'[p][w] # "idle" =>
              pc'[p] \in {"exchange", "settle", "unregister", "leaving", "done"}
      BY <1>17 DEF Return
    <3> QED
      BY <3>3, <3>4, <3>5
  <2>5. ClosedIsEmpty'
    BY <1>17, <2>1, <2>2 DEF Return
  <2> QED
    BY <2>3, <2>4, <2>5
<1>18. ASSUME NEW q \in Queries, ClientGivesUp(q)
      PROVE  RouteInv'
  BY <1>18 DEF ClientGivesUp
<1>19. ASSUME NEW q \in Queries, RetirementReaches(q)
      PROVE  RouteInv'
  BY <1>19 DEF RetirementReaches
<1>20. ASSUME NEW q \in Queries, CacheDrop(q)
      PROVE  RouteInv'
  BY <1>20 DEF CacheDrop
<1>21. ASSUME NEW q \in Queries, NEW u \in Upstreams, TryNext(q, u)
      PROVE  RouteInv'
  BY <1>21 DEF TryNext
<1>22. ASSUME NEW q \in Queries, NEW u \in Upstreams, ExchangeBegins(q, u)
      PROVE  RouteInv'
  <2>1. route[q] \in Routes
    BY <1>22, RouteIsPublished DEF ExchangeBegins
  <2>2. /\ active'[route[q]] = active[route[q]] \cup {<<q, u>>}
        /\ \A g \in Routes \ {route[q]} : active'[g] = active[g]
    BY <1>22, <2>1, GateEffect DEF ExchangeBegins, Admit
  <2>3. RoutesInOrder'
    BY <1>22 DEF ExchangeBegins
  <2>4. WorkIsAdmitted'
    <3> HIDE DEF RoutesInOrder, ClosedIsEmpty
    <3>1. \A g \in Routes : \A t \in active[g] : t # <<q, u>> => t \in active'[g]
      BY <2>1, <2>2
    <3>2. \A p \in Queries : pc[p] \notin Unrouted => route[p] \in Routes
      BY RouteIsPublished
    <3>3. \A p \in Queries : \A w \in Upstreams :
            p # q \/ w # u => part'[p][w] = part[p][w]
      BY <1>22 DEF ExchangeBegins
    <3>4. \A p \in Queries :
            pc'[p] \in Resolving => <<p, 0>> \in active'[route'[p]]
      BY <1>22, <3>1, <3>2, TokensDiffer DEF ExchangeBegins
    <3>5. \A p \in Queries : \A w \in Upstreams :
            part'[p][w] = "running" => <<p, w>> \in active'[route'[p]]
      BY <1>22, <2>1, <2>2, <3>1, <3>2, <3>3, TokensDiffer DEF ExchangeBegins, Answers
    <3>6. \A p \in Queries : \A w \in Upstreams :
            part'[p][w] # "idle" =>
              pc'[p] \in {"exchange", "settle", "unregister", "leaving", "done"}
      BY <1>22 DEF ExchangeBegins
    <3> QED
      BY <3>4, <3>5, <3>6
  <2>5. ClosedIsEmpty'
    BY <1>22, <2>1, <2>2 DEF ExchangeBegins, CanBegin
  <2> QED
    BY <2>3, <2>4, <2>5
<1>23. ASSUME NEW q \in Queries, NEW u \in Upstreams, ExchangeRefused(q, u)
      PROVE  RouteInv'
  BY <1>23 DEF ExchangeRefused
<1>24. ASSUME NEW q \in Queries, NEW u \in Upstreams, ExchangeAnswers(q, u)
      PROVE  RouteInv'
  <2>1. route[q] \in Routes
    BY <1>24, RouteIsPublished DEF ExchangeAnswers
  <2>2. /\ active'[route[q]] = active[route[q]] \ {<<q, u>>}
        /\ \A g \in Routes \ {route[q]} : active'[g] = active[g]
    BY <1>24, <2>1, GateEffect DEF ExchangeAnswers, Release
  <2>3. RoutesInOrder'
    BY <1>24 DEF ExchangeAnswers
  <2>4. WorkIsAdmitted'
    <3> HIDE DEF RoutesInOrder, ClosedIsEmpty
    <3>1. \A g \in Routes : \A t \in active[g] : t # <<q, u>> => t \in active'[g]
      BY <2>1, <2>2
    <3>2. \A p \in Queries : pc[p] \notin Unrouted => route[p] \in Routes
      BY RouteIsPublished
    <3>3. \A p \in Queries : \A w \in Upstreams :
            p # q \/ w # u => part'[p][w] = part[p][w]
      BY <1>24 DEF ExchangeAnswers
    <3>4. part'[q][u] # "running" /\ route' = route
      BY <1>24 DEF ExchangeAnswers, Answers
    <3>5. \A p \in Queries :
            pc'[p] \in Resolving => <<p, 0>> \in active'[route'[p]]
      BY <1>24, <3>1, <3>2, TokensDiffer DEF ExchangeAnswers
    <3>6. \A p \in Queries : \A w \in Upstreams :
            part'[p][w] = "running" => <<p, w>> \in active'[route'[p]]
      <4> SUFFICES ASSUME NEW p \in Queries, NEW w \in Upstreams,
                          part'[p][w] = "running"
                   PROVE  <<p, w>> \in active'[route'[p]]
        OBVIOUS
      <4>1. part[p][w] = "running" /\ <<p, w>> # <<q, u>>
        BY <3>3, <3>4, TokensDiffer
      <4>2. <<p, w>> \in active[route[p]] /\ route[p] \in Routes
        BY <4>1, <3>2
      <4> QED
        BY <4>1, <4>2, <3>1, <3>4
    <3>7. \A p \in Queries : \A w \in Upstreams :
            part'[p][w] # "idle" =>
              pc'[p] \in {"exchange", "settle", "unregister", "leaving", "done"}
      BY <1>24 DEF ExchangeAnswers
    <3> QED
      BY <3>5, <3>6, <3>7
  <2>5. ClosedIsEmpty'
    BY <1>24, <2>1, <2>2 DEF ExchangeAnswers
  <2> QED
    BY <2>3, <2>4, <2>5
<1>25. ASSUME NEW q \in Queries, NEW u \in Upstreams, ExchangeFails(q, u)
      PROVE  RouteInv'
  <2>1. route[q] \in Routes
    BY <1>25, RouteIsPublished DEF ExchangeFails
  <2>2. /\ active'[route[q]] = active[route[q]] \ {<<q, u>>}
        /\ \A g \in Routes \ {route[q]} : active'[g] = active[g]
    BY <1>25, <2>1, GateEffect DEF ExchangeFails, Release
  <2>3. RoutesInOrder'
    BY <1>25 DEF ExchangeFails
  <2>4. WorkIsAdmitted'
    <3> HIDE DEF RoutesInOrder, ClosedIsEmpty
    <3>1. \A g \in Routes : \A t \in active[g] : t # <<q, u>> => t \in active'[g]
      BY <2>1, <2>2
    <3>2. \A p \in Queries : pc[p] \notin Unrouted => route[p] \in Routes
      BY RouteIsPublished
    <3>3. \A p \in Queries : \A w \in Upstreams :
            p # q \/ w # u => part'[p][w] = part[p][w]
      BY <1>25 DEF ExchangeFails
    <3>4. part'[q][u] # "running" /\ route' = route
      BY <1>25 DEF ExchangeFails, Answers
    <3>5. \A p \in Queries :
            pc'[p] \in Resolving => <<p, 0>> \in active'[route'[p]]
      BY <1>25, <3>1, <3>2, TokensDiffer DEF ExchangeFails
    <3>6. \A p \in Queries : \A w \in Upstreams :
            part'[p][w] = "running" => <<p, w>> \in active'[route'[p]]
      <4> SUFFICES ASSUME NEW p \in Queries, NEW w \in Upstreams,
                          part'[p][w] = "running"
                   PROVE  <<p, w>> \in active'[route'[p]]
        OBVIOUS
      <4>1. part[p][w] = "running" /\ <<p, w>> # <<q, u>>
        BY <3>3, <3>4, TokensDiffer
      <4>2. <<p, w>> \in active[route[p]] /\ route[p] \in Routes
        BY <4>1, <3>2
      <4> QED
        BY <4>1, <4>2, <3>1, <3>4
    <3>7. \A p \in Queries : \A w \in Upstreams :
            part'[p][w] # "idle" =>
              pc'[p] \in {"exchange", "settle", "unregister", "leaving", "done"}
      BY <1>25 DEF ExchangeFails
    <3> QED
      BY <3>5, <3>6, <3>7
  <2>5. ClosedIsEmpty'
    BY <1>25, <2>1, <2>2 DEF ExchangeFails
  <2> QED
    BY <2>3, <2>4, <2>5
<1>26. CASE StoreIndex
  BY <1>26 DEF StoreIndex
<1>27. CASE PublishRoute
  BY <1>27 DEF PublishRoute
<1>28. CASE Shutdown
  BY <1>28 DEF Shutdown
<1>29. CASE RetireRoute
  BY <1>29 DEF RetireRoute, Routes
<1>30. CASE CloseReturns
  BY <1>30 DEF CloseReturns
<1>31. CASE UNCHANGED vars
  BY <1>31
<1> QED
  BY <1>1, <1>2, <1>3, <1>4, <1>5, <1>6, <1>7, <1>8, <1>9, <1>10, <1>11,
     <1>12, <1>13, <1>14, <1>15, <1>16, <1>17, <1>18, <1>19, <1>20, <1>21,
     <1>22, <1>23, <1>24, <1>25, <1>26, <1>27, <1>28, <1>29, <1>30, <1>31
  DEF Next, Step, Exchange, Control, Idle

\* Once Close of a route has returned, nothing runs on it.
THEOREM ClosedRoutesAreQuiet == Spec => []ClosedRouteIsQuiet
<1>1. Spec => [](TypeInv /\ RouteInv)
  BY TypeInit, TypeStep, RouteInit, RouteStep, PTL DEF Spec
<1>2. TypeInv /\ RouteInv => ClosedRouteIsQuiet
  <2> SUFFICES ASSUME TypeInv, RouteInv, NEW q \in Queries, route[q] \in closed
               PROVE  /\ pc[q] \notin Resolving
                      /\ \A u \in Upstreams : part[q][u] # "running"
    BY DEF ClosedRouteIsQuiet
  <2>1. active[route[q]] = {}
    BY DEF RouteInv, ClosedIsEmpty
  <2> QED
    BY <2>1 DEF RouteInv, WorkIsAdmitted
<1> QED
  BY <1>1, <1>2, PTL

-----------------------------------------------------------------------------
\* Answers.

\* No query has an origin initially.
LEMMA AnswerInit == Init => AnswerInv
BY DEF Init, AnswerInv, OriginIsForThisRequest, StoredWorkIsRouted

\* Every step gives a query an origin that made the same request, or none.
LEMMA AnswerStep == TypeInv /\ AnswerInv /\ [Next]_vars => AnswerInv'
<1> SUFFICES ASSUME TypeInv, AnswerInv, [Next]_vars
             PROVE  AnswerInv'
  OBVIOUS
<1> USE KeysIdentifyRequests
    DEF TypeInv, TypeOK, AnswerInv, OriginIsForThisRequest, StoredWorkIsRouted,
        SameRequest, Unrouted, Answers, Goto, Answer, vars, queryVars,
        workVars, ctlVars
<1>1. ASSUME NEW q \in Queries, ReadGeneration(q)
      PROVE  AnswerInv'
  BY <1>1 DEF ReadGeneration
<1>2. ASSUME NEW q \in Queries, LoadRoute(q)
      PROVE  AnswerInv'
  BY <1>2 DEF LoadRoute, Routes
<1>3. ASSUME NEW q \in Queries, BeginQuery(q)
      PROVE  AnswerInv'
  BY <1>3 DEF BeginQuery, Admit, CanBegin, Live
<1>4. ASSUME NEW q \in Queries, CacheHit(q)
      PROVE  AnswerInv'
  BY <1>4 DEF CacheHit, CacheEntries, Live, Fresh
<1>5. ASSUME NEW q \in Queries, CacheMiss(q)
      PROVE  AnswerInv'
  BY <1>5 DEF CacheMiss, CacheEntries
<1>6. ASSUME NEW q \in Queries, JoinFlight(q)
      PROVE  AnswerInv'
  BY <1>6 DEF JoinFlight, Flights
<1>7. ASSUME NEW q \in Queries, LeadFlight(q)
      PROVE  AnswerInv'
  BY <1>7 DEF LeadFlight, Flights
<1>8. ASSUME NEW q \in Queries, FollowerWakes(q)
      PROVE  AnswerInv'
  BY <1>8 DEF FollowerWakes, Live
<1>9. ASSUME NEW q \in Queries, FollowerGivesUp(q)
      PROVE  AnswerInv'
  BY <1>9 DEF FollowerGivesUp
<1>10. ASSUME NEW q \in Queries, AcquireSlot(q)
      PROVE  AnswerInv'
  BY <1>10 DEF AcquireSlot
<1>11. ASSUME NEW q \in Queries, SlotTimeout(q)
      PROVE  AnswerInv'
  BY <1>11 DEF SlotTimeout
<1>12. ASSUME NEW q \in Queries, SpawnRace(q)
      PROVE  AnswerInv'
  BY <1>12 DEF SpawnRace, Racing
<1>13. ASSUME NEW q \in Queries, ForwardSucceeds(q)
      PROVE  AnswerInv'
  BY <1>13 DEF ForwardSucceeds, Workers
<1>14. ASSUME NEW q \in Queries, ForwardFails(q)
      PROVE  AnswerInv'
  BY <1>14 DEF ForwardFails
<1>15. ASSUME NEW q \in Queries, Settle(q)
      PROVE  AnswerInv'
  BY <1>15 DEF Settle, Verdict, CachePut, CacheEntries
<1>16. ASSUME NEW q \in Queries, Unregister(q)
      PROVE  AnswerInv'
  BY <1>16 DEF Unregister, Flights
<1>17. ASSUME NEW q \in Queries, Return(q)
      PROVE  AnswerInv'
  BY <1>17 DEF Return, Release, Verdict
<1>18. ASSUME NEW q \in Queries, ClientGivesUp(q)
      PROVE  AnswerInv'
  BY <1>18 DEF ClientGivesUp
<1>19. ASSUME NEW q \in Queries, RetirementReaches(q)
      PROVE  AnswerInv'
  BY <1>19 DEF RetirementReaches
<1>20. ASSUME NEW q \in Queries, CacheDrop(q)
      PROVE  AnswerInv'
  BY <1>20 DEF CacheDrop
<1>21. ASSUME NEW q \in Queries, NEW u \in Upstreams, TryNext(q, u)
      PROVE  AnswerInv'
  BY <1>21 DEF TryNext
<1>22. ASSUME NEW q \in Queries, NEW u \in Upstreams, ExchangeBegins(q, u)
      PROVE  AnswerInv'
  BY <1>22 DEF ExchangeBegins, Admit, CanBegin, Live
<1>23. ASSUME NEW q \in Queries, NEW u \in Upstreams, ExchangeRefused(q, u)
      PROVE  AnswerInv'
  BY <1>23 DEF ExchangeRefused
<1>24. ASSUME NEW q \in Queries, NEW u \in Upstreams, ExchangeAnswers(q, u)
      PROVE  AnswerInv'
  BY <1>24 DEF ExchangeAnswers, Release, Live
<1>25. ASSUME NEW q \in Queries, NEW u \in Upstreams, ExchangeFails(q, u)
      PROVE  AnswerInv'
  BY <1>25 DEF ExchangeFails, Release
<1>26. CASE StoreIndex
  BY <1>26 DEF StoreIndex
<1>27. CASE PublishRoute
  BY <1>27 DEF PublishRoute
<1>28. CASE Shutdown
  BY <1>28 DEF Shutdown
<1>29. CASE RetireRoute
  BY <1>29 DEF RetireRoute
<1>30. CASE CloseReturns
  BY <1>30 DEF CloseReturns
<1>31. CASE UNCHANGED vars
  BY <1>31
<1> QED
  BY <1>1, <1>2, <1>3, <1>4, <1>5, <1>6, <1>7, <1>8, <1>9, <1>10, <1>11,
     <1>12, <1>13, <1>14, <1>15, <1>16, <1>17, <1>18, <1>19, <1>20, <1>21,
     <1>22, <1>23, <1>24, <1>25, <1>26, <1>27, <1>28, <1>29, <1>30, <1>31
  DEF Next, Step, Exchange, Control, Idle

\* Every answer, cached, shared or fetched, was obtained for the request of the
\* client it goes to.
THEOREM AnswersAreForTheRequest == Spec => []AnswerIsForThisRequest
<1>1. Spec => [](TypeInv /\ AnswerInv)
  BY TypeInit, TypeStep, AnswerInit, AnswerStep, PTL DEF Spec
<1>2. AnswerInv => AnswerIsForThisRequest
  BY DEF AnswerInv, OriginIsForThisRequest, SameRequest, AnswerIsForThisRequest
<1> QED
  BY <1>1, <1>2, PTL

-----------------------------------------------------------------------------
\* Flights.

\* No flight exists initially.
LEMMA FlightInit == Init => FlightInv
BY DEF Init, FlightInv, LeadersAreRegistered, FlightsAreDistinct, LeadersSettle,
       LeadersOfFollowers, Leading

\* Every step keeps the flights distinct and their followers waited for.
LEMMA FlightStep == TypeInv /\ FlightInv /\ [Next]_vars => FlightInv'
<1> SUFFICES ASSUME TypeInv, FlightInv, [Next]_vars
             PROVE  FlightInv'
  OBVIOUS
<1> USE BoundAssumption, KeysAreStable
    DEF TypeInv, TypeOK, FollowsAQuery, FlightInv, LeadersAreRegistered,
        FlightsAreDistinct, LeadersSettle, LeadersOfFollowers, Leading, Settled,
        Answers, Upstreams, Goto, Answer, vars, queryVars, workVars, ctlVars
<1>1. ASSUME NEW q \in Queries, ReadGeneration(q)
      PROVE  FlightInv'
  <2>1. \A p \in registered : FlightKey(p)' = FlightKey(p)
    BY <1>1, KeysAreStable DEF ReadGeneration
  <2>2. FlightsAreDistinct'
    BY <1>1, <2>1 DEF ReadGeneration
  <2> QED
    BY <1>1, <2>2 DEF ReadGeneration
<1>2. ASSUME NEW q \in Queries, LoadRoute(q)
      PROVE  FlightInv'
  <2>1. \A p \in registered : FlightKey(p)' = FlightKey(p)
    BY <1>2, KeysAreStable DEF LoadRoute
  <2>2. FlightsAreDistinct'
    BY <1>2, <2>1 DEF LoadRoute
  <2> QED
    BY <1>2, <2>2 DEF LoadRoute
<1>3. ASSUME NEW q \in Queries, BeginQuery(q)
      PROVE  FlightInv'
  <2>1. \A p \in registered : FlightKey(p)' = FlightKey(p)
    BY <1>3, KeysAreStable DEF BeginQuery
  <2>2. FlightsAreDistinct'
    BY <1>3, <2>1 DEF BeginQuery
  <2>3. /\ pc[q] = "routed" /\ pc'[q] \in {"lookup", "done"}
        /\ \A p \in Queries \ {q} : pc'[p] = pc[p] /\ reply'[p] = reply[p]
        /\ UNCHANGED <<origin, flight, registered>>
    BY <1>3 DEF BeginQuery
  <2>4. LeadersAreRegistered' /\ LeadersSettle'
    BY <2>3
  <2>5. LeadersOfFollowers'
    BY <2>3
  <2> QED
    BY <2>2, <2>4, <2>5
<1>4. ASSUME NEW q \in Queries, CacheHit(q)
      PROVE  FlightInv'
  BY <1>4 DEF CacheHit, CacheEntries, Live
<1>5. ASSUME NEW q \in Queries, CacheMiss(q)
      PROVE  FlightInv'
  BY <1>5 DEF CacheMiss, CacheEntries
<1>6. ASSUME NEW q \in Queries, JoinFlight(q)
      PROVE  FlightInv'
  BY <1>6 DEF JoinFlight, Flights
<1>7. ASSUME NEW q \in Queries, LeadFlight(q)
      PROVE  FlightInv'
  BY <1>7 DEF LeadFlight, Flights
<1>8. ASSUME NEW q \in Queries, FollowerWakes(q)
      PROVE  FlightInv'
  BY <1>8 DEF FollowerWakes, Live
<1>9. ASSUME NEW q \in Queries, FollowerGivesUp(q)
      PROVE  FlightInv'
  BY <1>9 DEF FollowerGivesUp
<1>10. ASSUME NEW q \in Queries, AcquireSlot(q)
      PROVE  FlightInv'
  BY <1>10 DEF AcquireSlot
<1>11. ASSUME NEW q \in Queries, SlotTimeout(q)
      PROVE  FlightInv'
  BY <1>11 DEF SlotTimeout
<1>12. ASSUME NEW q \in Queries, SpawnRace(q)
      PROVE  FlightInv'
  BY <1>12 DEF SpawnRace, Racing
<1>13. ASSUME NEW q \in Queries, ForwardSucceeds(q)
      PROVE  FlightInv'
  BY <1>13 DEF ForwardSucceeds, Workers
<1>14. ASSUME NEW q \in Queries, ForwardFails(q)
      PROVE  FlightInv'
  BY <1>14 DEF ForwardFails
<1>15. ASSUME NEW q \in Queries, Settle(q)
      PROVE  FlightInv'
  BY <1>15 DEF Settle, Verdict, CachePut, CacheEntries
<1>16. ASSUME NEW q \in Queries, Unregister(q)
      PROVE  FlightInv'
  BY <1>16 DEF Unregister, Flights
<1>17. ASSUME NEW q \in Queries, Return(q)
      PROVE  FlightInv'
  BY <1>17 DEF Return, Release, Verdict
<1>18. ASSUME NEW q \in Queries, ClientGivesUp(q)
      PROVE  FlightInv'
  BY <1>18 DEF ClientGivesUp
<1>19. ASSUME NEW q \in Queries, RetirementReaches(q)
      PROVE  FlightInv'
  BY <1>19 DEF RetirementReaches
<1>20. ASSUME NEW q \in Queries, CacheDrop(q)
      PROVE  FlightInv'
  BY <1>20 DEF CacheDrop
<1>21. ASSUME NEW q \in Queries, NEW u \in Upstreams, TryNext(q, u)
      PROVE  FlightInv'
  BY <1>21 DEF TryNext
<1>22. ASSUME NEW q \in Queries, NEW u \in Upstreams, ExchangeBegins(q, u)
      PROVE  FlightInv'
  BY <1>22 DEF ExchangeBegins, Admit, CanBegin, Live
<1>23. ASSUME NEW q \in Queries, NEW u \in Upstreams, ExchangeRefused(q, u)
      PROVE  FlightInv'
  BY <1>23 DEF ExchangeRefused
<1>24. ASSUME NEW q \in Queries, NEW u \in Upstreams, ExchangeAnswers(q, u)
      PROVE  FlightInv'
  BY <1>24 DEF ExchangeAnswers, Release, Live
<1>25. ASSUME NEW q \in Queries, NEW u \in Upstreams, ExchangeFails(q, u)
      PROVE  FlightInv'
  BY <1>25 DEF ExchangeFails, Release
<1>26. CASE StoreIndex
  BY <1>26 DEF StoreIndex
<1>27. CASE PublishRoute
  BY <1>27 DEF PublishRoute
<1>28. CASE Shutdown
  BY <1>28 DEF Shutdown
<1>29. CASE RetireRoute
  BY <1>29 DEF RetireRoute
<1>30. CASE CloseReturns
  BY <1>30 DEF CloseReturns
<1>31. CASE UNCHANGED vars
  BY <1>31
<1> QED
  BY <1>1, <1>2, <1>3, <1>4, <1>5, <1>6, <1>7, <1>8, <1>9, <1>10, <1>11,
     <1>12, <1>13, <1>14, <1>15, <1>16, <1>17, <1>18, <1>19, <1>20, <1>21,
     <1>22, <1>23, <1>24, <1>25, <1>26, <1>27, <1>28, <1>29, <1>30, <1>31
  DEF Next, Step, Exchange, Control, Idle

\* Identical concurrent questions share one flight.
THEOREM FlightsAreShared == Spec => []OneExchangePerFlight
<1>1. Spec => [](TypeInv /\ FlightInv)
  BY TypeInit, TypeStep, FlightInit, FlightStep, PTL DEF Spec
<1>2. FlightInv => OneExchangePerFlight
  BY DEF FlightInv, LeadersAreRegistered, FlightsAreDistinct, Leading,
         OneExchangePerFlight
<1> QED
  BY <1>1, <1>2, PTL

\* No follower waits for a channel nobody will close.
THEOREM FollowersHaveLeaders == Spec => []FollowersAreNotStranded
<1>1. Spec => [](TypeInv /\ FlightInv)
  BY TypeInit, TypeStep, FlightInit, FlightStep, PTL DEF Spec
<1>2. TypeInv /\ FlightInv => FollowersAreNotStranded
  BY DEF TypeInv, FollowsAQuery, FlightInv, LeadersAreRegistered, Leading,
         LeadersOfFollowers, Settled, FollowersAreNotStranded
<1> QED
  BY <1>1, <1>2, PTL

-----------------------------------------------------------------------------
\* Retirement and the route gate.

\* Every step does to the routes what RouteGate allows, and admits nothing to a
\* retired one.
LEMMA GateStep ==
  ASSUME TypeInv, RouteInv, [Next]_vars
  PROVE  /\ [Gate!Next]_(Gate!gateVars)
         /\ \A g \in retired : active'[g] \subseteq active[g]
<1> DEFINE Goal == /\ [Gate!Next]_(Gate!gateVars)
                   /\ \A g \in retired : active'[g] \subseteq active[g]
<1> SUFFICES Goal
  OBVIOUS
<1>a. \A g \in Routes, t \in Tokens :
        Gate!Enter(g, t) \/ Gate!Leave(g, t) => Gate!Next
  BY DEF Gate!Next, Gate!Routes, Routes
<1>b. ASSUME UNCHANGED <<current, retired, closed, active>>
      PROVE  Goal
  BY <1>b DEF Gate!gateVars
<1> USE DEF vars, queryVars, workVars, ctlVars
<1>1. ASSUME NEW q \in Queries, ReadGeneration(q)
      PROVE  Goal
  BY <1>1, <1>b DEF ReadGeneration
<1>2. ASSUME NEW q \in Queries, LoadRoute(q)
      PROVE  Goal
  BY <1>2, <1>b DEF LoadRoute
<1>3. ASSUME NEW q \in Queries, BeginQuery(q)
      PROVE  Goal
  <2>1. CASE Live(q) /\ CanBegin(route[q])
    <3>1. route[q] \in Routes /\ <<q, 0>> \in Tokens
      BY <1>3, <2>1, RouteIsPublished, TokenOfQuery
      DEF BeginQuery, TypeInv, RouteInv, WorkIsAdmitted, Unrouted
    <3>2. route[q] <= current
      BY DEF RouteInv, RoutesInOrder, TypeInv, TypeOK
    <3>3. Gate!Enter(route[q], <<q, 0>>)
      BY <1>3, <2>1, <3>2 DEF BeginQuery, CanBegin, Admit, Gate!Enter
    <3>4. \A g \in retired : active'[g] = active[g]
      BY <1>3, <2>1, <3>1, GateEffect DEF BeginQuery, CanBegin, Admit, TypeInv, TypeOK
    <3> QED
      BY <1>a, <3>1, <3>3, <3>4
  <2>2. CASE ~(Live(q) /\ CanBegin(route[q]))
    BY <1>3, <1>b, <2>2 DEF BeginQuery
  <2> QED
    BY <2>1, <2>2
<1>4. ASSUME NEW q \in Queries, CacheHit(q)
      PROVE  Goal
  BY <1>4, <1>b DEF CacheHit
<1>5. ASSUME NEW q \in Queries, CacheMiss(q)
      PROVE  Goal
  BY <1>5, <1>b DEF CacheMiss
<1>6. ASSUME NEW q \in Queries, JoinFlight(q)
      PROVE  Goal
  BY <1>6, <1>b DEF JoinFlight
<1>7. ASSUME NEW q \in Queries, LeadFlight(q)
      PROVE  Goal
  BY <1>7, <1>b DEF LeadFlight
<1>8. ASSUME NEW q \in Queries, FollowerWakes(q)
      PROVE  Goal
  BY <1>8, <1>b DEF FollowerWakes
<1>9. ASSUME NEW q \in Queries, FollowerGivesUp(q)
      PROVE  Goal
  BY <1>9, <1>b DEF FollowerGivesUp
<1>10. ASSUME NEW q \in Queries, AcquireSlot(q)
      PROVE  Goal
  BY <1>10, <1>b DEF AcquireSlot
<1>11. ASSUME NEW q \in Queries, SlotTimeout(q)
      PROVE  Goal
  BY <1>11, <1>b DEF SlotTimeout
<1>12. ASSUME NEW q \in Queries, SpawnRace(q)
      PROVE  Goal
  BY <1>12, <1>b DEF SpawnRace
<1>13. ASSUME NEW q \in Queries, ForwardSucceeds(q)
      PROVE  Goal
  BY <1>13, <1>b DEF ForwardSucceeds
<1>14. ASSUME NEW q \in Queries, ForwardFails(q)
      PROVE  Goal
  BY <1>14, <1>b DEF ForwardFails
<1>15. ASSUME NEW q \in Queries, Settle(q)
      PROVE  Goal
  BY <1>15, <1>b DEF Settle
<1>16. ASSUME NEW q \in Queries, Unregister(q)
      PROVE  Goal
  BY <1>16, <1>b DEF Unregister
<1>17. ASSUME NEW q \in Queries, Return(q)
      PROVE  Goal
  <2>1. route[q] \in Routes /\ <<q, 0>> \in Tokens
    BY <1>17, RouteIsPublished, TokenOfQuery
    DEF Return, TypeInv, RouteInv, WorkIsAdmitted, Unrouted
  <2>2. Gate!Leave(route[q], <<q, 0>>)
    BY <1>17 DEF Return, Release, Gate!Leave
  <2>3. \A g \in retired : active'[g] \subseteq active[g]
    BY <1>17, <2>1, GateEffect DEF Return, Release, TypeInv, TypeOK
  <2> QED
    BY <1>a, <2>1, <2>2, <2>3
<1>18. ASSUME NEW q \in Queries, ClientGivesUp(q)
      PROVE  Goal
  BY <1>18, <1>b DEF ClientGivesUp
<1>19. ASSUME NEW q \in Queries, RetirementReaches(q)
      PROVE  Goal
  BY <1>19, <1>b DEF RetirementReaches
<1>20. ASSUME NEW q \in Queries, CacheDrop(q)
      PROVE  Goal
  BY <1>20, <1>b DEF CacheDrop
<1>21. ASSUME NEW q \in Queries, NEW u \in Upstreams, TryNext(q, u)
      PROVE  Goal
  BY <1>21, <1>b DEF TryNext
<1>22. ASSUME NEW q \in Queries, NEW u \in Upstreams, ExchangeBegins(q, u)
      PROVE  Goal
  <2>1. route[q] \in Routes /\ <<q, u>> \in Tokens
    BY <1>22, RouteIsPublished, TokenOfQuery
    DEF ExchangeBegins, TypeInv, RouteInv, WorkIsAdmitted, Unrouted
  <2>2. route[q] <= current
    BY DEF RouteInv, RoutesInOrder, TypeInv, TypeOK
  <2>3. Gate!Enter(route[q], <<q, u>>)
    BY <1>22, <2>2 DEF ExchangeBegins, CanBegin, Admit, Gate!Enter
  <2>4. \A g \in retired : active'[g] = active[g]
    BY <1>22, <2>1, GateEffect DEF ExchangeBegins, CanBegin, Admit, TypeInv, TypeOK
  <2> QED
    BY <1>a, <2>1, <2>3, <2>4
<1>23. ASSUME NEW q \in Queries, NEW u \in Upstreams, ExchangeRefused(q, u)
      PROVE  Goal
  BY <1>23, <1>b DEF ExchangeRefused
<1>24. ASSUME NEW q \in Queries, NEW u \in Upstreams, ExchangeAnswers(q, u)
      PROVE  Goal
  <2>1. route[q] \in Routes /\ <<q, u>> \in Tokens
    BY <1>24, RouteIsPublished, TokenOfQuery
    DEF ExchangeAnswers, TypeInv, RouteInv, WorkIsAdmitted, Unrouted
  <2>2. Gate!Leave(route[q], <<q, u>>)
    BY <1>24 DEF ExchangeAnswers, Release, Gate!Leave
  <2>3. \A g \in retired : active'[g] \subseteq active[g]
    BY <1>24, <2>1, GateEffect DEF ExchangeAnswers, Release, TypeInv, TypeOK
  <2> QED
    BY <1>a, <2>1, <2>2, <2>3
<1>25. ASSUME NEW q \in Queries, NEW u \in Upstreams, ExchangeFails(q, u)
      PROVE  Goal
  <2>1. route[q] \in Routes /\ <<q, u>> \in Tokens
    BY <1>25, RouteIsPublished, TokenOfQuery
    DEF ExchangeFails, TypeInv, RouteInv, WorkIsAdmitted, Unrouted
  <2>2. Gate!Leave(route[q], <<q, u>>)
    BY <1>25 DEF ExchangeFails, Release, Gate!Leave
  <2>3. \A g \in retired : active'[g] \subseteq active[g]
    BY <1>25, <2>1, GateEffect DEF ExchangeFails, Release, TypeInv, TypeOK
  <2> QED
    BY <1>a, <2>1, <2>2, <2>3
<1>26. CASE StoreIndex
  BY <1>26, <1>b DEF StoreIndex
<1>27. CASE PublishRoute
  <2>1. Gate!Publish
    BY <1>27 DEF PublishRoute, Gate!Publish
  <2> QED
    BY <1>27, <2>1 DEF PublishRoute, Gate!Next
<1>28. CASE Shutdown
  BY <1>28, <1>b DEF Shutdown
<1>29. CASE RetireRoute
  <2>1. closing <= current
    BY DEF RouteInv, RoutesInOrder, TypeInv, TypeOK
  <2>2. Gate!Retire(closing)
    BY <1>29, <2>1 DEF RetireRoute, Gate!Retire
  <2> QED
    BY <1>29, <2>2 DEF RetireRoute, Gate!Next, Gate!Routes, Routes
<1>30. CASE CloseReturns
  <2>1. CASE closing \in closed
    BY <1>30, <1>b, <2>1 DEF CloseReturns
  <2>2. CASE closing \notin closed
    <3>1. Gate!Close(closing)
      BY <1>30, <2>2 DEF CloseReturns, Gate!Close
    <3>2. closing \in Routes
      BY <1>30 DEF CloseReturns, TypeInv, TypeOK
    <3> QED
      BY <1>30, <3>1, <3>2 DEF CloseReturns, Gate!Next, Gate!Routes, Routes
  <2> QED
    BY <2>1, <2>2
<1>31. CASE UNCHANGED vars
  BY <1>31, <1>b
<1> QED
  BY <1>1, <1>2, <1>3, <1>4, <1>5, <1>6, <1>7, <1>8, <1>9, <1>10, <1>11,
     <1>12, <1>13, <1>14, <1>15, <1>16, <1>17, <1>18, <1>19, <1>20, <1>21,
     <1>22, <1>23, <1>24, <1>25, <1>26, <1>27, <1>28, <1>29, <1>30, <1>31
  DEF Next, Step, Exchange, Control, Idle

\* A route is retired for good.
THEOREM RetiredRoutesAdmitNothing == Spec => NoAdmissionAfterRetirement
<1>1. Spec => [](TypeInv /\ RouteInv)
  BY TypeInit, TypeStep, RouteInit, RouteStep, PTL DEF Spec
<1>2. TypeInv /\ RouteInv /\ [Next]_vars =>
        [\A g \in retired : active'[g] \subseteq active[g]]_vars
  BY GateStep
<1> QED
  BY <1>1, <1>2, PTL DEF Spec, NoAdmissionAfterRetirement

\* The queries, their exchanges and the controller implement RouteGate.
THEOREM GateIsImplemented == Spec => RouteGateHolds
<1>1. Spec => [](TypeInv /\ RouteInv)
  BY TypeInit, TypeStep, RouteInit, RouteStep, PTL DEF Spec
<1>2. Init => Gate!Init
  BY DEF Init, Gate!Init, Routes, Gate!Routes
<1>3. TypeInv /\ RouteInv /\ [Next]_vars => [Gate!Next]_(Gate!gateVars)
  BY GateStep
<1> QED
  BY <1>1, <1>2, <1>3, PTL DEF Spec, RouteGateHolds, Gate!Spec

-----------------------------------------------------------------------------
\* Upstream slots, outside race mode.

\* No slot is held initially.
LEMMA SlotInit == Init => SlotInv
BY BoundAssumption, FS_EmptySet
   DEF Init, SlotInv, SlotsAreCounted, OneAfterTheOther, Upstreams

\* Taking a free slot or giving one back keeps the count within its limit.
LEMMA SlotCount ==
  ASSUME NEW S, IsFiniteSet(S), Cardinality(S) <= MaxInflight, NEW q
  PROVE  /\ IsFiniteSet(S \ {q}) /\ Cardinality(S \ {q}) <= MaxInflight
         /\ Cardinality(S) < MaxInflight =>
              IsFiniteSet(S \cup {q}) /\ Cardinality(S \cup {q}) <= MaxInflight
<1>1. Cardinality(S) \in Nat
  BY FS_CardinalityType
<1>2. /\ IsFiniteSet(S \ {q})
      /\ Cardinality(S \ {q}) = IF q \in S THEN Cardinality(S) - 1
                                           ELSE Cardinality(S)
  BY FS_RemoveElement
<1>3. /\ IsFiniteSet(S \cup {q})
      /\ Cardinality(S \cup {q}) = IF q \in S THEN Cardinality(S)
                                              ELSE Cardinality(S) + 1
  BY FS_AddElement
<1> QED
  BY <1>1, <1>2, <1>3, BoundAssumption

\* Every step keeps the slots counted and the attempts of a query in order.
LEMMA SlotStep ==
  ASSUME Mode # "race", TypeInv, SlotInv, [Next]_vars
  PROVE  SlotInv'
<1> USE BoundAssumption
    DEF TypeInv, TypeOK, SlotInv, SlotsAreCounted, OneAfterTheOther, Unrouted,
        Workers, Answers, Goto, Answer, vars, queryVars, workVars, ctlVars
<1>1. ASSUME NEW q \in Queries, ReadGeneration(q)
      PROVE  SlotInv'
  BY <1>1 DEF ReadGeneration
<1>2. ASSUME NEW q \in Queries, LoadRoute(q)
      PROVE  SlotInv'
  BY <1>2 DEF LoadRoute
<1>3. ASSUME NEW q \in Queries, BeginQuery(q)
      PROVE  SlotInv'
  BY <1>3 DEF BeginQuery, Admit, CanBegin, Live
<1>4. ASSUME NEW q \in Queries, CacheHit(q)
      PROVE  SlotInv'
  BY <1>4 DEF CacheHit, CacheEntries, Live
<1>5. ASSUME NEW q \in Queries, CacheMiss(q)
      PROVE  SlotInv'
  BY <1>5 DEF CacheMiss, CacheEntries
<1>6. ASSUME NEW q \in Queries, JoinFlight(q)
      PROVE  SlotInv'
  BY <1>6 DEF JoinFlight, Flights
<1>7. ASSUME NEW q \in Queries, LeadFlight(q)
      PROVE  SlotInv'
  BY <1>7 DEF LeadFlight, Flights
<1>8. ASSUME NEW q \in Queries, FollowerWakes(q)
      PROVE  SlotInv'
  BY <1>8 DEF FollowerWakes, Live
<1>9. ASSUME NEW q \in Queries, FollowerGivesUp(q)
      PROVE  SlotInv'
  BY <1>9 DEF FollowerGivesUp
<1>10. ASSUME NEW q \in Queries, AcquireSlot(q)
      PROVE  SlotInv'
  <2>1. IsFiniteSet(slots') /\ Cardinality(slots') <= MaxInflight
    BY <1>10, SlotCount DEF AcquireSlot
  <2>2. \A p \in Queries : p \in slots' <=> pc'[p] = "exchange"
    BY <1>10 DEF AcquireSlot
  <2>3. OneAfterTheOther'
    BY <1>10 DEF AcquireSlot, Busy, Racing, Upstreams
  <2> QED
    BY <2>1, <2>2, <2>3
<1>11. ASSUME NEW q \in Queries, SlotTimeout(q)
      PROVE  SlotInv'
  BY <1>11 DEF SlotTimeout
<1>12. ASSUME NEW q \in Queries, SpawnRace(q)
      PROVE  SlotInv'
  BY <1>12 DEF SpawnRace, Racing
<1>13. ASSUME NEW q \in Queries, ForwardSucceeds(q)
      PROVE  SlotInv'
  <2>1. IsFiniteSet(slots') /\ Cardinality(slots') <= MaxInflight
    BY <1>13, SlotCount DEF ForwardSucceeds
  <2>2. \A p \in Queries : p \in slots' <=> pc'[p] = "exchange"
    BY <1>13 DEF ForwardSucceeds
  <2>3. OneAfterTheOther'
    <3>1. PICK u \in Workers(q) : part[q][u] \in Answers
      BY <1>13 DEF ForwardSucceeds
    <3>2. u \in Upstreams
      BY <3>1 DEF Upstreams
    <3>3. \A w \in Upstreams : part[q][w] # "running"
      <4> TAKE w \in Upstreams
      <4>1. w < u \/ w = u \/ u < w
        BY <3>2 DEF Upstreams
      <4> QED
        BY <3>1, <3>2, <4>1
    <3> QED
      BY <1>13, <3>3 DEF ForwardSucceeds
  <2> QED
    BY <2>1, <2>2, <2>3
<1>14. ASSUME NEW q \in Queries, ForwardFails(q)
      PROVE  SlotInv'
  <2>1. IsFiniteSet(slots') /\ Cardinality(slots') <= MaxInflight
    BY <1>14, SlotCount DEF ForwardFails
  <2>2. \A p \in Queries : p \in slots' <=> pc'[p] = "exchange"
    BY <1>14 DEF ForwardFails
  <2>3. OneAfterTheOther'
    BY <1>14 DEF ForwardFails, Busy, Racing, Upstreams
  <2> QED
    BY <2>1, <2>2, <2>3
<1>15. ASSUME NEW q \in Queries, Settle(q)
      PROVE  SlotInv'
  BY <1>15 DEF Settle, Verdict, CachePut, CacheEntries
<1>16. ASSUME NEW q \in Queries, Unregister(q)
      PROVE  SlotInv'
  BY <1>16 DEF Unregister, Flights
<1>17. ASSUME NEW q \in Queries, Return(q)
      PROVE  SlotInv'
  BY <1>17 DEF Return, Release, Verdict
<1>18. ASSUME NEW q \in Queries, ClientGivesUp(q)
      PROVE  SlotInv'
  BY <1>18 DEF ClientGivesUp
<1>19. ASSUME NEW q \in Queries, RetirementReaches(q)
      PROVE  SlotInv'
  BY <1>19 DEF RetirementReaches
<1>20. ASSUME NEW q \in Queries, CacheDrop(q)
      PROVE  SlotInv'
  BY <1>20 DEF CacheDrop
<1>21. ASSUME NEW q \in Queries, NEW u \in Upstreams, TryNext(q, u)
      PROVE  SlotInv'
  BY <1>21 DEF TryNext, Upstreams
<1>22. ASSUME NEW q \in Queries, NEW u \in Upstreams, ExchangeBegins(q, u)
      PROVE  SlotInv'
  BY <1>22 DEF ExchangeBegins, Admit, CanBegin, Live
<1>23. ASSUME NEW q \in Queries, NEW u \in Upstreams, ExchangeRefused(q, u)
      PROVE  SlotInv'
  BY <1>23 DEF ExchangeRefused
<1>24. ASSUME NEW q \in Queries, NEW u \in Upstreams, ExchangeAnswers(q, u)
      PROVE  SlotInv'
  BY <1>24 DEF ExchangeAnswers, Release, Live
<1>25. ASSUME NEW q \in Queries, NEW u \in Upstreams, ExchangeFails(q, u)
      PROVE  SlotInv'
  BY <1>25 DEF ExchangeFails, Release
<1>26. CASE StoreIndex
  BY <1>26 DEF StoreIndex
<1>27. CASE PublishRoute
  BY <1>27 DEF PublishRoute
<1>28. CASE Shutdown
  BY <1>28 DEF Shutdown
<1>29. CASE RetireRoute
  BY <1>29 DEF RetireRoute
<1>30. CASE CloseReturns
  BY <1>30 DEF CloseReturns
<1>31. CASE UNCHANGED vars
  BY <1>31
<1> QED
  BY <1>1, <1>2, <1>3, <1>4, <1>5, <1>6, <1>7, <1>8, <1>9, <1>10, <1>11,
     <1>12, <1>13, <1>14, <1>15, <1>16, <1>17, <1>18, <1>19, <1>20, <1>21,
     <1>22, <1>23, <1>24, <1>25, <1>26, <1>27, <1>28, <1>29, <1>30, <1>31
  DEF Next, Step, Exchange, Control, Idle

\* The exchanges under way are no more than the slots held.
LEMMA ExchangesHoldSlots ==
  ASSUME TypeInv, SlotInv
  PROVE  ExchangesBounded
<1> DEFINE holder == [t \in Exchanging |-> t[1]]
<1>1. ASSUME NEW t \in Exchanging
      PROVE  /\ t[1] \in Queries /\ t[2] \in Upstreams /\ t = <<t[1], t[2]>>
             /\ part[t[1]][t[2]] = "running"
             /\ t[1] \in slots
  <2>1. /\ t[1] \in Queries /\ t[2] \in Upstreams /\ t = <<t[1], t[2]>>
        /\ part[t[1]][t[2]] = "running"
    BY <1>1, BoundAssumption DEF Exchanging, Tokens, Upstreams
  <2> QED
    BY <2>1 DEF SlotInv, SlotsAreCounted, OneAfterTheOther
<1>2. ASSUME NEW s \in Exchanging, NEW t \in Exchanging, s[1] = t[1]
      PROVE  s = t
  <2>1. ~(s[2] < t[2]) /\ ~(t[2] < s[2])
    BY <1>1, <1>2 DEF SlotInv, OneAfterTheOther
  <2>2. s[2] \in Nat /\ t[2] \in Nat
    BY <1>1, BoundAssumption DEF Upstreams
  <2>3. s[2] = t[2]
    BY <2>1, <2>2
  <2> QED
    BY <1>1, <1>2, <2>3
<1>3. holder \in Injection(Exchanging, slots)
  <2>1. holder \in [Exchanging -> slots]
    BY <1>1
  <2>2. \A s, t \in Exchanging : holder[s] = holder[t] => s = t
    BY <1>2
  <2> QED
    BY <2>1, <2>2 DEF Injection, IsInjective
<1>4. IsFiniteSet(slots) /\ Cardinality(slots) <= MaxInflight
  BY DEF SlotInv, SlotsAreCounted
<1>5. IsFiniteSet(Exchanging) /\ Cardinality(Exchanging) <= Cardinality(slots)
  BY <1>3, <1>4, FS_Injection
<1> QED
  BY <1>4, <1>5, FS_CardinalityType, BoundAssumption DEF ExchangesBounded

\* In failover mode dns.max_inflight bounds the upstream exchanges that run at
\* once: in race mode it does not, for a slot covers one exchange per upstream.
THEOREM FailoverKeepsToMaxInflight ==
  ASSUME Mode # "race"
  PROVE  Spec => []ExchangesBounded
<1>1. Init => SlotInv
  BY SlotInit
<1>2. TypeInv /\ SlotInv /\ [Next]_vars => SlotInv'
  BY SlotStep
<1>3. TypeInv /\ SlotInv => ExchangesBounded
  BY ExchangesHoldSlots
<1> QED
  BY TypeInit, TypeStep, <1>1, <1>2, <1>3, PTL DEF Spec
=============================================================================
