----------------------------- MODULE Recursion -----------------------------
(***************************************************************************)
(* The iterative resolver: one resolution at a time walks delegations from *)
(* the root or a cached zone cut, asks the servers of each zone in turn,   *)
(* looks up nameservers that came without an address, which is a           *)
(* resolution of its own, and follows aliases.  What resolutions share is  *)
(* the cache, whose entries may go at any time.                            *)
(*                                                                         *)
(* The constants are the zones of the world and who serves them.  A        *)
(* nameserver is known by its name and has one address; a list that is     *)
(* tried in order is a set tried in any order.                             *)
(***************************************************************************)
EXTENDS Namespace, Sequences

CONSTANTS
    Nameservers,           \* the nameservers of each zone
    Old,                   \* servers that refer a DS question to the child
    Questions,             \* what clients ask: [owner, type]
    MaxQueries, MaxNSDepth, MaxDelegations, MaxCNAMEs,
    MaxExpiries            \* bound on entries that leave the cache

ASSUME RecursionAssumption ==
    /\ Nameservers \in [Cuts -> SUBSET Tree]
    /\ \A z \in Cuts : IsFiniteSet(Nameservers[z])
    /\ Questions \subseteq [owner : Tree, type : {"A", "NS", "DS"}]
    /\ {MaxQueries, MaxNSDepth, MaxDelegations, MaxCNAMEs, MaxExpiries} \subseteq Nat

VARIABLES
    calls,        \* resolveOnce and the nameserver lookups it waits for
    queries,      \* resolution.queries
    hops,         \* the aliases this resolution has followed
    result,       \* what Resolve returned last, or Pending
    asked,        \* the question it was for
    answers,      \* Cache.answers: [question, outcome]
    dels,         \* Cache.dels: the zones whose delegation is held
    addrs,        \* Cache.addrs: the nameservers whose address is held
    expiries

recursionVars == <<calls, queries, hops, result, asked, answers, dels, addrs, expiries>>
cache == <<answers, dels, addrs>>

-----------------------------------------------------------------------------
(* What a server says *)

\* What the zone z says of a name no zone below it holds.
Data(z, n, t) ==
    IF n \in DOMAIN Alias THEN [kind |-> "alias", of |-> Question(n, t)]
    ELSE IF Question(n, t) \in Held \/ (t = "NS" /\ n = z)
      THEN [kind |-> "answer", of |-> Question(n, t)]
    ELSE [kind |-> IF Exists(n) THEN "nodata" ELSE "nxdomain", of |-> Question(n, t)]

\* A server answers from the deepest zone it serves, or refers to the zone cut
\* below that.
Reply(s, n, t) ==
    LET mine == {z \in ZonesFor(n, t) : s \in Nameservers[z]}
        z == Lowest(mine)
        below == {c \in Cuts : /\ StrictlyBelow(z, c) /\ InBailiwick(c, n)
                               /\ t = "DS" /\ c = n => s \in Old}
    IN IF mine = {} THEN [kind |-> "refused", of |-> Question(n, t)]
       ELSE IF below # {} THEN [kind |-> "referral", of |-> Question(Highest(below), "NS")]
       ELSE Data(z, n, t)

\* The addresses a referral may carry: nameservers inside the zone itself.
Glue(z) == {s \in Nameservers[z] : InBailiwick(z, s)}

FaultyMinimised(zone, n, t) ==
    IF n = zone THEN Question(n, t) ELSE Question(NextLabel(zone, n), "NS")

\* minimisedQuestion: the next label down, as an NS question, until that is the
\* name itself.
Minimised(zone, n, t) ==
    IF n = zone \/ n = NextLabel(zone, n) THEN Question(n, t)
    ELSE Question(NextLabel(zone, n), "NS")

-----------------------------------------------------------------------------
Pending == [kind |-> "pending", of |-> Question(Root, "NS")]
Failure(k) == [kind |-> k, of |-> Question(Root, "NS")]

RecursionInit ==
    /\ calls = <<>>
    /\ queries = 0
    /\ hops = {}
    /\ result = Pending
    /\ asked = Question(Root, "NS")
    /\ answers = {} /\ dels = {} /\ addrs = {}
    /\ expiries = 0

\* A call of resolveOnce: its question, the zone whose servers it asks, those
\* known and those left, whether it asks the exact question, the server to ask
\* the full question of, the delegations crossed, the zone cut it looks for
\* servers of, the nameservers left to look up and those found, and the backup
\* nameservers left and tried.
Call(q, t) ==
    [pc |-> "start", q |-> q, t |-> t, zone |-> Root, known |-> {}, left |-> {},
     direct |-> FALSE, server |-> Root, crossed |-> 0, child |-> Root,
     need |-> {}, found |-> {}, backups |-> {}, tried |-> {}, onBackup |-> FALSE]

Top == calls[Len(calls)]
Calling(pc) == calls # <<>> /\ Top.pc = pc
Become(c) == calls' = [calls EXCEPT ![Len(calls)] = c]
Same == UNCHANGED <<hops, result>>

\* serversFor: the address of one more nameserver is known or not; one that had
\* to be looked up is enough.
Informed(c, outcome, s) ==
    LET found == IF outcome.kind = "answer" /\ outcome.of = Question(s, "A")
                 THEN c.found \cup {s} ELSE c.found
    IN [c EXCEPT !.found = found, !.pc = IF found = {} THEN "find" ELSE "found"]

End(outcome) == calls' = <<>> /\ hops' = {} /\ result' = outcome

\* resolveWithAliases, when resolveOnce has an outcome for one name: a name met
\* twice and a chain too long are limits.
Follow(n, t, outcome) ==
    IF outcome.kind # "alias" THEN End(outcome)
    ELSE IF n \in hops \/ Cardinality(hops) >= MaxCNAMEs THEN End(Failure("limit"))
    ELSE /\ calls' = <<Call(Alias[n], t)>>
         /\ hops' = hops \cup {n}
         /\ UNCHANGED result

\* The top call returns to the lookup or the alias chain it was made for; a
\* limit, met anywhere, ends the resolution instead.
Deliver(outcome) ==
    LET below == Len(calls) - 1 IN
    IF below = 0 THEN Follow(Top.q, Top.t, outcome) /\ UNCHANGED addrs
    ELSE /\ calls' = [SubSeq(calls, 1, below) EXCEPT ![below] = Informed(@, outcome, Top.q)]
         /\ addrs' = IF outcome.kind = "answer" /\ outcome.of = Question(Top.q, "A")
                     THEN addrs \cup {Top.q} ELSE addrs
         /\ Same

\* PutMsg: a reply that has a lifetime is kept.
Cached(n, t) == {o \in answers : o.asked = Question(n, t)}
Remember(outcome) ==
    answers' \in {answers,
                  {o \in answers : o.asked # Question(Top.q, Top.t)}
                    \cup {[asked |-> Question(Top.q, Top.t), outcome |-> outcome]}}

\* Resolve is called.
Resolve(r) ==
    /\ calls = <<>>
    /\ calls' = <<Call(r.owner, r.type)>>
    /\ queries' = 0 /\ hops' = {}
    /\ result' = Pending /\ asked' = r
    /\ UNCHANGED <<cache, expiries>>

-----------------------------------------------------------------------------
(* resolveOnce *)

AnswerFromCache ==
    /\ Calling("start")
    /\ \E o \in Cached(Top.q, Top.t) : Deliver(o.outcome)
    /\ UNCHANGED <<queries, asked, answers, dels, expiries>>

\* startingPoint: the deepest delegation held with an address, one label up for
\* a DS, or the root, which may have to be primed.
StartWalk ==
    /\ Calling("start") /\ Cached(Top.q, Top.t) = {}
    /\ LET held == {z \in dels : /\ InBailiwick(z, Top.q) /\ Glue(z) # {}
                                 /\ Top.t = "DS" => z # Top.q}
           z == IF held = {} THEN Root ELSE Lowest(held)
       IN /\ Become([Top EXCEPT !.pc = "ask", !.zone = z, !.known = Glue(z),
                                !.left = Glue(z)])
          /\ dels' \in IF held = {} THEN {dels, dels \cup {Root}} ELSE {dels}
    /\ UNCHANGED <<queries, asked, answers, addrs, expiries, hops, result>>

Probe == IF Top.direct THEN Question(Top.q, Top.t) ELSE Minimised(Top.zone, Top.q, Top.t)
IsReferral(m) == /\ m.kind = "referral" /\ StrictlyBelow(Top.zone, m.of.owner)
                 /\ InBailiwick(m.of.owner, Top.q)

\* A referral to the child for the child's own DS: the same servers are asked
\* the exact question.
AskDirectly(m) ==
    /\ ~Top.direct /\ IsReferral(m) /\ Top.t = "DS" /\ m.of.owner = Top.q
    /\ dels' = dels \cup {Top.q}
    /\ Become([Top EXCEPT !.pc = "ask", !.direct = TRUE, !.left = Top.known,
                          !.onBackup = FALSE])
    /\ UNCHANGED <<answers, addrs, hops, result>>

EnterZone(c, zone, servers) ==
    [c EXCEPT !.pc = "ask", !.zone = zone, !.known = servers, !.left = servers,
              !.crossed = @ + 1, !.child = Root, !.need = {}, !.found = {},
              !.onBackup = FALSE]

\* A referral down: with glue the walk goes on, else the servers of the child
\* are looked up, unless lookups are nested too deep.
FollowReferral(m) ==
    LET z == m.of.owner IN
    /\ ~Top.direct /\ IsReferral(m) /\ ~(Top.t = "DS" /\ z = Top.q)
    /\ UNCHANGED answers
    /\ IF Glue(z) # {}
         THEN /\ dels' = dels \cup {z}
              /\ IF Top.crossed >= MaxDelegations
                   THEN End(Failure("limit"))
                   ELSE Become(EnterZone(Top, z, Glue(z))) /\ Same
              /\ UNCHANGED addrs
         ELSE /\ UNCHANGED <<dels, addrs>>
              /\ IF Len(calls) > MaxNSDepth
                   THEN End(Failure("limit"))
                   ELSE /\ Become([Top EXCEPT !.pc = "find", !.child = z, !.found = {},
                                              !.need = Nameservers[z],
                                              !.onBackup = FALSE])
                        /\ Same

\* Everything else is the answer: withQuestion restates it as one to the
\* question of the call.  A referral that is not followed has no data.
Conclude(m) ==
    /\ ~IsReferral(m) \/ Top.direct
    /\ LET outcome == CASE m.kind = "referral" -> [kind |-> "nodata", of |-> Question(Top.q, Top.t)]
                        [] m.kind \in {"nodata", "nxdomain"} ->
                             [kind |-> m.kind, of |-> Question(Top.q, Top.t)]
                        [] OTHER -> m
       IN Deliver(outcome) /\ Remember(outcome)
    /\ UNCHANGED dels

Receive(m) == AskDirectly(m) \/ FollowReferral(m) \/ Conclude(m)

-----------------------------------------------------------------------------
(* ask: one zone's servers *)

GiveUpOn(s) ==
    /\ Become([Top EXCEPT !.pc = "ask", !.left = @ \ {s}])
    /\ UNCHANGED <<cache, hops, result>>

\* The budget is spent: nothing more is asked.
OutOfBudget ==
    /\ (Calling("ask") /\ Top.left # {}) \/ Calling("full")
    /\ queries >= MaxQueries
    /\ End(Failure("limit"))
    /\ UNCHANGED <<queries, asked, cache, expiries>>

\* A server that fails or refuses is given up for this question; one that has
\* nothing at a name on the way is asked the full question next.
AskNext(s) ==
    /\ Calling("ask") /\ s \in Top.left
    /\ queries < MaxQueries
    /\ queries' = queries + 1
    /\ LET m == Reply(s, Probe.owner, Probe.type) IN
       \/ GiveUpOn(s)
       \/ /\ Probe.owner # Top.q /\ m.kind = "nodata"
          /\ Become([Top EXCEPT !.pc = "full", !.server = s])
          /\ UNCHANGED <<cache, hops, result>>
       \/ /\ m.kind # "refused"
          /\ ~(Probe.owner # Top.q /\ m.kind = "nodata")
          /\ Receive(m)
    /\ UNCHANGED <<asked, expiries>>

AskFull ==
    /\ Calling("full")
    /\ queries < MaxQueries
    /\ queries' = queries + 1
    /\ LET m == Reply(Top.server, Top.q, Top.t) IN
       \/ GiveUpOn(Top.server)
       \/ m.kind # "refused" /\ Receive(m)
    /\ UNCHANGED <<asked, expiries>>

\* askWithBackups: the servers known have failed, and the other nameservers of
\* the delegation held are tried one by one.
TryBackups ==
    /\ Calling("ask") /\ Top.left = {} /\ ~Top.onBackup
    /\ Become([Top EXCEPT !.pc = "backup", !.onBackup = TRUE, !.tried = Top.known,
                          !.backups = IF Top.zone \in dels THEN Nameservers[Top.zone] ELSE {}])
    /\ UNCHANGED <<queries, asked, cache, expiries, hops, result>>

\* One of them has just failed too.
NextBackup ==
    /\ Calling("ask") /\ Top.left = {} /\ Top.onBackup
    /\ Become([Top EXCEPT !.pc = "backup"])
    /\ UNCHANGED <<queries, asked, cache, expiries, hops, result>>

PickBackup(s) ==
    /\ Calling("backup") /\ s \in Top.backups
    /\ LET c == [Top EXCEPT !.backups = @ \ {s}] IN
       CASE s \in Glue(Top.zone) /\ s \in Top.tried -> Become(c) /\ Same
         [] s \in Glue(Top.zone) /\ s \notin Top.tried ->
              Become([c EXCEPT !.pc = "ask", !.left = {s}, !.tried = @ \cup {s}]) /\ Same
         [] s \notin Glue(Top.zone) /\ Len(calls) > MaxNSDepth -> End(Failure("limit"))
         [] OTHER -> Become([c EXCEPT !.pc = "find", !.need = {s}, !.found = {}]) /\ Same
    /\ UNCHANGED <<queries, asked, cache, expiries>>

NoBackupLeft ==
    /\ Calling("backup") /\ Top.backups = {}
    /\ Deliver(Failure("unreachable"))
    /\ UNCHANGED <<queries, asked, answers, dels, expiries>>

-----------------------------------------------------------------------------
(* serversFor: nameservers that came without an address *)

\* A lookup is skipped, but not reported, once the budget is spent.
FindAddress(s) ==
    /\ Calling("find") /\ s \in Top.need
    /\ LET c == [Top EXCEPT !.need = @ \ {s}] IN
       IF s \in addrs THEN Become([c EXCEPT !.found = @ \cup {s}])
       ELSE IF queries >= MaxQueries
         THEN Become(Informed(c, Failure("unreachable"), s))
       ELSE calls' = Append([calls EXCEPT ![Len(calls)] = c], Call(s, "A"))
    /\ UNCHANGED <<queries, asked, cache, expiries, hops, result>>

\* The addresses found: the walk descends, or the backup is asked.
UseAddresses ==
    /\ Calling("found") \/ (Calling("find") /\ Top.need = {} /\ Top.found # {})
    /\ IF Top.onBackup
         THEN /\ Become([Top EXCEPT !.pc = "ask", !.left = Top.found \ Top.tried,
                                    !.tried = @ \cup Top.found, !.found = {}, !.need = {}])
              /\ UNCHANGED dels /\ Same
         ELSE /\ dels' = dels \cup {Top.child}
              /\ IF Top.crossed >= MaxDelegations
                   THEN End(Failure("limit"))
                   ELSE Become(EnterZone(Top, Top.child, Top.found)) /\ Same
    /\ UNCHANGED <<queries, asked, answers, addrs, expiries>>

NoAddress ==
    /\ Calling("find") /\ Top.need = {} /\ Top.found = {}
    /\ IF Top.onBackup
         THEN Become([Top EXCEPT !.pc = "backup"]) /\ UNCHANGED addrs /\ Same
         ELSE Deliver(Failure("unreachable"))
    /\ UNCHANGED <<queries, asked, answers, dels, expiries>>

-----------------------------------------------------------------------------
\* The client gives up; nothing more is asked.
Abandon ==
    /\ calls # <<>>
    /\ End(Failure("cancelled"))
    /\ UNCHANGED <<queries, asked, cache, expiries>>

\* A lifetime ends, or a full map drops an entry.
Lapse ==
    /\ expiries < MaxExpiries
    /\ expiries' = expiries + 1
    /\ \/ \E o \in answers : answers' = answers \ {o} /\ UNCHANGED <<dels, addrs>>
       \/ \E z \in dels : dels' = dels \ {z} /\ UNCHANGED <<answers, addrs>>
       \/ \E s \in addrs : addrs' = addrs \ {s} /\ UNCHANGED <<answers, dels>>
    /\ UNCHANGED <<calls, queries, hops, result, asked>>

RecursionNext ==
    \/ \E r \in Questions : Resolve(r)
    \/ AnswerFromCache \/ StartWalk
    \/ \E s \in Tree : AskNext(s) \/ PickBackup(s) \/ FindAddress(s)
    \/ OutOfBudget \/ AskFull
    \/ TryBackups \/ NextBackup \/ NoBackupLeft
    \/ UseAddresses \/ NoAddress
    \/ Abandon \/ Lapse

RecursionSpec == RecursionInit /\ [][RecursionNext]_recursionVars
-----------------------------------------------------------------------------
Questioned == [owner : Tree, type : {"A", "NS", "DS"}]
Outcome == [kind : {"answer", "alias", "nodata", "nxdomain", "limit", "unreachable",
                    "cancelled", "pending"},
            of : Questioned]

\* Every variable holds a value of its kind; no resolution asks more than its
\* budget and none nests deeper than allowed, retries, backups and nameserver
\* lookups included.
RecursionTypeOK ==
    /\ queries \in 0..MaxQueries
    /\ Len(calls) <= MaxNSDepth + 1
    /\ \A i \in DOMAIN calls :
          /\ calls[i].pc \in {"start", "ask", "full", "backup", "find", "found"}
          /\ i < Len(calls) => calls[i].pc = "find"
          /\ calls[i].zone \in Cuts /\ calls[i].crossed \in 0..MaxDelegations
          /\ InBailiwick(calls[i].zone, calls[i].q)
    /\ hops \subseteq DOMAIN Alias /\ Cardinality(hops) <= MaxCNAMEs
    /\ result \in Outcome
    /\ answers \subseteq [asked : Questioned, outcome : Outcome]
    /\ dels \subseteq Cuts /\ addrs \subseteq Tree
    /\ expiries \in 0..MaxExpiries

\* Where the aliases of a name lead.
Hop(n) ==
    LET hop[k \in 0..MaxCNAMEs] ==
          IF k = 0 THEN n
          ELSE IF hop[k - 1] \in DOMAIN Alias THEN Alias[hop[k - 1]] ELSE hop[k - 1]
    IN hop

Truth(n, t) == Data(Lowest(ZonesFor(n, t)), n, t)

\* What AnswersTheQuestion needs of the world: no server serves a zone and one
\* below it ...
OneZoneEach ==
    \A y, z \in Cuts : StrictlyBelow(y, z) => Nameservers[y] \cap Nameservers[z] = {}

\* ... and one too old to know where DS records are serves no zone that has some.
OldHaveNoDS ==
    \A c \in Cuts \ {Root} :
        Question(c, "DS") \in Held => Nameservers[Lowest(ZonesFor(c, "DS"))] \cap Old = {}

\* Resolve returns what the zone that holds the name says of the question asked,
\* or an error: whatever server failed, was lame or had no address, whatever was
\* cached and has expired, a probe's answer is never given for the question's.
AnswersTheQuestion ==
    result.kind \in {"alias", "answer", "nodata", "nxdomain"} =>
        \E k \in 0..MaxCNAMEs :
            /\ Hop(asked.owner)[k] \notin DOMAIN Alias
            /\ result = Truth(Hop(asked.owner)[k], asked.type)
=============================================================================
