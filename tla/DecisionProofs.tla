--------------------------- MODULE DecisionProofs ---------------------------
(***************************************************************************)
(* Theorems about how a query is decided.  About QueryDecision, for any    *)
(* networks, policies, ranges, clients and edits: attribution finds the    *)
(* network that owns the longest prefix, and a query is decided as a       *)
(* configuration it saw says.  About ProviderEngine, for any workers,      *)
(* administrators, queue and number of edits: what may be committed and    *)
(* which verdicts queries are answered with.                               *)
(***************************************************************************)
EXTENDS ProviderEngine, QueryDecision, FiniteSetTheorems, WellFoundedInduction, TLAPS

(* Least and greatest elements *)

\* The order of the naturals, and that a set of naturals has a least element.
LEMMA NatDescent ==
    \E R : IsWellFoundedOn(R, Nat) /\ \A m, n \in Nat : m < n => <<m, n>> \in R
<1>1. \A m, n \in Nat : m < n => <<m, n>> \in OpToRel(<, Nat)
  BY DEF OpToRel
<1> QED BY <1>1, NatLessThanWellFounded, Zenon

LEMMA SmallestNat ==
    ASSUME NEW S \in SUBSET Nat, S # {}
    PROVE  \E n \in S : \A m \in S : n <= m
<1>1. PICK R : IsWellFoundedOn(R, Nat) /\ \A m, n \in Nat : m < n => <<m, n>> \in R
  BY NatDescent
<1>2. IsWellFoundedOn(R, Nat) /\ S \subseteq Nat
  BY <1>1, Zenon
<1>3. PICK n \in S : \A m \in S : ~ (<<m, n>> \in R)
  BY <1>2, WFMin, Zenon
<1>4. ASSUME NEW m \in S PROVE n <= m
  <2>1. ~ (m < n)
    BY <1>1, <1>3, Zenon
  <2> QED BY <2>1
<1> QED BY <1>4

\* Of the elements of a set one has the least rank ...
LEMMA LeastRank ==
    ASSUME NEW T, NEW rank \in [T -> Nat], NEW S \in SUBSET T, S # {}
    PROVE  \E x \in S : \A y \in S : rank[x] <= rank[y]
<1> DEFINE ranks == {rank[x] : x \in S}
<1>1. ranks \in SUBSET Nat /\ ranks # {}
  OBVIOUS
<1>2. PICK n \in ranks : \A m \in ranks : n <= m
  BY <1>1, SmallestNat
<1> QED BY <1>2

\* ... and, if the set is finite, one the greatest.
LEMMA GreatestRank ==
    ASSUME NEW T, NEW rank \in [T -> Nat], NEW S \in SUBSET T, IsFiniteSet(S), S # {}
    PROVE  \E x \in S : \A y \in S : rank[y] <= rank[x]
<1> DEFINE Greatest(U) == \E x \in U : \A y \in U : rank[y] <= rank[x]
           bad == {n \in Nat : \E U \in SUBSET T : /\ IsFiniteSet(U) /\ U # {}
                                                   /\ Cardinality(U) = n /\ ~Greatest(U)}
<1>1. SUFFICES bad = {}
  BY FS_CardinalityType
<1>2. SUFFICES ASSUME bad # {} PROVE FALSE
  OBVIOUS
<1>3. PICK n \in bad : \A m \in bad : n <= m
  BY <1>2, SmallestNat
<1>4. PICK U \in SUBSET T : /\ IsFiniteSet(U) /\ U # {}
                            /\ Cardinality(U) = n /\ ~Greatest(U)
  BY <1>3
<1>5. PICK x \in U : TRUE
  BY <1>4
<1>6. /\ IsFiniteSet(U \ {x}) /\ U \ {x} \in SUBSET T
      /\ Cardinality(U \ {x}) = n - 1 /\ Cardinality(U \ {x}) \in Nat
  BY <1>4, <1>5, FS_RemoveElement, FS_CardinalityType
<1>7. n - 1 \notin bad /\ n - 1 \in Nat
  BY <1>3, <1>6
<1>8. CASE U \ {x} = {}
  BY <1>4, <1>5, <1>8
<1>9. CASE U \ {x} # {}
  <2>1. PICK z \in U \ {x} : \A y \in U \ {x} : rank[y] <= rank[z]
    BY <1>6, <1>7, <1>9
  <2>2. \A y \in U : rank[y] \in Nat
    OBVIOUS
  <2>3. (\A y \in U : rank[y] <= rank[x]) \/ (\A y \in U : rank[y] <= rank[z])
    BY <1>5, <2>1, <2>2
  <2> QED BY <1>4, <1>5, <2>1, <2>3
<1> QED BY <1>8, <1>9

-----------------------------------------------------------------------------
\* Rows that a snapshot may be built from.
NetworkRows(nets) ==
    nets \in [Networks -> NetworkRow \cup {Absent, Deleted}] /\ DefaultNetwork \in RowsOf(nets)
Consistent(s) ==
    /\ NetworkRows(s.networks)
    /\ DOMAIN s.policies = Policies /\ DefaultPolicy \in RowsOf(s.policies)
    /\ \A n \in RowsOf(s.networks) : s.networks[n].policy \in RowsOf(s.policies)

\* The network of a query is the first snapshot's, its rule the second's.
LookupInv ==
    /\ lookup.pc \in {"none", "arrived", "matched", "consulting", "decided"}
    /\ lookup.pc \in {"matched", "consulting", "decided"} =>
         /\ Consistent(lookup.first)
         /\ lookup.network = MatchQuery(lookup.first.networks, lookup.client, lookup.token)
    /\ lookup.pc \in {"consulting", "decided"} =>
         LET id == lookup.first.networks[lookup.network].policy
             rule == LocalRule(PolicyFor(lookup.second, id), lookup.name)
         IN /\ DOMAIN lookup = {"pc", "client", "name", "token", "first", "network",
                                "second", "rule"}
            /\ Consistent(lookup.second)
            /\ lookup.pc = "consulting" => rule = "none"
            /\ lookup.rule = rule \/ (rule = "none" /\ lookup.rule = "reputation")

DecisionInv ==
    /\ DOMAIN configured = {"networks", "policies"}
    /\ Consistent(configured) /\ Consistent(compiled)
    /\ write \in {"idle", "written"} /\ writes \in 0..MaxWrites
    /\ LookupInv

LEMMA InvHasTypes == DecisionInv => DecisionTypeOK
BY DEF DecisionInv, LookupInv, Consistent, NetworkRows, DecisionTypeOK

LEMMA DecisionInitially == DecisionInit => DecisionInv
<1> SUFFICES ASSUME DecisionInit PROVE DecisionInv
  OBVIOUS
<1>1. configured.networks = StoredNetworks /\ configured.policies = StoredPolicies
  BY DEF DecisionInit
<1>2. Consistent(configured)
  <2>1. \A n \in RowsOf(StoredNetworks) : StoredNetworks[n] \in NetworkRow /\ StoredNetworks[n].policy \in Policies
    BY DecisionAssumption DEF RowsOf, NetworkRow
  <2>2. DefaultNetwork \in RowsOf(StoredNetworks)
    BY DecisionAssumption DEF RowsOf
  <2> QED BY <1>1, <2>1, <2>2, DecisionAssumption DEF Consistent, NetworkRows, RowsOf
<1> QED BY <1>2, DecisionAssumption DEF DecisionInit, DecisionInv, LookupInv, NoLookup

-----------------------------------------------------------------------------
(* The administrator's steps *)

LEMMA WriteStep ==
    ASSUME DecisionInv,
           \/ \E w \in NetworkWrites : WriteNetwork(w.network, w.row)
           \/ \E n \in Networks : DeleteNetwork(n)
           \/ \E w \in PolicyWrites : WritePolicy(w.policy, w.row)
           \/ \E p \in Policies : DeletePolicy(p)
    PROVE  DecisionInv'
<1>1. /\ UNCHANGED <<compiled, lookup>> /\ write' = "written" /\ writes' \in 0..MaxWrites
      /\ DOMAIN configured = {"networks", "policies"} /\ Consistent(configured)
  BY DecisionAssumption DEF WriteNetwork, DeleteNetwork, WritePolicy, DeletePolicy, Wrote, DecisionInv
<1>2. DOMAIN configured' = {"networks", "policies"} /\ Consistent(configured')
  <2>1. ASSUME NEW w \in NetworkWrites, WriteNetwork(w.network, w.row)
        PROVE  DOMAIN configured' = {"networks", "policies"} /\ Consistent(configured')
    <3>1. w.network \in Networks /\ w.row \in NetworkRow /\ w.row \notin {Absent, Deleted}
      BY DecisionAssumption
    <3>2. /\ configured' = [configured EXCEPT !.networks[w.network] = w.row]
          /\ w.row.policy \in RowsOf(configured.policies)
      BY <2>1 DEF WriteNetwork, Wrote
    <3>3. /\ DOMAIN configured' = {"networks", "policies"}
          /\ configured'.networks = [configured.networks EXCEPT ![w.network] = w.row]
          /\ configured'.policies = configured.policies
      BY <1>1, <3>2
    <3> QED BY <1>1, <3>1, <3>2, <3>3 DEF Consistent, NetworkRows, RowsOf
  <2>2. ASSUME NEW n \in Networks, DeleteNetwork(n)
        PROVE  DOMAIN configured' = {"networks", "policies"} /\ Consistent(configured')
    <3>1. configured' = [configured EXCEPT !.networks[n] = Deleted] /\ n # DefaultNetwork
      BY <2>2 DEF DeleteNetwork, Wrote
    <3>2. /\ DOMAIN configured' = {"networks", "policies"}
          /\ configured'.networks = [configured.networks EXCEPT ![n] = Deleted]
          /\ configured'.policies = configured.policies
      BY <1>1, <3>1
    <3> QED BY <1>1, <3>1, <3>2 DEF Consistent, NetworkRows, RowsOf
  <2>3. ASSUME NEW w \in PolicyWrites, WritePolicy(w.policy, w.row)
        PROVE  DOMAIN configured' = {"networks", "policies"} /\ Consistent(configured')
    <3>1. w.policy \in Policies /\ w.row \notin {Absent, Deleted}
      BY DecisionAssumption
    <3>2. configured' = [configured EXCEPT !.policies[w.policy] = w.row]
      BY <2>3 DEF WritePolicy, Wrote
    <3>3. /\ DOMAIN configured' = {"networks", "policies"}
          /\ configured'.networks = configured.networks
          /\ configured'.policies = [configured.policies EXCEPT ![w.policy] = w.row]
      BY <1>1, <3>2
    <3> QED BY <1>1, <3>1, <3>3 DEF Consistent, NetworkRows, RowsOf
  <2>4. ASSUME NEW p \in Policies, DeletePolicy(p)
        PROVE  DOMAIN configured' = {"networks", "policies"} /\ Consistent(configured')
    <3>1. /\ configured' = [configured EXCEPT !.policies[p] = Deleted] /\ p # DefaultPolicy
          /\ \A n \in RowsOf(configured.networks) : configured.networks[n].policy # p
      BY <2>4 DEF DeletePolicy, Wrote
    <3>2. /\ DOMAIN configured' = {"networks", "policies"}
          /\ configured'.networks = configured.networks
          /\ configured'.policies = [configured.policies EXCEPT ![p] = Deleted]
      BY <1>1, <3>1
    <3> QED BY <1>1, <3>1, <3>2 DEF Consistent, NetworkRows, RowsOf
  <2> QED BY <2>1, <2>2, <2>3, <2>4
<1>3. LookupInv' /\ Consistent(compiled)'
  BY <1>1 DEF DecisionInv, LookupInv
<1>4. Consistent(configured)'
  BY <1>2
<1> QED BY <1>1, <1>2, <1>3, <1>4 DEF DecisionInv

LEMMA ReloadStep ==
    ASSUME DecisionInv, ReloadEngine
    PROVE  DecisionInv'
<1>1. UNCHANGED <<configured, writes, lookup>> /\ write' = "idle" /\ compiled' \in {compiled, configured}
  BY DEF ReloadEngine
<1>2. Consistent(compiled') /\ Consistent(configured')
  BY <1>1 DEF DecisionInv
<1>3. LookupInv'
  BY <1>1 DEF DecisionInv, LookupInv
<1>4. Consistent(compiled)' /\ Consistent(configured)'
  BY <1>2
<1> QED BY <1>1, <1>3, <1>4 DEF DecisionInv

-----------------------------------------------------------------------------
(* The query's steps *)

LEMMA QueryStep ==
    ASSUME DecisionInv, UNCHANGED <<configured, compiled, write, writes>>, LookupInv'
    PROVE  DecisionInv'
BY DEF DecisionInv, Consistent

LEMMA QuerySteps ==
    ASSUME DecisionInv,
           \/ \E c \in Clients, d \in Asked, token \in Networks \cup {NoToken} : Arrive(c, d, token)
           \/ MatchStep \/ EvaluateStep \/ ConsultStep
    PROVE  DecisionInv'
<1>1. UNCHANGED <<configured, compiled, write, writes>>
  BY DEF Arrive, MatchStep, EvaluateStep, ConsultStep
<1>2. Consistent(compiled) /\ LookupInv
  BY DEF DecisionInv
<1>3. CASE \E c \in Clients, d \in Asked, token \in Networks \cup {NoToken} : Arrive(c, d, token)
  <2>1. LookupInv'
    BY <1>3 DEF Arrive, LookupInv
  <2> QED BY <1>1, <2>1, QueryStep
<1>4. CASE MatchStep
  <2>1. /\ lookup'.pc = "matched" /\ lookup'.first = compiled
        /\ lookup'.network = MatchQuery(lookup'.first.networks, lookup'.client, lookup'.token)
    BY <1>4 DEF MatchStep
  <2>2. LookupInv'
    BY <1>2, <2>1 DEF LookupInv
  <2> QED BY <1>1, <2>2, QueryStep
<1>5. CASE EvaluateStep
  <2> DEFINE id == lookup.first.networks[lookup.network].policy
             rule == LocalRule(PolicyFor(compiled, id), lookup.name)
  <2>1. lookup' = [pc |-> IF rule = "none" THEN "consulting" ELSE "decided",
                   client |-> lookup.client, name |-> lookup.name, token |-> lookup.token,
                   first |-> lookup.first, network |-> lookup.network,
                   second |-> compiled, rule |-> rule]
    BY <1>5 DEF EvaluateStep
  <2>2. /\ DOMAIN lookup' = {"pc", "client", "name", "token", "first", "network",
                             "second", "rule"}
        /\ lookup'.pc \in {"consulting", "decided"} /\ lookup'.second = compiled
        /\ lookup'.pc = "consulting" => rule = "none"
        /\ lookup'.rule = rule
        /\ lookup'.first = lookup.first /\ lookup'.network = lookup.network
        /\ lookup'.name = lookup.name /\ lookup'.client = lookup.client /\ lookup'.token = lookup.token
    <3> HIDE DEF rule
    <3> QED BY <2>1
  <2>3. Consistent(lookup.first) /\ lookup.network = MatchQuery(lookup.first.networks, lookup.client, lookup.token)
    BY <1>2, <1>5 DEF LookupInv, EvaluateStep
  <2>4. LookupInv'
    BY <1>2, <2>2, <2>3 DEF LookupInv
  <2> QED BY <1>1, <2>4, QueryStep
<1>6. CASE ConsultStep
  <2>1. PICK r \in {"none", "reputation"} : lookup' = [lookup EXCEPT !.pc = "decided", !.rule = r]
    BY <1>6 DEF ConsultStep
  <2>2. lookup.pc = "consulting"
    BY <1>6 DEF ConsultStep
  <2>3. /\ DOMAIN lookup' = DOMAIN lookup /\ lookup'.pc = "decided" /\ lookup'.rule = r
        /\ lookup'.first = lookup.first /\ lookup'.second = lookup.second /\ lookup'.network = lookup.network
        /\ lookup'.name = lookup.name /\ lookup'.client = lookup.client /\ lookup'.token = lookup.token
    BY <1>2, <2>1, <2>2 DEF LookupInv
  <2>4. LookupInv'
    BY <1>2, <2>2, <2>3 DEF LookupInv
  <2> QED BY <1>1, <2>4, QueryStep
<1> QED BY <1>3, <1>4, <1>5, <1>6

LEMMA DecisionInvariant == DecisionSpec => []DecisionInv
<1>1. DecisionInv /\ [DecisionNext]_decisionVars => DecisionInv'
  <2> SUFFICES ASSUME DecisionInv, [DecisionNext]_decisionVars PROVE DecisionInv'
    OBVIOUS
  <2>1. CASE UNCHANGED decisionVars
    <3>1. UNCHANGED <<configured, compiled, write, writes, lookup>>
      BY <2>1 DEF decisionVars
    <3>2. LookupInv'
      BY <3>1 DEF DecisionInv, LookupInv
    <3> QED BY <3>1, <3>2, QueryStep
  <2> QED BY <2>1, WriteStep, ReloadStep, QuerySteps DEF DecisionNext
<1> QED BY <1>1, DecisionInitially, PTL DEF DecisionSpec

\* Every variable holds a value of its kind, and no stored network is assigned
\* to a policy that is gone.
THEOREM DecisionTypeCorrect == DecisionSpec => []DecisionTypeOK
BY DecisionInvariant, InvHasTypes, PTL

-----------------------------------------------------------------------------
(* Attribution *)

LEMMA MaxBitsIsNat ==
    ASSUME NEW nets, NetworkRows(nets), NEW n \in RowsOf(nets)
    PROVE  MaxBits(nets, n) \in Nat
<1> DEFINE ranges == nets[n].ranges
           lengths == {Bits[p] : p \in ranges} \cup {0}
<1>1. ranges \in SUBSET Ranges /\ IsFiniteSet(ranges) /\ Bits \in [Ranges -> Nat]
  <2>1. ranges \in SUBSET Ranges
    BY DEF NetworkRows, RowsOf, NetworkRow
  <2> QED BY <2>1, DecisionAssumption, FS_Subset
<1> HIDE DEF ranges
<1>2. \E b \in lengths : \A c \in lengths : c <= b
  <2>1. CASE ranges = {}
    BY <2>1
  <2>2. CASE ranges # {}
    <3>1. PICK p \in ranges : \A q \in ranges : Bits[q] <= Bits[p]
      BY <1>1, <2>2, GreatestRank
    <3>2. Bits[p] \in lengths /\ \A c \in lengths : c <= Bits[p]
      BY <1>1, <3>1
    <3> QED BY <3>2
  <2> QED BY <2>1, <2>2
<1>3. lengths \subseteq Nat
  BY <1>1
<1> QED BY <1>2, <1>3 DEF MaxBits, ranges

\* There is always a network to fall back on.
LEMMA FallbackIsStored ==
    ASSUME NEW nets, NetworkRows(nets)
    PROVE  Fallback(nets) \in RowsOf(nets)
<1> DEFINE stored == RowsOf(nets)
<1>1. /\ stored \in SUBSET Networks /\ stored # {} /\ IsFiniteSet(stored)
      /\ NameRank \in [Networks -> Nat] /\ CatchAlls(nets) \in SUBSET stored
  <2>1. stored \in SUBSET Networks /\ stored # {} /\ CatchAlls(nets) \in SUBSET stored
    BY DEF NetworkRows, RowsOf, CatchAlls
  <2> QED BY <2>1, DecisionAssumption, FS_Subset
<1> HIDE DEF stored
<1>2. CASE DefaultNetwork \in CatchAlls(nets)
  BY <1>1, <1>2 DEF Fallback, stored
<1>3. CASE DefaultNetwork \notin CatchAlls(nets) /\ CatchAlls(nets) # {}
  <2>1. \E n \in CatchAlls(nets) : \A m \in CatchAlls(nets) : NameRank[n] <= NameRank[m]
    BY <1>1, <1>3, LeastRank
  <2>2. Fallback(nets) \in CatchAlls(nets)
    BY <1>3, <2>1 DEF Fallback
  <2> QED BY <1>1, <2>2 DEF stored
<1>4. CASE DefaultNetwork \notin CatchAlls(nets) /\ CatchAlls(nets) = {}
  <2> DEFINE width == [n \in stored |-> MaxBits(nets, n)]
             last == {n \in stored : \A m \in stored : width[n] <= width[m]}
  <2>1. width \in [stored -> Nat]
    BY MaxBitsIsNat DEF stored
  <2>2. last # {} /\ last \in SUBSET Networks /\ IsFiniteSet(last)
    <3> HIDE DEF width
    <3>1. \E n \in stored : \A m \in stored : width[n] <= width[m]
      BY <1>1, <2>1, LeastRank
    <3>2. last \in SUBSET stored
      OBVIOUS
    <3> QED BY <1>1, <3>1, <3>2, FS_Subset
  <2>3. PICK n \in last : \A m \in last : NameRank[m] <= NameRank[n]
    <3> HIDE DEF last
    <3> QED BY <1>1, <2>2, GreatestRank
  <2>4. n \in stored /\ \A m \in stored \ {n} :
            \/ MaxBits(nets, n) < MaxBits(nets, m)
            \/ MaxBits(nets, n) = MaxBits(nets, m) /\ NameRank[n] > NameRank[m]
    <3> SUFFICES ASSUME NEW m \in stored \ {n}
                 PROVE  \/ MaxBits(nets, n) < MaxBits(nets, m)
                        \/ MaxBits(nets, n) = MaxBits(nets, m) /\ NameRank[n] > NameRank[m]
      OBVIOUS
    <3>1. /\ width[n] = MaxBits(nets, n) /\ width[m] = MaxBits(nets, m)
          /\ width[n] \in Nat /\ width[m] \in Nat /\ width[n] <= width[m]
      BY <2>1, <2>3
    <3>2. NameRank[n] \in Nat /\ NameRank[m] \in Nat /\ NameRank[n] # NameRank[m]
      BY <1>1, <2>3, DecisionAssumption
    <3>3. width[n] = width[m] => m \in last
      <4>1. ASSUME width[n] = width[m], NEW k \in stored PROVE width[m] <= width[k]
        BY <2>3, <4>1
      <4> QED BY <4>1
    <3> HIDE DEF width, last
    <3> QED BY <2>3, <3>1, <3>2, <3>3
  <2>5. Fallback(nets) \in stored
    BY <1>4, <2>4 DEF Fallback, stored
  <2> QED BY <2>5 DEF stored
<1> QED BY <1>2, <1>3, <1>4

\* The first of the sorted routes around a client is the longest, of the network
\* that is the first by name.
LEMMA FirstRouteIsLongest ==
    ASSUME NEW nets, NetworkRows(nets), NEW c
    PROVE  LET hits == {r \in Routes(nets) : c \in Within[r.prefix]}
           IN /\ hits = {} <=> Owning(nets, c) = {}
              /\ hits # {} =>
                   (CHOOSE r \in hits : \A q \in hits : ~RouteBefore(nets, q, r)).network
                     = CHOOSE n \in Owning(nets, c) :
                          \A m \in Owning(nets, c) : NameRank[n] <= NameRank[m]
              /\ \A r \in hits : r.network \in RowsOf(nets)
<1> DEFINE hits == {r \in Routes(nets) : c \in Within[r.prefix]}
           longest == {r \in hits : \A q \in hits : Bits[q.prefix] <= Bits[r.prefix]}
           own == Owning(nets, c)
<1>1. /\ \A r \in hits : /\ r.prefix \in Ranges /\ r.network \in RowsOf(nets)
                         /\ r.network \in Networks /\ Bits[r.prefix] \in Nat
                         /\ NameRank[r.network] \in Nat
      /\ own = {r.network : r \in longest}
  <2>1. RowsOf(nets) \subseteq Networks
    BY DEF RowsOf, NetworkRows
  <2> QED BY <2>1, DecisionAssumption DEF Routes, Owning
<1> HIDE DEF hits, own
<1>2. CASE hits = {}
  <2>1. own = {}
    BY <1>1, <1>2
  <2> QED BY <1>2, <2>1 DEF hits, own
<1>3. CASE hits # {}
  <2>1. longest # {}
    <3> DEFINE around == {r.prefix : r \in hits}
    <3>1. around \in SUBSET Ranges /\ around # {} /\ IsFiniteSet(around) /\ Bits \in [Ranges -> Nat]
      <4>1. around \in SUBSET Ranges /\ around # {}
        BY <1>1, <1>3
      <4> QED BY <4>1, DecisionAssumption, FS_Subset
    <3>2. PICK p \in around : \A q \in around : Bits[q] <= Bits[p]
      <4> HIDE DEF around
      <4> QED BY <3>1, GreatestRank
    <3> QED BY <3>2
  <2>2. own # {} /\ own \in SUBSET Networks
    BY <1>1, <2>1
  <2>3. PICK n \in own : \A m \in own : NameRank[n] <= NameRank[m]
    BY <2>2, LeastRank, DecisionAssumption
  <2>4. PICK r0 \in longest : r0.network = n
    BY <1>1, <2>3
  <2> DEFINE first == CHOOSE r \in hits : \A q \in hits : ~RouteBefore(nets, q, r)
  <2>5. \A q \in hits : ~RouteBefore(nets, q, r0)
    <3> SUFFICES ASSUME NEW q \in hits, RouteBefore(nets, q, r0) PROVE FALSE
      OBVIOUS
    <3>1. Bits[q.prefix] = Bits[r0.prefix] /\ NameRank[q.network] < NameRank[n]
      BY <1>1, <2>4 DEF RouteBefore
    <3>2. q \in longest
      BY <2>4, <3>1
    <3>3. q.network \in own
      BY <1>1, <3>2
    <3> QED BY <1>1, <2>3, <2>4, <3>1, <3>3
  <2>6. first \in hits /\ \A q \in hits : ~RouteBefore(nets, q, first)
    BY <2>4, <2>5
  <2> HIDE DEF first
  <2>7. first \in longest
    <3> SUFFICES ASSUME NEW q \in hits PROVE Bits[q.prefix] <= Bits[first.prefix]
      BY <2>6
    <3> QED BY <1>1, <2>6 DEF RouteBefore
  <2>8. first.network \in own
    BY <1>1, <2>7
  <2>9. NameRank[first.network] = NameRank[n]
    <3>1. NameRank[n] <= NameRank[first.network]
      BY <2>3, <2>8
    <3>2. Bits[r0.prefix] = Bits[first.prefix]
      BY <1>1, <2>4, <2>7
    <3>3. ~ (NameRank[n] < NameRank[first.network])
      BY <2>4, <2>6, <3>2 DEF RouteBefore
    <3> QED BY <1>1, <2>4, <2>6, <3>1, <3>3
  <2>10. \A m \in own : (\A k \in own : NameRank[m] <= NameRank[k]) => m = n
    <3> SUFFICES ASSUME NEW m \in own, \A k \in own : NameRank[m] <= NameRank[k] PROVE m = n
      OBVIOUS
    <3>1. NameRank[m] <= NameRank[n] /\ NameRank[n] <= NameRank[m]
      BY <2>3
    <3>2. NameRank[m] \in Nat /\ NameRank[n] \in Nat /\ m \in Networks /\ n \in Networks
      BY <2>2, DecisionAssumption
    <3> QED BY <3>1, <3>2, DecisionAssumption
  <2>11. (CHOOSE k \in own : \A m \in own : NameRank[k] <= NameRank[m]) = n
    BY <2>3, <2>10
  <2>12. first.network = n
    BY <1>1, <2>2, <2>3, <2>6, <2>9, DecisionAssumption
  <2> QED BY <1>1, <1>3, <2>2, <2>11, <2>12 DEF first, hits, own
<1> QED BY <1>2, <1>3

LEMMA MatchedWhereItBelongs ==
    ASSUME NEW nets, NetworkRows(nets), NEW q
    PROVE  /\ MatchQuery(nets, q.client, q.token) = BelongsTo(nets, q)
           /\ BelongsTo(nets, q) \in RowsOf(nets)
<1> DEFINE hits == {r \in Routes(nets) : q.client \in Within[r.prefix]}
           own == Owning(nets, q.client)
           first == CHOOSE r \in hits : \A k \in hits : ~RouteBefore(nets, k, r)
           least == CHOOSE n \in own : \A m \in own : NameRank[n] <= NameRank[m]
<1>1. (hits = {} <=> own = {}) /\ (hits # {} => first.network = least)
  BY FirstRouteIsLongest
<1>2. MatchQuery(nets, q.client, q.token) =
        IF q.token \in RowsOf(nets) THEN q.token
        ELSE IF hits = {} THEN Fallback(nets) ELSE first.network
  BY Zenon DEF MatchQuery, MatchClient
<1>3. BelongsTo(nets, q) = IF q.token \in RowsOf(nets) THEN q.token
                           ELSE IF own = {} THEN Fallback(nets) ELSE least
  BY Zenon DEF BelongsTo
<1>4. own # {} => least \in RowsOf(nets)
  <2>1. own \in SUBSET RowsOf(nets) /\ RowsOf(nets) \in SUBSET Networks
    BY DEF Owning, Routes, RowsOf, NetworkRows
  <2>2. own # {} => \E n \in own : \A m \in own : NameRank[n] <= NameRank[m]
    <3> HIDE DEF own
    <3>1. own \in SUBSET Networks
      BY <2>1
    <3> QED BY <3>1, LeastRank, DecisionAssumption
  <2> HIDE DEF own
  <2> QED BY <2>1, <2>2
<1> HIDE DEF hits, own, first, least
<1> QED BY <1>1, <1>2, <1>3, <1>4, FallbackIsStored

-----------------------------------------------------------------------------
(* Decisions *)

\* With one change at most either the networks or the policies are the same.
LEMMA OneChange ==
    ASSUME NEW s, Consistent(s), NEW t, Consistent(t), RowsChanged(s, t) <= 1
    PROVE  s.networks = t.networks \/ \A p \in Policies : s.policies[p] = t.policies[p]
<1> DEFINE moved == {n \in Networks : s.networks[n] # t.networks[n]}
           edited == {p \in Policies : s.policies[p] # t.policies[p]}
<1>1. /\ IsFiniteSet(moved) /\ IsFiniteSet(edited)
      /\ Cardinality(moved) \in Nat /\ Cardinality(edited) \in Nat
  <2>1. IsFiniteSet(moved) /\ IsFiniteSet(edited)
    BY DecisionAssumption, FS_Subset
  <2> QED BY <2>1, FS_CardinalityType
<1>2. Cardinality(moved) = 0 \/ Cardinality(edited) = 0
  <2>1. Cardinality(moved) + Cardinality(edited) <= 1
    BY DEF RowsChanged
  <2> QED BY <1>1, <2>1
<1>3. moved = {} \/ edited = {}
  BY <1>1, <1>2, FS_EmptySet
<1>4. moved = {} => s.networks = t.networks
  BY DEF Consistent, NetworkRows
<1> QED BY <1>3, <1>4

\* Evaluating a policy warrants the rule it answers with, as one that the
\* providers add where there is none.
LEMMA RuleIsWarranted ==
    ASSUME NEW s, NEW q, NEW rule,
           rule = LocalRule(s.policies[s.networks[BelongsTo(s.networks, q)].policy], q.name),
           q.rule = rule \/ (rule = "none" /\ q.rule = "reputation")
    PROVE  Warranted(s, q)
<1> DEFINE p == s.policies[s.networks[BelongsTo(s.networks, q)].policy]
<1>1. /\ Lists(p.allow, q.name) <=> \E m \in p.allow : m \in Parents[q.name]
      /\ Lists(p.block, q.name) <=> \E m \in p.block : m \in Parents[q.name]
      /\ Files(p.categories, q.name) <=>
           \E m \in Parents[q.name], c \in p.categories : c \in Filed[m]
  BY DEF Lists, Files
<1> QED BY <1>1 DEF LocalRule, Warranted

LEMMA DecidedByOneOfTwo ==
    ASSUME DecisionInv, lookup.pc \in {"consulting", "decided"},
           RowsChanged(lookup.first, lookup.second) <= 1
    PROVE  Warranted(lookup.first, lookup) \/ Warranted(lookup.second, lookup)
<1> DEFINE s == lookup.first
           t == lookup.second
           id == s.networks[lookup.network].policy
           rule == LocalRule(PolicyFor(t, id), lookup.name)
<1>1. /\ Consistent(s) /\ Consistent(t)
      /\ lookup.network = MatchQuery(s.networks, lookup.client, lookup.token)
      /\ lookup.rule = rule \/ (rule = "none" /\ lookup.rule = "reputation")
  BY DEF DecisionInv, LookupInv
<1>2. lookup.network = BelongsTo(s.networks, lookup) /\ lookup.network \in RowsOf(s.networks)
  BY <1>1, MatchedWhereItBelongs DEF Consistent
<1>3. id \in RowsOf(s.policies)
  BY <1>1, <1>2 DEF Consistent
<1>4. CASE \A p \in Policies : s.policies[p] = t.policies[p]
  <2>1. id \in RowsOf(t.policies) /\ t.policies[id] = s.policies[id]
    BY <1>1, <1>3, <1>4 DEF RowsOf, Consistent
  <2>2. rule = LocalRule(s.policies[s.networks[BelongsTo(s.networks, lookup)].policy], lookup.name)
    BY <1>2, <2>1 DEF PolicyFor
  <2> QED BY <1>1, <2>2, RuleIsWarranted
<1>5. CASE s.networks = t.networks
  <2>1. lookup.network = BelongsTo(t.networks, lookup)
    BY <1>2, <1>5
  <2>2. id = t.networks[BelongsTo(t.networks, lookup)].policy /\ id \in RowsOf(t.policies)
    BY <1>1, <1>2, <1>5, <2>1 DEF Consistent
  <2>3. rule = LocalRule(t.policies[t.networks[BelongsTo(t.networks, lookup)].policy], lookup.name)
    BY <2>2 DEF PolicyFor
  <2> QED BY <1>1, <2>3, RuleIsWarranted
<1> QED BY <1>1, <1>4, <1>5, OneChange

\* A query that no more than one change overtook is decided, attribution and
\* all, as one of the two configurations it loaded says; what a local rule
\* decides is never asked of a provider.
THEOREM QueriesDecidedAsConfigured == DecisionSpec => []DecidedAsConfigured
BY DecisionInvariant, DecidedByOneOfTwo, PTL DEF DecidedAsConfigured

-----------------------------------------------------------------------------
(* The providers *)

AskerPlaces == {"idle", "asking", "answered", "committing", "saving"}
OperatorPlaces == {"idle", "waiting", "forgetting", "writing", "loading", "installing",
                   "dropping"}
Asking == [pc : AskerPlaces, task : Task]
Operating == [pc : OperatorPlaces, found : BOOLEAN, stale : BOOLEAN]

\* An open task carries a permission that is in force.
InForce(t) == t.open => t.from = instance /\ ~revoked /\ sharing[t.kind]
OpenIsPermitted ==
    /\ \A i \in DOMAIN tasks : InForce(tasks[i])
    /\ \A w \in Askers : InForce(asker[w].task)

Committing(w) == asker[w].pc \in {"committing", "saving"}

\* A handler that will forget the provider's verdicts once no commit is left.
Clearing == \E o \in Operators : \/ operator[o].pc = "forgetting"
                                 \/ operator[o].pc = "dropping" /\ operator[o].stale

\* A commit that is no longer permitted has a handler waiting for it, and one
\* whose instance is gone has a handler that will forget it.
CommitsAreAwaited ==
    \A w \in Askers : Committing(w) =>
        /\ ~asker[w].task.open => Withdrawing
        /\ asker[w].task.from # 0 =>
             (asker[w].task.from = instance /\ ~revoked) \/ Clearing

CacheInv == cached # 0 => (cached = instance /\ ~revoked) \/ Clearing

ProviderInv ==
    /\ ProviderTypeOK
    /\ OpenIsPermitted
    /\ CommitsAreAwaited
    /\ CacheInv

-----------------------------------------------------------------------------
LEMMA TypeParts ==
    ASSUME ProviderTypeOK
    PROVE  /\ asker \in [Askers -> Asking] /\ operator \in [Operators -> Operating]
           /\ tasks \in Seq(Task) /\ built \in Nat /\ instance \in 0..built
           /\ sharing \in [Kinds -> BOOLEAN] /\ cached \in 0..built
           /\ saved \in [Kinds -> 0..built] /\ switches \in Nat
           /\ committing = Nobody => \A w \in Askers : ~Committing(w)
BY ProviderAssumption DEF ProviderTypeOK, Asking, AskerPlaces, Operating, OperatorPlaces, Committing

LEMMA ClosedTask ==
    ASSUME NEW kinds, NEW t \in Task
    PROVE  /\ Closed(t, kinds) \in Task /\ Closed(t, kinds).from = t.from
           /\ Closed(t, kinds).kind = t.kind
           /\ Closed(t, kinds).open => t.open /\ t.kind \notin kinds
BY DEF Closed, Task

\* What a withdrawal makes of the tasks.
LEMMA WithdrawKeeps ==
    ASSUME ProviderTypeOK, NEW kinds, Withdraw(kinds)
    PROVE  /\ tasks' \in Seq(Task) /\ Len(tasks') = Len(tasks)
           /\ DOMAIN tasks' = DOMAIN tasks
           /\ \A i \in DOMAIN tasks : tasks'[i] = Closed(tasks[i], kinds)
           /\ asker' \in [Askers -> Asking]
           /\ \A w \in Askers : /\ asker'[w].pc = asker[w].pc
                                /\ asker'[w].task = Closed(asker[w].task, kinds)
<1>1. tasks \in Seq(Task) /\ asker \in [Askers -> Asking]
  BY TypeParts
<1>2. tasks' = [i \in 1..Len(tasks) |-> Closed(tasks[i], kinds)] /\ DOMAIN tasks = 1..Len(tasks)
  BY <1>1 DEF Withdraw
<1>3. \A i \in 1..Len(tasks) : Closed(tasks[i], kinds) \in Task
  BY <1>1, ClosedTask
<1>4. tasks' \in Seq(Task) /\ Len(tasks') = Len(tasks)
  BY <1>1, <1>2, <1>3
<1>5. \A w \in Askers : Closed(asker[w].task, kinds) \in Task
  BY <1>1, ClosedTask DEF Asking
<1>6. \A w \in Askers : asker'[w] = [asker[w] EXCEPT !.task = Closed(asker[w].task, kinds)]
  BY <1>1 DEF Withdraw
<1>7. \A w \in Askers : /\ asker'[w] \in Asking /\ asker'[w].pc = asker[w].pc
                        /\ asker'[w].task = Closed(asker[w].task, kinds)
  BY <1>1, <1>5, <1>6 DEF Asking
<1>8. asker' \in [Askers -> Asking]
  BY <1>7 DEF Withdraw
<1> QED
  BY <1>2, <1>4, <1>7, <1>8

\* The types of everything but the tasks, for a step that builds nothing.
LEMMA TypeFrame ==
    ASSUME ProviderTypeOK, UNCHANGED built,
           sharing' \in [Kinds -> BOOLEAN], enabledRow' \in BOOLEAN, instance' \in 0..built,
           usable' \in BOOLEAN, revoked' \in BOOLEAN, cached' \in 0..built,
           saved' \in [Kinds -> 0..built], tasks' \in Seq(Task),
           Len(tasks') <= ProviderQueue, asker' \in [Askers -> Asking],
           committing' \in Askers \cup {Nobody},
           \A w \in Askers : (committing' = w) = (asker'[w].pc \in {"committing", "saving"}),
           operator' \in [Operators -> Operating], switches' \in 0..MaxSwitches
    PROVE  ProviderTypeOK'
BY DEF ProviderTypeOK, Task, Asking, AskerPlaces, Operating, OperatorPlaces

\* A step of the queue or of a worker, which changes neither the settings nor
\* the handlers.
LEMMA WorkerFrame ==
    ASSUME ProviderInv, UNCHANGED <<settings, listing, operator>>,
           cached' \in 0..built, saved' \in [Kinds -> 0..built],
           tasks' \in Seq(Task), Len(tasks') <= ProviderQueue,
           asker' \in [Askers -> Asking], committing' \in Askers \cup {Nobody},
           \A w \in Askers : (committing' = w) = (asker'[w].pc \in {"committing", "saving"}),
           \A i \in DOMAIN tasks' : InForce(tasks'[i]),
           \A w \in Askers : InForce(asker'[w].task),
           \A w \in Askers : asker'[w].pc \in {"committing", "saving"} =>
               \/ Committing(w) /\ asker'[w].task = asker[w].task
               \/ asker'[w].task.open,
           cached' \in {0, cached} \/ \E w \in Askers : Committing(w) /\ cached' = asker[w].task.from
    PROVE  ProviderInv'
<1>1. /\ ProviderTypeOK /\ OpenIsPermitted /\ CommitsAreAwaited /\ CacheInv
      /\ UNCHANGED <<sharing, enabledRow, switches, instance, usable, revoked, built>>
  BY DEF ProviderInv, settings, listing
<1>2. ProviderTypeOK'
  <2>1. /\ sharing \in [Kinds -> BOOLEAN] /\ enabledRow \in BOOLEAN /\ instance \in 0..built
        /\ usable \in BOOLEAN /\ revoked \in BOOLEAN /\ switches \in 0..MaxSwitches
        /\ operator \in [Operators -> Operating]
    BY <1>1, TypeParts DEF ProviderTypeOK
  <2> QED
    BY <1>1, <2>1, TypeFrame
<1>3. OpenIsPermitted'
  BY <1>1 DEF OpenIsPermitted, InForce
<1>4. Withdrawing' = Withdrawing /\ Clearing' = Clearing
  BY DEF Withdrawing, Clearing
<1>5. CommitsAreAwaited'
  <2> SUFFICES ASSUME NEW w \in Askers, asker'[w].pc \in {"committing", "saving"}
               PROVE  /\ ~asker'[w].task.open => Withdrawing
                      /\ asker'[w].task.from # 0 =>
                           (asker'[w].task.from = instance /\ ~revoked) \/ Clearing
    BY <1>1, <1>4 DEF CommitsAreAwaited, Committing
  <2>1. CASE Committing(w) /\ asker'[w].task = asker[w].task
    BY <1>1, <2>1 DEF CommitsAreAwaited
  <2>2. CASE asker'[w].task.open
    BY <2>2 DEF InForce
  <2> QED
    BY <2>1, <2>2
<1>6. CacheInv'
  BY <1>1, <1>4 DEF CacheInv, CommitsAreAwaited
<1> QED
  BY <1>2, <1>3, <1>5, <1>6 DEF ProviderInv

\* The tasks of the workers, after one worker moved.
LEMMA MovedWorker ==
    ASSUME ProviderInv, NEW w \in Askers, NEW pc \in AskerPlaces, NEW t \in Task, At(w, pc, t)
    PROVE  /\ asker' \in [Askers -> Asking] /\ asker'[w].pc = pc /\ asker'[w].task = t
           /\ \A v \in Askers \ {w} : asker'[v] = asker[v]
BY TypeParts DEF ProviderInv, At, Asking

LEMMA NoTaskIsTask == ProviderTypeOK => NoTask \in Task /\ ~NoTask.open
BY DEF ProviderTypeOK, NoTask, Task, Kinds

LEMMA QueueStep ==
    ASSUME ProviderInv, Evict \/ (\E k \in Kinds : Ask(k)) \/ (\E w \in Askers : TakeTask(w))
    PROVE  ProviderInv'
<1>1. /\ ProviderTypeOK /\ OpenIsPermitted /\ asker \in [Askers -> Asking] /\ tasks \in Seq(Task)
      /\ instance \in 0..built /\ built \in Nat /\ cached \in 0..built
      /\ saved \in [Kinds -> 0..built] /\ Len(tasks) <= ProviderQueue
      /\ committing \in Askers \cup {Nobody}
      /\ \A w \in Askers : (committing = w) = (asker[w].pc \in {"committing", "saving"})
  BY TypeParts DEF ProviderInv, ProviderTypeOK
<1>2. CASE Evict
  <2>1. /\ UNCHANGED <<settings, listing, saved, tasks, asker, committing, operator>>
        /\ cached' = 0 /\ cached' \in 0..built
    BY <1>1, <1>2 DEF Evict
  <2> QED
    BY <1>1, <2>1, WorkerFrame DEF OpenIsPermitted, Committing
<1>3. ASSUME NEW k \in Kinds, Ask(k)
      PROVE  ProviderInv'
  <2> DEFINE t == [from |-> instance, kind |-> k, open |-> TRUE]
  <2>1. /\ UNCHANGED <<settings, listing, cached, saved, asker, committing, operator>>
        /\ tasks' = Append(tasks, t) /\ Len(tasks) < ProviderQueue
        /\ ~revoked /\ sharing[k]
    BY <1>3 DEF Ask, Permitted
  <2>2. t \in Task /\ InForce(t)
    BY <1>1, <2>1 DEF Task, InForce
  <2> HIDE DEF t
  <2>3. tasks' \in Seq(Task) /\ Len(tasks') <= ProviderQueue
    BY <1>1, <2>1, <2>2, ProviderAssumption
  <2>4. \A i \in DOMAIN tasks' : InForce(tasks'[i])
    <3>1. \A i \in DOMAIN tasks' : tasks'[i] = t \/ (i \in DOMAIN tasks /\ tasks'[i] = tasks[i])
      BY <1>1, <2>1, <2>2
    <3> QED
      BY <1>1, <2>2, <3>1 DEF OpenIsPermitted
  <2> QED
    BY <1>1, <2>1, <2>3, <2>4, WorkerFrame DEF OpenIsPermitted, Committing
<1>4. ASSUME NEW w \in Askers, TakeTask(w)
      PROVE  ProviderInv'
  <2>1. /\ UNCHANGED <<settings, listing, cached, saved, committing, operator>>
        /\ asker[w].pc = "idle" /\ tasks # <<>> /\ tasks' = Tail(tasks)
    BY <1>4 DEF TakeTask
  <2>2. /\ Head(tasks) \in Task /\ InForce(Head(tasks))
        /\ tasks' \in Seq(Task) /\ Len(tasks') <= ProviderQueue
        /\ \A i \in DOMAIN tasks' : InForce(tasks'[i])
    <3>1. /\ 1 \in DOMAIN tasks /\ Head(tasks) = tasks[1]
          /\ \A i \in DOMAIN tasks' : i + 1 \in DOMAIN tasks /\ tasks'[i] = tasks[i + 1]
      BY <1>1, <2>1
    <3>2. tasks' \in Seq(Task) /\ Len(tasks') <= ProviderQueue
      BY <1>1, <2>1, ProviderAssumption
    <3> QED
      BY <1>1, <3>1, <3>2 DEF OpenIsPermitted
  <2>3. CASE UNCHANGED asker
    BY <1>1, <2>1, <2>2, <2>3, WorkerFrame DEF OpenIsPermitted, Committing
  <2>4. CASE At(w, "asking", Head(tasks))
    <3>1. /\ asker' \in [Askers -> Asking] /\ asker'[w].pc = "asking"
          /\ asker'[w].task = Head(tasks) /\ \A v \in Askers \ {w} : asker'[v] = asker[v]
      BY <2>2, <2>4, MovedWorker DEF AskerPlaces
    <3>2. \A v \in Askers : InForce(asker'[v].task)
      BY <1>1, <2>2, <3>1 DEF OpenIsPermitted
    <3>3. \A v \in Askers : (committing' = v) = (asker'[v].pc \in {"committing", "saving"})
      BY <1>1, <2>1, <3>1
    <3> QED
      BY <1>1, <2>1, <2>2, <3>1, <3>2, <3>3, WorkerFrame DEF Committing
  <2> QED
    BY <1>4, <2>3, <2>4 DEF TakeTask
<1> QED
  BY <1>2, <1>3, <1>4

LEMMA WorkerStep ==
    ASSUME ProviderInv, NEW w \in Askers,
           Answered(w) \/ BeginCommit(w) \/ CommitVerdict(w) \/ Save(w)
    PROVE  ProviderInv'
<1> DEFINE t == asker[w].task
<1>1. /\ ProviderTypeOK /\ OpenIsPermitted /\ asker \in [Askers -> Asking] /\ tasks \in Seq(Task)
      /\ instance \in 0..built /\ built \in Nat /\ cached \in 0..built
      /\ saved \in [Kinds -> 0..built] /\ Len(tasks) <= ProviderQueue
      /\ committing \in Askers \cup {Nobody}
      /\ \A v \in Askers : (committing = v) = (asker[v].pc \in {"committing", "saving"})
      /\ \A i \in DOMAIN tasks : InForce(tasks[i])
      /\ \A v \in Askers : InForce(asker[v].task)
  BY TypeParts DEF ProviderInv, ProviderTypeOK, OpenIsPermitted
<1>2. /\ UNCHANGED <<settings, listing, tasks, operator>>
      /\ t \in Task /\ t.from \in 0..built /\ t.kind \in Kinds /\ InForce(t)
  BY <1>1 DEF Answered, BeginCommit, CommitVerdict, Save, Asking, Task
<1>3. /\ cached' \in 0..built /\ saved' \in [Kinds -> 0..built]
      /\ cached' = cached \/ (Committing(w) /\ cached' = asker[w].task.from)
  <2>1. CASE Answered(w) \/ BeginCommit(w)
    BY <1>1, <2>1 DEF Answered, BeginCommit
  <2>2. CASE CommitVerdict(w)
    BY <1>1, <1>2, <2>2 DEF CommitVerdict, Committing
  <2>3. CASE Save(w)
    BY <1>1, <1>2, <2>3 DEF Save
  <2> QED
    BY <2>1, <2>2, <2>3
<1>4. PICK pc \in AskerPlaces, n \in {NoTask, t} :
        /\ At(w, pc, n)
        /\ committing' = (IF pc \in {"committing", "saving"} THEN w
                          ELSE IF committing = w THEN Nobody ELSE committing)
        /\ pc \in {"committing", "saving"} =>
             /\ n = t /\ (Committing(w) \/ t.open) /\ committing \in {w, Nobody}
  <2>1. CASE Answered(w)
    <3>1. committing # w
      BY <1>1, <2>1 DEF Answered
    <3>2. CASE AskerIdle(w)
      BY <2>1, <3>1, <3>2 DEF Answered, AskerIdle, AskerPlaces
    <3>3. CASE At(w, "answered", t)
      BY <2>1, <3>1, <3>3 DEF Answered, AskerPlaces
    <3> QED
      BY <2>1, <3>2, <3>3 DEF Answered
  <2>2. CASE BeginCommit(w)
    <3>1. CASE t.open
      BY <2>2, <3>1 DEF BeginCommit, AskerPlaces
    <3>2. CASE ~t.open
      BY <2>2, <3>2, ProviderAssumption DEF BeginCommit, AskerPlaces, AskerIdle
    <3> QED
      BY <3>1, <3>2
  <2>3. CASE CommitVerdict(w)
    BY <1>1, <2>3 DEF CommitVerdict, AskerPlaces, Committing
  <2>4. CASE Save(w)
    <3>1. committing = w
      BY <1>1, <2>4 DEF Save
    <3> QED
      BY <2>4, <3>1 DEF Save, AskerPlaces, AskerIdle
  <2> QED
    BY <2>1, <2>2, <2>3, <2>4
<1> HIDE DEF t
<1>5. n \in Task /\ InForce(n)
  BY <1>1, <1>2, <1>4, NoTaskIsTask DEF InForce
<1>6. /\ asker' \in [Askers -> Asking] /\ asker'[w].pc = pc /\ asker'[w].task = n
      /\ \A v \in Askers \ {w} : asker'[v] = asker[v]
  BY <1>4, <1>5, MovedWorker
<1>7. \A v \in Askers : InForce(asker'[v].task)
  BY <1>1, <1>5, <1>6
<1>8. /\ committing' \in Askers \cup {Nobody}
      /\ \A v \in Askers : (committing' = v) = (asker'[v].pc \in {"committing", "saving"})
  BY <1>1, <1>4, <1>6, ProviderAssumption
<1>9. \A v \in Askers : asker'[v].pc \in {"committing", "saving"} =>
        \/ Committing(v) /\ asker'[v].task = asker[v].task
        \/ asker'[v].task.open
  BY <1>1, <1>4, <1>6 DEF Committing, t
<1> QED
  BY <1>1, <1>2, <1>3, <1>6, <1>7, <1>8, <1>9, WorkerFrame

-----------------------------------------------------------------------------
\* The initial state: nothing queued, nothing cached.
LEMMA ProviderInitially == ProviderInit => ProviderInv
<1> SUFFICES ASSUME ProviderInit PROVE ProviderInv
  OBVIOUS
<1>1. /\ tasks \in Seq(Task) /\ Len(tasks) = 0 /\ DOMAIN tasks = {} /\ built = 1
      /\ NoTask \in Task /\ ~NoTask.open
  BY DEF ProviderInit, NoTask, Task, Kinds
<1>2. /\ asker \in [Askers -> Asking]
      /\ \A w \in Askers : asker[w].pc = "idle" /\ asker[w].task = NoTask
  BY <1>1 DEF ProviderInit, Asking, AskerPlaces
<1>3. operator \in [Operators -> Operating]
  BY DEF ProviderInit, Operating, OperatorPlaces
<1>4. ProviderTypeOK
  <2>1. committing = Nobody /\ \A w \in Askers : (committing = w) = (asker[w].pc \in {"committing", "saving"})
    BY <1>2, ProviderAssumption DEF ProviderInit
  <2>2. 0 <= ProviderQueue /\ 0 \in 0..MaxSwitches
    BY ProviderAssumption
  <2>3. /\ instance \in 0..built /\ cached \in 0..built /\ built \in Nat /\ switches = 0
        /\ enabledRow = TRUE /\ usable = TRUE /\ revoked = FALSE
    BY DEF ProviderInit
  <2>4. enabledRow \in BOOLEAN /\ usable \in BOOLEAN /\ revoked \in BOOLEAN
    BY <2>3
  <2>5. sharing \in [Kinds -> BOOLEAN]
    BY DEF ProviderInit
  <2>6. saved \in [Kinds -> 0..built]
    BY <1>1 DEF ProviderInit
  <2> QED
    BY <1>1, <1>2, <1>3, <2>1, <2>2, <2>3, <2>4, <2>5, <2>6
    DEF ProviderTypeOK, Asking, AskerPlaces, Operating, OperatorPlaces
<1> QED
  BY <1>1, <1>2, <1>4
  DEF ProviderInit, ProviderInv, OpenIsPermitted, InForce, CommitsAreAwaited, Committing, CacheInv

\* A handler at o moved, and no other.
Alone(o) == \A p \in Operators \ {o} : operator'[p] = operator[p]

LEMMA MovedOperator ==
    ASSUME ProviderTypeOK, NEW o \in Operators, NEW pc \in OperatorPlaces, OperatorAt(o, pc)
    PROVE  operator' \in [Operators -> Operating] /\ operator'[o].pc = pc /\ Alone(o)
BY TypeParts DEF OperatorAt, Operating, Alone

\* What a handler waits for is still being waited for when another one moves.
LEMMA OthersWait ==
    ASSUME NEW o \in Operators, Alone(o)
    PROVE  /\ Withdrawing => Withdrawing' \/ operator[o].pc \in {"waiting", "forgetting", "dropping"}
           /\ Clearing => \/ Clearing' \/ operator[o].pc = "forgetting"
                          \/ operator[o].pc = "dropping" /\ operator[o].stale
BY DEF Alone, Withdrawing, Clearing

\* A step of a handler that leaves the tasks and the listing alone.
LEMMA HandlerFrame ==
    ASSUME ProviderInv, NEW o \in Operators,
           UNCHANGED <<sharing, switches, listing, tasks, asker, committing>>,
           enabledRow' \in BOOLEAN, saved' \in [Kinds -> 0..built], cached' \in {0, cached},
           operator' \in [Operators -> Operating], Alone(o),
           operator[o].pc \in {"waiting", "forgetting", "dropping"} => committing = Nobody,
           operator[o].pc = "forgetting" \/ (operator[o].pc = "dropping" /\ operator[o].stale)
               => cached' = 0
    PROVE  ProviderInv'
<1>1. /\ ProviderTypeOK /\ OpenIsPermitted /\ CommitsAreAwaited /\ CacheInv
      /\ UNCHANGED <<instance, usable, revoked, built>>
  BY DEF ProviderInv, listing
<1>2. ProviderTypeOK'
  <2>1. /\ sharing \in [Kinds -> BOOLEAN] /\ instance \in 0..built
        /\ usable \in BOOLEAN /\ revoked \in BOOLEAN /\ switches \in 0..MaxSwitches
        /\ asker \in [Askers -> Asking] /\ tasks \in Seq(Task) /\ Len(tasks) <= ProviderQueue
        /\ committing \in Askers \cup {Nobody} /\ cached \in 0..built /\ built \in Nat
        /\ \A w \in Askers : (committing = w) = (asker[w].pc \in {"committing", "saving"})
    BY <1>1, TypeParts DEF ProviderTypeOK
  <2>2. cached' \in 0..built
    BY <2>1
  <2> QED
    BY <1>1, <2>1, <2>2, TypeFrame
<1>3. OpenIsPermitted'
  BY <1>1 DEF OpenIsPermitted, InForce
<1>4. CommitsAreAwaited'
  <2>1. CASE committing = Nobody
    BY <1>1, <2>1, TypeParts DEF CommitsAreAwaited, Committing
  <2>2. CASE committing # Nobody
    BY <1>1, <2>2, OthersWait DEF CommitsAreAwaited, Committing
  <2> QED
    BY <2>1, <2>2
<1>5. CacheInv'
  BY <1>1, OthersWait DEF CacheInv
<1> QED
  BY <1>2, <1>3, <1>4, <1>5 DEF ProviderInv

\* A withdrawal: it closes what it revokes, and its handler is the one that
\* commits under way are waited for by.
LEMMA WithdrawFrame ==
    ASSUME ProviderInv, ProviderTypeOK', NEW o \in Operators, Alone(o),
           NEW kinds, Withdraw(kinds), UNCHANGED <<cached, committing>>,
           operator[o].pc \in {"idle", "installing"},
           operator'[o].pc \in {"waiting", "forgetting", "dropping"},
           \/ Kinds \subseteq kinds
           \/ UNCHANGED listing /\ \A k \in Kinds \ kinds : sharing'[k] = sharing[k],
           \/ UNCHANGED listing
           \/ instance = 0
           \/ operator'[o].pc = "forgetting"
           \/ operator'[o].pc = "dropping" /\ operator'[o].stale
    PROVE  ProviderInv'
<1>1. /\ ProviderTypeOK /\ OpenIsPermitted /\ CommitsAreAwaited /\ CacheInv
      /\ asker \in [Askers -> Asking] /\ tasks \in Seq(Task)
  BY TypeParts DEF ProviderInv
<1>2. /\ DOMAIN tasks' = DOMAIN tasks
      /\ \A i \in DOMAIN tasks : tasks'[i] = Closed(tasks[i], kinds)
      /\ \A w \in Askers : /\ asker'[w].pc = asker[w].pc
                           /\ asker'[w].task = Closed(asker[w].task, kinds)
  BY <1>1, WithdrawKeeps
<1>3. \A w \in Askers : asker[w].task \in Task
  BY <1>1 DEF Asking
<1>4. Withdrawing'
  BY DEF Withdrawing
<1>5. Clearing => Clearing'
  BY OthersWait
<1>6. ASSUME NEW t \in Task, InForce(t)
      PROVE  InForce(Closed(t, kinds))'
  <2>1. /\ Closed(t, kinds).from = t.from /\ Closed(t, kinds).kind = t.kind
        /\ Closed(t, kinds).open => t.open /\ t.kind \notin kinds
        /\ t.kind \in Kinds
    BY ClosedTask DEF Task
  <2> DEFINE c == Closed(t, kinds)
  <2>2. c.open => c.from = instance' /\ ~revoked' /\ sharing'[c.kind]
    BY <1>6, <2>1 DEF InForce, listing
  <2>3. InForce(c)' <=> (c'.open => c'.from = instance' /\ ~revoked' /\ sharing'[c'.kind])
    BY DEF InForce
  <2>4. c' = c
    BY DEF Closed
  <2> HIDE DEF c
  <2>5. InForce(c)'
    BY <2>2, <2>3, <2>4
  <2> QED
    BY <2>5 DEF c
<1>7. OpenIsPermitted'
  BY <1>1, <1>2, <1>3, <1>6 DEF OpenIsPermitted, InForce
<1>8. ASSUME NEW n, n # 0, (n = instance /\ ~revoked) \/ Clearing
      PROVE  (n = instance' /\ ~revoked') \/ Clearing'
  BY <1>5, <1>8 DEF listing, Clearing
<1>9. CommitsAreAwaited'
  <2>1. \A w \in Askers : asker'[w].task.from = asker[w].task.from
    BY <1>2, <1>3, ClosedTask
  <2> QED
    BY <1>1, <1>2, <1>4, <1>8, <2>1 DEF CommitsAreAwaited, Committing
<1>10. CacheInv'
  BY <1>1, <1>8 DEF CacheInv
<1> QED
  BY <1>7, <1>9, <1>10 DEF ProviderInv

-----------------------------------------------------------------------------
LEMMA SwitchStep ==
    ASSUME ProviderInv, NEW o \in Operators, NEW k \in Kinds, NEW on \in BOOLEAN, Switch(o, k, on)
    PROVE  ProviderInv'
<1>1. /\ ProviderTypeOK /\ OpenIsPermitted /\ CommitsAreAwaited /\ CacheInv
      /\ sharing \in [Kinds -> BOOLEAN] /\ enabledRow \in BOOLEAN /\ instance \in 0..built
      /\ usable \in BOOLEAN /\ revoked \in BOOLEAN /\ switches \in 0..MaxSwitches
      /\ asker \in [Askers -> Asking] /\ tasks \in Seq(Task) /\ Len(tasks) <= ProviderQueue
      /\ committing \in Askers \cup {Nobody} /\ cached \in 0..built /\ saved \in [Kinds -> 0..built]
      /\ operator \in [Operators -> Operating]
      /\ \A w \in Askers : (committing = w) = (asker[w].pc \in {"committing", "saving"})
  BY TypeParts DEF ProviderInv, ProviderTypeOK
<1>2. /\ operator[o].pc = "idle" /\ switches < MaxSwitches /\ switches' = switches + 1
      /\ sharing' = [sharing EXCEPT ![k] = on]
      /\ UNCHANGED <<enabledRow, listing, cached, saved, committing>>
      /\ UNCHANGED <<instance, usable, revoked, built>>
  BY DEF Switch, WritesAreFree, listing
<1>3. switches' \in 0..MaxSwitches /\ sharing' \in [Kinds -> BOOLEAN]
  BY <1>1, <1>2, ProviderAssumption
<1>4. CASE on
  <2>1. UNCHANGED <<tasks, asker, operator>>
    BY <1>4 DEF Switch
  <2>2. ProviderTypeOK'
    BY <1>1, <1>2, <1>3, <2>1, TypeFrame
  <2>3. \A j \in Kinds : sharing[j] => sharing'[j]
    BY <1>1, <1>2, <1>4
  <2>4. \A t \in Task : InForce(t) => (t.open => t.from = instance /\ ~revoked /\ sharing'[t.kind])
    BY <2>3 DEF InForce, Task
  <2>5. OpenIsPermitted'
    <3>1. \A i \in DOMAIN tasks : tasks[i] \in Task
      BY <1>1
    <3>2. \A w \in Askers : asker[w].task \in Task
      BY <1>1 DEF Asking
    <3> QED
      BY <1>1, <1>2, <2>1, <2>4, <3>1, <3>2 DEF OpenIsPermitted, InForce
  <2> QED
    BY <1>1, <1>2, <2>1, <2>2, <2>5
    DEF ProviderInv, CommitsAreAwaited, CacheInv, Committing, Withdrawing, Clearing
<1>5. CASE ~on
  <2>1. Withdraw({k}) /\ OperatorAt(o, "waiting")
    BY <1>5 DEF Switch
  <2>2. operator' \in [Operators -> Operating] /\ operator'[o].pc = "waiting" /\ Alone(o)
    BY <1>1, <2>1, MovedOperator DEF OperatorPlaces
  <2>3. /\ tasks' \in Seq(Task) /\ Len(tasks') = Len(tasks) /\ asker' \in [Askers -> Asking]
        /\ \A w \in Askers : asker'[w].pc = asker[w].pc
    BY <1>1, <2>1, WithdrawKeeps
  <2>4. ProviderTypeOK'
    BY <1>1, <1>2, <1>3, <2>2, <2>3, TypeFrame
  <2>5. \A j \in Kinds \ {k} : sharing'[j] = sharing[j]
    BY <1>1, <1>2
  <2> QED
    BY <1>2, <2>1, <2>2, <2>4, <2>5, WithdrawFrame
<1> QED
  BY <1>4, <1>5

LEMMA InvalidateStep ==
    ASSUME ProviderInv, NEW o \in Operators, Invalidate(o)
    PROVE  ProviderInv'
<1>1. /\ ProviderTypeOK
      /\ sharing \in [Kinds -> BOOLEAN] /\ enabledRow \in BOOLEAN /\ instance \in 0..built
      /\ usable \in BOOLEAN /\ switches \in 0..MaxSwitches /\ Len(tasks) <= ProviderQueue
      /\ committing \in Askers \cup {Nobody} /\ cached \in 0..built /\ saved \in [Kinds -> 0..built]
      /\ \A w \in Askers : (committing = w) = (asker[w].pc \in {"committing", "saving"})
  BY TypeParts DEF ProviderInv, ProviderTypeOK
<1>2. /\ operator[o].pc = "idle" /\ revoked' = TRUE /\ Withdraw(Kinds) /\ OperatorAt(o, "forgetting")
      /\ UNCHANGED <<sharing, enabledRow, switches, instance, usable, built, cached, saved, committing>>
  BY DEF Invalidate, WritesAreFree, settings
<1>3. operator' \in [Operators -> Operating] /\ operator'[o].pc = "forgetting" /\ Alone(o)
  BY <1>1, <1>2, MovedOperator DEF OperatorPlaces
<1>4. /\ tasks' \in Seq(Task) /\ Len(tasks') = Len(tasks) /\ asker' \in [Askers -> Asking]
      /\ \A w \in Askers : asker'[w].pc = asker[w].pc
  BY <1>1, <1>2, WithdrawKeeps
<1>5. ProviderTypeOK'
  BY <1>1, <1>2, <1>3, <1>4, TypeFrame
<1> QED
  BY <1>2, <1>3, <1>5, WithdrawFrame

LEMMA InstallStep ==
    ASSUME ProviderInv, NEW o \in Operators, Install(o)
    PROVE  ProviderInv'
<1>1. /\ ProviderTypeOK /\ built \in Nat /\ instance \in 0..built
      /\ operator \in [Operators -> Operating]
      /\ sharing \in [Kinds -> BOOLEAN] /\ enabledRow \in BOOLEAN
      /\ switches \in 0..MaxSwitches /\ Len(tasks) <= ProviderQueue
      /\ committing \in Askers \cup {Nobody} /\ cached \in 0..built /\ saved \in [Kinds -> 0..built]
      /\ \A w \in Askers : (committing = w) = (asker[w].pc \in {"committing", "saving"})
  BY TypeParts DEF ProviderInv, ProviderTypeOK
<1>2. /\ operator[o].pc = "installing" /\ Withdraw(Kinds) /\ revoked' = FALSE
      /\ operator' = [operator EXCEPT ![o].pc = "dropping", ![o].found = FALSE,
                                      ![o].stale = instance # 0]
      /\ UNCHANGED <<sharing, enabledRow, switches, cached, saved, committing>>
  BY DEF Install, settings
<1>3. /\ built' \in Nat /\ built <= built' /\ instance' \in 0..built' /\ usable' \in BOOLEAN
  <2>1. operator[o].found \in BOOLEAN
    BY <1>1 DEF Operating
  <2>2. CASE instance' = built + 1 /\ built' = built + 1 /\ usable' = operator[o].found
    <3>1. built' \in Nat /\ built <= built' /\ instance' \in 0..built'
      BY <1>1, <2>2
    <3>2. usable' \in BOOLEAN
      BY <2>1, <2>2, Zenon
    <3> QED
      BY <3>1, <3>2
  <2>3. CASE instance' = 0 /\ usable' = FALSE /\ UNCHANGED built
    <3>1. built' \in Nat /\ built <= built' /\ instance' \in 0..built'
      BY <1>1, <2>3
    <3>2. usable' \in BOOLEAN
      BY <2>3, Zenon
    <3> QED
      BY <3>1, <3>2
  <2> QED
    BY <2>2, <2>3 DEF Install
<1>4. /\ operator' \in [Operators -> Operating] /\ operator'[o].pc = "dropping"
      /\ operator'[o].stale = (instance # 0) /\ Alone(o)
  <2> DEFINE b == instance # 0
  <2>2. b \in BOOLEAN /\ b = (instance # 0)
    OBVIOUS
  <2>3. operator' = [operator EXCEPT ![o].pc = "dropping", ![o].found = FALSE, ![o].stale = b]
    BY <1>2
  <2> HIDE DEF b
  <2>4. operator' \in [Operators -> Operating] /\ operator'[o].pc = "dropping" /\ Alone(o)
    <3> DEFINE r == [operator[o] EXCEPT !.pc = "dropping", !.found = FALSE, !.stale = b]
    <3>1. operator' = [operator EXCEPT ![o] = r] /\ operator[o] \in Operating
      BY <1>1, <2>3
    <3>2. r \in Operating /\ r.pc = "dropping"
      BY <2>2, <3>1 DEF Operating, OperatorPlaces
    <3> HIDE DEF r
    <3> QED
      BY <1>1, <3>1, <3>2 DEF Alone
  <2>5. operator'[o].stale = b
    BY <1>1, <2>2, <2>3 DEF Operating
  <2> QED
    BY <2>2, <2>4, <2>5
<1>5. /\ tasks' \in Seq(Task) /\ Len(tasks') = Len(tasks) /\ asker' \in [Askers -> Asking]
      /\ \A w \in Askers : asker'[w].pc = asker[w].pc
  BY <1>1, <1>2, WithdrawKeeps
<1>6. ProviderTypeOK'
  <2>1. Task \subseteq Task'
    BY <1>1, <1>3 DEF Task
  <2>2. tasks' \in Seq(Task')
    BY <1>5, <2>1
  <2>3. asker' \in [Askers -> [pc : AskerPlaces, task : Task']]
    BY <1>5, <2>1 DEF Asking
  <2>4. cached' \in 0..built' /\ saved' \in [Kinds -> 0..built']
    BY <1>1, <1>2, <1>3
  <2>5. \A w \in Askers : (committing' = w) = (asker'[w].pc \in {"committing", "saving"})
    BY <1>1, <1>2, <1>5
  <2> HIDE DEF Task
  <2> QED
    BY <1>1, <1>2, <1>3, <1>4, <1>5, <2>2, <2>3, <2>4, <2>5
    DEF ProviderTypeOK, AskerPlaces, Operating, OperatorPlaces
<1> QED
  BY <1>2, <1>4, <1>6, WithdrawFrame

\* The steps of a handler that only waits, writes, reads or forgets.
LEMMA HandlerStep ==
    ASSUME ProviderInv, NEW o \in Operators,
           \/ WaitForCommits(o) \/ ForgetInstance(o) \/ WriteRow(o)
           \/ LoadProviders(o) \/ DropStale(o)
    PROVE  ProviderInv'
<1>1. /\ ProviderTypeOK /\ operator \in [Operators -> Operating] /\ enabledRow \in BOOLEAN
      /\ built \in Nat /\ saved \in [Kinds -> 0..built]
  BY TypeParts DEF ProviderInv, ProviderTypeOK
<1>2. CASE WaitForCommits(o)
  <2>1. /\ operator[o].pc = "waiting" /\ committing = Nobody /\ OperatorAt(o, "idle")
        /\ UNCHANGED <<sharing, enabledRow, switches, listing, cached, saved, tasks, asker, committing>>
    BY <1>2 DEF WaitForCommits, settings
  <2>2. operator' \in [Operators -> Operating] /\ Alone(o)
    BY <1>1, <2>1, MovedOperator DEF OperatorPlaces
  <2> QED
    BY <1>1, <2>1, <2>2, HandlerFrame
<1>3. CASE ForgetInstance(o)
  <2>1. /\ operator[o].pc = "forgetting" /\ committing = Nobody /\ OperatorAt(o, "writing")
        /\ cached' = 0
        /\ UNCHANGED <<sharing, enabledRow, switches, listing, saved, tasks, asker, committing>>
    BY <1>3 DEF ForgetInstance, settings
  <2>2. operator' \in [Operators -> Operating] /\ Alone(o)
    BY <1>1, <2>1, MovedOperator DEF OperatorPlaces
  <2> QED
    BY <1>1, <2>1, <2>2, HandlerFrame
<1>4. CASE WriteRow(o)
  <2>1. /\ operator[o].pc = "writing" /\ OperatorAt(o, "loading")
        /\ UNCHANGED <<sharing, switches, listing, cached, tasks, asker, committing>>
    BY <1>4 DEF WriteRow
  <2>2. enabledRow' \in BOOLEAN /\ saved' \in [Kinds -> 0..built]
    BY <1>1, <1>4 DEF WriteRow
  <2>3. operator' \in [Operators -> Operating] /\ Alone(o)
    BY <1>1, <2>1, MovedOperator DEF OperatorPlaces
  <2> QED
    BY <1>1, <2>1, <2>2, <2>3, HandlerFrame
<1>5. CASE LoadProviders(o)
  <2>1. /\ operator[o].pc = "loading"
        /\ operator' = [operator EXCEPT ![o].pc = "installing", ![o].found = enabledRow]
        /\ UNCHANGED <<sharing, enabledRow, switches, listing, cached, saved, tasks, asker, committing>>
    BY <1>5 DEF LoadProviders, settings
  <2>2. operator' \in [Operators -> Operating] /\ Alone(o)
    BY <1>1, <2>1 DEF Operating, OperatorPlaces, Alone
  <2> QED
    BY <1>1, <2>1, <2>2, HandlerFrame
<1>6. CASE DropStale(o)
  <2>1. /\ operator[o].pc = "dropping" /\ committing = Nobody
        /\ cached' = IF operator[o].stale THEN 0 ELSE cached
        /\ operator' = [operator EXCEPT ![o].pc = "idle", ![o].stale = FALSE]
        /\ UNCHANGED <<sharing, enabledRow, switches, listing, saved, tasks, asker, committing>>
    BY <1>6 DEF DropStale, settings
  <2>2. operator' \in [Operators -> Operating] /\ Alone(o)
    BY <1>1, <2>1 DEF Operating, OperatorPlaces, Alone
  <2> QED
    BY <1>1, <2>1, <2>2, HandlerFrame
<1> QED
  BY <1>2, <1>3, <1>4, <1>5, <1>6

LEMMA ProviderInvStep == ProviderInv /\ [ProviderNext]_providerVars => ProviderInv'
<1> SUFFICES ASSUME ProviderInv, [ProviderNext]_providerVars PROVE ProviderInv'
  OBVIOUS
<1>1. CASE UNCHANGED providerVars
  BY <1>1 DEF ProviderInv, ProviderTypeOK, Task, OpenIsPermitted, InForce, CommitsAreAwaited,
      Committing, CacheInv, Withdrawing, Clearing, providerVars
<1>2. CASE ProviderNext
  BY <1>2, QueueStep, WorkerStep, SwitchStep, InvalidateStep, InstallStep, HandlerStep
  DEF ProviderNext
<1> QED
  BY <1>1, <1>2

LEMMA ProviderInvariant == ProviderSpec => []ProviderInv
<1> QED
  BY ProviderInitially, ProviderInvStep, PTL DEF ProviderSpec

\* Every variable of the engine keeps to its kind, and commitMu belongs to the
\* worker that commits.
THEOREM ProviderTypeCorrect == ProviderSpec => []ProviderTypeOK
<1>1. ProviderInv => ProviderTypeOK
  BY DEF ProviderInv
<1> QED
  BY <1>1, ProviderInvariant, PTL

\* The verdict queries are answered with is the listed instance's, or a
\* handler is about to forget it.
THEOREM CacheFollows == ProviderSpec => []CacheFollowsInstances
<1>1. ProviderInv => CacheFollowsInstances
  BY DEF ProviderInv, CacheInv, CacheFollowsInstances, Clearing, Withdrawing
<1> QED
  BY <1>1, ProviderInvariant, PTL

\* A worker commits under a permission in force or while the handler that
\* withdrew it waits.
THEOREM LateCommits == ProviderSpec => NoLateCommit
<1> DEFINE Held == \A w \in Askers : CommitVerdict(w) \/ (Save(w) /\ saved' # saved)
                                       => asker[w].task.open \/ Withdrawing
<1>1. ProviderInv => Held
  <2> SUFFICES ASSUME ProviderInv, NEW w \in Askers, CommitVerdict(w) \/ Save(w)
               PROVE  asker[w].task.open \/ Withdrawing
    OBVIOUS
  <2>1. Committing(w)
    BY DEF CommitVerdict, Save, Committing
  <2> QED
    BY <2>1 DEF ProviderInv, CommitsAreAwaited
<1>2. ProviderInv => [Held]_providerVars
  BY <1>1
<1> HIDE DEF Held
<1>3. ProviderSpec => [][Held]_providerVars
  BY <1>2, ProviderInvariant, PTL
<1> QED
  BY <1>3 DEF NoLateCommit, Held
=============================================================================
