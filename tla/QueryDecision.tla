--------------------------- MODULE QueryDecision ---------------------------
(***************************************************************************)
(* How one query is decided while an administrator changes the networks    *)
(* and policies.  The engine compiles the stored rows into a snapshot; the *)
(* handler attributes the client to a network under the snapshot it loads  *)
(* first and evaluates that network's policy under the one it loads next,  *)
(* asking the external providers only where no local rule decides.         *)
(*                                                                         *)
(* Changes are made one at a time, under API.configWrites; what one that   *)
(* fails half-way leaves in force is the subject of ConfigChange.          *)
(***************************************************************************)
EXTENDS Naturals, FiniteSets

CONSTANTS
    Networks, Policies,      \* the identifiers of rows, stored or not
    DefaultNetwork,          \* n_default
    DefaultPolicy,           \* the row with is_default
    NameRank,                \* the order of the networks' names
    Ranges, Bits, Within,  \* CIDRs, their lengths and the clients inside
    Clients,
    Asked, Parents,          \* names asked for; each with its parents
    Filed,                   \* the categories feeds file each name under
    Absent, Deleted,         \* a row not yet there, and one no longer there
    NoToken,
    StoredNetworks, StoredPolicies,   \* the rows to begin with
    NetworkWrites, PolicyWrites,      \* the rows administrators write
    MaxWrites                \* bound on the writes

NetworkRow == [ranges : SUBSET Ranges, policy : Policies, enabled : BOOLEAN]

ASSUME DecisionAssumption ==
    /\ IsFiniteSet(Networks) /\ IsFiniteSet(Policies) /\ IsFiniteSet(Ranges)
    /\ DefaultNetwork \in Networks /\ DefaultPolicy \in Policies
    /\ NameRank \in [Networks -> Nat]
    /\ \A m, n \in Networks : NameRank[m] = NameRank[n] => m = n
    /\ Bits \in [Ranges -> Nat] /\ Within \in [Ranges -> SUBSET Clients]
    /\ NoToken \notin Networks /\ Absent \notin NetworkRow /\ Deleted \notin NetworkRow
    /\ StoredNetworks \in [Networks -> NetworkRow \cup {Absent}]
    /\ DOMAIN StoredPolicies = Policies
    /\ StoredNetworks[DefaultNetwork] # Absent
    /\ StoredPolicies[DefaultPolicy] \notin {Absent, Deleted}
    /\ \A n \in Networks : StoredNetworks[n] # Absent =>
          StoredPolicies[StoredNetworks[n].policy] \notin {Absent, Deleted}
    /\ NetworkWrites \subseteq [network : Networks, row : NetworkRow]
    /\ \A w \in PolicyWrites : w.policy \in Policies /\ w.row \notin {Absent, Deleted}
    /\ MaxWrites \in Nat

VARIABLES
    configured,   \* the rows in the database
    compiled,     \* Engine.snap: the rows it was built from
    write,        \* what the administrator's handler does
    writes,
    lookup        \* the query at hand, with the snapshots it loaded

decisionVars == <<configured, compiled, write, writes, lookup>>

NoLookup == [pc |-> "none"]

DecisionInit ==
    /\ configured = [networks |-> StoredNetworks, policies |-> StoredPolicies]
    /\ compiled = configured
    /\ write = "idle" /\ writes = 0
    /\ lookup = NoLookup
-----------------------------------------------------------------------------
(* The snapshot *)

RowsOf(rows) == {i \in DOMAIN rows : rows[i] \notin {Absent, Deleted}}

\* Every CIDR of every enabled network ...
Routes(nets) ==
    {r \in [prefix : Ranges, network : RowsOf(nets)] :
        LET row == nets[r.network] IN row.enabled /\ r.prefix \in row.ranges}

\* The order attribution once had: networks by their narrowest range.
FaultyRouteBefore(nets, a, b) ==
    LET narrowest(n) == {p \in nets[n].ranges :
                            \A q \in nets[n].ranges : Bits[q] <= Bits[p]}
        bits(r) == Bits[CHOOSE p \in narrowest(r.network) : TRUE]
    IN \/ bits(a) > bits(b)
       \/ bits(a) = bits(b) /\ NameRank[a.network] < NameRank[b.network]

\* ... the longest first, then by the network's name.
RouteBefore(nets, a, b) ==
    \/ Bits[a.prefix] > Bits[b.prefix]
    \/ Bits[a.prefix] = Bits[b.prefix] /\ NameRank[a.network] < NameRank[b.network]

\* The catch-all: Default if it is enabled and has no range, else the first such
\* network by name, else the last of the list Reload sorts by longest range.
CatchAlls(nets) ==
    {n \in RowsOf(nets) : nets[n].enabled /\ nets[n].ranges = {}}
MaxBits(nets, n) ==
    LET lengths == {Bits[p] : p \in nets[n].ranges} \cup {0}
    IN CHOOSE b \in lengths : \A c \in lengths : c <= b
Fallback(nets) ==
    IF DefaultNetwork \in CatchAlls(nets) THEN DefaultNetwork
    ELSE IF CatchAlls(nets) # {}
      THEN CHOOSE n \in CatchAlls(nets) : \A m \in CatchAlls(nets) : NameRank[n] <= NameRank[m]
    ELSE CHOOSE n \in RowsOf(nets) : \A m \in RowsOf(nets) \ {n} :
            \/ MaxBits(nets, n) < MaxBits(nets, m)
            \/ MaxBits(nets, n) = MaxBits(nets, m) /\ NameRank[n] > NameRank[m]

\* MatchClient takes the first of the sorted routes that contains the client;
\* MatchNetworkID does not ask whether the network is enabled, and a network that
\* is gone leaves the address to decide.
MatchClient(nets, c) ==
    LET hits == {r \in Routes(nets) : c \in Within[r.prefix]}
    IN IF hits = {} THEN Fallback(nets)
       ELSE (CHOOSE r \in hits : \A q \in hits : ~RouteBefore(nets, q, r)).network

MatchQuery(nets, c, token) ==
    IF token \in RowsOf(nets) THEN token ELSE MatchClient(nets, c)

PolicyFor(s, p) == IF p \in RowsOf(s.policies) THEN s.policies[p] ELSE s.policies[DefaultPolicy]

\* matchSuffix and LookupEnabled: the name or a parent of it is listed.
Lists(set, d) == Parents[d] \cap set # {}
Files(categories, d) == \E m \in Parents[d] : Filed[m] \cap categories # {}

\* evaluateLocal: the allow list, then the policy's own block list, then the
\* feeds under the categories it enables.
LocalRule(p, d) ==
    IF Lists(p.allow, d) THEN "allow list"
    ELSE IF Lists(p.block, d) THEN "block list"
    ELSE IF Files(p.categories, d) THEN "category"
    ELSE "none"
-----------------------------------------------------------------------------
(* One query *)

\* A token names an enabled network of the database; an unknown one is refused.
Arrive(c, d, token) ==
    /\ lookup.pc \in {"none", "decided"}
    /\ token # NoToken =>
         token \in RowsOf(configured.networks) /\ configured.networks[token].enabled
    /\ lookup' = [pc |-> "arrived", client |-> c, name |-> d, token |-> token]
    /\ UNCHANGED <<configured, compiled, write, writes>>

MatchStep ==
    /\ lookup.pc = "arrived"
    /\ lookup' = [pc |-> "matched", client |-> lookup.client, name |-> lookup.name,
                  token |-> lookup.token, first |-> compiled,
                  network |-> MatchQuery(compiled.networks, lookup.client, lookup.token)]
    /\ UNCHANGED <<configured, compiled, write, writes>>

\* The policy's identifier is the one the first snapshot gives the network.
EvaluateStep ==
    /\ lookup.pc = "matched"
    /\ LET id == lookup.first.networks[lookup.network].policy
           rule == LocalRule(PolicyFor(compiled, id), lookup.name)
       IN lookup' = [pc |-> IF rule = "none" THEN "consulting" ELSE "decided",
                     client |-> lookup.client, name |-> lookup.name, token |-> lookup.token,
                     first |-> lookup.first, network |-> lookup.network,
                     second |-> compiled, rule |-> rule]
    /\ UNCHANGED <<configured, compiled, write, writes>>

\* The providers are asked last, and call the name malicious or do not answer.
ConsultStep ==
    /\ lookup.pc = "consulting"
    /\ \E rule \in {"none", "reputation"} :
          lookup' = [lookup EXCEPT !.pc = "decided", !.rule = rule]
    /\ UNCHANGED <<configured, compiled, write, writes>>
-----------------------------------------------------------------------------
(* The administrator *)

Wrote(rows) ==
    /\ write = "idle" /\ writes < MaxWrites
    /\ configured' = rows
    /\ write' = "written" /\ writes' = writes + 1
    /\ UNCHANGED <<compiled, lookup>>

\* CreateNetwork, UpdateNetwork: the policy must exist, and so must the row
\* unless it is created, under an identifier of its own.
WriteNetwork(n, row) ==
    /\ configured.networks[n] # Deleted
    /\ row.policy \in RowsOf(configured.policies)
    /\ Wrote([configured EXCEPT !.networks[n] = row])

\* DeleteNetwork: neither Default nor the only one.
DeleteNetwork(n) ==
    /\ n \in RowsOf(configured.networks) /\ n # DefaultNetwork
    /\ Cardinality(RowsOf(configured.networks)) > 1
    /\ Wrote([configured EXCEPT !.networks[n] = Deleted])

\* CreatePolicy, UpdatePolicy and the edits of single rules.
WritePolicy(p, row) ==
    /\ configured.policies[p] # Deleted
    /\ Wrote([configured EXCEPT !.policies[p] = row])

\* DeletePolicy: neither the default nor one a network is assigned to.
DeletePolicy(p) ==
    /\ p \in RowsOf(configured.policies) /\ p # DefaultPolicy
    /\ \A n \in RowsOf(configured.networks) : configured.networks[n].policy # p
    /\ Wrote([configured EXCEPT !.policies[p] = Deleted])

\* reloadEngine: a reload that fails is logged and leaves the snapshot as it is.
ReloadEngine ==
    /\ write = "written" /\ write' = "idle"
    /\ compiled' \in {compiled, configured}
    /\ UNCHANGED <<configured, writes, lookup>>

DecisionNext ==
    \/ \E c \in Clients, d \in Asked, token \in Networks \cup {NoToken} : Arrive(c, d, token)
    \/ MatchStep \/ EvaluateStep \/ ConsultStep
    \/ \E w \in NetworkWrites : WriteNetwork(w.network, w.row)
    \/ \E n \in Networks : DeleteNetwork(n)
    \/ \E w \in PolicyWrites : WritePolicy(w.policy, w.row)
    \/ \E p \in Policies : DeletePolicy(p)
    \/ ReloadEngine

DecisionSpec == DecisionInit /\ [][DecisionNext]_decisionVars
-----------------------------------------------------------------------------
\* Every variable holds a value of its kind, and no stored network is assigned
\* to a policy that is gone.
DecisionTypeOK ==
    /\ \A s \in {configured, compiled} :
         /\ s.networks \in [Networks -> NetworkRow \cup {Absent, Deleted}]
         /\ DOMAIN s.policies = Policies
         /\ \A n \in RowsOf(s.networks) : s.networks[n].policy \in RowsOf(s.policies)
    /\ write \in {"idle", "written"} /\ writes \in 0..MaxWrites
    /\ lookup.pc \in {"none", "arrived", "matched", "consulting", "decided"}
-----------------------------------------------------------------------------
(* What the documentation says a query is decided by *)

\* The networks that own the longest enabled prefix around a client.
Owning(nets, c) ==
    LET around == {r \in Routes(nets) : c \in Within[r.prefix]}
    IN {r.network : r \in {r \in around : \A q \in around : Bits[q.prefix] <= Bits[r.prefix]}}

\* A token's network is its own; of equal prefixes the first by name wins; a
\* client in none belongs to the catch-all.
BelongsTo(nets, q) ==
    IF q.token \in RowsOf(nets) THEN q.token
    ELSE IF Owning(nets, q.client) = {} THEN Fallback(nets)
    ELSE CHOOSE n \in Owning(nets, q.client) :
            \A m \in Owning(nets, q.client) : NameRank[n] <= NameRank[m]

\* A rule is the right one if the row names the question and no row that comes
\* before it does.
Warranted(s, q) ==
    LET p == s.policies[s.networks[BelongsTo(s.networks, q)].policy]
        listed == [allow |-> \E m \in p.allow : m \in Parents[q.name],
                   block |-> \E m \in p.block : m \in Parents[q.name],
                   feeds |-> \E m \in Parents[q.name], c \in p.categories : c \in Filed[m]]
    IN CASE q.rule = "allow list" -> listed.allow
         [] q.rule = "block list" -> listed.block /\ ~listed.allow
         [] q.rule = "category" -> listed.feeds /\ ~listed.block /\ ~listed.allow
         [] OTHER -> ~listed.feeds /\ ~listed.block /\ ~listed.allow

RowsChanged(s, t) ==
    Cardinality({n \in Networks : s.networks[n] # t.networks[n]})
      + Cardinality({p \in Policies : s.policies[p] # t.policies[p]})

\* A query that no more than one change overtook is decided, attribution and
\* all, as one of the two configurations it loaded says; and what a local rule
\* decides is never asked of a provider.
DecidedAsConfigured ==
    lookup.pc \in {"consulting", "decided"} /\ RowsChanged(lookup.first, lookup.second) <= 1 =>
        Warranted(lookup.first, lookup) \/ Warranted(lookup.second, lookup)
=============================================================================
