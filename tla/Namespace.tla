----------------------------- MODULE Namespace -----------------------------
(***************************************************************************)
(* The names of a small world, the zones they are in and what the zones    *)
(* hold: what the iterative resolver walks and the validator judges.       *)
(***************************************************************************)
EXTENDS Naturals, FiniteSets

CONSTANTS
    Tree, Root,            \* the names
    Above,                 \* of each name, itself and the names it is below
    Cuts,                  \* the zones, by their apexes
    Held,                  \* the records: [owner, type]
    Alias                  \* the targets of the names that are CNAMEs

\* Names are a tree, records and aliases have names, and nothing is below an
\* alias.  A delegation's NS records are those of Nameservers, not in Held.
ASSUME NamespaceAssumption ==
    /\ Root \in Cuts /\ Cuts \subseteq Tree
    /\ Above \in [Tree -> SUBSET Tree] /\ Above[Root] = {Root}
    /\ \A n \in Tree :
        /\ {n, Root} \subseteq Above[n] /\ IsFiniteSet(Above[n])
        /\ \A m \in Above[n] : Above[m] \subseteq Above[n] /\ (n \in Above[m] => m = n)
        /\ \A x, y \in Above[n] : x \in Above[y] \/ y \in Above[x]
        /\ Above[n] \cap DOMAIN Alias \subseteq {n}
    /\ Held \subseteq [owner : Tree, type : {"A", "DS"}]
    /\ DOMAIN Alias \subseteq Tree \ Cuts /\ \A n \in DOMAIN Alias : Alias[n] \in Tree

InBailiwick(z, n) == z \in Above[n]
StrictlyBelow(p, c) == p # c /\ p \in Above[c]

Lowest(names) == CHOOSE z \in names : \A y \in names : InBailiwick(y, z)
Highest(names) == CHOOSE z \in names : \A y \in names : InBailiwick(z, y)

\* nextLabel: one label more than zone on the way to n.
NextLabel(zone, n) == Highest({m \in Above[n] : StrictlyBelow(zone, m)})

Question(n, t) == [owner |-> n, type |-> t]

\* The zones a question is for: a DS is the parent's.
ZonesFor(n, t) == {z \in Cuts : InBailiwick(z, n) /\ (t = "DS" /\ n # Root => z # n)}

\* A name exists when it or a name below it has something.
Exists(n) == \E m \in Cuts \cup DOMAIN Alias \cup {r.owner : r \in Held} : InBailiwick(n, m)
=============================================================================
