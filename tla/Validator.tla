----------------------------- MODULE Validator -----------------------------
(***************************************************************************)
(* The DNSSEC validator: one validation walks from a trust anchor down to  *)
(* the zone of a name, one delegation at a time, and judges what it is     *)
(* told there, along a chain of aliases.  Its lookups are answered by a    *)
(* network that may answer truly, leave things out, mix in records of its  *)
(* own making or replay any signed record of any zone; it has no zone's    *)
(* key.  A signature is the key it was made with.                          *)
(*                                                                         *)
(* Absence is proved with NSEC records.  NSEC3, DNAME, QTYPE=ANY, several  *)
(* keys to a zone, clocks and algorithm policy are left out.               *)
(***************************************************************************)
EXTENDS Namespace, Sequences, FiniteSetsExt

CONSTANTS
    Signed,       \* the zones with keys and a DS in the zone above
    Anchors,      \* the zones with a configured trust anchor
    Rank,         \* the canonical order of names
    Star,         \* the wildcard names of the world, by the name they are under
    Examined,     \* what is validated: [owner, type]
    Attacker,     \* a key that is no zone's
    MaxHops, MaxZones, MaxLookups

\* Signed zones hang together below the anchors.  In the canonical order a name
\* is followed by its wildcard, then by the other names below it.
ASSUME ValidatorAssumption ==
    /\ Anchors \subseteq Signed /\ Signed \subseteq Cuts
    /\ {r.owner : r \in {h \in Held : h.type = "DS"}} = Signed \ {Root}
    /\ \A c \in Signed \ Anchors : ZonesFor(c, "DS") \subseteq Signed
    /\ \A r \in Held : r.owner \notin DOMAIN Alias
    /\ Rank \in [Tree -> Nat] /\ \A m, n \in Tree : m # n => Rank[m] # Rank[n]
    /\ \A m \in Tree : \A n \in Above[m] :
          /\ m # n => Rank[n] < Rank[m]
          /\ \A x \in Tree : Rank[n] <= Rank[x] /\ Rank[x] <= Rank[m] => n \in Above[x]
    /\ \A m, e \in Tree : Rank[m] = Rank[e] + 1 => e \in DOMAIN Star /\ m = Star[e]
    /\ DOMAIN Star \subseteq Tree
    /\ \A e \in DOMAIN Star : /\ Star[e] \in Tree \ Cuts /\ Rank[Star[e]] = Rank[e] + 1
                              /\ Above[Star[e]] = Above[e] \cup {Star[e]}
                              /\ \E r \in Held : r.owner = Star[e]
    /\ Attacker \notin Cuts
    /\ Examined \subseteq [owner : Tree, type : {"A", "NS", "DS"}]
    /\ {MaxHops, MaxZones, MaxLookups} \subseteq Nat

VARIABLES
    walk,       \* where the validation is
    proved,     \* walk.anchorZones and childZones: [path, keys]
    lookups,    \* walk.lookups
    verdict,    \* the status of the last validation, or "none"
    taken,      \* what it took the responses to say
    honest      \* every lookup was answered truly and in full

validatorVars == <<walk, proved, lookups, verdict, taken, honest>>

-----------------------------------------------------------------------------
(* NSEC records *)

ZoneOf(n, t) == Lowest(ZonesFor(n, t))
Types(z, n) ==
    IF n = z THEN {"NS", "SOA"} \cup {r.type : r \in {h \in Held : h.owner = n /\ h.type # "DS"}}
    ELSE IF n \in Cuts THEN {"NS"} \cup (IF n \in Signed THEN {"DS"} ELSE {})
    ELSE {r.type : r \in {h \in Held : h.owner = n}}
         \cup (IF n \in DOMAIN Alias THEN {"CNAME"} ELSE {})

\* The names z has records at, a delegation below it included.
Owners(z) == {n \in Tree : /\ n = z \/ ZoneOf(n, "DS") = z
                           /\ Types(z, n) # {}}
After(z, n) ==
    LET later == {m \in Owners(z) : Rank[m] > Rank[n]}
        first(S) == CHOOSE m \in S : \A x \in S : Rank[m] <= Rank[x]
    IN first(IF later = {} THEN Owners(z) ELSE later)

Nsec(z, n) == [zone |-> z, owner |-> n, next |-> After(z, n), types |-> Types(z, n)]
Chain(z) == IF z \in Signed THEN {Nsec(z, n) : n \in Owners(z)} ELSE {}
Denials == UNION {Chain(z) : z \in Cuts}

\* nameInInterval, of the name at a place in the order.
Spans(s, place) ==
    LET a == Rank[s.owner]
        b == Rank[s.next]
    IN IF a < b THEN a < place /\ place < b
       ELSE IF a > b THEN a < place \/ place < b
       ELSE place # a

FaultyAncestorDelegation(s) == "NS" \in s.types /\ "SOA" \in s.types /\ s.zone # s.owner

\* isAncestorDelegation: the record of the zone above a cut.
AncestorDelegation(s) == "NS" \in s.types /\ "SOA" \notin s.types /\ s.zone # s.owner

\* mayDeny: what the zone above a cut says of the cut and of names below it
\* counts for nothing ...
MayDeny(s, n) == ~(AncestorDelegation(s) /\ InBailiwick(s.owner, n))

\* matching: ... except for the DS at the cut.
AtName(D, n) == {s \in D : s.owner = n}
Matching(D, n, t) == {s \in AtName(D, n) : MayDeny(s, n) \/ t = "DS"}
Covering(D, n) == {s \in D : Spans(s, Rank[n]) /\ MayDeny(s, n)}

\* The same for the wildcard under e.
AtStar(D, e) == {s \in D : Rank[s.owner] = Rank[e] + 1}
CoveringStar(D, e) == {s \in D : Spans(s, Rank[e] + 1) /\ MayDeny(s, e)}

EmptyNonTerminal(D, n) == \E s \in Covering(D, n) : StrictlyBelow(n, s.next)

\* closestEncloser, by the record that covers n.
Encloser(n, s) == Lowest(Above[n] \cap (Above[s.owner] \cup Above[s.next]))

NoDataProved(D, n, t) ==
    IF Matching(D, n, t) # {}
      THEN \A s \in Matching(D, n, t) : s.types \cap {t, "CNAME"} = {}
      ELSE AtName(D, n) = {} /\ EmptyNonTerminal(D, n)

NameErrorProved(D, n) ==
    /\ AtName(D, n) = {}
    /\ \E s \in Covering(D, n) :
          /\ ~StrictlyBelow(n, s.next)
          /\ AtStar(D, Encloser(n, s)) = {}
          /\ CoveringStar(D, Encloser(n, s)) # {}

\* proveWildcardAnswer: no name closer than the expansion.
ExpansionProved(D, n, e) ==
    /\ AtName(D, NextLabel(e, n)) = {}
    /\ Covering(D, NextLabel(e, n)) # {}

\* proveNoDS: what the records say of a delegation.
DSDenial(D, child, nameError) ==
    LET at == {s \in AtName(D, child) : "SOA" \notin s.types} IN
    IF at # {} THEN
         IF \E s \in at : "DS" \in s.types THEN "contradicted"
         ELSE IF \E s \in at : "NS" \in s.types
           THEN IF nameError THEN "contradicted" ELSE "insecure"
         ELSE "not a cut"
    ELSE IF Covering(D, child) # {} THEN "not a cut"
    ELSE "none"
-----------------------------------------------------------------------------
(* What the zones would truly answer *)

Wildcards == {Star[e] : e \in DOMAIN Star}

\* A zone has NS records at its apex.
Has(n, t) == Question(n, t) \in Held \/ (t = "NS" /\ n \in Cuts)

Nearest(n) == Lowest({m \in Above[n] : Exists(m)})
Expands(n) == ~Exists(n) /\ Nearest(n) \in DOMAIN Star

\* The name whose labels the signature of n's data counts: those before a
\* wildcard's asterisk.
Source(n) == IF n \in Wildcards THEN Lowest(Above[n] \ {n})
             ELSE IF Expands(n) THEN Nearest(n) ELSE n

TrueKind(n, t) ==
    IF n \in DOMAIN Alias THEN "alias"
    ELSE IF Has(n, t) \/ (Expands(n) /\ Has(Star[Nearest(n)], t)) THEN "data"
    ELSE IF Exists(n) \/ Expands(n) THEN "nodata" ELSE "nxdomain"
TrueDenial(n, t) ==
    IF TrueKind(n, t) \in {"nodata", "nxdomain"} \/ Expands(n) THEN Chain(ZoneOf(n, t)) ELSE {}
-----------------------------------------------------------------------------
(* What lookups may bring *)

\* Any records of any zone, and all of one for an honest answer.
SomeDenials == {{}} \cup kSubset(1, Denials) \cup kSubset(2, Denials)
DenialsFor(n, t) == SomeDenials \cup {Chain(ZoneOf(n, t))}

Key(z) == IF z \in Signed THEN z ELSE Attacker

KeyResponses(z) ==
    {[keys |-> {z}, by |-> z], [keys |-> {z, Attacker}, by |-> Attacker],
     [keys |-> {Attacker}, by |-> Attacker], [keys |-> {}, by |-> Attacker]}

DSResponses(c) ==
    {[digests |-> {Attacker}, by |-> Attacker]}
      \cup (IF c \in Signed \ {Root} THEN {[digests |-> {c}, by |-> ZoneOf(c, "DS")]} ELSE {})

\* Records at the name asked about: true ones, an expanded wildcard's, or others.
RecordsAt(n, t) ==
    LET key == Key(ZoneOf(n, t))
        stars == {e \in DOMAIN Star : StrictlyBelow(e, n) /\ Has(Star[e], t)}
    IN [kind : {"data", "alias"}, by : {Attacker}, under : {n}]
       \cup (IF Has(n, t) /\ n \notin Wildcards
               THEN {[kind |-> "data", by |-> key, under |-> n]} ELSE {})
       \cup (IF n \in DOMAIN Alias THEN {[kind |-> "alias", by |-> key, under |-> n]} ELSE {})
       \cup {[kind |-> "data", by |-> Key(ZoneOf(Star[e], t)), under |-> e] : e \in stars}
-----------------------------------------------------------------------------
NoWalk == [pc |-> "idle", name |-> Root, type |-> "A", visited |-> {},
         path |-> <<>>, keys |-> {}, left |-> {}, child |-> Root, vouched |-> {}]

ValidatorInit ==
    /\ walk = NoWalk
    /\ proved = {} /\ taken = {}
    /\ lookups = 0
    /\ verdict = "none"
    /\ honest = TRUE

Zone == walk.path[Len(walk.path)]
Signature(k) == k \in walk.keys

\* The chain ends with what this hop is worth: only a secure alias is followed,
\* so the weakest link is the last.
EndWith(status) ==
    /\ walk' = NoWalk
    /\ verdict' = status
    /\ proved' = {}

Proceed(w) == walk' = w /\ UNCHANGED verdict

Enter(path, found) ==
    /\ Proceed([walk EXCEPT !.pc = "descend", !.path = path, !.keys = found])
    /\ proved' = proved \cup {[path |-> path, keys |-> found]}

\* deepestFor: the anchor a walk to n starts from.
AnchorsOf(n) == {a \in Anchors : InBailiwick(a, n)}
Anchor(n) == Lowest(AnchorsOf(n))

\* zoneCandidates: the names that could be zone cuts on the way down.
Candidates(a, n, t) ==
    IF t = "DS" /\ n # Root THEN {m \in Above[n] \ {n} : StrictlyBelow(a, m)}
    ELSE {m \in Above[n] : StrictlyBelow(a, m)}

\* The anchor's zone is established: a chain too deep is not started on.
FromAnchor(a, found) ==
    LET left == Candidates(a, walk.name, walk.type) IN
    IF Cardinality(left) > MaxZones THEN EndWith("indeterminate")
    ELSE /\ Proceed([walk EXCEPT !.pc = "descend", !.path = <<a>>, !.keys = found,
                                 !.left = left])
         /\ proved' = proved \cup {[path |-> <<a>>, keys |-> found]}

\* Validate
Validate(q) ==
    /\ walk.pc = "idle"
    /\ walk' = [NoWalk EXCEPT !.pc = "hop", !.name = q.owner, !.type = q.type]
    /\ lookups' = 0 /\ verdict' = "none" /\ taken' = {} /\ honest' = TRUE
    /\ UNCHANGED proved

\* chase and resolveOnce: the next name of the chain, from the deepest anchor.
BeginHop ==
    /\ walk.pc = "hop"
    /\ LET a == Anchor(walk.name)
           before == {p \in proved : p.path = <<a>>}
       IN IF \/ walk.name \in walk.visited \/ Cardinality(walk.visited) >= MaxHops
             \/ AnchorsOf(walk.name) = {}
            THEN EndWith("indeterminate")
          ELSE IF before # {}
            THEN FromAnchor(a, (CHOOSE p \in before : TRUE).keys)
          ELSE /\ Proceed([walk EXCEPT !.pc = "keys", !.path = <<>>, !.child = a,
                                       !.vouched = {a}])
               /\ UNCHANGED proved
    /\ UNCHANGED <<lookups, taken, honest>>

\* descend: a delegation crossed before in this validation is not asked about.
Descend ==
    /\ walk.pc = "descend"
    /\ UNCHANGED <<lookups, proved, taken, honest>>
    /\ IF walk.left = {} THEN Proceed([walk EXCEPT !.pc = "answer"])
       ELSE LET c == Highest(walk.left)
                before == {p \in proved : p.path = Append(walk.path, c)}
            IN IF before # {}
                 THEN Proceed([walk EXCEPT !.left = @ \ {c}, !.path = Append(@, c),
                                           !.keys = (CHOOSE p \in before : TRUE).keys])
                 ELSE Proceed([walk EXCEPT !.pc = "ds", !.child = c, !.left = @ \ {c}])

-----------------------------------------------------------------------------
(* Lookups *)

\* lookup fails: the budget is spent, the caller gave up, the source could not.
NoAnswer ==
    /\ walk.pc \in {"keys", "ds", "answer"}
    /\ EndWith("indeterminate")
    /\ honest' = (honest /\ lookups >= MaxLookups)
    /\ UNCHANGED <<lookups, taken>>

Lookup(truly) ==
    /\ lookups < MaxLookups
    /\ lookups' = lookups + 1
    /\ honest' = (honest /\ truly)

\* authenticateDNSKEYRRset: the keys a DS or anchor vouches for may sign the
\* set, and no other key of the set.
Signers(r) == r.keys \cap walk.vouched

\* establishAnchorZone, crossDelegation: the zone's keys are vouched for.
AuthenticateKeys ==
    /\ walk.pc = "keys"
    /\ \E r \in KeyResponses(walk.child) :
          /\ Lookup(r.by = walk.child /\ walk.child \in Signed)
          /\ IF r.by \notin Signers(r) THEN EndWith("bogus")
             ELSE IF walk.path = <<>> THEN FromAnchor(walk.child, r.keys)
             ELSE Enter(Append(walk.path, walk.child), r.keys)
    /\ UNCHANGED taken

\* A DS RRset counts when the zone above has signed it.
CrossDelegation ==
    /\ walk.pc = "ds"
    /\ \E r \in DSResponses(walk.child) :
          /\ Lookup(r.by \in Cuts)
          /\ IF Signature(r.by)
               THEN Proceed([walk EXCEPT !.pc = "keys", !.vouched = r.digests]) /\ UNCHANGED proved
               ELSE EndWith("bogus")
    /\ UNCHANGED taken

\* collectDenial: records not signed by the zone's keys are dropped.
Authenticated(D) == {s \in D : Signature(s.zone)}

\* What a validation takes to be so: of what is under a name, by whose key.
Claim(kind, under, by) == taken' = taken \cup
    {[kind |-> kind, name |-> walk.name, type |-> walk.type, under |-> under, by |-> by]}

Stay == Proceed([walk EXCEPT !.pc = "descend"]) /\ UNCHANGED proved

\* noDSAtDelegation: what the records prove, else what the source knows of the
\* name, else it is taken not to be a zone cut.
NoDS ==
    /\ walk.pc = "ds"
    /\ \E D \in DenialsFor(walk.child, "DS"), nameError \in BOOLEAN :
       LET denial == DSDenial(Authenticated(D), walk.child, nameError) IN
       /\ Lookup(/\ walk.child \notin Signed /\ D = TrueDenial(walk.child, "DS")
                 /\ nameError = (TrueKind(walk.child, "DS") = "nxdomain"))
       /\ CASE denial = "insecure" -> EndWith("insecure")
            [] denial = "contradicted" -> EndWith("bogus")
            [] denial = "not a cut" -> Stay
            [] OTHER -> Stay \/ EndWith("indeterminate")
       /\ IF denial = "insecure" THEN Claim("unsigned", walk.child, Zone) ELSE UNCHANGED taken

\* validateAnswer and validateAlias, with wildcardProof: records at the name.
AcceptRecords ==
    /\ walk.pc = "answer"
    /\ \E r \in RecordsAt(walk.name, walk.type), D \in DenialsFor(walk.name, walk.type),
          nameError \in BOOLEAN :
       /\ Lookup(/\ r.kind = TrueKind(walk.name, walk.type) /\ ~nameError
                 /\ r.by = Key(ZoneOf(walk.name, walk.type))
                 /\ r.under = Source(walk.name)
                 /\ D = TrueDenial(walk.name, walk.type))
       /\ Claim(r.kind, r.under, r.by)
       /\ IF \/ nameError /\ r.kind = "data"
             \/ ~Signature(r.by)
             \/ r.under # walk.name /\ ~ExpansionProved(Authenticated(D), walk.name, r.under)
            THEN EndWith("bogus")
          ELSE IF r.kind = "data" THEN EndWith("secure")
          ELSE /\ Proceed([walk EXCEPT !.pc = "hop", !.visited = @ \cup {walk.name},
                                       !.name = IF @ \in DOMAIN Alias THEN Alias[@] ELSE Root])
               /\ UNCHANGED proved

\* validateDenial: the response code says what the records have to prove.
AcceptAbsence ==
    /\ walk.pc = "answer"
    /\ \E D \in DenialsFor(walk.name, walk.type), nameError \in BOOLEAN :
       /\ Lookup(/\ TrueKind(walk.name, walk.type) = IF nameError THEN "nxdomain" ELSE "nodata"
                 /\ D = TrueDenial(walk.name, walk.type))
       /\ Claim(IF nameError THEN "nxdomain" ELSE "nodata", walk.name, Zone)
       /\ IF IF nameError THEN NameErrorProved(Authenticated(D), walk.name)
                          ELSE NoDataProved(Authenticated(D), walk.name, walk.type)
            THEN EndWith("secure") ELSE EndWith("bogus")

ValidatorNext ==
    \/ \E q \in Examined : Validate(q)
    \/ BeginHop \/ Descend \/ NoAnswer
    \/ AuthenticateKeys \/ CrossDelegation \/ NoDS
    \/ AcceptRecords \/ AcceptAbsence

ValidatorSpec == ValidatorInit /\ [][ValidatorNext]_validatorVars
-----------------------------------------------------------------------------
\* The variables hold values of their kinds, and no validation looks up more
\* than its budget.
ValidatorTypeOK ==
    /\ walk.pc \in {"idle", "hop", "keys", "descend", "ds", "answer"}
    /\ walk.name \in Tree /\ walk.visited \subseteq Tree
    /\ walk.keys \subseteq Cuts \cup {Attacker}
    /\ \A p \in proved : p.keys \subseteq Cuts \cup {Attacker}
    /\ lookups \in 0..MaxLookups
    /\ verdict \in {"none", "secure", "insecure", "indeterminate", "bogus"}
    /\ honest \in BOOLEAN

\* A DS asked for at its own anchor is looked for in the zone it delegates to.
AtItsAnchor(c) == c.type = "DS" /\ c.name \in Anchors \ {Root}

\* An expanded wildcard's data, where the name next below the wildcard's place
\* has no records but exists, by a name below it.
BesideWildcard(c) ==
    LET closer == NextLabel(c.under, c.name) IN
    /\ c.kind = "data" /\ c.under \in DOMAIN Star /\ StrictlyBelow(c.under, c.name)
    /\ c.by = ZoneOf(Star[c.under], c.type) /\ Has(Star[c.under], c.type)
    /\ Exists(closer) /\ closer \notin Owners(c.by)

\* What a claim says is so: every zone from the anchor down to that of the name
\* is signed, and holds the record or is without the type or the name.
True(c) ==
    IF c.kind = "unsigned"
    THEN c.under \in Candidates(Anchor(c.name), c.name, c.type) \cap (Cuts \ Signed)
    ELSE /\ \A z \in ZonesFor(c.name, c.type) : InBailiwick(Anchor(c.name), z) => z \in Signed
         /\ c.by = ZoneOf(c.name, c.type)
         /\ c.kind = TrueKind(c.name, c.type)
         /\ c.kind = "data" => c.under = Source(c.name)

\* What is proved for data under a wildcard's place is that the next name has no
\* records, not that it does not exist; and a DS at its own anchor is not asked
\* of the zone above.  Nothing more is said of these.
Established(c) == True(c) \/ BesideWildcard(c) \/ AtItsAnchor(c)

\* What a true answer is refused for: NSEC records are not read for the absence
\* of a type at a wildcard, and a wildcard's own name counts as an expansion.
NotRead(c) == \/ c.kind = "nodata" /\ Expands(c.name)
              \/ c.kind = "data" /\ c.name \in Wildcards
              \/ AtItsAnchor(c)

\* Secure is said only of what the zones that own the names really say,
\* through every alias: nothing left out, made up or replayed from another
\* place earns it, nor a wrong idea of where the zone cuts are.  Insecure is
\* said only when a zone on the way really is unsigned, so taking records away
\* never downgrades a signed zone.  Bogus is not said of true and full answers.
\* The exceptions are the ones above.
VerdictIsEarned ==
    /\ verdict \in {"secure", "insecure"} => \A c \in taken : Established(c)
    /\ honest /\ verdict = "bogus" => \E c \in taken : NotRead(c)
=============================================================================
