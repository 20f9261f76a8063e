---------------------------- MODULE BlockClaims ----------------------------
(***************************************************************************)
(* How the blocklist index is built and looked up.  A Builder is fed the   *)
(* claims of every feed in some order; each name keeps its primary claim,  *)
(* the most severe, and the other claims beside it.  A lookup walks from   *)
(* the name up through its parents.  A name is the sequence of its labels, *)
(* leftmost first.                                                         *)
(***************************************************************************)
EXTENDS Naturals, Sequences, FiniteSets

CONSTANTS
    Names,        \* the names feeds list and clients ask for
    Categories,
    Severity,     \* rankOf: lower is more severe
    Sources,      \* the feeds
    NoClaim,
    MaxClaims     \* bound on the claims a build is fed

ASSUME ClaimAssumption ==
    /\ IsFiniteSet(Names) /\ \A n \in Names : n \in Seq(STRING) /\ n # <<>>
    /\ Severity \in [Categories -> Nat]
    /\ \A c, d \in Categories : Severity[c] = Severity[d] => c = d
    /\ MaxClaims \in Nat
    /\ NoClaim \notin [category : Categories, feed : Sources]

VARIABLES
    domains,      \* Index.domains: the primary claim on each name
    extra,        \* Index.extra: its further claims, in order
    byCategory,   \* Index.byCategory
    byFeed,       \* Index.feeds
    claims        \* everything Add was given, in order

claimVars == <<domains, extra, byCategory, byFeed, claims>>

Entry == [category : Categories, feed : Sources]

ClaimsInit ==
    /\ domains = [n \in Names |-> NoClaim]
    /\ extra = [n \in Names |-> <<>>]
    /\ byCategory = [c \in Categories |-> 0]
    /\ byFeed = [s \in Sources |-> 0]
    /\ claims = <<>>

-----------------------------------------------------------------------------
HasClaim(n, category) ==
    \E i \in DOMAIN extra[n] : extra[n][i].category = category

\* The first claim on a name.
AddFirst(n, e) ==
    /\ domains[n] = NoClaim
    /\ domains' = [domains EXCEPT ![n] = e]
    /\ byCategory' = [byCategory EXCEPT ![e.category] = @ + 1]
    /\ byFeed' = [byFeed EXCEPT ![e.feed] = @ + 1]
    /\ UNCHANGED extra

\* A category the name already carries changes nothing.
AddKnown(n, e) ==
    /\ domains[n] # NoClaim
    /\ domains[n].category = e.category \/ HasClaim(n, e.category)
    /\ UNCHANGED <<domains, extra, byCategory, byFeed>>

FaultyAddFurther(n, e) ==
    /\ domains[n] # NoClaim
    /\ domains[n].category # e.category /\ ~HasClaim(n, e.category)
    /\ byCategory' = [byCategory EXCEPT ![e.category] = @ + 1]
    /\ IF Severity[e.category] < Severity[domains[n].category]
         THEN /\ domains' = [domains EXCEPT ![n] = e]
              /\ byFeed' = [byFeed EXCEPT ![domains[n].feed] = @ - 1, ![e.feed] = @ + 1]
              /\ UNCHANGED extra
         ELSE /\ extra' = [extra EXCEPT ![n] = Append(@, e)]
              /\ UNCHANGED <<domains, byFeed>>

\* Another category: the more severe claim is the primary one and its feed is
\* credited with the name, the other is kept beside it.
AddFurther(n, e) ==
    /\ domains[n] # NoClaim
    /\ domains[n].category # e.category /\ ~HasClaim(n, e.category)
    /\ byCategory' = [byCategory EXCEPT ![e.category] = @ + 1]
    /\ IF Severity[e.category] < Severity[domains[n].category]
         THEN /\ domains' = [domains EXCEPT ![n] = e]
              /\ byFeed' = [s \in Sources |->
                    byFeed[s] - (IF s = domains[n].feed THEN 1 ELSE 0)
                              + (IF s = e.feed THEN 1 ELSE 0)]
              /\ extra' = [extra EXCEPT ![n] = Append(@, domains[n])]
         ELSE /\ extra' = [extra EXCEPT ![n] = Append(@, e)]
              /\ UNCHANGED <<domains, byFeed>>

Add(n, e) ==
    /\ Len(claims) < MaxClaims
    /\ claims' = Append(claims, [name |-> n, category |-> e.category, feed |-> e.feed])
    /\ AddFirst(n, e) \/ AddKnown(n, e) \/ AddFurther(n, e)

ClaimsNext == \E n \in Names, e \in Entry : Add(n, e)

ClaimsSpec == ClaimsInit /\ [][ClaimsNext]_claimVars

-----------------------------------------------------------------------------
(* Looking a name up *)

\* Suffixes: the name and each of its parents, longest first.
Suffix(n, i) == SubSeq(n, i, Len(n))
Listed(n) == n \in Names /\ domains[n] # NoClaim

\* The claim on one name under the enabled categories: the primary one if it
\* is enabled, else the most severe of the others, the first of these on a tie.
ClaimOn(n, enabled) ==
    LET x == extra[n]
        on == {i \in DOMAIN x : x[i].category \in enabled}
        best == {i \in on : \A j \in on :
                    \/ Severity[x[i].category] < Severity[x[j].category]
                    \/ Severity[x[i].category] = Severity[x[j].category] /\ i <= j}
    IN IF domains[n].category \in enabled THEN domains[n]
       ELSE IF on = {} THEN NoClaim
       ELSE x[CHOOSE i \in best : TRUE]

\* LookupEnabled stops at the most specific name with an enabled claim.
LookupEnabled(n, enabled) ==
    LET hits == {i \in DOMAIN n : /\ Listed(Suffix(n, i))
                                  /\ ClaimOn(Suffix(n, i), enabled) # NoClaim}
    IN IF hits = {} THEN NoClaim
       ELSE ClaimOn(Suffix(n, CHOOSE i \in hits : \A j \in hits : i <= j), enabled)

-----------------------------------------------------------------------------
\* Every variable holds a value of its kind, and the primary claim is at least
\* as severe as the others.
ClaimsTypeOK ==
    /\ domains \in [Names -> Entry \cup {NoClaim}]
    /\ extra \in [Names -> Seq(Entry)]
    /\ byCategory \in [Categories -> Nat]
    /\ byFeed \in [Sources -> Nat]
    /\ claims \in Seq([name : Names, category : Categories, feed : Sources])
    /\ \A n \in Names : \A i \in DOMAIN extra[n] :
          /\ domains[n] # NoClaim
          /\ Severity[domains[n].category] <= Severity[extra[n][i].category]

-----------------------------------------------------------------------------
(* What was claimed, read off the claims themselves *)

ClaimsOn(m, enabled) ==
    {i \in DOMAIN claims : claims[i].name = m /\ claims[i].category \in enabled}

\* The claim that blocks a name: on the most specific name claimed under an
\* enabled category, the most severe such category, the first feed to file it.
Blocking(n, enabled) ==
    {i \in DOMAIN claims : \E k \in DOMAIN n :
        LET here == ClaimsOn(Suffix(n, k), enabled) IN
        /\ i \in here
        /\ \A j \in 1..(k - 1) : ClaimsOn(Suffix(n, j), enabled) = {}
        /\ \A j \in here : Severity[claims[i].category] <= Severity[claims[j].category]
        /\ \A j \in here : claims[j].category = claims[i].category => i <= j}

Primary(n) == {i \in ClaimsOn(n, Categories) : i \in Blocking(n, Categories)}

\* Whatever order the feeds are read in, from the first claim on: a policy
\* blocks a name exactly when a feed claimed it or a parent under a category it
\* enables, and reports that claim; the counts on the dashboard are those of
\* the claims.
BlockingIsExact ==
    claims # <<>> =>
       /\ \A n \in Names, enabled \in SUBSET Categories :
             LET e == LookupEnabled(n, enabled)
                 blocking == Blocking(n, enabled) IN
             /\ e = NoClaim <=> blocking = {}
             /\ \A i \in blocking :
                   e = [category |-> claims[i].category, feed |-> claims[i].feed]
       /\ \A c \in Categories :
             byCategory[c] = Cardinality({n \in Names : ClaimsOn(n, {c}) # {}})
       /\ \A s \in Sources :
             byFeed[s] = Cardinality({n \in Names : \E i \in Primary(n) : claims[i].feed = s})
=============================================================================
