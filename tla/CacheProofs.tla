----------------------------- MODULE CacheProofs -----------------------------
(***************************************************************************)
(* Theorems about a shard of AnswerCache, of any size and with any         *)
(* messages and settings: it keeps its bound, evicts by age and use, and a *)
(* cached answer is given with what is left of its TTL.                    *)
(***************************************************************************)
EXTENDS AnswerCache, FiniteSetTheorems, WellFoundedInduction, TLAPS

\* A set of naturals has a least element: there is no infinite descent.
LEMMA NatOrder ==
    \E R : IsWellFoundedOn(R, Nat) /\ \A m, n \in Nat : m < n => <<m, n>> \in R
<1>1. \A m, n \in Nat : m < n => <<m, n>> \in OpToRel(<, Nat)
    BY DEF OpToRel
<1> QED  BY <1>1, NatLessThanWellFounded, Zenon

LEMMA LeastNat ==
    ASSUME NEW S \in SUBSET Nat, S # {}
    PROVE  \E n \in S : \A m \in S : n <= m
<1>1. PICK R : IsWellFoundedOn(R, Nat) /\ \A m, n \in Nat : m < n => <<m, n>> \in R
    BY NatOrder
<1>2. IsWellFoundedOn(R, Nat) /\ S \subseteq Nat
    BY <1>1, Zenon
<1>3. PICK n \in S : \A m \in S : ~(<<m, n>> \in R)
    BY <1>2, WFMin, Zenon
<1>4. ASSUME NEW m \in S PROVE n <= m
    <2>1. ~(m < n)
        BY <1>1, <1>3, Zenon
    <2> QED  BY <2>1
<1> QED  BY <1>4

\* The least TTL is one of them and none is less: Put's minTTL is a natural.
LEMMA SmallestIsLeast ==
    ASSUME NEW m \in Messages
    PROVE  /\ TTLs(m) \subseteq Nat
           /\ SmallestTTL(m) \in Nat
           /\ TTLs(m) # {} => SmallestTTL(m) \in TTLs(m)
           /\ \A t \in TTLs(m) : SmallestTTL(m) <= t
<1>1. TTLs(m) \subseteq Nat
    BY CacheAssumption DEF TTLs
<1>2. CASE TTLs(m) = {}
    BY <1>2 DEF SmallestTTL
<1>3. CASE TTLs(m) # {}
    <2> DEFINE Least(x) == x \in TTLs(m) /\ \A y \in TTLs(m) : x <= y
    <2>1. PICK x : Least(x)
        BY <1>1, <1>3, LeastNat
    <2> DEFINE chosen == CHOOSE z \in TTLs(m) : \A y \in TTLs(m) : z <= y
    <2>2. Least(chosen)
        BY <2>1, Zenon
    <2>3. SmallestTTL(m) = chosen
        BY <1>3 DEF SmallestTTL, Min
    <2> QED  BY <1>1, <2>2, <2>3
<1> QED  BY <1>2, <1>3

\* An entry never lives longer than max_ttl.
LEMMA LifetimeIsClamped ==
    ASSUME NEW m \in Messages
    PROVE  Lifetime(m) \in 0..maxTTL
<1> SmallestTTL(m) \in Nat
    BY SmallestIsLeast
<1> QED  BY CacheAssumption DEF Lifetime, Clamp, Raised

\* No record is kept beyond its own TTL as min_ttl raises it, unless it is in the
\* additional section and shorter than the others, or the least of them is zero.
LEMMA LifetimeHonoursTTLs ==
    ASSUME NEW m \in Messages, NEW t \in Nat, SmallestTTL(m) \in 1..t
    PROVE  Lifetime(m) <= Raised(t) /\ Raised(t) \in Nat
<1>1. SmallestTTL(m) \in Nat
    BY SmallestIsLeast
<1> QED  BY <1>1, CacheAssumption DEF Lifetime, Clamp, Raised

-----------------------------------------------------------------------------
Gets ==
    [at : {"idle"}]
    \cup [at : {"clocked"}, key : Keys, generation : 0..MaxGeneration,
          clock : 0..MaxClock]
    \cup [at : {"found"}, entry : Entry, clock : 0..MaxClock]
    \cup [at : {"served"}, entry : Entry, clock : 0..MaxClock, ttl : Nat]

TypeInv ==
    /\ TypeOK
    /\ get \in [Readers -> Gets]

LEMMA EntryIsNotNone == NoEntry \notin Entry
<1> Entry \subseteq [msg : Messages, expires : Nat, generation : Nat, lastUsed : Nat]
    BY CacheAssumption DEF Entry
<1> QED  BY CacheAssumption

LEMMA StoredIsTyped ==
    ASSUME TypeInv
    PROVE  /\ Stored \subseteq Keys
           /\ IsFiniteSet(Stored)
           /\ \A k \in Stored : entries[k] \in Entry
           /\ \A k \in Keys \ Stored : entries[k] = NoEntry
<1>1. Stored \subseteq Keys
    BY DEF Stored
<1>2. IsFiniteSet(Stored)
    BY <1>1, FS_Subset, CacheAssumption
<1> QED  BY <1>1, <1>2 DEF Stored, TypeInv, TypeOK

\* An eviction takes something from a full shard, and only what is in it.
LEMMA EvictionMakesRoom ==
    ASSUME TypeInv, Full, NEW V \in Scans, NEW gone \in Evicted(V)
    PROVE  /\ gone \subseteq Stored
           /\ Cardinality(Stored \ gone) < ShardMax
<1>0. V \subseteq Stored /\ IsFiniteSet(Stored)
    BY StoredIsTyped DEF Scans
<1>1. CASE Room(V)
    BY <1>0, <1>1 DEF Evicted, Room, Dead
<1>2. CASE ~Room(V)
    <2>1. PICK k \in V \ Dead(V) : gone = Dead(V) \cup {k}
        BY <1>2 DEF Evicted
    <2>2. gone \subseteq Stored /\ k \in Stored \ Dead(V)
        BY <1>0, <2>1 DEF Dead
    <2>3. IsFiniteSet(Stored \ Dead(V))
        BY <1>0, FS_Subset
    <2>4. Cardinality(Stored \ Dead(V)) <= Cardinality(Stored)
        BY <1>0, FS_Subset
    <2>5. /\ Cardinality((Stored \ Dead(V)) \ {k}) = Cardinality(Stored \ Dead(V)) - 1
        BY <2>2, <2>3, FS_RemoveElement
    <2>6. /\ Cardinality(Stored \ Dead(V)) \in Nat
          /\ Cardinality(Stored) \in Nat
        BY <1>0, <2>3, FS_CardinalityType
    <2>7. Cardinality(Stored) <= ShardMax
        BY DEF TypeInv, TypeOK, SizeBounded
    <2>8. Stored \ gone = (Stored \ Dead(V)) \ {k}
        BY <2>1
    <2>9. Cardinality(Stored \ gone) = Cardinality(Stored \ Dead(V)) - 1
        BY <2>5, <2>8, Zenon
    <2>10. Cardinality(Stored \ gone) < ShardMax
        BY <2>4, <2>6, <2>7, <2>9, CacheAssumption
    <2> QED  BY <2>2, <2>10
<1> QED  BY <1>1, <1>2

NewEntry(m, g) ==
    [msg |-> m, expires |-> now + Lifetime(m), generation |-> g, lastUsed |-> now]

\* What a Put does to the shard.
LEMMA PutEffect ==
    ASSUME TypeInv, NEW k \in Keys, NEW m \in Messages, NEW g \in 0..holderGen,
           Put(k, m, g)
    PROVE  \E gone \in SUBSET Stored :
             /\ NewEntry(m, g) \in Entry
             /\ \/ ~Full /\ gone = {}
                \/ Full /\ \E V \in Scans : gone \in Evicted(V)
             /\ Cardinality(Stored \ gone) < ShardMax
             /\ entries' = [j \in Keys |-> IF j = k THEN NewEntry(m, g)
                                           ELSE IF j \in gone THEN NoEntry
                                                          ELSE entries[j]]
<1>1. PICK gone \in IF Full THEN UNION {Evicted(V) : V \in Scans} ELSE {{}} :
          entries' = [j \in Keys |-> IF j = k THEN NewEntry(m, g)
                                     ELSE IF j \in gone THEN NoEntry
                                                    ELSE entries[j]]
    BY Zenon DEF Put, NewEntry
<1>2. NewEntry(m, g) \in Entry
    <2> Lifetime(m) \in 0..maxTTL
        BY LifetimeIsClamped
    <2> now \in 0..MaxClock /\ g \in 0..MaxGeneration
        BY CacheAssumption DEF TypeInv, TypeOK
    <2> now + Lifetime(m) \in 0..(MaxClock + maxTTL)
        BY CacheAssumption
    <2> QED  BY DEF Entry, NewEntry
<1>3. CASE Full
    <2>1. PICK V \in Scans : gone \in Evicted(V)
        BY <1>1, <1>3
    <2>2. gone \subseteq Stored /\ Cardinality(Stored \ gone) < ShardMax
        BY <1>3, <2>1, EvictionMakesRoom
    <2> QED  BY <1>1, <1>2, <1>3, <2>1, <2>2, Zenon
<1>4. CASE ~Full
    <2>1. gone = {}
        BY <1>1, <1>4
    <2>2. Cardinality(Stored) < ShardMax
        BY <1>4, StoredIsTyped, FS_CardinalityType, CacheAssumption DEF Full
    <2>3. Stored \ gone = Stored
        BY <2>1
    <2>4. Cardinality(Stored \ gone) < ShardMax
        BY <2>2, <2>3
    <2> QED  BY <1>1, <1>2, <1>4, <2>1, <2>4, Zenon
<1> QED  BY <1>3, <1>4

LEMMA PutKeepsType ==
    ASSUME TypeInv, NEW k \in Keys, NEW m \in Messages, NEW g \in 0..holderGen,
           Put(k, m, g)
    PROVE  TypeInv'
<1>1. PICK gone \in SUBSET Stored :
         /\ NewEntry(m, g) \in Entry
         /\ \/ ~Full /\ gone = {}
            \/ Full /\ \E V \in Scans : gone \in Evicted(V)
         /\ Cardinality(Stored \ gone) < ShardMax
         /\ entries' = [j \in Keys |-> IF j = k THEN NewEntry(m, g)
                                       ELSE IF j \in gone THEN NoEntry
                                                      ELSE entries[j]]
    BY PutEffect, Zenon
<1>2. entries' \in [Keys -> Entry \cup {NoEntry}]
    BY <1>1 DEF TypeInv, TypeOK
<1>3. Stored' \subseteq (Stored \ gone) \cup {k}
    BY <1>1 DEF Stored
<1>4. IsFiniteSet(Stored \ gone)
    BY StoredIsTyped, FS_Subset
<1>5. /\ IsFiniteSet((Stored \ gone) \cup {k})
      /\ Cardinality((Stored \ gone) \cup {k}) <= Cardinality(Stored \ gone) + 1
    <2>1. /\ IsFiniteSet((Stored \ gone) \cup {k})
          /\ \/ Cardinality((Stored \ gone) \cup {k}) = Cardinality(Stored \ gone)
             \/ Cardinality((Stored \ gone) \cup {k}) = Cardinality(Stored \ gone) + 1
        BY <1>4, FS_AddElement, Zenon
    <2>2. Cardinality(Stored \ gone) \in Nat
        BY <1>4, FS_CardinalityType
    <2> QED  BY <2>1, <2>2
<1>6. /\ Cardinality(Stored') <= Cardinality((Stored \ gone) \cup {k})
      /\ IsFiniteSet(Stored')
    BY <1>3, <1>5, FS_Subset
<1>7. Cardinality(Stored') <= ShardMax
    <2> /\ Cardinality(Stored') \in Nat
        /\ Cardinality((Stored \ gone) \cup {k}) \in Nat
        /\ Cardinality(Stored \ gone) \in Nat
        BY <1>4, <1>5, <1>6, FS_CardinalityType
    <2> QED  BY <1>1, <1>5, <1>6, CacheAssumption
<1> QED  BY <1>2, <1>7 DEF TypeInv, TypeOK, SizeBounded, Put

LEMMA LookupKeepsType ==
    ASSUME TypeInv, NEW r \in Readers, Lookup(r)
    PROVE  TypeInv'
<1>1. /\ get[r] \in Gets
      /\ get[r].at = "clocked"
    BY DEF TypeInv, Lookup
<1>2. /\ get[r].key \in Keys
      /\ get[r].clock \in 0..MaxClock
    BY <1>1 DEF Gets
<1> DEFINE k == get[r].key
<1>3. CASE Usable(r)
    <2>1. /\ entries' = [entries EXCEPT ![k].lastUsed = get[r].clock]
          /\ get' = [get EXCEPT ![r] =
                       [at |-> "found", entry |-> entries[k], clock |-> @.clock]]
        BY <1>3 DEF Lookup
    <2>2. entries[k] \in Entry
        BY <1>2, <1>3 DEF Usable, TypeInv, TypeOK
    <2>3. [entries[k] EXCEPT !.lastUsed = get[r].clock] \in Entry
        BY <1>2, <2>2 DEF Entry
    <2>4. entries' \in [Keys -> Entry \cup {NoEntry}]
        BY <1>2, <2>1, <2>3 DEF TypeInv, TypeOK
    <2>5. Stored' = Stored
        <3> Stored' \subseteq Stored
            BY <1>2, <2>1, <2>2, EntryIsNotNone DEF Stored, TypeInv, TypeOK
        <3> Stored \subseteq Stored'
            BY <1>2, <2>1, <2>3, EntryIsNotNone DEF Stored, TypeInv, TypeOK
        <3> QED  OBVIOUS
    <2>6. get' \in [Readers -> Gets]
        BY <1>2, <2>1, <2>2 DEF TypeInv, Gets
    <2> QED  BY <2>4, <2>5, <2>6 DEF TypeInv, TypeOK, SizeBounded, Lookup, Gets
<1>4. CASE ~Usable(r)
    <2>1. /\ entries' = [entries EXCEPT ![k] = NoEntry]
          /\ get' = [get EXCEPT ![r] = [at |-> "idle"]]
        BY <1>4 DEF Lookup
    <2>2. entries' \in [Keys -> Entry \cup {NoEntry}]
        BY <2>1 DEF TypeInv, TypeOK
    <2>3. Stored' \subseteq Stored
        BY <1>2, <2>1 DEF Stored, TypeInv, TypeOK
    <2>4. Cardinality(Stored') <= ShardMax
        <3> /\ IsFiniteSet(Stored)
            /\ IsFiniteSet(Stored')
            /\ Cardinality(Stored') <= Cardinality(Stored)
            BY <2>3, StoredIsTyped, FS_Subset
        <3> Cardinality(Stored) \in Nat /\ Cardinality(Stored') \in Nat
            BY FS_CardinalityType
        <3> QED  BY CacheAssumption DEF TypeInv, TypeOK, SizeBounded
    <2>5. get' \in [Readers -> Gets]
        BY <2>1 DEF TypeInv, Gets
    <2> QED  BY <2>2, <2>4, <2>5 DEF TypeInv, TypeOK, SizeBounded, Lookup, Gets
<1> QED  BY <1>3, <1>4

LEMMA ServeKeepsType ==
    ASSUME TypeInv, NEW r \in Readers, Serve(r)
    PROVE  TypeInv'
<1>1. /\ get[r] \in Gets
      /\ get[r].at = "found"
      /\ now \in 0..MaxClock
    BY DEF TypeInv, TypeOK, Serve
<1>2. get[r].entry \in Entry
    BY <1>1 DEF Gets
<1>3. get[r].entry.expires \in Nat /\ now \in Nat
    BY <1>1, <1>2, CacheAssumption DEF Entry
<1>4. PICK remaining \in ToUint32(get[r].entry.expires - now) :
        get' = [get EXCEPT ![r] =
                  [at |-> "served", entry |-> @.entry, clock |-> now,
                   ttl |-> IF remaining < 1 THEN 1 ELSE remaining]]
    BY DEF Serve
<1>5. (IF remaining < 1 THEN 1 ELSE remaining) \in Nat
    BY <1>3, CacheAssumption DEF ToUint32
<1>6. get' \in [Readers -> Gets]
    BY <1>1, <1>2, <1>4, <1>5 DEF TypeInv, Gets
<1>7. UNCHANGED <<now, holderGen, entries>>
    BY DEF Serve
<1>8. Stored' = Stored
    BY <1>7 DEF Stored
<1> QED  BY <1>6, <1>7, <1>8 DEF TypeInv, TypeOK, SizeBounded, Gets

LEMMA CacheKeepsType ==
    ASSUME TypeInv, [Next]_vars
    PROVE  TypeInv'
<1>1. ASSUME NEW k \in Keys, NEW m \in Messages, NEW g \in 0..holderGen, Put(k, m, g)
      PROVE  TypeInv'
    BY <1>1, PutKeepsType
<1>2. ASSUME NEW r \in Readers, NEW k \in Keys, NEW g \in 0..holderGen,
             ReadClock(r, k, g)
      PROVE  TypeInv'
    <2>1. /\ now \in 0..MaxClock
          /\ g \in 0..MaxGeneration
        BY CacheAssumption DEF TypeInv, TypeOK
    <2>2. get' \in [Readers -> Gets]
        BY <1>2, <2>1 DEF ReadClock, TypeInv, Gets
    <2>3. UNCHANGED <<now, holderGen, entries>>
        BY <1>2 DEF ReadClock
    <2> QED  BY <2>2, <2>3 DEF TypeInv, TypeOK, SizeBounded, Stored, Gets
<1>3. ASSUME NEW r \in Readers, Lookup(r)
      PROVE  TypeInv'
    BY <1>3, LookupKeepsType
<1>4. ASSUME NEW r \in Readers, Serve(r)
      PROVE  TypeInv'
    BY <1>4, ServeKeepsType
<1>5. CASE Purge
    <2>1. Stored' = {}
        BY <1>5 DEF Purge, Stored
    <2>2. Cardinality(Stored') <= ShardMax
        BY <2>1, FS_EmptySet, CacheAssumption
    <2> QED  BY <1>5, <2>2 DEF Purge, TypeInv, TypeOK, SizeBounded
<1>6. CASE Refresh
    BY <1>6, CacheAssumption DEF Refresh, TypeInv, TypeOK, SizeBounded, Stored
<1>7. CASE Tick
    BY <1>7, CacheAssumption DEF Tick, TypeInv, TypeOK, SizeBounded, Stored
<1>8. CASE UNCHANGED vars
    BY <1>8 DEF vars, TypeInv, TypeOK, SizeBounded, Stored
<1> QED  BY <1>1, <1>2, <1>3, <1>4, <1>5, <1>6, <1>7, <1>8 DEF Next

LEMMA CacheStartsTyped == Init => TypeInv
<1> SUFFICES ASSUME Init PROVE TypeInv
    OBVIOUS
<1>1. Stored = {}
    BY DEF Init, Stored
<1>2. Cardinality(Stored) <= ShardMax
    BY <1>1, FS_EmptySet, CacheAssumption
<1> QED  BY <1>2, CacheAssumption DEF Init, TypeInv, TypeOK, SizeBounded, Gets

THEOREM CacheTypeCorrect == Spec => []TypeOK
<1>1. TypeInv => TypeOK
    BY DEF TypeInv
<1> QED  BY <1>1, CacheStartsTyped, CacheKeepsType, PTL DEF Spec
-----------------------------------------------------------------------------
\* What a Get that no second passes in makes of the times: an entry never ends
\* later than its lifetime from now; what a Get found has not ended; and what is
\* served is what was left of it, but at least a second.
TimeInv ==
    /\ \A k \in Stored : entries[k].expires <= now + Lifetime(entries[k].msg)
    /\ \A r \in Readers :
        /\ get[r].at = "clocked" => get[r].clock = now
        /\ get[r].at = "found" => get[r].clock = now
        /\ get[r].at \in {"found", "served"} =>
            /\ get[r].clock <= get[r].entry.expires
            /\ get[r].entry.expires <= get[r].clock + Lifetime(get[r].entry.msg)
        /\ get[r].at = "served" =>
            get[r].ttl = LET left == get[r].entry.expires - get[r].clock
                         IN  IF left < 1 THEN 1 ELSE left

LEMMA PutKeepsTime ==
    ASSUME TypeInv, TimeInv, NEW k \in Keys, NEW m \in Messages,
           NEW g \in 0..holderGen, Put(k, m, g)
    PROVE  TimeInv'
<1>1. PICK gone \in SUBSET Stored :
         /\ NewEntry(m, g) \in Entry
         /\ \/ ~Full /\ gone = {}
            \/ Full /\ \E V \in Scans : gone \in Evicted(V)
         /\ Cardinality(Stored \ gone) < ShardMax
         /\ entries' = [j \in Keys |-> IF j = k THEN NewEntry(m, g)
                                       ELSE IF j \in gone THEN NoEntry
                                                      ELSE entries[j]]
    BY PutEffect, Zenon
<1>2. UNCHANGED <<now, holderGen, get>>
    BY DEF Put
<1>3. ASSUME NEW j \in Stored'
      PROVE  entries'[j].expires <= now' + Lifetime(entries'[j].msg)
    <2>1. CASE j = k
        <3>1. entries'[j] = NewEntry(m, g)
            BY <1>1, <2>1
        <3>2. Lifetime(m) \in Nat /\ now \in Nat
            BY LifetimeIsClamped, CacheAssumption DEF TypeInv, TypeOK
        <3>3. /\ entries'[j].expires = now + Lifetime(m)
              /\ entries'[j].msg = m
            BY <3>1 DEF NewEntry
        <3> QED  BY <1>2, <3>2, <3>3
    <2>2. CASE j # k
        <3>1. j \in Stored /\ entries'[j] = entries[j]
            BY <1>1, <2>2 DEF Stored
        <3> QED  BY <1>2, <3>1 DEF TimeInv
    <2> QED  BY <2>1, <2>2
<1> QED  BY <1>2, <1>3 DEF TimeInv

LEMMA LookupKeepsTime ==
    ASSUME TypeInv, TimeInv, NEW r \in Readers, Lookup(r)
    PROVE  TimeInv'
<1>1. /\ get[r] \in Gets
      /\ get[r].at = "clocked"
      /\ get[r].clock = now
      /\ now' = now
    BY DEF TypeInv, TimeInv, Lookup
<1>2. get[r].key \in Keys
    BY <1>1 DEF Gets
<1> DEFINE k == get[r].key
<1>3. CASE Usable(r)
    <2>1. /\ entries' = [entries EXCEPT ![k].lastUsed = get[r].clock]
          /\ get' = [get EXCEPT ![r] =
                       [at |-> "found", entry |-> entries[k], clock |-> @.clock]]
        BY <1>3 DEF Lookup
    <2>2. /\ k \in Stored
          /\ entries[k] \in Entry
          /\ get[r].clock <= entries[k].expires
        BY <1>2, <1>3 DEF Usable, Stored, TypeInv, TypeOK
    <2>3. ASSUME NEW j \in Stored'
          PROVE  entries'[j].expires <= now' + Lifetime(entries'[j].msg)
        <3>1. j \in Stored
            BY <2>1, <2>2 DEF Stored, TypeInv, TypeOK
        <3>2. /\ entries'[j].expires = entries[j].expires
              /\ entries'[j].msg = entries[j].msg
            BY <2>1, <2>2, <3>1 DEF Entry, Stored, TypeInv, TypeOK
        <3> QED  BY <1>1, <3>1, <3>2 DEF TimeInv
    <2>4. get'[r] = [at |-> "found", entry |-> entries[k], clock |-> now]
        BY <1>1, <2>1 DEF TypeInv
    <2>5. entries[k].expires <= now + Lifetime(entries[k].msg)
        BY <2>2 DEF TimeInv
    <2>6. \A q \in Readers \ {r} : get'[q] = get[q]
        BY <2>1 DEF TypeInv
    <2> QED  BY <1>1, <2>2, <2>3, <2>4, <2>5, <2>6 DEF TimeInv
<1>4. CASE ~Usable(r)
    <2>1. /\ entries' = [entries EXCEPT ![k] = NoEntry]
          /\ get' = [get EXCEPT ![r] = [at |-> "idle"]]
        BY <1>4 DEF Lookup
    <2>2. \A j \in Stored' : j \in Stored /\ entries'[j] = entries[j]
        BY <1>2, <2>1 DEF Stored, TypeInv, TypeOK
    <2>3. /\ get'[r] = [at |-> "idle"]
          /\ \A q \in Readers \ {r} : get'[q] = get[q]
        BY <2>1 DEF TypeInv
    <2> QED  BY <1>1, <2>2, <2>3 DEF TimeInv
<1> QED  BY <1>3, <1>4

LEMMA ServeKeepsTime ==
    ASSUME TypeInv, TimeInv, NEW r \in Readers, Serve(r)
    PROVE  TimeInv'
<1>1. /\ get[r] \in Gets
      /\ get[r].at = "found"
      /\ now \in 0..MaxClock
    BY DEF TypeInv, TypeOK, Serve
<1> DEFINE e == get[r].entry
<1>2. /\ e \in Entry
      /\ get[r].clock = now
      /\ now <= e.expires
      /\ e.expires <= now + Lifetime(e.msg)
    BY <1>1 DEF Gets, TimeInv
<1>3. e.expires \in Nat /\ now \in Nat
    BY <1>1, <1>2, CacheAssumption DEF Entry
<1>4. ToUint32(e.expires - now) = {e.expires - now}
    BY <1>2, <1>3 DEF ToUint32
<1>5. get' = [get EXCEPT ![r] =
                [at |-> "served", entry |-> e, clock |-> now,
                 ttl |-> IF e.expires - now < 1 THEN 1 ELSE e.expires - now]]
    BY <1>4 DEF Serve
<1>6. UNCHANGED <<now, holderGen, entries>>
    BY DEF Serve
<1>7. /\ get'[r] = [at |-> "served", entry |-> e, clock |-> now,
                    ttl |-> IF e.expires - now < 1 THEN 1 ELSE e.expires - now]
      /\ \A q \in Readers \ {r} : get'[q] = get[q]
    BY <1>5 DEF TypeInv
<1> QED  BY <1>2, <1>6, <1>7 DEF TimeInv, Stored

LEMMA TickKeepsTime ==
    ASSUME MaxPause = 0, TypeInv, TimeInv, Tick
    PROVE  TimeInv'
<1>1. /\ now \in Nat
      /\ now' = now + 1
      /\ UNCHANGED <<entries, get>>
      /\ \A r \in Readers : get[r].at \in {"clocked", "found"} => now - get[r].clock < 0
    BY CacheAssumption DEF TypeInv, TypeOK, Tick
<1>2. \A r \in Readers : get[r].at \notin {"clocked", "found"}
    BY <1>1 DEF TimeInv
<1>3. ASSUME NEW k \in Stored
      PROVE  entries[k].expires <= now' + Lifetime(entries[k].msg)
    <2>1. entries[k] \in Entry
        BY StoredIsTyped
    <2>2. entries[k].expires \in Nat /\ entries[k].msg \in Messages
        BY <2>1, CacheAssumption DEF Entry
    <2>3. Lifetime(entries[k].msg) \in Nat
        BY <2>2, LifetimeIsClamped, CacheAssumption
    <2>4. entries[k].expires <= now + Lifetime(entries[k].msg)
        BY DEF TimeInv
    <2> QED  BY <1>1, <2>2, <2>3, <2>4
<1> QED  BY <1>1, <1>2, <1>3 DEF TimeInv, Stored

LEMMA CacheKeepsTime ==
    ASSUME MaxPause = 0, TypeInv, TimeInv, [Next]_vars
    PROVE  TimeInv'
<1>1. ASSUME NEW k \in Keys, NEW m \in Messages, NEW g \in 0..holderGen, Put(k, m, g)
      PROVE  TimeInv'
    BY <1>1, PutKeepsTime
<1>2. ASSUME NEW r \in Readers, NEW k \in Keys, NEW g \in 0..holderGen,
             ReadClock(r, k, g)
      PROVE  TimeInv'
    <2>1. /\ get'[r] = [at |-> "clocked", key |-> k, generation |-> g, clock |-> now]
          /\ \A q \in Readers \ {r} : get'[q] = get[q]
          /\ UNCHANGED <<now, holderGen, entries>>
        BY <1>2 DEF ReadClock, TypeInv
    <2> QED  BY <2>1 DEF TimeInv, Stored
<1>3. ASSUME NEW r \in Readers, Lookup(r)
      PROVE  TimeInv'
    BY <1>3, LookupKeepsTime
<1>4. ASSUME NEW r \in Readers, Serve(r)
      PROVE  TimeInv'
    BY <1>4, ServeKeepsTime
<1>5. CASE Purge
    BY <1>5 DEF Purge, TimeInv, Stored
<1>6. CASE Refresh
    BY <1>6 DEF Refresh, TimeInv, Stored
<1>7. CASE Tick
    BY <1>7, TickKeepsTime
<1>8. CASE UNCHANGED vars
    BY <1>8 DEF vars, TimeInv, Stored
<1> QED  BY <1>1, <1>2, <1>3, <1>4, <1>5, <1>6, <1>7, <1>8 DEF Next

LEMMA CacheStartsInTime == Init => TimeInv
    BY DEF Init, TimeInv, Stored

LEMMA ServedIsTyped ==
    ASSUME TypeInv, TimeInv, NEW r \in Readers, get[r].at = "served"
    PROVE  /\ get[r].entry.msg \in Messages
           /\ get[r].entry.expires \in Nat
           /\ get[r].clock \in Nat
           /\ Lifetime(get[r].entry.msg) \in Nat
<1>1. /\ get[r].entry \in Entry
      /\ get[r].clock \in Nat
    BY CacheAssumption DEF TypeInv, Gets
<1>2. /\ get[r].entry.msg \in Messages
      /\ get[r].entry.expires \in Nat
    BY <1>1, CacheAssumption DEF Entry
<1> QED  BY <1>1, <1>2, LifetimeIsClamped, CacheAssumption

\* A cached answer's TTL only shrinks, when no second passes within a Get: the
\* case AnswerCache_pause refutes is the only one.
THEOREM TTLsOnlyShrink ==
    ASSUME MaxPause = 0
    PROVE  Spec => []TTLOnlyShrinks
<1>1. TypeInv /\ TimeInv => TTLOnlyShrinks
    <2> SUFFICES ASSUME TypeInv, TimeInv, NEW r \in Readers, get[r].at = "served"
                 PROVE  get[r].ttl = 1 \/ get[r].ttl <= Lifetime(get[r].entry.msg)
        BY DEF TTLOnlyShrinks
    <2>1. /\ get[r].ttl = 1 \/ get[r].ttl = get[r].entry.expires - get[r].clock
          /\ get[r].entry.expires <= get[r].clock + Lifetime(get[r].entry.msg)
        BY DEF TimeInv
    <2> QED  BY <2>1, ServedIsTyped
<1>2. TypeInv /\ TimeInv /\ [Next]_vars => TypeInv' /\ TimeInv'
    BY CacheKeepsType, CacheKeepsTime
<1> QED  BY <1>1, <1>2, CacheStartsTyped, CacheStartsInTime, PTL DEF Spec

\* A client is never told to keep a record longer than the upstream said or min_ttl
\* has it, when no second passes within a Get (AnswerCache_pause shows what happens
\* otherwise): of any message that is cached, whatever its sections hold, but for
\* the records HonoursCountedTTL excepts.
THEOREM UpstreamTTLsAreHonoured ==
    ASSUME MaxPause = 0
    PROVE  Spec => []HonoursCountedTTL
<1>1. TypeInv /\ TimeInv => HonoursCountedTTL
    <2> SUFFICES ASSUME TypeInv, TimeInv, NEW r \in Readers, get[r].at = "served",
                        NEW ttl \in Records(get[r].entry.msg),
                        SmallestTTL(get[r].entry.msg) \in 1..ttl
                 PROVE  Honoured(r, Raised(ttl))
        BY DEF HonoursCountedTTL
    <2>1. /\ get[r].ttl = 1 \/ get[r].ttl = get[r].entry.expires - get[r].clock
          /\ get[r].clock <= get[r].entry.expires
        BY DEF TimeInv
    <2>2. /\ get[r].entry.msg \in Messages
          /\ get[r].entry.expires \in Nat
          /\ get[r].clock \in Nat
          /\ Lifetime(get[r].entry.msg) \in Nat
        BY ServedIsTyped
    <2>3. ttl \in Nat
        BY <2>2, CacheAssumption DEF Records
    <2>4. Lifetime(get[r].entry.msg) <= Raised(ttl) /\ Raised(ttl) \in Nat
        BY <2>2, <2>3, LifetimeHonoursTTLs
    <2> QED  BY <2>1, <2>2, <2>4 DEF Honoured, StoredAt
<1>2. TypeInv /\ TimeInv /\ [Next]_vars => TypeInv' /\ TimeInv'
    BY CacheKeepsType, CacheKeepsTime
<1> QED  BY <1>1, <1>2, CacheStartsTyped, CacheStartsInTime, PTL DEF Spec
-----------------------------------------------------------------------------
\* What a scan throws out that is alive.
LEMMA EvictionIsFair ==
    ASSUME TypeInv, NEW V \in Scans, NEW gone \in Evicted(V), NEW k \in gone
    PROVE  \/ Expired(k)
           \/ Fresher(k) = Stored
           \/ Cardinality(Fresher(k)) >= Sample
<1>0. /\ V \subseteq Stored
      /\ V = Stored \/ Room(V) \/ Sampled(V)
      /\ IsFiniteSet(Stored)
      /\ \A j \in Stored : entries[j].lastUsed \in Nat
    BY StoredIsTyped, CacheAssumption DEF Scans, Entry
<1>1. CASE k \in Dead(V)
    BY <1>1 DEF Dead
<1>2. CASE k \notin Dead(V)
    <2>1. /\ ~Room(V)
          /\ k \in V \ Dead(V)
          /\ \A j \in V \ Dead(V) : ~Older(j, k)
        BY <1>2 DEF Evicted
    <2>2. V \ Dead(V) \subseteq Fresher(k)
        BY <1>0, <2>1 DEF Dead, Older, Fresher
    <2>3. CASE Sampled(V)
        <3>1. Fresher(k) \subseteq Stored /\ IsFiniteSet(Fresher(k))
            BY <1>0, FS_Subset DEF Fresher
        <3>2. /\ Cardinality(V \ Dead(V)) <= Cardinality(Fresher(k))
              /\ IsFiniteSet(V \ Dead(V))
            BY <2>2, <3>1, FS_Subset, Zenon
        <3>3. Cardinality(V \ Dead(V)) \in Nat /\ Cardinality(Fresher(k)) \in Nat
            BY <3>1, <3>2, FS_CardinalityType
        <3> QED  BY <2>3, <3>2, <3>3, CacheAssumption DEF Sampled
    <2>4. CASE V = Stored
        <3>1. /\ Cardinality(Stored) \in Nat
              /\ Cardinality(Stored) <= ShardMax
            BY <1>0, FS_CardinalityType DEF TypeInv, TypeOK, SizeBounded
        <3>2. Dead(V) = {}
            <4> SUFFICES ASSUME NEW d \in Dead(V) PROVE FALSE
                OBVIOUS
            <4>1. /\ Stored \ Dead(V) \subseteq Stored
                  /\ Stored \ Dead(V) # Stored
                BY <1>0 DEF Dead
            <4>2. /\ IsFiniteSet(Stored \ Dead(V))
                  /\ Cardinality(Stored \ Dead(V)) <= Cardinality(Stored)
                  /\ Cardinality(Stored \ Dead(V)) # Cardinality(Stored)
                BY <1>0, <4>1, FS_Subset, Zenon
            <4>3. Cardinality(Stored \ Dead(V)) \in Nat
                BY <4>2, FS_CardinalityType
            <4> QED  BY <2>1, <3>1, <4>2, <4>3, CacheAssumption DEF Room
        <3>3. Fresher(k) = Stored
            BY <2>2, <2>4, <3>2 DEF Fresher
        <3> QED  BY <3>3
    <2> QED  BY <1>0, <2>1, <2>3, <2>4
<1> QED  BY <1>1, <1>2

\* Whatever the size of the shard and of the sample, a Put throws out a live entry
\* only if as many as a sample are no longer unused than it, or the whole shard is.
THEOREM EvictionIsByAge == Spec => EvictionSparesTheUsed
<1> DEFINE Gone(k) == get' = get /\ now' = now /\ Stored' # {} /\ k \notin Stored'
           Spared(k) == \/ Expired(k)
                        \/ Fresher(k) = Stored
                        \/ Cardinality(Fresher(k)) >= Sample
<1>1. TypeInv /\ [Next]_vars => [\A k \in Stored : Gone(k) => Spared(k)]_vars
    <2> SUFFICES ASSUME TypeInv, Next, NEW k \in Stored, Gone(k)
                 PROVE  Spared(k)
        BY Zenon
    <2>1. ASSUME NEW p \in Keys, NEW m \in Messages, NEW g \in 0..holderGen, Put(p, m, g)
          PROVE  Spared(k)
        <3>1. PICK gone \in SUBSET Stored :
                 /\ NewEntry(m, g) \in Entry
                 /\ \/ ~Full /\ gone = {}
                    \/ Full /\ \E V \in Scans : gone \in Evicted(V)
                 /\ Cardinality(Stored \ gone) < ShardMax
                 /\ entries' = [j \in Keys |-> IF j = p THEN NewEntry(m, g)
                                               ELSE IF j \in gone THEN NoEntry
                                                              ELSE entries[j]]
            BY <2>1, PutEffect, Zenon
        <3>2. k \in Keys /\ entries[k] # NoEntry /\ entries'[k] = NoEntry
            BY DEF Stored
        <3>3. k # p /\ k \in gone
            BY <3>1, <3>2, EntryIsNotNone
        <3>4. PICK V \in Scans : Full /\ gone \in Evicted(V)
            BY <3>1, <3>3
        <3> QED  BY <3>3, <3>4, EvictionIsFair, Zenon
    <2>2. ASSUME NEW r \in Readers,
                 \/ \E p \in Keys, g \in 0..holderGen : ReadClock(r, p, g)
                 \/ Lookup(r)
                 \/ Serve(r)
          PROVE  FALSE
        <3>1. get' = get /\ get \in [Readers -> Gets]
            BY DEF TypeInv
        <3>2. CASE \E p \in Keys, g \in 0..holderGen : ReadClock(r, p, g)
            BY <3>1, <3>2 DEF ReadClock
        <3>3. CASE Lookup(r)
            BY <3>1, <3>3 DEF Lookup
        <3>4. CASE Serve(r)
            BY <3>1, <3>4 DEF Serve
        <3> QED  BY <2>2, <3>2, <3>3, <3>4
    <2>3. CASE Purge
        BY <2>3 DEF Purge, Stored
    <2>4. CASE Refresh \/ Tick
        BY <2>4 DEF Refresh, Tick, Stored
    <2> QED  BY <2>1, <2>2, <2>3, <2>4 DEF Next
<1> QED  BY <1>1, CacheStartsTyped, CacheKeepsType, PTL DEF Spec, EvictionSparesTheUsed
=============================================================================
