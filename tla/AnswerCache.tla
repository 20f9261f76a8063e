---------------------------- MODULE AnswerCache ----------------------------
(***************************************************************************)
(* One shard of the resolver's answer cache: Put with its TTL clamp and    *)
(* its sampled eviction, Get as the three moments it has (the clock is     *)
(* read, the entry is looked up under the lock, the remaining lifetime is  *)
(* computed after it), Purge, and the passing of time in seconds.          *)
(*                                                                         *)
(* A message is [rcode, truncated, answer, authority, additional], the     *)
(* last three being the sets of TTLs of the records in those sections, the *)
(* OPT record left out.                                                    *)
(***************************************************************************)
EXTENDS Integers, FiniteSets, FiniteSetsExt

CONSTANTS
    Keys, Messages, Readers,
    minTTL, maxTTL, negTTL,  \* the cache's settings, as NewCache clamps them
    ShardMax,                \* shard.max
    Sample,                  \* the entries evictLocked looks at
    UintModulus,             \* 2^32 in the program
    MaxPause,                \* bound: seconds that pass within one Get
    MaxClock,                \* bound: seconds
    MaxGeneration,           \* bound: feed refreshes
    NoEntry

ASSUME CacheAssumption ==
    /\ minTTL \in Nat /\ maxTTL \in Nat /\ negTTL \in Nat
    /\ ShardMax \in Nat \ {0} /\ Sample \in Nat \ {0}
    /\ IsFiniteSet(Keys)
    /\ NoEntry \notin [msg : Messages, expires : Nat, generation : Nat, lastUsed : Nat]
    /\ \A m \in Messages :
          m.answer \subseteq Nat /\ m.authority \subseteq Nat /\ m.additional \subseteq Nat
    /\ MaxClock \in Nat /\ MaxGeneration \in Nat /\ MaxPause \in Nat
    /\ UintModulus \in Nat /\ MaxClock < UintModulus

VARIABLES
    now,         \* the clock
    holderGen,   \* the blocklist generation queries read
    entries,     \* shard.entries
    get          \* each reader's Get

vars == <<now, holderGen, entries, get>>

Init ==
    /\ now = 0
    /\ holderGen = 0
    /\ entries = [k \in Keys |-> NoEntry]
    /\ get = [r \in Readers |-> [at |-> "idle"]]

Stored == {k \in Keys : entries[k] # NoEntry}

-----------------------------------------------------------------------------
\* Put.

\* minTTL(msg), over two of the sections: zero when they are empty.
TTLs(m) == m.answer \cup m.authority
SmallestTTL(m) == IF TTLs(m) = {} THEN 0 ELSE Min(TTLs(m))

\* Faulty variants of a definition stand before it, are named Faulty... and take
\* no part in the specification: each is a bug one of the properties catches.

\* max_ttl forgotten.
FaultyClamp(ttl) == IF ttl < minTTL THEN minTTL ELSE ttl

Raised(ttl) == IF ttl < minTTL THEN minTTL ELSE ttl
Clamp(ttl) == IF Raised(ttl) > maxTTL THEN maxTTL ELSE Raised(ttl)

Lifetime(m) == Clamp(IF SmallestTTL(m) = 0 THEN negTTL ELSE SmallestTTL(m))

Cacheable(m) == ~m.truncated /\ m.rcode \in {"NOERROR", "NXDOMAIN"}

Expired(k) == now > entries[k].expires

\* The most recently used goes.
FaultyOlder(j, k) == entries[j].lastUsed > entries[k].lastUsed

Older(j, k) == entries[j].lastUsed < entries[k].lastUsed

\* evictLocked's loop takes the map in any order and ends, at the latest with
\* the map, on an expired entry that leaves room or on a full sample.
Dead(V) == {k \in V : Expired(k)}
Room(V) == Cardinality(Stored \ Dead(V)) < ShardMax
Sampled(V) == Cardinality(V \ Dead(V)) >= Sample

\* The sets of keys it may have looked at.
Scans ==
    {V \in SUBSET Stored :
        /\ V = Stored \/ Room(V) \/ Sampled(V)
        /\ \E last \in V : ~Room(V \ {last}) /\ ~Sampled(V \ {last})}

\* What evictLocked deletes: the expired entries it met and, unless that made
\* room, the oldest of the others.
Evicted(V) ==
    IF Room(V) THEN {Dead(V)}
    ELSE {Dead(V) \cup {k} : k \in {k \in V \ Dead(V) :
                                       \A j \in V \ Dead(V) : ~Older(j, k)}}

\* A shard that counts as full one entry too late.
FaultyFull == Cardinality(Stored) > ShardMax

Full == Cardinality(Stored) >= ShardMax

Put(k, m, g) ==
    /\ Cacheable(m)
    /\ \E gone \in IF Full THEN UNION {Evicted(V) : V \in Scans} ELSE {{}} :
        entries' = [j \in Keys |->
            IF j = k
            THEN [msg |-> m, expires |-> now + Lifetime(m), generation |-> g,
                  lastUsed |-> now]
            ELSE IF j \in gone THEN NoEntry ELSE entries[j]]
    /\ UNCHANGED <<now, holderGen, get>>

-----------------------------------------------------------------------------
\* Get.

ReadClock(r, k, g) ==
    /\ get[r].at \in {"idle", "served"}
    /\ get' = [get EXCEPT ![r] =
                 [at |-> "clocked", key |-> k, generation |-> g, clock |-> now]]
    /\ UNCHANGED <<now, holderGen, entries>>

\* Expiry left to the eviction.
FaultyUsable(r) ==
    LET e == entries[get[r].key] IN
    e # NoEntry /\ e.generation = get[r].generation

Usable(r) ==
    LET e == entries[get[r].key] IN
    /\ e # NoEntry
    /\ get[r].clock <= e.expires
    /\ e.generation = get[r].generation

\* Under the shard's lock: a hit is marked used, an expired entry or one of
\* another generation is deleted.
Lookup(r) ==
    /\ get[r].at = "clocked"
    /\ LET k == get[r].key IN
       IF Usable(r)
       THEN /\ entries' = [entries EXCEPT ![k].lastUsed = get[r].clock]
            /\ get' = [get EXCEPT ![r] =
                         [at |-> "found", entry |-> entries[k], clock |-> @.clock]]
       ELSE /\ entries' = [entries EXCEPT ![k] = NoEntry]
            /\ get' = [get EXCEPT ![r] = [at |-> "idle"]]
    /\ UNCHANGED <<now, holderGen>>

\* uint32(x) of a negative number of seconds is what the build makes of it:
\* the low bits, or zero.
ToUint32(x) == IF x >= 0 THEN {x} ELSE {0, UintModulus + x}

\* time.Until after the lock is released; setTTL writes it on every record of the
\* message, the additional ones too.
Serve(r) ==
    /\ get[r].at = "found"
    /\ \E remaining \in ToUint32(get[r].entry.expires - now) :
        get' = [get EXCEPT ![r] =
                  [at |-> "served", entry |-> @.entry, clock |-> now,
                   ttl |-> IF remaining < 1 THEN 1 ELSE remaining]]
    /\ UNCHANGED <<now, holderGen, entries>>

-----------------------------------------------------------------------------
Purge ==
    /\ Stored # {}
    /\ entries' = [k \in Keys |-> NoEntry]
    /\ UNCHANGED <<now, holderGen, get>>

Refresh ==
    /\ holderGen < MaxGeneration
    /\ holderGen' = holderGen + 1
    /\ UNCHANGED <<now, entries, get>>

Tick ==
    /\ now < MaxClock
    /\ \A r \in Readers :
        get[r].at \in {"clocked", "found"} => now - get[r].clock < MaxPause
    /\ now' = now + 1
    /\ UNCHANGED <<holderGen, entries, get>>

\* A query may still carry a generation read before the last refresh.
Next ==
    \/ \E k \in Keys, m \in Messages, g \in 0..holderGen : Put(k, m, g)
    \/ \E r \in Readers :
        \/ \E k \in Keys, g \in 0..holderGen : ReadClock(r, k, g)
        \/ Lookup(r)
        \/ Serve(r)
    \/ Purge
    \/ Refresh
    \/ Tick

Spec == Init /\ [][Next]_vars

-----------------------------------------------------------------------------
Entry == [msg : Messages, expires : 0..(MaxClock + maxTTL),
          generation : 0..MaxGeneration, lastUsed : 0..MaxClock]

\* A shard never holds more than its share of cache.max_entries.
SizeBounded == Cardinality(Stored) <= ShardMax

\* Every variable holds a value of its kind; in particular no entry lives longer
\* than max_ttl allows, and none is stored beyond the shard's places.
TypeOK ==
    /\ now \in 0..MaxClock
    /\ holderGen \in 0..MaxGeneration
    /\ entries \in [Keys -> Entry \cup {NoEntry}]
    /\ \A r \in Readers : get[r].at \in {"idle", "clocked", "found", "served"}
    /\ SizeBounded

\* The records of the message a reader was served, and when it was stored.
Records(m) == m.answer \cup m.authority \cup m.additional
StoredAt(e) == e.expires - Lifetime(e.msg)

\* A record with this TTL is served to nobody beyond the moment the upstream's own
\* TTL for it ends, but for the one second an answer on its last moment is given.
Honoured(r, ttl) == get[r].clock + get[r].ttl <= StoredAt(get[r].entry) + ttl + 1

\* min_ttl 0 honours whatever the upstream said: no record is served beyond its own
\* TTL.
HonoursUpstreamTTL ==
    \A r \in Readers :
        get[r].at = "served" => \A ttl \in Records(get[r].entry.msg) : Honoured(r, ttl)

\* What the code does of that: no record, in whichever section, is served beyond its
\* own TTL or min_ttl, if its TTL is no less than the least of the answer and the
\* authority and that is not zero.  A shorter one in the additional section is not
\* looked at, and a zero is taken for no record at all.
HonoursCountedTTL ==
    \A r \in Readers :
        get[r].at = "served" =>
            LET m == get[r].entry.msg IN
            \A ttl \in Records(m) : SmallestTTL(m) \in 1..ttl => Honoured(r, Raised(ttl))

\* Get returns a cached response with TTLs decremented by the time it has been
\* held: whatever the clock does between its steps, a client is never given
\* more than the entry was stored with.
TTLOnlyShrinks ==
    \A r \in Readers :
        get[r].at = "served" =>
            get[r].ttl = 1 \/ get[r].ttl <= Lifetime(get[r].entry.msg)

\* What is no older than entry k and alive.
Fresher(k) == {j \in Stored : ~Expired(j) /\ entries[j].lastUsed >= entries[k].lastUsed}

\* A Put into a full shard throws out an entry that is still alive only if it is the
\* longest unused of a full sample or of the whole shard, with nothing expired
\* there: however large the shard, at least a sample of others are fresher.
EvictionSparesTheUsed ==
    [][\A k \in Stored :
        (get' = get /\ now' = now /\ Stored' # {} /\ k \notin Stored') =>
            \/ Expired(k)
            \/ Fresher(k) = Stored
            \/ Cardinality(Fresher(k)) >= Sample]_vars
=============================================================================
