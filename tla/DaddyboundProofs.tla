-------------------------- MODULE DaddyboundProofs --------------------------
(***************************************************************************)
(* Theorems about the parts of daddybound, the validating resolver.        *)
(*                                                                         *)
(* TrustAnchors, for any keys, configuration, hold-downs, answers and      *)
(* number of restarts: what becomes an anchor has served its hold-down,    *)
(* what withdrew itself stays withdrawn, and nothing else takes an anchor  *)
(* away.                                                                   *)
(*                                                                         *)
(* Recursion, for any tree of names, zones, records, aliases, nameservers, *)
(* questions and limits: no resolution goes over its budgets, and what it  *)
(* returns is what the zone that holds the name says of the question; it   *)
(* ends.                                                                   *)
(*                                                                         *)
(* Validator, for any signed world, anchors, wildcards, names validated    *)
(* and limits: whatever the network answers, a verdict is earned, and a    *)
(* validation ends.                                                        *)
(***************************************************************************)
EXTENDS TrustAnchors, Recursion, Validator, FiniteSetTheorems, WellFoundedInduction, TLAPS

-----------------------------------------------------------------------------
(* Managed trust anchors *)

WellFormed(tp) ==
    /\ tp \in TrustPoint
    /\ \A k \in Keys : tp[k].state = "start" => tp[k] = Untracked

\* The file holds what the manager once held.
FileInv ==
    stored # Never => /\ WellFormed(stored.keys)
                      /\ stored.stuck <=> Recompute(stored.keys) = {}

\* The anchors are computed from the keys.
DerivedInv ==
    /\ anchors = Recompute(keys)
    /\ stuck <=> anchors = {}

\* A key on hold has been published since its timer was set.
SinceInPast == \A k \in Keys : since[k] # Never => since[k] <= clock
HoldDownInv ==
    ~rolledBack =>
        \A k \in Keys : keys[k].state = "addpend" =>
            since[k] # Never /\ since[k] + AddHoldDown <= keys[k].addUntil

\* A tracked anchor that withdrew itself is recorded as such.
WithdrawnInv ==
    ~rolledBack /\ ~forgotten => \A k \in withdrawn : Revoked(keys, k)

AnchorsInv ==
    /\ AnchorsTypeOK
    /\ FileInv
    /\ DerivedInv
    /\ SinceInPast
    /\ HoldDownInv
    /\ WithdrawnInv

-----------------------------------------------------------------------------
(* What one refresh makes of one key *)

\* What Stepped makes of a tracked key.
LEMMA SteppedKey ==
    ASSUME NEW a \in Answers, NEW k \in Keys, NEW key \in ManagedKey,
           clock \in Nat, key.state # "start"
    PROVE  /\ Stepped(k, key, a) \in ManagedKey
           /\ Stepped(k, key, a).state = "start" => Stepped(k, key, a) = Untracked
           /\ Stepped(k, key, a).state = "addpend"
                => k \in a.live /\ Stepped(k, key, a) = key
           /\ Stepped(k, key, a).state \in {"valid", "missing"}
                => \/ key.state \in {"valid", "missing"}
                   \/ key.state = "addpend" /\ k \in a.live /\ clock >= key.addUntil
           /\ key.state \in {"revoked", "removed"}
                => Stepped(k, key, a).state \in {"revoked", "removed"}
           /\ Stepped(k, key, a).state \in {"revoked", "removed"}
                => key.state \in {"revoked", "removed"} \/ k \in SelfRevoked(a)
           /\ key.state \in {"valid", "missing"} /\ k \notin SelfRevoked(a)
                => Stepped(k, key, a).state \in {"valid", "missing"}
           /\ k \in SelfRevoked(a) => Stepped(k, key, a).state \in {"revoked", "removed"}
<1> USE AnchorAssumption DEF ManagedKey
<1>1. CASE k \in SelfRevoked(a) /\ key.state \notin {"revoked", "removed"}
  <2>1. Stepped(k, key, a) = [key EXCEPT !.state = "revoked",
                                         !.removeUntil = clock + RemoveHoldDown]
    BY <1>1 DEF Stepped
  <2>2. Stepped(k, key, a) = [state |-> "revoked", addUntil |-> key.addUntil,
                              removeUntil |-> clock + RemoveHoldDown]
    BY <2>1
  <2> QED
    BY <1>1, <2>2
<1>2. CASE k \notin SelfRevoked(a) \/ key.state \in {"revoked", "removed"}
  <2>1. CASE k \in a.live
    <3>1. CASE key.state = "missing" \/ (key.state = "addpend" /\ clock >= key.addUntil)
      <4>1. Stepped(k, key, a) = [key EXCEPT !.state = "valid"]
        BY <1>2, <2>1, <3>1 DEF Stepped
      <4> QED
        BY <1>2, <2>1, <3>1, <4>1
    <3>2. CASE ~(key.state = "missing" \/ (key.state = "addpend" /\ clock >= key.addUntil))
      <4>1. Stepped(k, key, a) = key
        BY <1>2, <2>1, <3>2 DEF Stepped
      <4> QED
        BY <1>2, <2>1, <3>2, <4>1
    <3> QED
      BY <3>1, <3>2
  <2>2. CASE k \notin a.live
    <3>1. CASE key.state = "valid"
      <4>1. Stepped(k, key, a) = [key EXCEPT !.state = "missing"]
        BY <1>2, <2>2, <3>1 DEF Stepped
      <4> QED
        BY <1>2, <2>2, <3>1, <4>1
    <3>2. CASE key.state = "addpend"
      <4>1. Stepped(k, key, a) = Untracked
        BY <1>2, <2>2, <3>2 DEF Stepped, Dropped
      <4> QED
        BY <1>2, <2>2, <3>2, <4>1 DEF Untracked
    <3>3. CASE key.state = "revoked" /\ clock >= key.removeUntil
      <4>1. Stepped(k, key, a) = [key EXCEPT !.state = "removed"]
        BY <1>2, <2>2, <3>3 DEF Stepped
      <4> QED
        BY <1>2, <2>2, <3>3, <4>1
    <3>4. CASE /\ key.state # "valid" /\ key.state # "addpend"
               /\ ~(key.state = "revoked" /\ clock >= key.removeUntil)
      <4>1. Stepped(k, key, a) = key
        BY <1>2, <2>2, <3>4 DEF Stepped
      <4> QED
        BY <1>2, <2>2, <3>4, <4>1
    <3> QED
      BY <3>1, <3>2, <3>3, <3>4
  <2> QED
    BY <2>1, <2>2
<1> QED
  BY <1>1, <1>2

\* What a refresh makes of a key, tracked or not.
LEMMA AdvancedKey ==
    ASSUME AnchorsTypeOK, NEW a \in Answers, NEW k \in Keys
    PROVE  /\ Advanced(a)[k] \in ManagedKey
           /\ Advanced(a)[k].state = "start" => Advanced(a)[k] = Untracked
           /\ Advanced(a)[k].state = "addpend"
                => /\ k \in a.live
                   /\ \/ Advanced(a)[k] = keys[k]
                      \/ clock + AddHoldDown <= Advanced(a)[k].addUntil
           /\ Advanced(a)[k].state \in {"valid", "missing"}
                => \/ keys[k].state \in {"valid", "missing"}
                   \/ k \in Configured
                   \/ keys[k].state = "addpend" /\ k \in a.live /\ clock >= keys[k].addUntil
           /\ keys[k].state \in {"revoked", "removed"}
                => Advanced(a)[k].state \in {"revoked", "removed"}
           /\ Advanced(a)[k].state \in {"revoked", "removed"}
                => \/ keys[k].state \in {"revoked", "removed"}
                   \/ k \in SelfRevoked(a) /\ keys[k] # Untracked
           /\ keys[k].state \in {"valid", "missing"} /\ k \notin SelfRevoked(a)
                => Advanced(a)[k].state \in {"valid", "missing"}
           /\ k \in SelfRevoked(a) /\ keys[k] # Untracked
                => Advanced(a)[k].state \in {"revoked", "removed"}
<1> DEFINE mid == IF keys[k] # Untracked THEN Stepped(k, keys[k], a)
                  ELSE IF k \in a.live THEN Noticed(a) ELSE Untracked
<1>1. Advanced(a)[k] = Seeded(k, mid, a)
  BY DEF Advanced
<1>2. /\ keys[k] \in ManagedKey
      /\ keys[k].state = "start" <=> keys[k] = Untracked
      /\ clock \in Nat
  BY AnchorAssumption DEF AnchorsTypeOK, TrustPoint, Untracked
<1>3. a.live \cap a.revoked = {} /\ a.ttl \in Nat
  BY AnchorAssumption DEF Answers
<1>4. k \in SelfRevoked(a) => k \notin a.live
  BY <1>3 DEF SelfRevoked
<1>5. /\ mid \in ManagedKey
      /\ mid.state = "start" => mid = Untracked
      /\ mid.state = "addpend"
           => k \in a.live /\ (mid = keys[k] \/ clock + AddHoldDown <= mid.addUntil)
      /\ mid.state \in {"valid", "missing"}
           => \/ keys[k].state \in {"valid", "missing"}
              \/ keys[k].state = "addpend" /\ k \in a.live /\ clock >= keys[k].addUntil
      /\ keys[k].state \in {"revoked", "removed"} => mid.state \in {"revoked", "removed"}
      /\ mid.state \in {"revoked", "removed"}
           => \/ keys[k].state \in {"revoked", "removed"}
              \/ k \in SelfRevoked(a) /\ keys[k] # Untracked
      /\ keys[k].state \in {"valid", "missing"} /\ k \notin SelfRevoked(a)
           => mid.state \in {"valid", "missing"}
      /\ k \in SelfRevoked(a) /\ keys[k] # Untracked => mid.state \in {"revoked", "removed"}
  <2>1. CASE keys[k] # Untracked
    <3>1. mid = Stepped(k, keys[k], a) /\ keys[k].state # "start"
      BY <1>2, <2>1
    <3> HIDE DEF mid
    <3> QED
      BY <1>2, <2>1, <3>1, SteppedKey
  <2>2. CASE keys[k] = Untracked /\ k \in a.live
    <3>1. /\ mid = [state |-> "addpend", addUntil |-> clock + MaxOf(AddHoldDown, a.ttl),
                    removeUntil |-> 0]
          /\ keys[k].state = "start"
      BY <2>2 DEF Noticed, Untracked
    <3>2. /\ MaxOf(AddHoldDown, a.ttl) \in Nat
          /\ AddHoldDown <= MaxOf(AddHoldDown, a.ttl)
      BY <1>3, AnchorAssumption DEF MaxOf
    <3>3. /\ mid.state = "addpend" /\ mid \in ManagedKey
          /\ clock + AddHoldDown <= mid.addUntil
      BY <1>2, <3>1, <3>2, AnchorAssumption DEF ManagedKey
    <3> HIDE DEF mid
    <3> QED
      BY <1>2, <1>4, <2>2, <3>1, <3>3
  <2>3. CASE keys[k] = Untracked /\ k \notin a.live
    <3>1. mid = Untracked /\ keys[k].state = "start" /\ mid \in ManagedKey
      BY <1>2, <2>3
    <3>2. mid.state = "start"
      BY <3>1 DEF Untracked
    <3> HIDE DEF mid
    <3> QED
      BY <1>2, <2>3, <3>1, <3>2
  <2> QED
    BY <2>1, <2>2, <2>3
<1> HIDE DEF mid
<1>6. CASE k \in a.live \cap Configured /\ mid.state \notin {"revoked", "removed"}
  <2>1. Advanced(a)[k] = [mid EXCEPT !.state = "valid"]
    BY <1>1, <1>6 DEF Seeded
  <2>2. Advanced(a)[k] \in ManagedKey /\ Advanced(a)[k].state = "valid"
    BY <1>5, <2>1 DEF ManagedKey
  <2> QED
    BY <1>4, <1>5, <1>6, <2>2
<1>7. CASE ~(k \in a.live \cap Configured /\ mid.state \notin {"revoked", "removed"})
  <2>1. Advanced(a)[k] = mid
    BY <1>1, <1>7 DEF Seeded
  <2> QED
    BY <1>5, <2>1
<1> QED
  BY <1>6, <1>7

-----------------------------------------------------------------------------
LEMMA AnchorsInvInit == AnchorsInit => AnchorsInv
<1> SUFFICES ASSUME AnchorsInit
             PROVE  AnchorsInv
  OBVIOUS
<1>1. keys \in TrustPoint /\ \A k \in Keys : keys[k] = Untracked
  BY AnchorAssumption DEF AnchorsInit, NoKeys, TrustPoint, ManagedKey, Untracked
<1>2. anchors = Recompute(keys) /\ anchors = Configured /\ anchors \subseteq Keys
  BY AnchorAssumption DEF AnchorsInit, Recompute, NoKeys, Untracked, Revoked, Trusted
<1>3. AnchorsTypeOK
  <2>1. since \in [Keys -> Nat \cup {Never}]
    BY DEF AnchorsInit
  <2>2. stuck \in BOOLEAN /\ rolledBack \in BOOLEAN /\ forgotten \in BOOLEAN
    BY DEF AnchorsInit
  <2>3. stored \in {Never} \cup [keys : TrustPoint, stuck : BOOLEAN]
    BY DEF AnchorsInit
  <2>4. clock \in 0..MaxTime /\ faults \in 0..MaxFaults /\ withdrawn \subseteq Keys
    BY AnchorAssumption DEF AnchorsInit
  <2>5. \A k \in Keys : keys[k].state = "start" => keys[k] = Untracked
    BY <1>1
  <2> QED
    BY <1>1, <1>2, <2>1, <2>2, <2>3, <2>4, <2>5 DEF AnchorsTypeOK
<1>4. SinceInPast
  BY DEF AnchorsInit, SinceInPast
<1>5. HoldDownInv
  BY <1>1 DEF HoldDownInv, Untracked
<1>6. FileInv
  BY DEF AnchorsInit, FileInv
<1>7. DerivedInv
  BY <1>2, AnchorAssumption DEF AnchorsInit, DerivedInv
<1>8. WithdrawnInv
  BY DEF AnchorsInit, WithdrawnInv
<1> QED
  BY <1>3, <1>4, <1>5, <1>6, <1>7, <1>8 DEF AnchorsInv

-----------------------------------------------------------------------------
\* What a refresh makes of all the keys.
LEMMA AdvancedKeys ==
    ASSUME AnchorsTypeOK, NEW a \in Answers
    PROVE  WellFormed(Advanced(a))
<1>1. \A k \in Keys : /\ Advanced(a)[k] \in ManagedKey
                      /\ Advanced(a)[k].state = "start" => Advanced(a)[k] = Untracked
  BY AdvancedKey
<1>2. Advanced(a) = [k \in Keys |-> Advanced(a)[k]]
  BY DEF Advanced
<1>3. Advanced(a) \in TrustPoint
  BY <1>1, <1>2 DEF TrustPoint
<1> QED
  BY <1>1, <1>3 DEF WellFormed

\* A save leaves the file as it is or holding what is in memory.
LEMMA PersistKeepsFile ==
    ASSUME FileInv, stored \in {Never} \cup [keys : TrustPoint, stuck : BOOLEAN],
           Persist, WellFormed(keys'), stuck' \in BOOLEAN,
           stuck' <=> Recompute(keys') = {}
    PROVE  /\ FileInv'
           /\ stored' \in {Never} \cup [keys : TrustPoint, stuck : BOOLEAN]
<1>1. CASE stored' = stored
  BY <1>1 DEF FileInv, WellFormed, Recompute, Revoked, Trusted
<1>2. CASE stored' = [keys |-> keys', stuck |-> stuck']
  <2>1. stored' \in [keys : TrustPoint, stuck : BOOLEAN]
    BY <1>2 DEF WellFormed
  <2>2. stored'.keys = keys' /\ stored'.stuck = stuck'
    BY <1>2
  <2>3. WellFormed(stored'.keys)
    BY <2>2
  <2>4. stored'.stuck <=> Recompute(stored'.keys) = {}
    BY <2>2
  <2> QED
    BY <2>1, <2>3, <2>4 DEF FileInv, WellFormed, Recompute, Revoked, Trusted
<1> QED
  BY <1>1, <1>2 DEF Persist

LEMMA RecomputeInKeys == \A tp : Recompute(tp) \subseteq Keys
BY AnchorAssumption DEF Recompute

-----------------------------------------------------------------------------
\* A refresh keeps the invariant.
LEMMA AnchorsRefreshStep ==
    ASSUME AnchorsInv, NEW a \in Answers, Refresh(a)
    PROVE  AnchorsInv'
<1>1. AnchorsTypeOK /\ FileInv /\ DerivedInv /\ SinceInPast /\ HoldDownInv /\ WithdrawnInv
  BY DEF AnchorsInv
<1>2. /\ keys' = Advanced(a) /\ anchors' = Recompute(keys') /\ stuck' = (anchors' = {})
      /\ clock' = clock /\ faults' = faults
      /\ rolledBack' = rolledBack /\ forgotten' = forgotten
  BY DEF Refresh
<1>3. WellFormed(keys')
  BY <1>1, <1>2, AdvancedKeys
<1>4. clock \in Nat /\ since \in [Keys -> Nat \cup {Never}]
  BY <1>1, AnchorAssumption DEF AnchorsTypeOK
<1>5. \A k \in Keys : since'[k] = IF k \notin a.live THEN Never
                                  ELSE IF since[k] = Never THEN clock ELSE since[k]
  BY DEF Refresh
<1>6. FileInv' /\ stored' \in {Never} \cup [keys : TrustPoint, stuck : BOOLEAN]
  <2>1. stored \in {Never} \cup [keys : TrustPoint, stuck : BOOLEAN]
    BY <1>1 DEF AnchorsTypeOK
  <2>2. stuck' \in BOOLEAN /\ (stuck' <=> Recompute(keys') = {})
    BY <1>2
  <2>3. Persist
    BY DEF Refresh
  <2> QED
    BY <1>1, <1>3, <2>1, <2>2, <2>3, PersistKeepsFile
<1>7. AnchorsTypeOK'
  <2>1. anchors' \subseteq Keys
    BY <1>2, RecomputeInKeys
  <2>2. stuck' \in BOOLEAN
    BY <1>2
  <2>3. since' \in [Keys -> Nat \cup {Never}]
    BY <1>4 DEF Refresh
  <2>4. withdrawn' \subseteq Keys
    <3>1. withdrawn \subseteq Keys /\ anchors \subseteq Keys
      BY <1>1 DEF AnchorsTypeOK
    <3> QED
      BY <3>1 DEF Refresh
  <2>5. clock' \in 0..MaxTime /\ faults' \in 0..MaxFaults
    BY <1>1, <1>2 DEF AnchorsTypeOK
  <2>6. rolledBack' \in BOOLEAN /\ forgotten' \in BOOLEAN
    BY <1>1, <1>2 DEF AnchorsTypeOK
  <2>7. stored' \in ({Never} \cup [keys : TrustPoint, stuck : BOOLEAN])
    BY <1>6
  <2>8. keys' \in TrustPoint /\ \A k \in Keys : keys'[k].state = "start" => keys'[k] = Untracked
    BY <1>3 DEF WellFormed
  <2> QED
    BY <2>1, <2>2, <2>3, <2>4, <2>5, <2>6, <2>7, <2>8 DEF AnchorsTypeOK, TrustPoint,
       ManagedKey, Untracked
<1>8. DerivedInv'
  BY <1>2 DEF DerivedInv, Recompute, Revoked, Trusted
<1>9. SinceInPast'
  BY <1>1, <1>2, <1>4, <1>5 DEF SinceInPast
<1>10. HoldDownInv'
  <2> SUFFICES ASSUME ~rolledBack', NEW k \in Keys, keys'[k].state = "addpend"
               PROVE  since'[k] # Never /\ since'[k] + AddHoldDown <= keys'[k].addUntil
    BY DEF HoldDownInv
  <2>1. /\ k \in a.live
        /\ keys'[k] = keys[k] \/ clock + AddHoldDown <= keys'[k].addUntil
    BY <1>1, <1>2, AdvancedKey
  <2>2. since'[k] = (IF since[k] = Never THEN clock ELSE since[k]) /\ since'[k] # Never
    BY <1>4, <1>5, <2>1, AnchorAssumption
  <2>3. keys'[k].addUntil \in Nat
    BY <1>3 DEF WellFormed, TrustPoint, ManagedKey
  <2>4. CASE keys'[k] = keys[k]
    <3>1. since[k] # Never /\ since[k] + AddHoldDown <= keys[k].addUntil
      BY <1>1, <1>2, <2>4 DEF HoldDownInv
    <3> QED
      BY <2>2, <2>4, <3>1
  <2>5. CASE clock + AddHoldDown <= keys'[k].addUntil
    <3>1. since'[k] \in Nat /\ since'[k] <= clock
      BY <1>1, <1>4, <2>2 DEF SinceInPast
    <3> QED
      BY <1>4, <2>2, <2>3, <2>5, <3>1, AnchorAssumption
  <2> QED
    BY <2>1, <2>4, <2>5
<1>11. WithdrawnInv'
  <2> SUFFICES ASSUME ~rolledBack', ~forgotten', NEW k \in withdrawn'
               PROVE  keys'[k].state \in {"revoked", "removed"}
    BY DEF WithdrawnInv, Revoked
  <2>1. CASE k \in withdrawn
    <3>1. k \in Keys /\ keys[k].state \in {"revoked", "removed"}
      BY <1>1, <1>2, <2>1 DEF WithdrawnInv, Revoked, AnchorsTypeOK
    <3> QED
      BY <1>1, <1>2, <3>1, AdvancedKey
  <2>2. CASE k \in a.revoked \cap a.signers \cap anchors /\ keys[k] # Untracked
    <3>1. k \in Keys /\ k \in Recompute(keys)
      BY <1>1, <2>2 DEF AnchorsTypeOK, DerivedInv
    <3>2. IsTrusted(k)
      BY <3>1 DEF Recompute, IsTrusted
    <3>3. k \in SelfRevoked(a)
      BY <2>2, <3>2 DEF SelfRevoked
    <3> QED
      BY <1>1, <1>2, <2>2, <3>1, <3>3, AdvancedKey
  <2> QED
    BY <2>1, <2>2 DEF Refresh
<1> QED
  BY <1>6, <1>7, <1>8, <1>9, <1>10, <1>11 DEF AnchorsInv

\* A restart reads what was stored, or nothing.
LEMMA RestartStep ==
    ASSUME AnchorsInv, Restart
    PROVE  AnchorsInv'
<1>1. AnchorsTypeOK /\ FileInv /\ DerivedInv /\ SinceInPast /\ HoldDownInv /\ WithdrawnInv
  BY DEF AnchorsInv
<1>2. PICK found \in {stored, Never} :
        /\ faults < MaxFaults
        /\ keys' = (IF found = Never THEN [keys |-> NoKeys, stuck |-> FALSE] ELSE found).keys
        /\ stuck' = (IF found = Never THEN [keys |-> NoKeys, stuck |-> FALSE] ELSE found).stuck
        /\ anchors' = Recompute(keys')
        /\ stored' = found
        /\ faults' = faults + 1
        /\ rolledBack' = (rolledBack \/ (found # Never /\ keys' # keys))
        /\ forgotten' = (forgotten \/ (found = Never /\ keys' # keys))
        /\ UNCHANGED <<clock, since, withdrawn>>
  BY DEF Restart
<1>3. /\ WellFormed(keys') /\ stuck' \in BOOLEAN
      /\ stuck' <=> Recompute(keys') = {}
  <2>1. CASE found = Never
    <3>1. keys' = NoKeys /\ stuck' = FALSE
      BY <1>2, <2>1
    <3>2. WellFormed(NoKeys)
      BY DEF WellFormed, NoKeys, TrustPoint, ManagedKey, Untracked
    <3>3. Recompute(NoKeys) # {}
      BY AnchorAssumption DEF Recompute, NoKeys, Untracked, Revoked
    <3> QED
      BY <3>1, <3>2, <3>3
  <2>2. CASE found # Never
    <3>1. found = stored /\ stored # Never /\ keys' = stored.keys /\ stuck' = stored.stuck
      BY <1>2, <2>2
    <3>2. stored \in [keys : TrustPoint, stuck : BOOLEAN]
      BY <1>1, <3>1 DEF AnchorsTypeOK
    <3>3. WellFormed(stored.keys)
      BY <1>1, <3>1 DEF FileInv
    <3>4. stored.stuck <=> Recompute(stored.keys) = {}
      BY <1>1, <3>1 DEF FileInv
    <3> QED
      BY <3>1, <3>2, <3>3, <3>4
  <2> QED
    BY <2>1, <2>2
<1>4. AnchorsTypeOK'
  <2>1. clock' \in 0..MaxTime /\ since' \in [Keys -> Nat \cup {Never}] /\ withdrawn' \subseteq Keys
    BY <1>1, <1>2 DEF AnchorsTypeOK
  <2>2. faults' \in 0..MaxFaults
    BY <1>1, <1>2, AnchorAssumption DEF AnchorsTypeOK
  <2>3. rolledBack' \in BOOLEAN /\ forgotten' \in BOOLEAN
    BY <1>2
  <2>4. anchors' \subseteq Keys
    BY <1>2, RecomputeInKeys
  <2>5. stored' \in ({Never} \cup [keys : TrustPoint, stuck : BOOLEAN])
    BY <1>1, <1>2 DEF AnchorsTypeOK
  <2>6. keys' \in TrustPoint /\ \A k \in Keys : keys'[k].state = "start" => keys'[k] = Untracked
    BY <1>3 DEF WellFormed
  <2> QED
    BY <1>3, <2>1, <2>2, <2>3, <2>4, <2>5, <2>6 DEF AnchorsTypeOK, TrustPoint,
       ManagedKey, Untracked
<1>5. FileInv'
  <2>1. CASE found = Never
    BY <1>2, <2>1 DEF FileInv
  <2>2. CASE found # Never
    <3>1. stored' = stored
      BY <1>2, <2>2
    <3> QED
      BY <1>1, <3>1 DEF FileInv, WellFormed, Recompute, Revoked, Trusted
  <2> QED
    BY <2>1, <2>2
<1>6. DerivedInv'
  <2>1. anchors' = Recompute(keys')
    BY <1>2
  <2>2. stuck' <=> anchors' = {}
    BY <1>3, <2>1
  <2> QED
    BY <2>1, <2>2 DEF DerivedInv, Recompute, Revoked, Trusted
<1>7. SinceInPast'
  BY <1>1, <1>2 DEF SinceInPast
<1>8. HoldDownInv'
  <2> SUFFICES ASSUME ~rolledBack', NEW k \in Keys, keys'[k].state = "addpend"
               PROVE  since'[k] # Never /\ since'[k] + AddHoldDown <= keys'[k].addUntil
    BY DEF HoldDownInv
  <2>1. CASE found = Never
    <3>1. keys'[k] = Untracked
      BY <1>2, <2>1 DEF NoKeys
    <3> QED
      BY <3>1 DEF Untracked
  <2>2. CASE found # Never
    <3>1. keys' = keys /\ ~rolledBack /\ since' = since
      BY <1>2, <2>2
    <3> QED
      BY <1>1, <3>1 DEF HoldDownInv
  <2> QED
    BY <2>1, <2>2
<1>9. WithdrawnInv'
  <2> SUFFICES ASSUME ~rolledBack', ~forgotten'
               PROVE  \A k \in withdrawn' : keys'[k].state \in {"revoked", "removed"}
    BY DEF WithdrawnInv, Revoked
  <2>1. keys' = keys /\ ~rolledBack /\ ~forgotten /\ withdrawn' = withdrawn
    BY <1>2
  <2> QED
    BY <1>1, <2>1 DEF WithdrawnInv, Revoked
<1> QED
  BY <1>4, <1>5, <1>6, <1>7, <1>8, <1>9 DEF AnchorsInv

\* The invariant survives every step.
LEMMA AnchorsInvStep == AnchorsInv /\ [AnchorsNext]_anchorVars => AnchorsInv'
<1> SUFFICES ASSUME AnchorsInv, [AnchorsNext]_anchorVars
             PROVE  AnchorsInv'
  OBVIOUS
<1>1. AnchorsTypeOK /\ FileInv /\ DerivedInv /\ SinceInPast /\ HoldDownInv /\ WithdrawnInv
  BY DEF AnchorsInv
<1>2. ASSUME NEW a \in Answers, Refresh(a)
      PROVE  AnchorsInv'
  BY <1>2, AnchorsRefreshStep
<1>3. CASE Failed
  <2>1. /\ UNCHANGED <<clock, keys, anchors, stuck, faults, since, withdrawn,
                       rolledBack, forgotten>>
        /\ Persist
    BY <1>3 DEF Failed, history
  <2>2. WellFormed(keys') /\ stuck' \in BOOLEAN /\ (stuck' <=> Recompute(keys') = {})
    <3>1. keys' = keys /\ stuck' = stuck
      BY <2>1
    <3>2. WellFormed(keys) /\ stuck \in BOOLEAN
      BY <1>1 DEF AnchorsTypeOK, WellFormed
    <3>3. stuck <=> Recompute(keys) = {}
      BY <1>1 DEF DerivedInv
    <3> QED
      BY <3>1, <3>2, <3>3
  <2>3. FileInv' /\ stored' \in {Never} \cup [keys : TrustPoint, stuck : BOOLEAN]
    <3>1. stored \in {Never} \cup [keys : TrustPoint, stuck : BOOLEAN]
      BY <1>1 DEF AnchorsTypeOK
    <3> QED
      BY <1>1, <2>1, <2>2, <3>1, PersistKeepsFile
  <2>4. stored' \in ({Never} \cup [keys : TrustPoint, stuck : BOOLEAN])
    BY <2>3
  <2>5. AnchorsTypeOK'
    BY <1>1, <2>1, <2>4 DEF AnchorsTypeOK, TrustPoint, ManagedKey, Untracked
  <2>6. DerivedInv' /\ SinceInPast' /\ HoldDownInv' /\ WithdrawnInv'
    BY <1>1, <2>1 DEF DerivedInv, SinceInPast, HoldDownInv, WithdrawnInv, Recompute,
       Revoked, Trusted
  <2> QED
    BY <2>3, <2>5, <2>6 DEF AnchorsInv
<1>4. CASE Restart
  BY <1>4, RestartStep
<1>5. CASE Tick
  <2>1. /\ clock < MaxTime /\ clock' = clock + 1
        /\ UNCHANGED <<keys, anchors, stuck, stored, faults, since, withdrawn,
                       rolledBack, forgotten>>
    BY <1>5 DEF Tick, history
  <2>2. clock \in Nat /\ clock' \in 0..MaxTime
    BY <1>1, <2>1, AnchorAssumption DEF AnchorsTypeOK
  <2>3. AnchorsTypeOK'
    BY <1>1, <2>1, <2>2 DEF AnchorsTypeOK, TrustPoint, ManagedKey, Untracked
  <2>4. SinceInPast'
    <3>1. since \in [Keys -> Nat \cup {Never}]
      BY <1>1 DEF AnchorsTypeOK
    <3> QED
      BY <1>1, <2>1, <2>2, <3>1 DEF SinceInPast
  <2>5. FileInv' /\ DerivedInv' /\ HoldDownInv' /\ WithdrawnInv'
    BY <1>1, <2>1 DEF FileInv, WellFormed, DerivedInv, HoldDownInv, WithdrawnInv, Recompute,
       Revoked, Trusted
  <2> QED
    BY <2>3, <2>4, <2>5 DEF AnchorsInv
<1>6. CASE UNCHANGED anchorVars
  <2>1. UNCHANGED <<clock, keys, anchors, stuck, stored, faults, since, withdrawn,
                    rolledBack, forgotten>>
    BY <1>6 DEF anchorVars
  <2> QED
    BY <1>1, <2>1 DEF AnchorsInv, AnchorsTypeOK, FileInv, WellFormed, DerivedInv, SinceInPast,
       HoldDownInv, WithdrawnInv, Recompute, Revoked, Trusted, TrustPoint, ManagedKey, Untracked
<1> QED
  BY <1>2, <1>3, <1>4, <1>5, <1>6 DEF AnchorsNext

-----------------------------------------------------------------------------
\* Whatever is answered, lost or restarted, the variables keep their types.
THEOREM AnchorsTypeCorrect == AnchorsSpec => []AnchorsTypeOK
<1>1. AnchorsInv => AnchorsTypeOK
  BY DEF AnchorsInv
<1> QED
  BY <1>1, AnchorsInvInit, AnchorsInvStep, PTL DEF AnchorsSpec

\* The manager reports a trust point without anchors, and reports nothing else
\* so: the flag that a restart reads from the file agrees with the keys it reads.
THEOREM AnchorlessIsReported == AnchorsSpec => []StuckIffAnchorless
<1>1. AnchorsInv => StuckIffAnchorless
  BY DEF AnchorsInv, DerivedInv, StuckIffAnchorless
<1> QED
  BY <1>1, AnchorsInvInit, AnchorsInvStep, PTL DEF AnchorsSpec

\* A tracked key that withdrew itself is not an anchor again, configured or
\* not, unless a restart lost the state that says so.
THEOREM RevocationsLast == AnchorsSpec => []RevocationLasts
<1>1. AnchorsInv => RevocationLasts
  <2> SUFFICES ASSUME AnchorsInv, ~rolledBack, ~forgotten, NEW k \in withdrawn,
                      k \in Recompute(keys)
               PROVE  FALSE
    BY DEF RevocationLasts, AnchorsInv, DerivedInv
  <2>1. Revoked(keys, k)
    BY DEF AnchorsInv, WithdrawnInv
  <2> QED
    BY <2>1 DEF Recompute, Revoked, Trusted
<1> QED
  BY <1>1, AnchorsInvInit, AnchorsInvStep, PTL DEF AnchorsSpec

\* What a step makes an anchor has served its hold-down.
LEMMA NewAnchors ==
    ASSUME AnchorsInv, [AnchorsNext]_anchorVars, ~rolledBack',
           NEW k \in anchors' \ (anchors \cup Configured)
    PROVE  since'[k] # Never /\ since'[k] + AddHoldDown <= clock
<1>1. AnchorsTypeOK /\ DerivedInv /\ SinceInPast /\ HoldDownInv
  BY DEF AnchorsInv
<1>2. CASE \E a \in Answers : Refresh(a)
  <2>1. PICK a \in Answers : Refresh(a)
    BY <1>2
  <2>2. /\ keys' = Advanced(a) /\ anchors' = Recompute(keys') /\ rolledBack' = rolledBack
        /\ since' = [j \in Keys |-> IF j \notin a.live THEN Never
                                    ELSE IF since[j] = Never THEN clock ELSE since[j]]
    BY <2>1 DEF Refresh
  <2>3. k \in Keys /\ keys'[k].state \in {"valid", "missing"}
    BY <2>2 DEF Recompute, Trusted
  <2>4. keys[k].state \notin {"valid", "missing"}
    BY <1>1, <2>3 DEF DerivedInv, Recompute, Trusted
  <2>5. keys[k].state = "addpend" /\ k \in a.live /\ clock >= keys[k].addUntil
    BY <1>1, <2>2, <2>3, <2>4, AdvancedKey
  <2>6. since[k] # Never /\ since[k] + AddHoldDown <= keys[k].addUntil
    BY <1>1, <2>2, <2>3, <2>5 DEF HoldDownInv
  <2>7. since'[k] = since[k]
    BY <2>2, <2>3, <2>5, <2>6
  <2>8. since[k] \in Nat /\ keys[k].addUntil \in Nat /\ clock \in Nat
    BY <1>1, <2>3, <2>6, AnchorAssumption DEF AnchorsTypeOK, TrustPoint, ManagedKey
  <2> QED
    BY <2>5, <2>6, <2>7, <2>8, AnchorAssumption
<1>3. CASE Restart
  <2>1. PICK found \in {stored, Never} :
          /\ found = Never => keys' = NoKeys
          /\ anchors' = Recompute(keys')
          /\ rolledBack' = (rolledBack \/ (found # Never /\ keys' # keys))
    BY <1>3 DEF Restart
  <2>2. CASE found = Never
    <3>1. anchors' \subseteq Configured
      BY <2>1, <2>2 DEF Recompute, NoKeys, Untracked, Trusted
    <3> QED
      BY <3>1
  <2>3. CASE found # Never
    <3>1. keys' = keys
      BY <2>1, <2>3
    <3>2. anchors' = anchors
      BY <1>1, <2>1, <3>1 DEF DerivedInv
    <3> QED
      BY <3>2
  <2> QED
    BY <2>2, <2>3
<1>4. CASE Failed \/ Tick \/ UNCHANGED anchorVars
  <2>1. anchors' = anchors
    BY <1>4 DEF Failed, Tick, anchorVars
  <2> QED
    BY <2>1
<1> QED
  BY <1>2, <1>3, <1>4 DEF AnchorsNext

\* Across crashes, lost files and failed saves, a key the build does not ship
\* becomes an anchor only after a whole hold-down of authenticated answers.
THEOREM HoldDownsAreServed == AnchorsSpec => HoldDownServed
<1>1. AnchorsInv /\ [AnchorsNext]_anchorVars =>
        [~rolledBack' => \A k \in anchors' \ (anchors \cup Configured) :
             since'[k] # Never /\ since'[k] + AddHoldDown <= clock]_anchorVars
  BY NewAnchors
<1> QED
  BY <1>1, AnchorsInvInit, AnchorsInvStep, PTL DEF AnchorsSpec, HoldDownServed

\* What a step takes from the anchors, short of a restart, withdrew itself.
LEMMA LostAnchors ==
    ASSUME AnchorsInv, [AnchorsNext]_anchorVars, faults' = faults
    PROVE  anchors \ anchors' \subseteq withdrawn'
<1>1. AnchorsTypeOK /\ DerivedInv
  BY DEF AnchorsInv
<1>2. CASE \E a \in Answers : Refresh(a)
  <2>1. PICK a \in Answers : Refresh(a)
    BY <1>2
  <2>2. /\ keys' = Advanced(a) /\ anchors' = Recompute(keys')
        /\ withdrawn' = withdrawn \cup {k \in a.revoked \cap a.signers \cap anchors :
                                          keys[k] # Untracked}
    BY <2>1 DEF Refresh
  <2> SUFFICES ASSUME NEW k \in anchors, k \notin anchors'
               PROVE  k \in withdrawn'
    OBVIOUS
  <2>3. k \in Keys /\ k \in Recompute(keys) /\ k \notin Recompute(keys')
    BY <1>1, <2>2 DEF AnchorsTypeOK, DerivedInv
  <2>4. ~Revoked(keys, k) /\ (k \in Configured \/ Trusted(keys, k))
    BY <2>3 DEF Recompute, Revoked, Trusted
  <2>5. k \in SelfRevoked(a) /\ keys[k] # Untracked
    <3>1. CASE k \in Configured
      <4>1. keys'[k].state \in {"revoked", "removed"}
        BY <2>3, <3>1 DEF Recompute, Revoked
      <4> QED
        BY <1>1, <2>2, <2>3, <2>4, <4>1, AdvancedKey DEF Revoked
    <3>2. CASE Trusted(keys, k)
      <4>1. keys'[k].state \notin {"valid", "missing"}
        BY <2>3 DEF Recompute, Trusted
      <4>2. keys[k] # Untracked
        BY <3>2 DEF Trusted, Untracked
      <4> QED
        BY <1>1, <2>2, <2>3, <3>2, <4>1, <4>2, AdvancedKey DEF Trusted
    <3> QED
      BY <2>4, <3>1, <3>2
  <2>6. k \in a.revoked \cap a.signers
    BY <2>5 DEF SelfRevoked
  <2> QED
    BY <2>2, <2>5, <2>6
<1>3. CASE Restart
  <2>1. faults' = faults + 1
    BY <1>3 DEF Restart
  <2> QED
    BY <1>1, <2>1, AnchorAssumption DEF AnchorsTypeOK
<1>4. CASE Failed \/ Tick \/ UNCHANGED anchorVars
  <2>1. anchors' = anchors
    BY <1>4 DEF Failed, Tick, anchorVars
  <2> QED
    BY <2>1
<1> QED
  BY <1>2, <1>3, <1>4 DEF AnchorsNext

\* Whoever signs an answer, an anchor is lost to nothing but its own signature
\* over its own withdrawal.
THEOREM OnlyKeysRevokeThemselves == AnchorsSpec => OnlyItselfRevokes
<1>1. AnchorsInv /\ [AnchorsNext]_anchorVars =>
        [faults' = faults => anchors \ anchors' \subseteq withdrawn']_anchorVars
  BY LostAnchors
<1> QED
  BY <1>1, AnchorsInvInit, AnchorsInvStep, PTL DEF AnchorsSpec, OnlyItselfRevokes

-----------------------------------------------------------------------------
(* Least numbers *)

LEMMA NaturalOrder ==
    \E R : IsWellFoundedOn(R, Nat) /\ \A m, n \in Nat : m < n => <<m, n>> \in R
<1>1. \A m, n \in Nat : m < n => <<m, n>> \in OpToRel(<, Nat)
  BY DEF OpToRel
<1> QED BY <1>1, NatLessThanWellFounded, Zenon

LEMMA LeastNatural ==
    ASSUME NEW S \in SUBSET Nat, S # {}
    PROVE  \E n \in S : \A m \in S : n <= m
<1>1. PICK R : IsWellFoundedOn(R, Nat) /\ \A m, n \in Nat : m < n => <<m, n>> \in R
  BY NaturalOrder
<1>2. IsWellFoundedOn(R, Nat) /\ S \subseteq Nat
  BY <1>1, Zenon
<1>3. PICK n \in S : \A m \in S : ~ (<<m, n>> \in R)
  BY <1>2, WFMin, Zenon
<1>4. ASSUME NEW m \in S PROVE n <= m
  <2>1. ~ (m < n)
    BY <1>1, <1>3, Zenon
  <2> QED BY <2>1
<1> QED BY <1>4

-----------------------------------------------------------------------------
(* Names *)

RecordTypes == {"A", "NS", "DS"}

\* Of some names something is least.
LEMMA LeastBy ==
    ASSUME NEW S, S # {}, NEW f, \A x \in S : f[x] \in Nat
    PROVE  \E x \in S : \A y \in S : f[x] <= f[y]
<1> DEFINE V == {f[x] : x \in S}
<1>1. V \in SUBSET Nat /\ V # {}
  OBVIOUS
<1>2. PICK n \in V : \A m \in V : n <= m
  BY <1>1, LeastNatural
<1> QED BY <1>2

LEMMA NameFacts ==
    ASSUME NEW n \in Tree
    PROVE  /\ Root \in Tree /\ Above[Root] = {Root}
           /\ n \in Above[n] /\ Root \in Above[n]
           /\ Above[n] \subseteq Tree /\ IsFiniteSet(Above[n])
           /\ \A m \in Above[n] : Above[m] \subseteq Above[n]
           /\ \A m \in Above[n] : n \in Above[m] => m = n
           /\ \A x, y \in Above[n] : x \in Above[y] \/ y \in Above[x]
           /\ Above[n] \cap DOMAIN Alias \subseteq {n}
<1>1. \A k \in Tree : Above[k] \in SUBSET Tree
  BY NamespaceAssumption
<1> QED BY <1>1, NamespaceAssumption

\* Among the names above a name there is a lowest and a highest, one of each.
LEMMA LowestIsThere ==
    ASSUME NEW n \in Tree, NEW S \in SUBSET Above[n], S # {}
    PROVE  Lowest(S) \in S /\ \A y \in S : InBailiwick(y, Lowest(S))
<1> DEFINE f == [x \in S |-> Cardinality(Above[n] \ Above[x])]
<1>1. ASSUME NEW x \in S
      PROVE  /\ x \in Tree /\ Above[x] \subseteq Above[n]
             /\ IsFiniteSet(Above[n] \ Above[x])
             /\ f[x] \in Nat
  <2>1. x \in Tree /\ Above[x] \subseteq Above[n] /\ IsFiniteSet(Above[n])
    BY NameFacts
  <2>2. IsFiniteSet(Above[n] \ Above[x])
    BY <2>1, FS_Subset
  <2> QED BY <2>1, <2>2, FS_CardinalityType
<1>2. PICK z \in S : \A y \in S : f[z] <= f[y]
  BY <1>1, LeastBy
<1>3. ASSUME NEW y \in S PROVE InBailiwick(y, z)
  <2>1. SUFFICES ASSUME y \notin Above[z] PROVE FALSE
    BY DEF InBailiwick
  <2>2. z \in Above[y]
    BY <2>1, NameFacts
  <2>3. y \in Above[y] /\ Above[z] \subseteq Above[y] /\ Above[y] \subseteq Above[n]
    BY <1>1, <2>2, NameFacts
  <2> DEFINE T == Above[n] \ Above[y]
             U == Above[n] \ Above[z]
  <2>4. T \in SUBSET U /\ T # U /\ IsFiniteSet(U)
    BY <1>1, <2>1, <2>3
  <2>5. Cardinality(T) <= Cardinality(U) /\ Cardinality(T) # Cardinality(U)
    BY <2>4, FS_Subset, Zenon
  <2>6. f[y] = Cardinality(T) /\ f[z] = Cardinality(U)
    OBVIOUS
  <2>7. Cardinality(T) \in Nat /\ Cardinality(U) \in Nat
    BY <1>1, <2>6
  <2>8. Cardinality(U) <= Cardinality(T)
    BY <1>2, <2>6
  <2> HIDE DEF T, U
  <2> QED BY <2>5, <2>7, <2>8
<1>4. \E x \in S : \A y \in S : InBailiwick(y, x)
  BY <1>3
<1> QED BY <1>4, Zenon DEF Lowest

LEMMA HighestIsThere ==
    ASSUME NEW n \in Tree, NEW S \in SUBSET Above[n], S # {}
    PROVE  Highest(S) \in S /\ \A y \in S : InBailiwick(Highest(S), y)
<1> DEFINE f == [x \in S |-> Cardinality(Above[x])]
<1>1. ASSUME NEW x \in S
      PROVE  x \in Tree /\ IsFiniteSet(Above[x]) /\ f[x] \in Nat
  <2>1. x \in Tree
    BY NameFacts
  <2>2. IsFiniteSet(Above[x])
    BY <2>1, NameFacts
  <2> QED BY <2>1, <2>2, FS_CardinalityType
<1>2. PICK z \in S : \A y \in S : f[z] <= f[y]
  BY <1>1, LeastBy
<1>3. ASSUME NEW y \in S PROVE InBailiwick(z, y)
  <2>1. SUFFICES ASSUME z \notin Above[y] PROVE FALSE
    BY DEF InBailiwick
  <2>2. y \in Above[z]
    BY <2>1, NameFacts
  <2> DEFINE T == Above[y]
             U == Above[z]
  <2>3. z \in Above[z] /\ T \in SUBSET U /\ T # U /\ IsFiniteSet(U)
    BY <1>1, <2>1, <2>2, NameFacts
  <2>4. Cardinality(T) <= Cardinality(U) /\ Cardinality(T) # Cardinality(U)
    BY <2>3, FS_Subset, Zenon
  <2>5. f[y] = Cardinality(T) /\ f[z] = Cardinality(U)
    OBVIOUS
  <2>6. Cardinality(T) \in Nat /\ Cardinality(U) \in Nat
    BY <1>1, <2>5
  <2>7. Cardinality(U) <= Cardinality(T)
    BY <1>2, <2>5
  <2> HIDE DEF T, U
  <2> QED BY <2>4, <2>6, <2>7
<1>4. \E x \in S : \A y \in S : InBailiwick(x, y)
  BY <1>3
<1> QED BY <1>4, Zenon DEF Highest

LEMMA LowestIs ==
    ASSUME NEW n \in Tree, NEW S \in SUBSET Above[n], NEW z \in S,
           \A y \in S : InBailiwick(y, z)
    PROVE  Lowest(S) = z
<1>1. Lowest(S) \in S /\ InBailiwick(z, Lowest(S)) /\ InBailiwick(Lowest(S), z)
  BY LowestIsThere
<1> QED BY <1>1, NameFacts DEF InBailiwick

LEMMA NextLabelFacts ==
    ASSUME NEW q \in Tree, NEW z \in Above[q], z # q
    PROVE  /\ NextLabel(z, q) \in Above[q]
           /\ StrictlyBelow(z, NextLabel(z, q))
<1> DEFINE S == {m \in Above[q] : StrictlyBelow(z, m)}
<1>1. S \in SUBSET Above[q] /\ q \in S
  BY NameFacts DEF StrictlyBelow
<1>2. Highest(S) \in S
  BY <1>1, HighestIsThere
<1> QED BY <1>2 DEF NextLabel

LEMMA ZonesAreAbove ==
    ASSUME NEW n \in Tree, NEW t
    PROVE  ZonesFor(n, t) \subseteq Above[n] \cap Cuts /\ Root \in ZonesFor(n, t)
  BY NameFacts, NamespaceAssumption DEF ZonesFor, InBailiwick

-----------------------------------------------------------------------------
(* Replies *)

Messages == [kind : {"answer", "alias", "nodata", "nxdomain", "referral", "refused"},
             of : Questioned]

\* The zone cuts below z a server of it may refer to.
Below(s, z, n, t) == {c \in Cuts : /\ StrictlyBelow(z, c) /\ InBailiwick(c, n)
                                   /\ t = "DS" /\ c = n => s \in Old}

LEMMA BelowFacts ==
    ASSUME NEW s, NEW z, NEW n \in Tree, NEW t, Below(s, z, n, t) # {}
    PROVE  LET c == Highest(Below(s, z, n, t)) IN
           /\ c \in Cuts /\ StrictlyBelow(z, c) /\ InBailiwick(c, n)
           /\ t = "DS" /\ c = n => s \in Old
           /\ \A y \in Below(s, z, n, t) : InBailiwick(c, y)
<1>1. Below(s, z, n, t) \in SUBSET Above[n]
  BY DEF Below, InBailiwick
<1>2. /\ Highest(Below(s, z, n, t)) \in Below(s, z, n, t)
      /\ \A y \in Below(s, z, n, t) : InBailiwick(Highest(Below(s, z, n, t)), y)
  BY <1>1, HighestIsThere
<1> DEFINE c == Highest(Below(s, z, n, t))
<1>3. c \in Below(s, z, n, t)
  BY <1>2
<1> HIDE DEF c
<1>4. /\ c \in Cuts /\ StrictlyBelow(z, c) /\ InBailiwick(c, n)
      /\ t = "DS" /\ c = n => s \in Old
  BY <1>3 DEF Below
<1> QED BY <1>2, <1>4 DEF c

\* What a server says, from one of the zones it serves.
LEMMA ReplyFromZone ==
    ASSUME NEW s, NEW n \in Tree, NEW t
    PROVE  \/ Reply(s, n, t) = [kind |-> "refused", of |-> Question(n, t)]
           \/ \E z \in ZonesFor(n, t) :
                /\ s \in Nameservers[z]
                /\ Reply(s, n, t) =
                     IF Below(s, z, n, t) # {}
                       THEN [kind |-> "referral",
                             of |-> Question(Highest(Below(s, z, n, t)), "NS")]
                       ELSE Data(z, n, t)
<1> DEFINE mine == {z \in ZonesFor(n, t) : s \in Nameservers[z]}
           z == Lowest(mine)
<1>1. mine \in SUBSET Above[n]
  BY ZonesAreAbove
<1>2. CASE mine = {}
  BY <1>2 DEF Reply
<1>3. CASE mine # {}
  <2>1. z \in mine
    BY <1>1, <1>3, LowestIsThere, Zenon
  <2>2. Reply(s, n, t) =
          IF Below(s, z, n, t) # {}
            THEN [kind |-> "referral", of |-> Question(Highest(Below(s, z, n, t)), "NS")]
            ELSE Data(z, n, t)
    BY <1>3, Zenon DEF Reply, Below
  <2> QED BY <2>1, <2>2
<1> QED BY <1>2, <1>3

LEMMA DataShape ==
    ASSUME NEW z, NEW n \in Tree, NEW t \in {"A", "NS", "DS"}
    PROVE  /\ Data(z, n, t) \in Messages
           /\ Data(z, n, t).kind \notin {"referral", "refused"}
           /\ Data(z, n, t).of = Question(n, t)
           /\ Data(z, n, t).kind = "alias" <=> n \in DOMAIN Alias
  BY DEF Data, Messages, Questioned, Question

LEMMA ReplyShape ==
    ASSUME NEW s, NEW n \in Tree, NEW t \in {"A", "NS", "DS"}
    PROVE  /\ Reply(s, n, t) \in Messages
           /\ Reply(s, n, t).kind = "referral" =>
                /\ Reply(s, n, t).of.owner \in Cuts
           /\ Reply(s, n, t).kind # "referral" => Reply(s, n, t).of = Question(n, t)
           /\ Reply(s, n, t).kind = "alias" => n \in DOMAIN Alias
<1>1. CASE Reply(s, n, t) = [kind |-> "refused", of |-> Question(n, t)]
  BY <1>1 DEF Messages, Questioned, Question
<1>2. ASSUME NEW z \in ZonesFor(n, t),
             Below(s, z, n, t) # {},
             Reply(s, n, t) = [kind |-> "referral",
                               of |-> Question(Highest(Below(s, z, n, t)), "NS")]
      PROVE  /\ Reply(s, n, t) \in Messages
             /\ Reply(s, n, t).kind = "referral"
             /\ Reply(s, n, t).of.owner \in Cuts
  <2>1. Highest(Below(s, z, n, t)) \in Cuts
    BY <1>2, BelowFacts
  <2>2. Highest(Below(s, z, n, t)) \in Tree
    BY <2>1, NamespaceAssumption
  <2> QED BY <1>2, <2>1, <2>2 DEF Messages, Questioned, Question
<1>3. ASSUME NEW z \in ZonesFor(n, t), Reply(s, n, t) = Data(z, n, t)
      PROVE  /\ Reply(s, n, t) \in Messages
             /\ Reply(s, n, t).kind # "referral"
             /\ Reply(s, n, t).of = Question(n, t)
             /\ Reply(s, n, t).kind = "alias" => n \in DOMAIN Alias
  BY <1>3, DataShape
<1> QED BY <1>1, <1>2, <1>3, ReplyFromZone

-----------------------------------------------------------------------------
(* Truthful replies *)

LEMMA ReplyOfZone ==
    ASSUME OneZoneEach, NEW n \in Tree, NEW t, NEW z \in ZonesFor(n, t),
           NEW s \in Nameservers[z]
    PROVE  Reply(s, n, t) =
             IF Below(s, z, n, t) # {}
               THEN [kind |-> "referral", of |-> Question(Highest(Below(s, z, n, t)), "NS")]
               ELSE Data(z, n, t)
<1> DEFINE mine == {y \in ZonesFor(n, t) : s \in Nameservers[y]}
<1>1. mine = {z}
  <2> SUFFICES ASSUME NEW y \in ZonesFor(n, t), s \in Nameservers[y], y # z PROVE FALSE
    OBVIOUS
  <2>1. {y, z} \subseteq Above[n] \cap Cuts
    BY ZonesAreAbove
  <2>2. y \in Above[z] \/ z \in Above[y]
    BY <2>1, NameFacts
  <2> QED BY <2>1, <2>2 DEF OneZoneEach, StrictlyBelow
<1>2. Lowest({z}) = z
  <2>1. {z} \in SUBSET Above[n]
    BY ZonesAreAbove
  <2>2. Lowest({z}) \in {z}
    BY <2>1, LowestIsThere
  <2> QED BY <2>2
<1> QED BY <1>1, <1>2, Zenon DEF Reply, Below

\* The zone nothing is cut off from holds the truth.
LEMMA DataIsTruth ==
    ASSUME NEW n \in Tree, NEW t, NEW z \in ZonesFor(n, t),
           \A c \in ZonesFor(n, t) : ~StrictlyBelow(z, c)
    PROVE  z = Lowest(ZonesFor(n, t)) /\ Truth(n, t) = Data(z, n, t)
<1>1. ZonesFor(n, t) \in SUBSET Above[n]
  BY ZonesAreAbove
<1>2. \A y \in ZonesFor(n, t) : InBailiwick(y, z)
  BY <1>1, NameFacts DEF StrictlyBelow, InBailiwick
<1>3. Lowest(ZonesFor(n, t)) = z
  BY <1>1, <1>2, LowestIs
<1> QED BY <1>3 DEF Truth

\* To the question itself a server of a zone says the truth, or refers further down;
\* when that is to the zone whose DS is asked for, there is none.
LEMMA ExactReply ==
    ASSUME OneZoneEach, OldHaveNoDS, NEW q \in Tree, NEW t \in {"A", "NS", "DS"},
           NEW z \in ZonesFor(q, t), NEW s \in Nameservers[z]
    PROVE  \/ Reply(s, q, t) = Truth(q, t)
           \/ /\ Reply(s, q, t).kind = "referral"
              /\ Reply(s, q, t).of.owner \in Cuts
              /\ StrictlyBelow(z, Reply(s, q, t).of.owner)
              /\ InBailiwick(Reply(s, q, t).of.owner, q)
              /\ t = "DS" /\ Reply(s, q, t).of.owner = q =>
                   /\ Truth(q, t) = [kind |-> "nodata", of |-> Question(q, t)]
                   /\ \A c \in Cuts : StrictlyBelow(z, c) /\ InBailiwick(c, q) => c = q
<1>0. ZonesFor(q, t) \subseteq Above[q] \cap Cuts
  BY ZonesAreAbove
<1>1. CASE Below(s, z, q, t) = {}
  <2>1. Reply(s, q, t) = Data(z, q, t)
    BY <1>1, ReplyOfZone
  <2>2. ASSUME NEW c \in ZonesFor(q, t) PROVE ~StrictlyBelow(z, c)
    BY <1>1, NameFacts, NamespaceAssumption DEF Below, ZonesFor, StrictlyBelow, InBailiwick
  <2> QED BY <2>1, <2>2, DataIsTruth
<1>2. CASE Below(s, z, q, t) # {}
  <2> DEFINE c == Highest(Below(s, z, q, t))
  <2>1. Reply(s, q, t) = [kind |-> "referral", of |-> Question(c, "NS")]
    BY <1>2, ReplyOfZone
  <2>2. /\ c \in Cuts /\ StrictlyBelow(z, c) /\ InBailiwick(c, q)
        /\ t = "DS" /\ c = q => s \in Old
        /\ \A y \in Below(s, z, q, t) : InBailiwick(c, y)
    BY <1>2, BelowFacts
  <2> HIDE DEF c
  <2>3. ASSUME t = "DS", c = q
        PROVE  /\ Truth(q, t) = [kind |-> "nodata", of |-> Question(q, t)]
               /\ \A y \in Cuts : StrictlyBelow(z, y) /\ InBailiwick(y, q) => y = q
    <3>1. q \in Cuts /\ s \in Old /\ z # q
      BY <2>2, <2>3 DEF StrictlyBelow
    <3>2. ASSUME NEW y \in Cuts, StrictlyBelow(z, y), InBailiwick(y, q), y # q
          PROVE  FALSE
      <4>1. y \in Below(s, z, q, t)
        BY <3>2 DEF Below
      <4>2. q \in Above[y] /\ y \in Above[q]
        BY <2>2, <2>3, <3>2, <4>1 DEF InBailiwick
      <4> QED BY <3>2, <4>2, NameFacts
    <3>3. \A y \in ZonesFor(q, t) : ~StrictlyBelow(z, y)
      <4> SUFFICES ASSUME NEW y \in ZonesFor(q, t), StrictlyBelow(z, y) PROVE FALSE
        OBVIOUS
      <4>1. y = q
        BY <1>0, <3>2 DEF InBailiwick
      <4>2. q = Root
        BY <2>3, <4>1 DEF ZonesFor
      <4> QED BY <1>0, <3>1, <4>2, NameFacts
    <3>4. z = Lowest(ZonesFor(q, t)) /\ Truth(q, t) = Data(z, q, t)
      BY <3>3, DataIsTruth
    <3>5. q # Root
      BY <1>0, <3>1, NameFacts
    <3>6. Question(q, t) \notin Held
      BY <2>3, <3>1, <3>4, <3>5 DEF OldHaveNoDS
    <3>7. q \notin DOMAIN Alias /\ Exists(q)
      BY <3>1, NamespaceAssumption, NameFacts DEF Exists, InBailiwick
    <3>8. Data(z, q, t) = [kind |-> "nodata", of |-> Question(q, t)]
      BY <2>3, <3>6, <3>7 DEF Data
    <3> QED BY <3>2, <3>4, <3>8
  <2>4. Reply(s, q, t).of.owner = c
    BY <2>1 DEF Question
  <2> QED BY <2>1, <2>2, <2>3, <2>4
<1> QED BY <1>1, <1>2

\* To a question on the way a server refers further down, has nothing, or says that
\* there is no such name, and then there is none below it.
LEMMA ProbeReply ==
    ASSUME OneZoneEach, NEW q \in Tree, NEW t \in {"A", "NS", "DS"},
           NEW z \in ZonesFor(q, t), NEW s \in Nameservers[z],
           z # q, NextLabel(z, q) # q
    PROVE  LET m == Reply(s, NextLabel(z, q), "NS") IN
           \/ m.kind = "nodata"
           \/ m.kind = "nxdomain" /\ Truth(q, t) = [kind |-> "nxdomain", of |-> Question(q, t)]
           \/ /\ m.kind = "referral" /\ m.of.owner \in Cuts
              /\ StrictlyBelow(z, m.of.owner) /\ InBailiwick(m.of.owner, q)
              /\ m.of.owner # q
<1> DEFINE n == NextLabel(z, q)
           m == Reply(s, n, "NS")
<1>0. z \in Above[q] /\ z \in Cuts
  BY ZonesAreAbove
<1>1. n \in Above[q] /\ StrictlyBelow(z, n) /\ n \in Tree
  BY <1>0, NextLabelFacts, NameFacts
<1> HIDE DEF n
<1>2. z \in ZonesFor(n, "NS")
  BY <1>0, <1>1 DEF ZonesFor, StrictlyBelow, InBailiwick
<1>3. m = IF Below(s, z, n, "NS") # {}
            THEN [kind |-> "referral", of |-> Question(Highest(Below(s, z, n, "NS")), "NS")]
            ELSE Data(z, n, "NS")
  BY <1>1, <1>2, ReplyOfZone
<1>4. CASE Below(s, z, n, "NS") # {}
  <2> DEFINE c == Highest(Below(s, z, n, "NS"))
  <2>1. c \in Cuts /\ StrictlyBelow(z, c) /\ InBailiwick(c, n)
    BY <1>1, <1>4, BelowFacts
  <2>2. m.kind = "referral" /\ m.of.owner = c
    BY <1>3, <1>4 DEF Question
  <2> HIDE DEF c
  <2>3. c \in Above[q]
    BY <1>1, <2>1, NameFacts DEF InBailiwick
  <2>4. c # q
    <3> SUFFICES ASSUME c = q PROVE FALSE
      OBVIOUS
    <3>1. q \in Above[n]
      BY <2>1 DEF InBailiwick
    <3>2. n = q
      BY <1>1, <3>1, NameFacts
    <3> QED BY <3>2 DEF n
  <2> QED BY <2>1, <2>2, <2>3, <2>4 DEF InBailiwick, n
<1>5. CASE Below(s, z, n, "NS") = {}
  <2>1. m = Data(z, n, "NS")
    BY <1>3, <1>5
  <2>2. n \notin DOMAIN Alias
    BY <1>1, NameFacts DEF n
  <2>3. Question(n, "NS") \notin Held /\ n # z
    BY <1>1, NamespaceAssumption DEF Question, StrictlyBelow
  <2>4. m = [kind |-> IF Exists(n) THEN "nodata" ELSE "nxdomain", of |-> Question(n, "NS")]
    BY <2>1, <2>2, <2>3 DEF Data
  <2>5. ASSUME ~Exists(n)
        PROVE  Truth(q, t) = [kind |-> "nxdomain", of |-> Question(q, t)]
    <3>1. ~Exists(q)
      <4> SUFFICES ASSUME NEW k \in Cuts \cup DOMAIN Alias \cup {r.owner : r \in Held},
                          InBailiwick(q, k)
                   PROVE FALSE
        BY DEF Exists
      <4>1. k \in Tree
        BY NamespaceAssumption
      <4>2. InBailiwick(n, k)
        BY <1>1, <4>1, NameFacts DEF InBailiwick
      <4> QED BY <2>5, <4>2 DEF Exists
    <3>2. /\ q \notin Cuts /\ q \notin DOMAIN Alias
          /\ \A r \in Held : r.owner # q
      BY <3>1, NameFacts DEF Exists, InBailiwick
    <3>3. Question(q, t) \notin Held
      <4>1. Question(q, t).owner = q
        BY DEF Question
      <4> QED BY <3>2, <4>1
    <3>4. Lowest(ZonesFor(q, t)) \in Cuts
      <4>1. ZonesFor(q, t) \in SUBSET Above[q] /\ ZonesFor(q, t) # {}
        BY ZonesAreAbove
      <4>2. Lowest(ZonesFor(q, t)) \in ZonesFor(q, t)
        BY <4>1, LowestIsThere
      <4> QED BY <4>2, ZonesAreAbove
    <3>5. Lowest(ZonesFor(q, t)) # q
      BY <3>2, <3>4
    <3> QED BY <3>1, <3>2, <3>3, <3>5 DEF Truth, Data
  <2> QED BY <2>4, <2>5 DEF n
<1> QED BY <1>4, <1>5

-----------------------------------------------------------------------------
(* Aliases *)

LEMMA HopFacts ==
    ASSUME NEW n
    PROVE  /\ Hop(n)[0] = n
           /\ \A k \in 1..MaxCNAMEs :
                Hop(n)[k - 1] \in DOMAIN Alias => Hop(n)[k] = Alias[Hop(n)[k - 1]]
<1> DEFINE To(x) == IF x \in DOMAIN Alias THEN Alias[x] ELSE x
           IsHop(h, N) == h = [k \in 0..N |-> IF k = 0 THEN n ELSE To(h[k - 1])]
<1>0. MaxCNAMEs \in Nat
  BY RecursionAssumption
<1> HIDE DEF To
<1>1. \A N \in Nat : \E h : IsHop(h, N)
  <2> DEFINE Bad == {N \in Nat : ~\E h : IsHop(h, N)}
  <2>1. SUFFICES ASSUME Bad # {} PROVE FALSE
    OBVIOUS
  <2>2. Bad \in SUBSET Nat
    OBVIOUS
  <2>3. PICK N \in Bad : \A m \in Bad : N <= m
    BY <2>1, <2>2, LeastNatural
  <2>4. N \in Nat /\ ~\E h : IsHop(h, N)
    OBVIOUS
  <2>5. CASE N = 0
    <3> DEFINE h0 == [k \in 0..0 |-> n]
    <3>1. IsHop(h0, 0)
      OBVIOUS
    <3> QED BY <2>4, <2>5, <3>1
  <2>6. CASE N # 0
    <3>1. N - 1 \in Nat /\ N - 1 \notin Bad
      <4>1. N - 1 \in Nat /\ ~(N <= N - 1)
        BY <2>4, <2>6
      <4> HIDE DEF Bad
      <4> QED BY <2>3, <4>1
    <3>2. PICK h : IsHop(h, N - 1)
      BY <3>1
    <3> DEFINE g == [k \in 0..N |-> IF k = 0 THEN n ELSE To(h[k - 1])]
    <3>3. \A k \in 0..(N - 1) : h[k] = IF k = 0 THEN n ELSE To(h[k - 1])
      BY <3>1, <3>2
    <3>4. \A k \in 0..(N - 1) : g[k] = h[k]
      BY <3>1, <3>3
    <3>5. \A k \in 0..N : k # 0 => k - 1 \in 0..(N - 1)
      BY <3>1
    <3>6. \A k \in 0..N : (IF k = 0 THEN n ELSE To(h[k - 1])) = IF k = 0 THEN n ELSE To(g[k - 1])
      BY <3>4, <3>5
    <3>7. g = [k \in 0..N |-> IF k = 0 THEN n ELSE To(g[k - 1])]
      BY <3>6
    <3> QED BY <2>4, <3>7
  <2> QED BY <2>5, <2>6
<1>2. PICK f : IsHop(f, MaxCNAMEs)
  BY <1>0, <1>1
<1>3. Hop(n) = CHOOSE h : IsHop(h, MaxCNAMEs)
  BY DEF Hop, To
<1>4. IsHop(Hop(n), MaxCNAMEs)
  <2> HIDE DEF IsHop
  <2> QED BY <1>2, <1>3, Zenon
<1>5. \A k \in 0..MaxCNAMEs : Hop(n)[k] = IF k = 0 THEN n ELSE To(Hop(n)[k - 1])
  <2> DEFINE hop == Hop(n)
  <2>1. hop = [k \in 0..MaxCNAMEs |-> IF k = 0 THEN n ELSE To(hop[k - 1])]
    BY <1>4
  <2> HIDE DEF hop
  <2>2. \A k \in 0..MaxCNAMEs : hop[k] = IF k = 0 THEN n ELSE To(hop[k - 1])
    BY <2>1
  <2> QED BY <2>2 DEF hop
<1>6. Hop(n)[0] = n
  BY <1>0, <1>5
<1>7. ASSUME NEW k \in 1..MaxCNAMEs PROVE Hop(n)[k] = To(Hop(n)[k - 1])
  <2>1. k \in 0..MaxCNAMEs /\ k # 0
    BY <1>0
  <2> QED BY <1>5, <2>1
<1> QED BY <1>6, <1>7 DEF To

-----------------------------------------------------------------------------
(* The calls *)

CallRecord ==
    [pc : {"start", "ask", "full", "backup", "find", "found"}, q : Tree, t : RecordTypes,
     zone : Cuts, known : SUBSET Tree, left : SUBSET Tree, direct : BOOLEAN, server : Tree,
     crossed : 0..MaxDelegations, child : Cuts, need : SUBSET Tree, found : SUBSET Tree,
     backups : SUBSET Tree, tried : SUBSET Tree, onBackup : BOOLEAN]

\* The nameservers a call looks up.
Wanted(c) == IF c.onBackup THEN Nameservers[c.zone] ELSE Nameservers[c.child]
Settled(c) == c.pc \in {"start", "ask", "full", "backup"}

\* A call asks servers of a zone its question is for; one that asks the exact
\* question at a delegation is at the zone above it.
GoodCall(c) ==
    /\ {c.zone, c.child} \subseteq ZonesFor(c.q, c.t)
    /\ c.known \subseteq Nameservers[c.zone] /\ c.left \subseteq Nameservers[c.zone]
    /\ c.pc = "full" => c.server \in Nameservers[c.zone] /\ ~c.direct
    /\ c.onBackup => c.backups \subseteq Nameservers[c.zone]
    /\ c.need \subseteq Wanted(c) /\ c.found \subseteq Wanted(c)
    /\ Settled(c) => c.need = {} /\ c.found = {}
    /\ c.pc = "backup" => c.onBackup
    /\ c.pc = "start" => ~c.onBackup /\ ~c.direct
    /\ c.direct =>
        /\ c.t = "DS" /\ c.q # c.zone
        /\ OneZoneEach =>
             \A z \in Cuts : StrictlyBelow(c.zone, z) /\ InBailiwick(z, c.q) => z = c.q
        /\ Settled(c) \/ c.onBackup

\* Every call but the top waits for the one above it, which looks up the address
\* of a nameserver it wants.
CallsOK(cs) ==
    /\ cs \in Seq(CallRecord) /\ Len(cs) <= MaxNSDepth + 1
    /\ \A i \in 1..Len(cs) :
        /\ GoodCall(cs[i])
        /\ i < Len(cs) => cs[i].pc = "find"
        /\ cs[i].pc = "find" => i <= MaxNSDepth
        /\ i > 1 => cs[i].t = "A" /\ cs[i].q \in Wanted(cs[i - 1])

CallsInv == CallsOK(calls)

CachedAnswers == [asked : Questioned, outcome : Outcome]
AliasesHaveNames(held) ==
    \A o \in held : o.outcome.kind = "alias" => o.asked.owner \in DOMAIN Alias

RestInv ==
    /\ queries \in 0..MaxQueries
    /\ hops \in SUBSET DOMAIN Alias /\ IsFiniteSet(hops) /\ Cardinality(hops) <= MaxCNAMEs
    /\ result \in Outcome /\ asked \in Questioned
    /\ answers \in SUBSET CachedAnswers /\ AliasesHaveNames(answers)
    /\ dels \in SUBSET Cuts /\ addrs \in SUBSET Tree
    /\ expiries \in 0..MaxExpiries

AllTrue(held) == \A o \in held : o.outcome = Truth(o.asked.owner, o.asked.type)

\* What the cache holds is true, and the resolution is where the aliases led.
TrueInv ==
    /\ AllTrue(answers)
    /\ calls # <<>> => /\ calls[1].t = asked.type
                       /\ calls[1].q = Hop(asked.owner)[Cardinality(hops)]
    /\ AnswersTheQuestion

LEMMA CallIsGood ==
    ASSUME NEW q \in Tree, NEW t \in RecordTypes
    PROVE  /\ Call(q, t) \in CallRecord
           /\ GoodCall(Call(q, t))
           /\ Call(q, t).pc = "start" /\ Call(q, t).q = q /\ Call(q, t).t = t
<1>1. Root \in ZonesFor(q, t) /\ Root \in Tree /\ Root \in Cuts
  BY ZonesAreAbove, NamespaceAssumption
<1>2. MaxDelegations \in Nat
  BY RecursionAssumption
<1>3. Call(q, t) \in CallRecord
  BY <1>1, <1>2 DEF Call, CallRecord
<1> QED BY <1>1, <1>3 DEF Call, GoodCall, Settled

LEMMA TopFacts ==
    ASSUME CallsInv, calls # <<>>
    PROVE  /\ Len(calls) \in Nat \ {0} /\ Len(calls) <= MaxNSDepth + 1
           /\ Top \in CallRecord /\ GoodCall(Top)
           /\ Top.q \in Tree /\ Top.t \in RecordTypes /\ Top.zone \in Cuts /\ Top.child \in Cuts
           /\ Top.pc = "find" => Len(calls) <= MaxNSDepth
<1>1. Len(calls) \in Nat \ {0} /\ Len(calls) \in 1..Len(calls)
  BY DEF CallsInv, CallsOK
<1>2. Top \in CallRecord
  BY <1>1 DEF CallsInv, CallsOK, Top
<1>3. /\ GoodCall(Top) /\ (Top.pc = "find" => Len(calls) <= MaxNSDepth)
  BY <1>1 DEF CallsInv, CallsOK, Top
<1> QED BY <1>1, <1>2, <1>3 DEF CallsInv, CallsOK, CallRecord

\* One call changes and keeps its question.
LEMMA OneCallChanges ==
    ASSUME NEW cs, CallsOK(cs), NEW n \in 1..Len(cs), NEW c \in CallRecord, GoodCall(c),
           c.q = cs[n].q, c.t = cs[n].t, c.pc = "find" => n <= MaxNSDepth, n = Len(cs)
    PROVE  /\ CallsOK([cs EXCEPT ![n] = c]) /\ [cs EXCEPT ![n] = c] # <<>>
           /\ [cs EXCEPT ![n] = c][1].q = cs[1].q /\ [cs EXCEPT ![n] = c][1].t = cs[1].t
<1> DEFINE ds == [cs EXCEPT ![n] = c]
<1>1. /\ n \in Nat \ {0} /\ cs \in Seq(CallRecord) /\ n <= MaxNSDepth + 1
      /\ cs \in [1..n -> CallRecord]
  BY DEF CallsOK
<1>2. /\ ds \in [1..n -> CallRecord] /\ ds[n] = c
      /\ \A i \in 1..n : i # n => ds[i] = cs[i]
  BY <1>1
<1>3. ds \in Seq(CallRecord) /\ Len(ds) = n
  BY <1>1
<1> HIDE DEF ds
<1>4. ASSUME NEW i \in 1..n
      PROVE  /\ GoodCall(ds[i])
             /\ i < n => ds[i].pc = "find"
             /\ ds[i].pc = "find" => i <= MaxNSDepth
             /\ i > 1 => ds[i].t = "A" /\ ds[i].q \in Wanted(ds[i - 1])
  <2>1. /\ GoodCall(cs[i])
        /\ i < n => cs[i].pc = "find"
        /\ cs[i].pc = "find" => i <= MaxNSDepth
        /\ i > 1 => cs[i].t = "A" /\ cs[i].q \in Wanted(cs[i - 1])
    BY DEF CallsOK
  <2>2. i > 1 => ds[i - 1] = cs[i - 1]
    <3>1. i > 1 => i - 1 \in 1..n /\ i - 1 # n
      BY <1>1
    <3> QED BY <1>2, <3>1
  <2>3. CASE i = n
    BY <1>1, <1>2, <2>1, <2>2, <2>3
  <2>4. CASE i # n
    BY <1>2, <2>1, <2>2, <2>4
  <2> QED BY <2>3, <2>4
<1>5. CallsOK(ds)
  BY <1>1, <1>3, <1>4 DEF CallsOK
<1>6. ds # <<>>
  BY <1>1, <1>3
<1>7. ds[1].q = cs[1].q /\ ds[1].t = cs[1].t
  BY <1>1, <1>2
<1> QED BY <1>5, <1>6, <1>7 DEF ds

\* The top call goes on.
LEMMA TopGoesOn ==
    ASSUME CallsInv, calls # <<>>, NEW c \in CallRecord, GoodCall(c),
           c.q = Top.q, c.t = Top.t, c.pc = "find" => Len(calls) <= MaxNSDepth,
           calls' = [calls EXCEPT ![Len(calls)] = c]
    PROVE  /\ CallsInv' /\ calls' # <<>>
           /\ calls'[1].q = calls[1].q /\ calls'[1].t = calls[1].t
<1>1. Len(calls) \in 1..Len(calls)
  BY TopFacts
<1>2. /\ CallsOK([calls EXCEPT ![Len(calls)] = c]) /\ [calls EXCEPT ![Len(calls)] = c] # <<>>
      /\ [calls EXCEPT ![Len(calls)] = c][1].q = calls[1].q
      /\ [calls EXCEPT ![Len(calls)] = c][1].t = calls[1].t
  BY <1>1, OneCallChanges DEF CallsInv, Top
<1>3. CallsOK(calls') /\ calls' # <<>>
  BY <1>2
<1> QED BY <1>2, <1>3 DEF CallsInv

\* A lookup is begun.
LEMMA CallIsPushed ==
    ASSUME NEW cs, CallsOK(cs), NEW n \in 1..Len(cs), n = Len(cs), cs[n].pc = "find",
           NEW s \in Tree, s \in Wanted(cs[n])
    PROVE  /\ CallsOK(Append(cs, Call(s, "A"))) /\ Append(cs, Call(s, "A")) # <<>>
           /\ Append(cs, Call(s, "A"))[1] = cs[1]
<1> DEFINE ds == Append(cs, Call(s, "A"))
<1>1. n \in Nat \ {0} /\ cs \in Seq(CallRecord) /\ n <= MaxNSDepth
  BY DEF CallsOK
<1>2. /\ Call(s, "A") \in CallRecord /\ GoodCall(Call(s, "A"))
      /\ Call(s, "A").pc = "start" /\ Call(s, "A").q = s /\ Call(s, "A").t = "A"
  BY CallIsGood DEF RecordTypes
<1>3. /\ ds \in Seq(CallRecord) /\ Len(ds) = n + 1 /\ ds[n + 1] = Call(s, "A")
      /\ \A i \in 1..n : ds[i] = cs[i]
  BY <1>1, <1>2
<1> HIDE DEF ds
<1>4. MaxNSDepth \in Nat
  BY RecursionAssumption
<1>5. ASSUME NEW i \in 1..(n + 1)
      PROVE  /\ GoodCall(ds[i])
             /\ i < n + 1 => ds[i].pc = "find"
             /\ ds[i].pc = "find" => i <= MaxNSDepth
             /\ i > 1 => ds[i].t = "A" /\ ds[i].q \in Wanted(ds[i - 1])
  <2>1. CASE i = n + 1
    <3>1. ds[i - 1] = cs[n]
      BY <1>1, <1>3, <2>1
    <3> QED BY <1>1, <1>2, <1>3, <2>1, <3>1
  <2>2. CASE i # n + 1
    <3>1. i \in 1..n /\ ds[i] = cs[i]
      BY <1>1, <1>3, <2>2
    <3>2. i > 1 => ds[i - 1] = cs[i - 1]
      BY <1>1, <1>3, <3>1
    <3>3. /\ GoodCall(cs[i])
          /\ i < n => cs[i].pc = "find"
          /\ cs[i].pc = "find" => i <= MaxNSDepth
          /\ i > 1 => cs[i].t = "A" /\ cs[i].q \in Wanted(cs[i - 1])
      BY <3>1 DEF CallsOK
    <3>4. cs[i].pc = "find"
      BY <1>1, <3>1, <3>3
    <3> QED BY <3>1, <3>2, <3>3, <3>4
  <2> QED BY <2>1, <2>2
<1>6. CallsOK(ds)
  BY <1>1, <1>3, <1>4, <1>5 DEF CallsOK
<1>7. ds # <<>> /\ ds[1] = cs[1]
  BY <1>1, <1>3
<1> QED BY <1>6, <1>7 DEF ds

LEMMA InformedIsGood ==
    ASSUME NEW c \in CallRecord, GoodCall(c), c.pc = "find",
           NEW s \in Tree, s \in Wanted(c), NEW o
    PROVE  /\ Informed(c, o, s) \in CallRecord /\ GoodCall(Informed(c, o, s))
           /\ Informed(c, o, s).q = c.q /\ Informed(c, o, s).t = c.t
<1> DEFINE F == IF o.kind = "answer" /\ o.of = Question(s, "A")
                  THEN c.found \cup {s} ELSE c.found
           d == Informed(c, o, s)
<1>1. d = [c EXCEPT !.found = F, !.pc = IF F = {} THEN "find" ELSE "found"]
  BY DEF Informed
<1>2. F \in SUBSET Tree /\ F \subseteq Wanted(c)
  BY DEF CallRecord, GoodCall
<1> HIDE DEF F, d
<1>3. /\ d \in CallRecord /\ d.found = F /\ d.pc \in {"find", "found"}
      /\ d.q = c.q /\ d.t = c.t /\ d.zone = c.zone /\ d.child = c.child
      /\ d.known = c.known /\ d.left = c.left /\ d.onBackup = c.onBackup
      /\ d.backups = c.backups /\ d.need = c.need /\ d.direct = c.direct
  BY <1>1, <1>2 DEF CallRecord
<1>4. Wanted(d) = Wanted(c)
  BY <1>3 DEF Wanted
<1>5. c.direct => c.onBackup
  BY DEF GoodCall, Settled
<1>6. /\ {d.zone, d.child} \subseteq ZonesFor(d.q, d.t)
      /\ d.known \subseteq Nameservers[d.zone] /\ d.left \subseteq Nameservers[d.zone]
      /\ d.onBackup => d.backups \subseteq Nameservers[d.zone]
  BY <1>3 DEF GoodCall
<1>7. d.need \subseteq Wanted(d) /\ d.found \subseteq Wanted(d) /\ ~Settled(d)
  BY <1>2, <1>3, <1>4 DEF GoodCall, Settled
<1>8. d.direct =>
        /\ d.t = "DS" /\ d.q # d.zone
        /\ OneZoneEach =>
             \A z \in Cuts : StrictlyBelow(d.zone, z) /\ InBailiwick(z, d.q) => z = d.q
        /\ Settled(d) \/ d.onBackup
  BY <1>3, <1>5 DEF GoodCall
<1>9. GoodCall(d)
  BY <1>3, <1>6, <1>7, <1>8 DEF GoodCall
<1> QED BY <1>3, <1>9 DEF d

\* A lookup returns to the call that waits for it.
LEMMA CallReturns ==
    ASSUME NEW cs, CallsOK(cs), NEW n \in Nat \ {0}, Len(cs) = n + 1, NEW o
    PROVE  LET ds == [SubSeq(cs, 1, n) EXCEPT ![n] = Informed(@, o, cs[n + 1].q)] IN
           /\ CallsOK(ds) /\ ds # <<>>
           /\ ds[1].q = cs[1].q /\ ds[1].t = cs[1].t
<1> DEFINE rest == SubSeq(cs, 1, n)
<1>1. /\ cs \in Seq(CallRecord) /\ n + 1 <= MaxNSDepth + 1 /\ MaxNSDepth \in Nat
      /\ n \in 1..Len(cs) /\ n + 1 \in 1..Len(cs)
  BY RecursionAssumption DEF CallsOK
<1>2. /\ rest \in Seq(CallRecord) /\ Len(rest) = n
      /\ \A i \in 1..n : rest[i] = cs[i]
  BY <1>1
<1> HIDE DEF rest
<1>3. /\ cs[n] \in CallRecord /\ GoodCall(cs[n]) /\ cs[n].pc = "find" /\ n <= MaxNSDepth
      /\ cs[n + 1].q \in Wanted(cs[n]) /\ cs[n + 1].q \in Tree
  <2>1. cs[n] \in CallRecord /\ cs[n + 1] \in CallRecord
    BY <1>1
  <2>2. GoodCall(cs[n]) /\ cs[n].pc = "find"
    BY <1>1 DEF CallsOK
  <2>3. cs[n + 1].q \in Wanted(cs[(n + 1) - 1])
    BY <1>1 DEF CallsOK
  <2>4. (n + 1) - 1 = n
    OBVIOUS
  <2> QED BY <1>1, <2>1, <2>2, <2>3, <2>4 DEF CallRecord
<1>4. ASSUME NEW i \in 1..n
      PROVE  /\ GoodCall(rest[i])
             /\ i < n => rest[i].pc = "find"
             /\ rest[i].pc = "find" => i <= MaxNSDepth
             /\ i > 1 => rest[i].t = "A" /\ rest[i].q \in Wanted(rest[i - 1])
  <2>1. i \in 1..Len(cs) /\ rest[i] = cs[i] /\ (i > 1 => rest[i - 1] = cs[i - 1])
    BY <1>1, <1>2
  <2>2. /\ GoodCall(cs[i])
        /\ i < Len(cs) => cs[i].pc = "find"
        /\ cs[i].pc = "find" => i <= MaxNSDepth
        /\ i > 1 => cs[i].t = "A" /\ cs[i].q \in Wanted(cs[i - 1])
    BY <2>1 DEF CallsOK
  <2> QED BY <2>1, <2>2
<1>5. CallsOK(rest)
  BY <1>1, <1>2, <1>4 DEF CallsOK
<1> DEFINE d == Informed(cs[n], o, cs[n + 1].q)
<1>6. d \in CallRecord /\ GoodCall(d) /\ d.q = cs[n].q /\ d.t = cs[n].t
  BY <1>3, InformedIsGood
<1>7. rest[n] = cs[n] /\ rest[1] = cs[1] /\ n \in 1..Len(rest)
  BY <1>2
<1> HIDE DEF d
<1>8. /\ CallsOK([rest EXCEPT ![n] = d]) /\ [rest EXCEPT ![n] = d] # <<>>
      /\ [rest EXCEPT ![n] = d][1].q = rest[1].q /\ [rest EXCEPT ![n] = d][1].t = rest[1].t
  <2>1. d.q = rest[n].q /\ d.t = rest[n].t
    BY <1>6, <1>7
  <2> QED BY <1>2, <1>3, <1>5, <1>6, <1>7, <2>1, OneCallChanges, Zenon
<1>9. [rest EXCEPT ![n] = d] = [rest EXCEPT ![n] = Informed(@, o, cs[n + 1].q)]
  BY <1>7, Zenon DEF d
<1> QED BY <1>7, <1>8, <1>9, Zenon DEF rest

LEMMA OneCallOK ==
    ASSUME NEW q \in Tree, NEW t \in RecordTypes
    PROVE  /\ CallsOK(<<Call(q, t)>>) /\ <<Call(q, t)>> # <<>>
           /\ <<Call(q, t)>>[1].q = q /\ <<Call(q, t)>>[1].t = t
<1> DEFINE c == Call(q, t)
<1>1. c \in CallRecord /\ GoodCall(c) /\ c.pc = "start" /\ c.q = q /\ c.t = t
  BY CallIsGood
<1> HIDE DEF c
<1>2. MaxNSDepth \in Nat
  BY RecursionAssumption
<1>3. <<c>> \in Seq(CallRecord) /\ Len(<<c>>) = 1 /\ <<c>>[1] = c
  BY <1>1
<1>4. CallsOK(<<c>>)
  BY <1>1, <1>2, <1>3 DEF CallsOK
<1> QED BY <1>1, <1>3, <1>4 DEF c

LEMMA NoCallOK == CallsOK(<<>>)
<1>1. MaxNSDepth \in Nat
  BY RecursionAssumption
<1>2. <<>> \in Seq(CallRecord) /\ Len(<<>>) = 0
  OBVIOUS
<1> QED BY <1>1, <1>2 DEF CallsOK
-----------------------------------------------------------------------------
(* Steps *)

RecInv == CallsInv /\ RestInv

Told == {"alias", "answer", "nodata", "nxdomain"}
TrueOutcome(o, n, t) == o.kind \in Told => o = Truth(n, t)

LEMMA FailureIsTyped ==
    ASSUME NEW k \in {"limit", "unreachable", "cancelled", "pending"}
    PROVE  Failure(k) \in Outcome /\ Failure(k).kind = k /\ Failure(k).kind \notin Told
  BY NamespaceAssumption DEF Failure, Outcome, Questioned, Question, Told

LEMMA WalkGoesOn ==
    ASSUME RecInv, calls # <<>>, NEW c \in CallRecord, GoodCall(c),
           c.q = Top.q, c.t = Top.t, c.pc = "find" => Len(calls) <= MaxNSDepth,
           calls' = [calls EXCEPT ![Len(calls)] = c],
           UNCHANGED <<hops, result, asked, answers, expiries>>,
           dels' \in SUBSET Cuts, addrs' \in SUBSET Tree, queries' \in 0..MaxQueries
    PROVE  RecInv' /\ (TrueInv => TrueInv')
<1>1. /\ CallsInv' /\ calls' # <<>>
      /\ calls'[1].q = calls[1].q /\ calls'[1].t = calls[1].t
  BY TopGoesOn DEF RecInv
<1>2. RestInv'
  BY DEF RecInv, RestInv, AliasesHaveNames
<1>3. TrueInv => TrueInv'
  BY <1>1 DEF TrueInv, AllTrue, AnswersTheQuestion
<1> QED BY <1>1, <1>2, <1>3 DEF RecInv

LEMMA EndKeeps ==
    ASSUME RecInv, NEW o \in Outcome, o.kind \notin Told, End(o),
           UNCHANGED <<asked, answers, expiries>>,
           dels' \in SUBSET Cuts, addrs' \in SUBSET Tree, queries' \in 0..MaxQueries
    PROVE  RecInv' /\ (TrueInv => TrueInv')
<1>1. calls' = <<>> /\ hops' = {} /\ result' = o
  BY DEF End
<1>2. CallsInv'
  BY <1>1, NoCallOK DEF CallsInv
<1>3. IsFiniteSet(hops') /\ Cardinality(hops') <= MaxCNAMEs
  BY <1>1, FS_EmptySet, RecursionAssumption
<1>4. RestInv'
  BY <1>1, <1>3 DEF RecInv, RestInv, AliasesHaveNames
<1>5. TrueInv => TrueInv'
  BY <1>1 DEF TrueInv, AllTrue, AnswersTheQuestion, Told
<1> QED BY <1>2, <1>4, <1>5 DEF RecInv

\* resolveOnce has an outcome for the name at the bottom.
LEMMA FollowKeeps ==
    ASSUME RecInv, calls # <<>>, Len(calls) = 1, NEW o \in Outcome,
           o.kind = "alias" => Top.q \in DOMAIN Alias,
           Follow(Top.q, Top.t, o), UNCHANGED <<asked, expiries>>,
           answers' \in SUBSET CachedAnswers, AliasesHaveNames(answers'),
           dels' \in SUBSET Cuts, addrs' \in SUBSET Tree, queries' \in 0..MaxQueries
    PROVE  /\ RecInv'
           /\ TrueInv /\ TrueOutcome(o, Top.q, Top.t) /\ AllTrue(answers') => TrueInv'
<1>0. /\ Top.q \in Tree /\ Top.t \in RecordTypes /\ Top = calls[1]
      /\ MaxCNAMEs \in Nat
      /\ hops \in SUBSET DOMAIN Alias /\ IsFiniteSet(hops) /\ Cardinality(hops) <= MaxCNAMEs
      /\ Cardinality(hops) \in Nat
  BY TopFacts, RecursionAssumption, FS_CardinalityType DEF RecInv, RestInv, Top
<1>1. ASSUME NEW e \in Outcome, End(e), e = o \/ e.kind \notin Told,
             o.kind = "alias" => e.kind \notin Told
      PROVE  /\ RecInv'
             /\ TrueInv /\ TrueOutcome(o, Top.q, Top.t) /\ AllTrue(answers') => TrueInv'
  <2>1. calls' = <<>> /\ hops' = {} /\ result' = e
    BY <1>1 DEF End
  <2>2. CallsInv'
    BY <2>1, NoCallOK DEF CallsInv
  <2>3. IsFiniteSet(hops') /\ Cardinality(hops') <= MaxCNAMEs
    BY <1>0, <2>1, FS_EmptySet
  <2>4. RestInv'
    BY <2>1, <2>3 DEF RecInv, RestInv, AliasesHaveNames
  <2>5. ASSUME TrueInv, TrueOutcome(o, Top.q, Top.t), AllTrue(answers')
        PROVE  TrueInv'
    <3>1. AnswersTheQuestion'
      <4> SUFFICES ASSUME e.kind \in Told
                   PROVE \E k \in 0..MaxCNAMEs :
                            /\ Hop(asked.owner)[k] \notin DOMAIN Alias
                            /\ e = Truth(Hop(asked.owner)[k], asked.type)
        BY <2>1 DEF AnswersTheQuestion, Told
      <4>1. e = o /\ o.kind # "alias" /\ o = Truth(Top.q, Top.t)
        BY <1>1, <2>5 DEF TrueOutcome
      <4>2. Top.q = Hop(asked.owner)[Cardinality(hops)] /\ Top.t = asked.type
        BY <1>0, <2>5 DEF TrueInv, AllTrue
      <4>3. Top.q \notin DOMAIN Alias
        BY <1>0, <4>1, DataShape DEF Truth, RecordTypes
      <4>4. Cardinality(hops) \in 0..MaxCNAMEs
        BY <1>0
      <4> QED BY <4>1, <4>2, <4>3, <4>4
    <3> QED BY <2>1, <2>5, <3>1 DEF TrueInv, AllTrue
  <2> QED BY <2>2, <2>4, <2>5 DEF RecInv
<1>2. CASE o.kind # "alias"
  <2>1. End(o)
    BY <1>2 DEF Follow
  <2> QED BY <1>1, <1>2, <2>1
<1>3. CASE o.kind = "alias" /\ (Top.q \in hops \/ Cardinality(hops) >= MaxCNAMEs)
  <2>1. End(Failure("limit"))
    BY <1>3 DEF Follow
  <2>2. Failure("limit") \in Outcome /\ Failure("limit").kind \notin Told
    BY FailureIsTyped
  <2> QED BY <1>1, <2>1, <2>2
<1>4. CASE o.kind = "alias" /\ ~(Top.q \in hops \/ Cardinality(hops) >= MaxCNAMEs)
  <2>1. /\ calls' = <<Call(Alias[Top.q], Top.t)>> /\ hops' = hops \cup {Top.q}
        /\ result' = result
    BY <1>4 DEF Follow
  <2>2. Top.q \in DOMAIN Alias /\ Alias[Top.q] \in Tree
    BY <1>4, NamespaceAssumption
  <2>3. /\ CallsOK(calls') /\ calls' # <<>>
        /\ calls'[1].q = Alias[Top.q] /\ calls'[1].t = Top.t
    BY <1>0, <2>1, <2>2, OneCallOK
  <2>4. IsFiniteSet(hops') /\ Cardinality(hops') = Cardinality(hops) + 1
    BY <1>0, <1>4, <2>1, FS_AddElement
  <2>5. Cardinality(hops') \in 1..MaxCNAMEs /\ Cardinality(hops') - 1 = Cardinality(hops)
    BY <1>0, <1>4, <2>4
  <2>6. RestInv'
    BY <1>0, <2>1, <2>2, <2>4, <2>5 DEF RecInv, RestInv, AliasesHaveNames
  <2>7. ASSUME TrueInv, AllTrue(answers')
        PROVE  TrueInv'
    <3>1. Top.q = Hop(asked.owner)[Cardinality(hops)] /\ Top.t = asked.type
      BY <1>0, <2>7 DEF TrueInv, AllTrue
    <3>2. Alias[Top.q] = Hop(asked.owner)[Cardinality(hops')]
      BY <2>2, <2>5, <3>1, HopFacts
    <3> QED BY <2>1, <2>3, <2>7, <3>1, <3>2 DEF TrueInv, AllTrue, AnswersTheQuestion
  <2> QED BY <2>3, <2>6, <2>7 DEF RecInv, CallsInv
<1> QED BY <1>2, <1>3, <1>4

\* The top call is done.
LEMMA DeliverKeeps ==
    ASSUME RecInv, calls # <<>>, NEW o \in Outcome,
           o.kind = "alias" => Top.q \in DOMAIN Alias,
           Deliver(o), UNCHANGED <<asked, expiries>>,
           answers' \in SUBSET CachedAnswers, AliasesHaveNames(answers'),
           dels' \in SUBSET Cuts, queries' \in 0..MaxQueries
    PROVE  /\ RecInv'
           /\ TrueInv /\ TrueOutcome(o, Top.q, Top.t) /\ AllTrue(answers') => TrueInv'
<1>0. Len(calls) \in Nat \ {0} /\ Top.q \in Tree /\ addrs \in SUBSET Tree
  BY TopFacts DEF RecInv, RestInv
<1>1. CASE Len(calls) = 1
  <2>1. Follow(Top.q, Top.t, o) /\ addrs' = addrs
    BY <1>1 DEF Deliver
  <2> QED BY <1>0, <1>1, <2>1, FollowKeeps
<1>2. CASE Len(calls) # 1
  <2> DEFINE n == Len(calls) - 1
  <2>1. n \in Nat \ {0} /\ Len(calls) = n + 1
    BY <1>0, <1>2
  <2>2. /\ calls' = [SubSeq(calls, 1, n) EXCEPT ![n] = Informed(@, o, calls[n + 1].q)]
        /\ addrs' \in SUBSET Tree
        /\ UNCHANGED <<hops, result>>
    BY <1>0, <2>1 DEF Deliver, Same, Top
  <2> HIDE DEF n
  <2>3. /\ CallsOK(calls') /\ calls' # <<>>
        /\ calls'[1].q = calls[1].q /\ calls'[1].t = calls[1].t
    BY <2>1, <2>2, CallReturns, Zenon DEF RecInv, CallsInv
  <2>4. RestInv'
    BY <2>2 DEF RecInv, RestInv, AliasesHaveNames
  <2>5. ASSUME TrueInv, AllTrue(answers')
        PROVE  TrueInv'
    BY <2>2, <2>3, <2>5 DEF TrueInv, AllTrue, AnswersTheQuestion
  <2> QED BY <2>3, <2>4, <2>5 DEF RecInv, CallsInv
<1> QED BY <1>1, <1>2
-----------------------------------------------------------------------------
(* Actions *)

\* A server's reply to the question of the top call, or to one on the way to it.
IsReply(m) ==
    /\ Top.pc \in {"ask", "full"}
    /\ \E s \in Nameservers[Top.zone] :
         \/ Top.pc = "ask" /\ m = Reply(s, Probe.owner, Probe.type)
            /\ ~(Probe.owner # Top.q /\ m.kind = "nodata")
         \/ Top.pc = "full" /\ m = Reply(s, Top.q, Top.t)
    /\ m.kind # "refused"

LEMMA ProbeFacts ==
    ASSUME CallsInv, calls # <<>>
    PROVE  /\ Probe.owner \in Above[Top.q] /\ Probe.owner \in Tree /\ Probe.type \in RecordTypes
           /\ \/ Probe = Question(Top.q, Top.t)
              \/ /\ ~Top.direct /\ Top.zone # Top.q
                 /\ NextLabel(Top.zone, Top.q) # Top.q
                 /\ Probe = Question(NextLabel(Top.zone, Top.q), "NS")
<1>1. /\ Top.q \in Tree /\ Top.t \in RecordTypes /\ Top.zone \in ZonesFor(Top.q, Top.t)
  BY TopFacts DEF GoodCall
<1>2. Top.zone \in Above[Top.q] /\ Top.q \in Above[Top.q]
  BY <1>1, ZonesAreAbove, NameFacts
<1>3. CASE Probe = Question(Top.q, Top.t)
  BY <1>1, <1>2, <1>3 DEF Question
<1>4. CASE Probe # Question(Top.q, Top.t)
  <2>1. /\ ~Top.direct /\ Top.zone # Top.q
        /\ NextLabel(Top.zone, Top.q) # Top.q
        /\ Probe = Question(NextLabel(Top.zone, Top.q), "NS")
    BY <1>4 DEF Probe, Minimised
  <2>2. NextLabel(Top.zone, Top.q) \in Above[Top.q]
    BY <1>1, <1>2, <2>1, NextLabelFacts
  <2>3. NextLabel(Top.zone, Top.q) \in Tree
    BY <1>1, <2>2, NameFacts
  <2> QED BY <2>1, <2>2, <2>3 DEF Question, RecordTypes
<1> QED BY <1>3, <1>4

LEMMA ReplyIsTyped ==
    ASSUME CallsInv, calls # <<>>, NEW m, IsReply(m)
    PROVE  /\ m \in Messages /\ m.kind # "refused"
           /\ m.kind = "referral" => m.of.owner \in Cuts
           /\ m.kind = "alias" => Top.q \in DOMAIN Alias
<1>1. Top.q \in Tree /\ Top.t \in RecordTypes
  BY TopFacts
<1>2. PICK n \in Above[Top.q], t \in RecordTypes, s \in Nameservers[Top.zone] : m = Reply(s, n, t)
  <2>1. Top.q \in Above[Top.q]
    BY <1>1, NameFacts
  <2> QED BY <1>1, <2>1, ProbeFacts DEF IsReply
<1>3. n \in Tree
  BY <1>1, NameFacts
<1>4. /\ m \in Messages /\ (m.kind = "referral" => m.of.owner \in Cuts)
      /\ m.kind = "alias" => n \in DOMAIN Alias
  BY <1>2, <1>3, ReplyShape DEF RecordTypes
<1>5. n \in DOMAIN Alias => n = Top.q
  BY <1>1, NameFacts
<1> QED BY <1>4, <1>5 DEF IsReply

\* What Conclude makes of a reply.
Concluded(m) ==
    CASE m.kind = "referral" -> [kind |-> "nodata", of |-> Question(Top.q, Top.t)]
      [] m.kind \in {"nodata", "nxdomain"} -> [kind |-> m.kind, of |-> Question(Top.q, Top.t)]
      [] OTHER -> m

LEMMA ConcludedIsTyped ==
    ASSUME CallsInv, calls # <<>>, NEW m, IsReply(m)
    PROVE  /\ Concluded(m) \in Outcome /\ Concluded(m).kind \in Told
           /\ Concluded(m).kind = "alias" => Top.q \in DOMAIN Alias
<1>1. Question(Top.q, Top.t) \in Questioned
  BY TopFacts DEF Question, Questioned, RecordTypes
<1>2. /\ m \in Messages /\ m.kind # "refused"
      /\ m.kind = "alias" => Top.q \in DOMAIN Alias
  BY ReplyIsTyped
<1>3. CASE m.kind = "referral"
  BY <1>1, <1>3 DEF Concluded, Outcome, Told
<1>4. CASE m.kind \in {"nodata", "nxdomain"}
  BY <1>1, <1>4 DEF Concluded, Outcome, Told
<1>5. CASE m.kind \in {"answer", "alias"}
  BY <1>2, <1>5 DEF Concluded, Outcome, Messages, Told
<1> QED BY <1>2, <1>3, <1>4, <1>5 DEF Messages

\* A reply that is taken for the answer is the truth.
LEMMA ConcludedIsTrue ==
    ASSUME OneZoneEach, OldHaveNoDS, CallsInv, calls # <<>>, NEW m, IsReply(m),
           ~IsReferral(m) \/ Top.direct
    PROVE  Concluded(m) = Truth(Top.q, Top.t)
<1>1. /\ Top.q \in Tree /\ Top.t \in RecordTypes /\ Top.zone \in ZonesFor(Top.q, Top.t)
      /\ Top.direct =>
          /\ Top.t = "DS"
          /\ \A z \in Cuts : StrictlyBelow(Top.zone, z) /\ InBailiwick(z, Top.q) => z = Top.q
      /\ Top.pc = "full" => ~Top.direct
  BY TopFacts DEF GoodCall
<1>2. m \in Messages
  BY ReplyIsTyped
<1>3. ASSUME NEW s \in Nameservers[Top.zone], m = Reply(s, Top.q, Top.t)
      PROVE  Concluded(m) = Truth(Top.q, Top.t)
  <2>1. CASE m = Truth(Top.q, Top.t)
    <3>1. m.of = Question(Top.q, Top.t) /\ m.kind \notin {"referral", "refused"}
      BY <1>1, <2>1, DataShape DEF Truth, RecordTypes
    <3>2. m = [kind |-> m.kind, of |-> Question(Top.q, Top.t)]
      BY <1>2, <3>1 DEF Messages
    <3> QED BY <2>1, <3>1, <3>2 DEF Concluded
  <2>2. CASE m # Truth(Top.q, Top.t)
    <3>1. /\ m.kind = "referral" /\ m.of.owner \in Cuts
          /\ StrictlyBelow(Top.zone, m.of.owner) /\ InBailiwick(m.of.owner, Top.q)
          /\ Top.t = "DS" /\ m.of.owner = Top.q =>
               Truth(Top.q, Top.t) = [kind |-> "nodata", of |-> Question(Top.q, Top.t)]
      BY <1>1, <1>3, <2>2, ExactReply DEF RecordTypes
    <3>2. Top.direct
      BY <3>1 DEF IsReferral
    <3>3. Truth(Top.q, Top.t) = [kind |-> "nodata", of |-> Question(Top.q, Top.t)]
      BY <1>1, <3>1, <3>2
    <3> QED BY <3>1, <3>3 DEF Concluded
  <2> QED BY <2>1, <2>2
<1>4. PICK s \in Nameservers[Top.zone] :
        \/ /\ m = Reply(s, Probe.owner, Probe.type)
           /\ ~(Probe.owner # Top.q /\ m.kind = "nodata")
        \/ m = Reply(s, Top.q, Top.t)
  BY DEF IsReply
<1>5. CASE m = Reply(s, Top.q, Top.t)
  BY <1>3, <1>5
<1>6. CASE /\ m = Reply(s, Probe.owner, Probe.type)
           /\ ~(Probe.owner # Top.q /\ m.kind = "nodata")
  <2>1. CASE Probe = Question(Top.q, Top.t)
    <3>1. m = Reply(s, Top.q, Top.t)
      BY <1>6, <2>1 DEF Question
    <3> QED BY <1>3, <3>1
  <2>2. CASE Probe # Question(Top.q, Top.t)
    <3>1. /\ ~Top.direct /\ Top.zone # Top.q
          /\ NextLabel(Top.zone, Top.q) # Top.q
          /\ Probe = Question(NextLabel(Top.zone, Top.q), "NS")
      BY <2>2, ProbeFacts
    <3>2. m = Reply(s, NextLabel(Top.zone, Top.q), "NS") /\ m.kind # "nodata"
      BY <1>6, <3>1 DEF Question
    <3>3. \/ m.kind = "nxdomain"
             /\ Truth(Top.q, Top.t) = [kind |-> "nxdomain", of |-> Question(Top.q, Top.t)]
          \/ /\ m.kind = "referral"
             /\ StrictlyBelow(Top.zone, m.of.owner) /\ InBailiwick(m.of.owner, Top.q)
      BY <1>1, <3>1, <3>2, ProbeReply DEF RecordTypes
    <3>4. m.kind # "referral"
      BY <3>1, <3>3 DEF IsReferral
    <3> QED BY <3>3, <3>4 DEF Concluded
  <2> QED BY <2>1, <2>2
<1> QED BY <1>4, <1>5, <1>6


\* What every step keeps: the calls and the cache are in order, and as long as each
\* server serves one zone, what is cached and returned is true.
StepKeepsInv == RecInv' /\ (OneZoneEach /\ OldHaveNoDS /\ TrueInv => TrueInv')

LEMMA OnlyCutOnTheWay ==
    ASSUME OneZoneEach, CallsInv, calls # <<>>, NEW m, IsReply(m), m.kind = "referral",
           m.of.owner = Top.q,
           NEW z \in Cuts, StrictlyBelow(Top.zone, z), InBailiwick(z, Top.q)
    PROVE  z = Top.q
<1>1. Top.q \in Tree /\ Top.t \in RecordTypes /\ Top.zone \in ZonesFor(Top.q, Top.t)
  BY TopFacts DEF GoodCall
<1>2. PICK s \in Nameservers[Top.zone] :
        m = Reply(s, Probe.owner, Probe.type) \/ m = Reply(s, Top.q, Top.t)
  BY DEF IsReply
<1>3. CASE m = Reply(s, Top.q, Top.t)
  <2> DEFINE B == Below(s, Top.zone, Top.q, Top.t)
  <2>1. m = IF B # {} THEN [kind |-> "referral", of |-> Question(Highest(B), "NS")]
            ELSE Data(Top.zone, Top.q, Top.t)
    BY <1>1, <1>2, <1>3, ReplyOfZone
  <2>2. B # {}
    BY <1>1, <2>1, DataShape DEF RecordTypes
  <2>3. Highest(B) = Top.q
    BY <2>1, <2>2 DEF Question
  <2>4. \A y \in B : InBailiwick(Top.q, y)
    BY <1>1, <2>2, <2>3, BelowFacts
  <2>5. z # Top.q => z \in B
    BY DEF Below
  <2> HIDE DEF B
  <2>6. z # Top.q => Top.q \in Above[z] /\ z \in Above[Top.q]
    BY <2>4, <2>5 DEF InBailiwick
  <2> QED BY <1>1, <2>6, NameFacts
<1>4. CASE m # Reply(s, Top.q, Top.t)
  <2>1. m = Reply(s, Probe.owner, Probe.type)
    BY <1>2, <1>4
  <2>2. /\ Top.zone # Top.q /\ NextLabel(Top.zone, Top.q) # Top.q
        /\ Probe = Question(NextLabel(Top.zone, Top.q), "NS")
    BY <1>4, <2>1, ProbeFacts DEF Question
  <2>3. m = Reply(s, NextLabel(Top.zone, Top.q), "NS")
    BY <2>1, <2>2 DEF Question
  <2>4. m.of.owner # Top.q
    BY <1>1, <2>2, <2>3, ProbeReply DEF RecordTypes
  <2> QED BY <2>4
<1> QED BY <1>3, <1>4

LEMMA AskDirectlyKeeps ==
    ASSUME RecInv, calls # <<>>, NEW m, IsReply(m), AskDirectly(m),
           UNCHANGED <<asked, expiries>>, queries' \in 0..MaxQueries
    PROVE  StepKeepsInv
<1> DEFINE c == [Top EXCEPT !.pc = "ask", !.direct = TRUE, !.left = Top.known,
                            !.onBackup = FALSE]
<1>0. /\ ~Top.direct /\ IsReferral(m) /\ Top.t = "DS" /\ m.of.owner = Top.q
      /\ dels' = dels \cup {Top.q}
      /\ calls' = [calls EXCEPT ![Len(calls)] = c]
      /\ UNCHANGED <<answers, addrs, hops, result>>
  BY DEF AskDirectly, Become
<1>1. Top \in CallRecord /\ GoodCall(Top) /\ Top.pc \in {"ask", "full"} /\ CallsInv
  BY TopFacts DEF RecInv, IsReply
<1>2. m.kind = "referral" /\ StrictlyBelow(Top.zone, Top.q) /\ Top.q \in Cuts
  BY <1>0, <1>1, ReplyIsTyped DEF IsReferral
<1>3. c \in CallRecord
  BY <1>1 DEF CallRecord
<1>4. /\ c.pc = "ask" /\ c.direct = TRUE /\ c.left = Top.known /\ c.onBackup = FALSE
      /\ c.q = Top.q /\ c.t = Top.t /\ c.zone = Top.zone /\ c.child = Top.child
      /\ c.known = Top.known /\ c.need = Top.need /\ c.found = Top.found
  BY <1>1 DEF CallRecord
<1> HIDE DEF c
<1>5. c.need = {} /\ c.found = {}
  BY <1>1, <1>4 DEF GoodCall, Settled
<1>6. /\ c.t = "DS" /\ c.q # c.zone
      /\ OneZoneEach =>
           \A z \in Cuts : StrictlyBelow(c.zone, z) /\ InBailiwick(z, c.q) => z = c.q
      /\ Settled(c)
  <2>1. OneZoneEach =>
          \A z \in Cuts : StrictlyBelow(Top.zone, z) /\ InBailiwick(z, Top.q) => z = Top.q
    BY <1>0, <1>1, <1>2, OnlyCutOnTheWay
  <2> QED BY <1>0, <1>2, <1>4, <2>1 DEF StrictlyBelow, Settled
<1>7. GoodCall(c)
  <2>1. {c.zone, c.child} \subseteq ZonesFor(c.q, c.t)
    BY <1>1, <1>4 DEF GoodCall
  <2>2. c.known \subseteq Nameservers[c.zone] /\ c.left \subseteq Nameservers[c.zone]
    BY <1>1, <1>4 DEF GoodCall
  <2> QED BY <1>4, <1>5, <1>6, <2>1, <2>2 DEF GoodCall
<1>8. dels' \in SUBSET Cuts /\ addrs' \in SUBSET Tree
  BY <1>0, <1>2 DEF RecInv, RestInv
<1> QED BY <1>0, <1>3, <1>4, <1>7, <1>8, WalkGoesOn DEF StepKeepsInv

\* A zone the question is for is entered with servers of it.
LEMMA ZoneIsEntered ==
    ASSUME NEW c \in CallRecord, GoodCall(c), ~c.direct, c.crossed < MaxDelegations,
           NEW z \in ZonesFor(c.q, c.t), NEW servers \in SUBSET Nameservers[z]
    PROVE  /\ EnterZone(c, z, servers) \in CallRecord
           /\ GoodCall(EnterZone(c, z, servers))
           /\ EnterZone(c, z, servers).pc = "ask"
           /\ EnterZone(c, z, servers).q = c.q /\ EnterZone(c, z, servers).t = c.t
<1> DEFINE d == EnterZone(c, z, servers)
<1>1. c.q \in Tree /\ c.t \in RecordTypes /\ c.crossed \in 0..MaxDelegations
  BY DEF CallRecord
<1>2. z \in Cuts /\ Root \in ZonesFor(c.q, c.t) /\ Root \in Cuts
  BY <1>1, ZonesAreAbove, NamespaceAssumption
<1>3. Nameservers[z] \in SUBSET Tree
  BY <1>2, RecursionAssumption
<1>4. c.crossed + 1 \in 0..MaxDelegations
  BY <1>1, RecursionAssumption
<1>5. d = [c EXCEPT !.pc = "ask", !.zone = z, !.known = servers, !.left = servers,
                    !.crossed = c.crossed + 1, !.child = Root, !.need = {}, !.found = {},
                    !.onBackup = FALSE]
  BY DEF EnterZone
<1> HIDE DEF d
<1>6. /\ d \in CallRecord /\ d.pc = "ask" /\ d.q = c.q /\ d.t = c.t
      /\ d.zone = z /\ d.child = Root /\ d.known = servers /\ d.left = servers
      /\ d.need = {} /\ d.found = {} /\ d.onBackup = FALSE /\ d.direct = c.direct
  BY <1>2, <1>3, <1>4, <1>5 DEF CallRecord
<1>7. GoodCall(d)
  BY <1>2, <1>6 DEF GoodCall
<1> QED BY <1>6, <1>7 DEF d

LEMMA FollowReferralKeeps ==
    ASSUME RecInv, calls # <<>>, NEW m, IsReply(m), FollowReferral(m),
           UNCHANGED <<asked, expiries>>, queries' \in 0..MaxQueries
    PROVE  StepKeepsInv
<1> DEFINE z == m.of.owner
<1>0. /\ ~Top.direct /\ IsReferral(m) /\ ~(Top.t = "DS" /\ z = Top.q)
      /\ UNCHANGED answers
  BY DEF FollowReferral
<1>1. Top \in CallRecord /\ GoodCall(Top) /\ Top.pc \in {"ask", "full"} /\ CallsInv
  BY TopFacts DEF RecInv, IsReply
<1>2. m.kind = "referral" /\ z \in Cuts /\ InBailiwick(z, Top.q)
  BY <1>0, <1>1, ReplyIsTyped DEF IsReferral
<1>3. z \in ZonesFor(Top.q, Top.t)
  BY <1>0, <1>2 DEF ZonesFor
<1>4. Glue(z) \in SUBSET Nameservers[z] /\ Nameservers[z] \in SUBSET Tree
  BY <1>2, RecursionAssumption DEF Glue
<1>5. dels \cup {z} \in SUBSET Cuts /\ dels \in SUBSET Cuts /\ addrs \in SUBSET Tree
  BY <1>2 DEF RecInv, RestInv
<1>6. Failure("limit") \in Outcome /\ Failure("limit").kind \notin Told
  BY FailureIsTyped
<1>7. CASE Glue(z) # {}
  <2>1. /\ dels' = dels \cup {z} /\ addrs' = addrs
        /\ IF Top.crossed >= MaxDelegations
             THEN End(Failure("limit"))
             ELSE Become(EnterZone(Top, z, Glue(z))) /\ Same
    BY <1>7 DEF FollowReferral
  <2>2. dels' \in SUBSET Cuts /\ addrs' \in SUBSET Tree
    BY <1>5, <2>1
  <2>3. CASE Top.crossed >= MaxDelegations
    BY <1>0, <1>6, <2>1, <2>2, <2>3, EndKeeps DEF StepKeepsInv
  <2>4. CASE ~(Top.crossed >= MaxDelegations)
    <3> DEFINE d == EnterZone(Top, z, Glue(z))
    <3>1. Top.crossed < MaxDelegations
      BY <1>1, <2>4, RecursionAssumption DEF CallRecord
    <3>2. /\ d \in CallRecord /\ GoodCall(d) /\ d.pc = "ask"
          /\ d.q = Top.q /\ d.t = Top.t
      BY <1>0, <1>1, <1>3, <1>4, <3>1, ZoneIsEntered
    <3>3. calls' = [calls EXCEPT ![Len(calls)] = d] /\ UNCHANGED <<hops, result>>
      BY <2>1, <2>4 DEF Become, Same
    <3> HIDE DEF d
    <3> QED BY <1>0, <2>2, <3>2, <3>3, WalkGoesOn DEF StepKeepsInv
  <2> QED BY <2>3, <2>4
<1>8. CASE Glue(z) = {}
  <2> DEFINE d == [Top EXCEPT !.pc = "find", !.child = z, !.found = {},
                              !.need = Nameservers[z], !.onBackup = FALSE]
  <2>1. /\ dels' = dels /\ addrs' = addrs
        /\ IF Len(calls) > MaxNSDepth
             THEN End(Failure("limit"))
             ELSE Become(d) /\ Same
    BY <1>8 DEF FollowReferral
  <2>2. dels' \in SUBSET Cuts /\ addrs' \in SUBSET Tree
    BY <1>5, <2>1
  <2>3. CASE Len(calls) > MaxNSDepth
    BY <1>0, <1>6, <2>1, <2>2, <2>3, EndKeeps DEF StepKeepsInv
  <2>4. CASE ~(Len(calls) > MaxNSDepth)
    <3>1. Len(calls) <= MaxNSDepth
      BY <1>1, <2>4, TopFacts, RecursionAssumption
    <3>2. /\ d \in CallRecord /\ d.pc = "find" /\ d.q = Top.q /\ d.t = Top.t
          /\ d.zone = Top.zone /\ d.child = z /\ d.known = Top.known /\ d.left = Top.left
          /\ d.need = Nameservers[z] /\ d.found = {} /\ d.onBackup = FALSE
          /\ d.direct = Top.direct
      BY <1>1, <1>2, <1>4 DEF CallRecord
    <3>3. calls' = [calls EXCEPT ![Len(calls)] = d] /\ UNCHANGED <<hops, result>>
      BY <2>1, <2>4 DEF Become, Same
    <3> HIDE DEF d
    <3>4. {d.zone, d.child} \subseteq ZonesFor(d.q, d.t)
      BY <1>1, <1>3, <3>2 DEF GoodCall
    <3>5. d.known \subseteq Nameservers[d.zone] /\ d.left \subseteq Nameservers[d.zone]
      BY <1>1, <3>2 DEF GoodCall
    <3>6. Wanted(d) = Nameservers[z] /\ ~Settled(d)
      BY <3>2 DEF Wanted, Settled
    <3>7. GoodCall(d)
      BY <1>0, <3>2, <3>4, <3>5, <3>6 DEF GoodCall
    <3> QED BY <1>0, <2>2, <3>1, <3>2, <3>3, <3>7, WalkGoesOn DEF StepKeepsInv
  <2> QED BY <2>3, <2>4
<1> QED BY <1>7, <1>8

LEMMA ConcludeKeeps ==
    ASSUME RecInv, calls # <<>>, NEW m, IsReply(m), Conclude(m),
           UNCHANGED <<asked, expiries>>, queries' \in 0..MaxQueries
    PROVE  StepKeepsInv
<1> DEFINE o == Concluded(m)
           kept == [asked |-> Question(Top.q, Top.t), outcome |-> o]
<1>0. CallsInv /\ answers \in SUBSET CachedAnswers /\ AliasesHaveNames(answers) /\ dels \in SUBSET Cuts
  BY DEF RecInv, RestInv
<1>1. /\ ~IsReferral(m) \/ Top.direct
      /\ Deliver(o) /\ Remember(o)
      /\ dels' = dels
  BY Zenon DEF Conclude, Concluded
<1>2. /\ o \in Outcome /\ o.kind \in Told
      /\ o.kind = "alias" => Top.q \in DOMAIN Alias
  BY <1>0, ConcludedIsTyped
<1>3. Question(Top.q, Top.t) \in Questioned /\ Question(Top.q, Top.t).owner = Top.q
      /\ Question(Top.q, Top.t).type = Top.t
  BY <1>0, TopFacts DEF Question, Questioned, RecordTypes
<1>4. OneZoneEach /\ OldHaveNoDS => o = Truth(Top.q, Top.t)
  BY <1>0, <1>1, ConcludedIsTrue
<1> HIDE DEF o
<1>5. answers' \subseteq answers \cup {kept}
  BY <1>1, Zenon DEF Remember
<1>6. kept \in CachedAnswers /\ kept.asked.owner = Top.q /\ kept.asked.type = Top.t /\ kept.outcome = o
  BY <1>2, <1>3 DEF CachedAnswers
<1> HIDE DEF kept
<1>7. answers' \in SUBSET CachedAnswers /\ AliasesHaveNames(answers')
  BY <1>0, <1>2, <1>5, <1>6 DEF AliasesHaveNames
<1>8. OneZoneEach /\ OldHaveNoDS /\ TrueInv =>
        AllTrue(answers') /\ TrueOutcome(o, Top.q, Top.t)
  BY <1>4, <1>5, <1>6 DEF TrueInv, AllTrue, TrueOutcome
<1>9. dels' \in SUBSET Cuts
  BY <1>0, <1>1
<1>10. /\ RecInv'
       /\ TrueInv /\ TrueOutcome(o, Top.q, Top.t) /\ AllTrue(answers') => TrueInv'
  BY <1>1, <1>2, <1>7, <1>9, DeliverKeeps
<1> QED BY <1>8, <1>10 DEF StepKeepsInv

LEMMA ReceiveKeeps ==
    ASSUME RecInv, calls # <<>>, NEW m, IsReply(m), Receive(m),
           UNCHANGED <<asked, expiries>>, queries' \in 0..MaxQueries
    PROVE  StepKeepsInv
  BY AskDirectlyKeeps, FollowReferralKeeps, ConcludeKeeps DEF Receive


LEMMA ResolveKeeps ==
    ASSUME RecInv, NEW r \in Questions, Resolve(r)
    PROVE  StepKeepsInv
<1>1. /\ calls' = <<Call(r.owner, r.type)>> /\ queries' = 0 /\ hops' = {}
      /\ result' = Pending /\ asked' = r
      /\ UNCHANGED <<answers, dels, addrs, expiries>>
  BY DEF Resolve, cache
<1>2. r \in Questioned /\ r.owner \in Tree /\ r.type \in RecordTypes
  BY RecursionAssumption DEF Questioned, RecordTypes
<1>3. /\ CallsOK(calls') /\ calls' # <<>>
      /\ calls'[1].q = r.owner /\ calls'[1].t = r.type
  BY <1>1, <1>2, OneCallOK
<1>4. Pending \in Outcome /\ Pending.kind = "pending"
  BY NamespaceAssumption DEF Pending, Outcome, Questioned, Question
<1>5. IsFiniteSet(hops') /\ Cardinality(hops') = 0 /\ MaxCNAMEs \in Nat /\ MaxQueries \in Nat
  BY <1>1, FS_EmptySet, RecursionAssumption
<1>6. RestInv'
  BY <1>1, <1>2, <1>4, <1>5 DEF RecInv, RestInv, AliasesHaveNames
<1>7. ASSUME TrueInv PROVE TrueInv'
  <2>1. Hop(r.owner)[0] = r.owner
    BY HopFacts
  <2>2. AnswersTheQuestion'
    BY <1>1, <1>4 DEF AnswersTheQuestion
  <2> QED BY <1>1, <1>3, <1>5, <1>7, <2>1, <2>2 DEF TrueInv, AllTrue
<1> QED BY <1>3, <1>6, <1>7 DEF StepKeepsInv, RecInv, CallsInv

LEMMA AnswerFromCacheKeeps ==
    ASSUME RecInv, AnswerFromCache
    PROVE  StepKeepsInv
<1>1. calls # <<>> /\ UNCHANGED <<queries, asked, answers, dels, expiries>>
  BY DEF AnswerFromCache, Calling
<1>2. PICK o \in answers : o.asked = Question(Top.q, Top.t) /\ Deliver(o.outcome)
  BY DEF AnswerFromCache, Cached
<1>3. /\ o \in CachedAnswers /\ AliasesHaveNames(answers) /\ answers \in SUBSET CachedAnswers
      /\ dels \in SUBSET Cuts /\ queries \in 0..MaxQueries
  BY DEF RecInv, RestInv
<1>4. o.asked.owner = Top.q /\ o.asked.type = Top.t
  BY <1>2 DEF Question
<1>5. /\ o.outcome \in Outcome
      /\ o.outcome.kind = "alias" => Top.q \in DOMAIN Alias
  BY <1>3, <1>4 DEF CachedAnswers, AliasesHaveNames
<1>6. TrueInv => TrueOutcome(o.outcome, Top.q, Top.t) /\ AllTrue(answers')
  BY <1>1, <1>4 DEF TrueInv, AllTrue, TrueOutcome
<1>7. answers' \in SUBSET CachedAnswers /\ AliasesHaveNames(answers') /\ dels' \in SUBSET Cuts
      /\ queries' \in 0..MaxQueries
  BY <1>1, <1>3
<1>8. /\ RecInv'
      /\ TrueInv /\ TrueOutcome(o.outcome, Top.q, Top.t) /\ AllTrue(answers') => TrueInv'
  BY <1>1, <1>2, <1>5, <1>7, DeliverKeeps
<1> QED BY <1>6, <1>8 DEF StepKeepsInv

\* A call that cannot go on fails the lookup it was made for.
LEMMA FailsKeeps ==
    ASSUME RecInv, calls # <<>>, Deliver(Failure("unreachable")),
           UNCHANGED <<queries, asked, answers, dels, expiries>>
    PROVE  StepKeepsInv
<1> DEFINE o == Failure("unreachable")
<1>1. o \in Outcome /\ o.kind = "unreachable" /\ o.kind \notin Told
  BY FailureIsTyped
<1>2. answers' \in SUBSET CachedAnswers /\ AliasesHaveNames(answers') /\ dels' \in SUBSET Cuts
      /\ queries' \in 0..MaxQueries
  BY DEF RecInv, RestInv, AliasesHaveNames
<1>3. Deliver(o)
  OBVIOUS
<1> HIDE DEF o
<1>4. /\ RecInv'
      /\ TrueInv /\ TrueOutcome(o, Top.q, Top.t) /\ AllTrue(answers') => TrueInv'
  BY <1>1, <1>2, <1>3, DeliverKeeps
<1>5. TrueInv => TrueOutcome(o, Top.q, Top.t) /\ AllTrue(answers')
  BY <1>1 DEF TrueInv, AllTrue, TrueOutcome
<1> QED BY <1>4, <1>5 DEF StepKeepsInv

LEMMA StartWalkKeeps ==
    ASSUME RecInv, StartWalk
    PROVE  StepKeepsInv
<1> DEFINE held == {z \in dels : /\ InBailiwick(z, Top.q) /\ Glue(z) # {}
                                 /\ Top.t = "DS" => z # Top.q}
           z == IF held = {} THEN Root ELSE Lowest(held)
           c == [Top EXCEPT !.pc = "ask", !.zone = z, !.known = Glue(z), !.left = Glue(z)]
<1>0. /\ calls # <<>> /\ Top.pc = "start"
      /\ calls' = [calls EXCEPT ![Len(calls)] = c]
      /\ dels' \in {dels, dels \cup {Root}}
      /\ UNCHANGED <<queries, asked, answers, addrs, expiries, hops, result>>
  BY DEF StartWalk, Calling, Become
<1>1. /\ Top \in CallRecord /\ GoodCall(Top) /\ Top.q \in Tree /\ Top.t \in RecordTypes
      /\ dels \in SUBSET Cuts /\ addrs \in SUBSET Tree /\ queries \in 0..MaxQueries
  BY <1>0, TopFacts DEF RecInv, RestInv
<1>2. z \in ZonesFor(Top.q, Top.t)
  <2>1. CASE held = {}
    BY <1>1, <2>1, ZonesAreAbove
  <2>2. CASE held # {}
    <3>1. held \in SUBSET Above[Top.q]
      BY DEF InBailiwick
    <3>2. Lowest(held) \in held
      BY <1>1, <2>2, <3>1, LowestIsThere, Zenon
    <3> QED BY <1>1, <2>2, <3>2 DEF ZonesFor
  <2> QED BY <2>1, <2>2
<1> HIDE DEF z
<1>3. z \in Cuts
  BY <1>1, <1>2, ZonesAreAbove
<1>4. Glue(z) \in SUBSET Nameservers[z] /\ Nameservers[z] \in SUBSET Tree
  BY <1>3, RecursionAssumption DEF Glue
<1>5. /\ c \in CallRecord /\ c.pc = "ask" /\ c.q = Top.q /\ c.t = Top.t
      /\ c.zone = z /\ c.child = Top.child /\ c.known = Glue(z) /\ c.left = Glue(z)
      /\ c.need = Top.need /\ c.found = Top.found /\ c.onBackup = Top.onBackup
      /\ c.direct = Top.direct
  BY <1>1, <1>3, <1>4 DEF CallRecord
<1> HIDE DEF c
<1>6. {c.zone, c.child} \subseteq ZonesFor(c.q, c.t)
  BY <1>1, <1>2, <1>5 DEF GoodCall
<1>7. c.need = {} /\ c.found = {} /\ ~c.onBackup /\ ~c.direct
  BY <1>0, <1>1, <1>5 DEF GoodCall, Settled
<1>8. GoodCall(c)
  BY <1>4, <1>5, <1>6, <1>7 DEF GoodCall
<1>9. dels' \in SUBSET Cuts /\ addrs' \in SUBSET Tree /\ queries' \in 0..MaxQueries
  BY <1>0, <1>1, NamespaceAssumption
<1> QED BY <1>0, <1>5, <1>8, <1>9, WalkGoesOn DEF StepKeepsInv

\* A server is given up.
LEMMA GiveUpOnKeeps ==
    ASSUME RecInv, calls # <<>>, Top.pc \in {"ask", "full"}, NEW s, GiveUpOn(s),
           UNCHANGED <<asked, expiries>>, queries' \in 0..MaxQueries
    PROVE  StepKeepsInv
<1> DEFINE c == [Top EXCEPT !.pc = "ask", !.left = Top.left \ {s}]
<1>0. /\ calls' = [calls EXCEPT ![Len(calls)] = c]
      /\ UNCHANGED <<answers, dels, addrs, hops, result>>
  BY DEF GiveUpOn, Become, cache
<1>1. Top \in CallRecord /\ GoodCall(Top)
  BY TopFacts DEF RecInv
<1>2. /\ c \in CallRecord /\ c.pc = "ask" /\ c.q = Top.q /\ c.t = Top.t
      /\ c.zone = Top.zone /\ c.child = Top.child /\ c.known = Top.known
      /\ c.left = Top.left \ {s}
      /\ c.need = Top.need /\ c.found = Top.found /\ c.onBackup = Top.onBackup
      /\ c.backups = Top.backups /\ c.direct = Top.direct
  BY <1>1 DEF CallRecord
<1> HIDE DEF c
<1>3. GoodCall(c)
  BY <1>1, <1>2 DEF GoodCall, Settled, Wanted
<1>4. dels' \in SUBSET Cuts /\ addrs' \in SUBSET Tree
  BY <1>0 DEF RecInv, RestInv
<1> QED BY <1>0, <1>2, <1>3, <1>4, WalkGoesOn DEF StepKeepsInv

LEMMA AskNextKeeps ==
    ASSUME RecInv, NEW s \in Tree, AskNext(s)
    PROVE  StepKeepsInv
<1> DEFINE m == Reply(s, Probe.owner, Probe.type)
           c == [Top EXCEPT !.pc = "full", !.server = s]
<1>0. /\ calls # <<>> /\ Top.pc = "ask" /\ s \in Top.left
      /\ queries < MaxQueries /\ queries' = queries + 1
      /\ UNCHANGED <<asked, expiries>>
      /\ \/ GiveUpOn(s)
         \/ /\ Probe.owner # Top.q
            /\ calls' = [calls EXCEPT ![Len(calls)] = c]
            /\ UNCHANGED <<answers, dels, addrs, hops, result>>
         \/ /\ m.kind # "refused" /\ ~(Probe.owner # Top.q /\ m.kind = "nodata")
            /\ Receive(m)
  BY DEF AskNext, Calling, Become, cache
<1>1. Top \in CallRecord /\ GoodCall(Top) /\ CallsInv
  BY <1>0, TopFacts DEF RecInv
<1>2. queries' \in 0..MaxQueries
  BY <1>0, RecursionAssumption DEF RecInv, RestInv
<1>3. s \in Nameservers[Top.zone]
  BY <1>0, <1>1 DEF GoodCall
<1>4. CASE GiveUpOn(s)
  BY <1>0, <1>2, <1>4, GiveUpOnKeeps
<1>5. CASE /\ Probe.owner # Top.q
           /\ calls' = [calls EXCEPT ![Len(calls)] = c]
           /\ UNCHANGED <<answers, dels, addrs, hops, result>>
  <2>1. ~Top.direct
    BY <1>0, <1>1, <1>5, ProbeFacts DEF Question
  <2>2. /\ c \in CallRecord /\ c.pc = "full" /\ c.q = Top.q /\ c.t = Top.t /\ c.server = s
        /\ c.zone = Top.zone /\ c.child = Top.child /\ c.known = Top.known
        /\ c.left = Top.left
        /\ c.need = Top.need /\ c.found = Top.found /\ c.onBackup = Top.onBackup
        /\ c.backups = Top.backups /\ c.direct = Top.direct
    BY <1>1 DEF CallRecord
  <2> HIDE DEF c
  <2>3. GoodCall(c)
    BY <1>0, <1>1, <1>3, <2>1, <2>2 DEF GoodCall, Settled, Wanted
  <2>4. dels' \in SUBSET Cuts /\ addrs' \in SUBSET Tree
    BY <1>5 DEF RecInv, RestInv
  <2> QED BY <1>0, <1>2, <1>5, <2>2, <2>3, <2>4, WalkGoesOn DEF StepKeepsInv
<1>6. CASE /\ m.kind # "refused" /\ ~(Probe.owner # Top.q /\ m.kind = "nodata")
           /\ Receive(m)
  <2>1. IsReply(m)
    BY <1>0, <1>3, <1>6 DEF IsReply
  <2> HIDE DEF m
  <2> QED BY <1>0, <1>2, <1>6, <2>1, ReceiveKeeps
<1> QED BY <1>0, <1>4, <1>5, <1>6

LEMMA AskFullKeeps ==
    ASSUME RecInv, AskFull
    PROVE  StepKeepsInv
<1> DEFINE m == Reply(Top.server, Top.q, Top.t)
<1>0. /\ calls # <<>> /\ Top.pc = "full"
      /\ queries < MaxQueries /\ queries' = queries + 1
      /\ UNCHANGED <<asked, expiries>>
      /\ GiveUpOn(Top.server) \/ (m.kind # "refused" /\ Receive(m))
  BY DEF AskFull, Calling
<1>1. GoodCall(Top)
  BY <1>0, TopFacts DEF RecInv
<1>2. queries' \in 0..MaxQueries
  BY <1>0, RecursionAssumption DEF RecInv, RestInv
<1>3. Top.server \in Nameservers[Top.zone]
  BY <1>0, <1>1 DEF GoodCall
<1>4. CASE GiveUpOn(Top.server)
  BY <1>0, <1>2, <1>4, GiveUpOnKeeps
<1>5. CASE m.kind # "refused" /\ Receive(m)
  <2>1. IsReply(m)
    BY <1>0, <1>3, <1>5 DEF IsReply
  <2> HIDE DEF m
  <2> QED BY <1>0, <1>2, <1>5, <2>1, ReceiveKeeps
<1> QED BY <1>0, <1>4, <1>5

\* The resolution ends with a limit or because the client gave up.
LEMMA EndsKeeps ==
    ASSUME RecInv, OutOfBudget \/ Abandon
    PROVE  StepKeepsInv
<1>1. PICK k \in {"limit", "cancelled"} :
        /\ End(Failure(k)) /\ UNCHANGED <<queries, asked, answers, dels, addrs, expiries>>
  BY DEF OutOfBudget, Abandon, cache
<1>2. Failure(k) \in Outcome /\ Failure(k).kind \notin Told
  BY FailureIsTyped
<1>3. dels' \in SUBSET Cuts /\ addrs' \in SUBSET Tree /\ queries' \in 0..MaxQueries
  BY <1>1 DEF RecInv, RestInv
<1> QED BY <1>1, <1>2, <1>3, EndKeeps DEF StepKeepsInv

\* The rest of a step that only moves the top call.
LEMMA MoveKeeps ==
    ASSUME RecInv, calls # <<>>, NEW c \in CallRecord, GoodCall(c),
           c.q = Top.q, c.t = Top.t, c.pc = "find" => Len(calls) <= MaxNSDepth,
           Become(c), UNCHANGED <<queries, asked, answers, dels, addrs, expiries, hops, result>>
    PROVE  StepKeepsInv
<1>1. calls' = [calls EXCEPT ![Len(calls)] = c]
  BY DEF Become
<1>2. dels' \in SUBSET Cuts /\ addrs' \in SUBSET Tree /\ queries' \in 0..MaxQueries
  BY DEF RecInv, RestInv
<1> QED BY <1>1, <1>2, WalkGoesOn DEF StepKeepsInv

LEMMA BackupsKeep ==
    ASSUME RecInv, TryBackups \/ NextBackup
    PROVE  StepKeepsInv
<1> DEFINE b == IF Top.zone \in dels THEN Nameservers[Top.zone] ELSE {}
           c == [Top EXCEPT !.pc = "backup", !.onBackup = TRUE, !.tried = Top.known,
                            !.backups = b]
           d == [Top EXCEPT !.pc = "backup"]
<1>0. /\ calls # <<>> /\ Top.pc = "ask"
      /\ Become(c) \/ (Top.onBackup /\ Become(d))
      /\ UNCHANGED <<queries, asked, answers, dels, addrs, expiries, hops, result>>
  BY DEF TryBackups, NextBackup, Calling, cache
<1>1. Top \in CallRecord /\ GoodCall(Top)
  BY <1>0, TopFacts DEF RecInv
<1>2. Nameservers[Top.zone] \in SUBSET Tree
  BY <1>1, RecursionAssumption DEF CallRecord
<1>3. b \in SUBSET Tree /\ b \subseteq Nameservers[Top.zone]
  BY <1>2
<1> HIDE DEF b
<1>4. CASE Become(c)
  <2>1. /\ c \in CallRecord /\ c.pc = "backup" /\ c.q = Top.q /\ c.t = Top.t
        /\ c.zone = Top.zone /\ c.child = Top.child /\ c.known = Top.known
        /\ c.left = Top.left
        /\ c.need = Top.need /\ c.found = Top.found /\ c.onBackup = TRUE
        /\ c.backups = b /\ c.direct = Top.direct
    BY <1>1, <1>3 DEF CallRecord
  <2>2. Become(c)
    BY <1>4
  <2> HIDE DEF c
  <2>3. GoodCall(c)
    BY <1>0, <1>1, <1>3, <2>1 DEF GoodCall, Settled, Wanted
  <2> QED BY <1>0, <2>1, <2>2, <2>3, MoveKeeps
<1>5. CASE Top.onBackup /\ Become(d)
  <2>1. /\ d \in CallRecord /\ d.pc = "backup" /\ d.q = Top.q /\ d.t = Top.t
        /\ d.zone = Top.zone /\ d.child = Top.child /\ d.known = Top.known
        /\ d.left = Top.left
        /\ d.need = Top.need /\ d.found = Top.found /\ d.onBackup = Top.onBackup
        /\ d.backups = Top.backups /\ d.direct = Top.direct
    BY <1>1 DEF CallRecord
  <2>2. Become(d)
    BY <1>5
  <2> HIDE DEF d
  <2>3. GoodCall(d)
    BY <1>0, <1>1, <1>5, <2>1 DEF GoodCall, Settled, Wanted
  <2> QED BY <1>0, <2>1, <2>2, <2>3, MoveKeeps
<1> QED BY <1>0, <1>4, <1>5

LEMMA PickBackupKeeps ==
    ASSUME RecInv, NEW s \in Tree, PickBackup(s)
    PROVE  StepKeepsInv
<1> DEFINE c == [Top EXCEPT !.backups = Top.backups \ {s}]
           d == [c EXCEPT !.pc = "ask", !.left = {s}, !.tried = c.tried \cup {s}]
           e == [c EXCEPT !.pc = "find", !.need = {s}, !.found = {}]
<1>0. /\ calls # <<>> /\ Top.pc = "backup" /\ s \in Top.backups
      /\ UNCHANGED <<queries, asked, answers, dels, addrs, expiries>>
      /\ \/ Become(c) /\ Same
         \/ Become(d) /\ Same
         \/ End(Failure("limit"))
         \/ ~(Len(calls) > MaxNSDepth) /\ Become(e) /\ Same
  <2>1. CASE s \in Glue(Top.zone) /\ s \in Top.tried
    BY <2>1 DEF PickBackup, Calling, cache
  <2>2. CASE s \in Glue(Top.zone) /\ s \notin Top.tried
    BY <2>2 DEF PickBackup, Calling, cache
  <2>3. CASE s \notin Glue(Top.zone) /\ Len(calls) > MaxNSDepth
    BY <2>3 DEF PickBackup, Calling, cache
  <2>4. CASE s \notin Glue(Top.zone) /\ ~(Len(calls) > MaxNSDepth)
    BY <2>4 DEF PickBackup, Calling, cache
  <2> QED BY <2>1, <2>2, <2>3, <2>4
<1>1. Top \in CallRecord /\ GoodCall(Top)
  BY <1>0, TopFacts DEF RecInv
<1>2. s \in Nameservers[Top.zone] /\ Top.onBackup
  BY <1>0, <1>1 DEF GoodCall
<1>3. /\ c \in CallRecord /\ c.pc = "backup" /\ c.q = Top.q /\ c.t = Top.t
      /\ c.zone = Top.zone /\ c.child = Top.child /\ c.known = Top.known
      /\ c.left = Top.left
      /\ c.need = Top.need /\ c.found = Top.found /\ c.onBackup = Top.onBackup
      /\ c.backups = Top.backups \ {s} /\ c.direct = Top.direct
  BY <1>0, <1>1 DEF CallRecord
<1>4. GoodCall(c)
  BY <1>0, <1>1, <1>3 DEF GoodCall, Settled, Wanted
<1> HIDE DEF c
<1>5. CASE Become(c) /\ Same
  BY <1>0, <1>3, <1>4, <1>5, MoveKeeps DEF Same
<1>6. CASE Become(d) /\ Same
  <2>1. /\ d \in CallRecord /\ d.pc = "ask" /\ d.q = c.q /\ d.t = c.t
        /\ d.zone = c.zone /\ d.child = c.child /\ d.known = c.known /\ d.left = {s}
        /\ d.need = c.need /\ d.found = c.found /\ d.onBackup = c.onBackup
        /\ d.backups = c.backups /\ d.direct = c.direct
    BY <1>3 DEF CallRecord
  <2>2. Become(d) /\ UNCHANGED <<hops, result>>
    BY <1>6 DEF Same
  <2> HIDE DEF d
  <2>3. GoodCall(d)
    BY <1>2, <1>3, <1>4, <2>1 DEF GoodCall, Settled, Wanted
  <2> QED BY <1>0, <1>3, <2>1, <2>2, <2>3, MoveKeeps
<1>7. CASE End(Failure("limit"))
  <2>1. Failure("limit") \in Outcome /\ Failure("limit").kind \notin Told
    BY FailureIsTyped
  <2>2. dels' \in SUBSET Cuts /\ addrs' \in SUBSET Tree /\ queries' \in 0..MaxQueries
    BY <1>0 DEF RecInv, RestInv
  <2> QED BY <1>0, <1>7, <2>1, <2>2, EndKeeps DEF StepKeepsInv
<1>8. CASE ~(Len(calls) > MaxNSDepth) /\ Become(e) /\ Same
  <2>1. /\ e \in CallRecord /\ e.pc = "find" /\ e.q = c.q /\ e.t = c.t
        /\ e.zone = c.zone /\ e.child = c.child /\ e.known = c.known /\ e.left = c.left
        /\ e.need = {s} /\ e.found = {} /\ e.onBackup = c.onBackup
        /\ e.backups = c.backups /\ e.direct = c.direct
    BY <1>3 DEF CallRecord
  <2>2. Become(e) /\ UNCHANGED <<hops, result>>
    BY <1>8 DEF Same
  <2> HIDE DEF e
  <2>3. GoodCall(e)
    BY <1>2, <1>3, <1>4, <2>1 DEF GoodCall, Settled, Wanted
  <2>4. Len(calls) <= MaxNSDepth
    BY <1>0, <1>8, TopFacts, RecursionAssumption DEF RecInv
  <2> QED BY <1>0, <1>3, <2>1, <2>2, <2>3, <2>4, MoveKeeps
<1> QED BY <1>0, <1>5, <1>6, <1>7, <1>8

LEMMA FindAddressKeeps ==
    ASSUME RecInv, NEW s \in Tree, FindAddress(s)
    PROVE  StepKeepsInv
<1> DEFINE c == [Top EXCEPT !.need = Top.need \ {s}]
           d == [c EXCEPT !.found = c.found \cup {s}]
           e == Informed(c, Failure("unreachable"), s)
           cs == [calls EXCEPT ![Len(calls)] = c]
<1>0. /\ calls # <<>> /\ Top.pc = "find" /\ s \in Top.need
      /\ UNCHANGED <<queries, asked, answers, dels, addrs, expiries, hops, result>>
      /\ \/ Become(d)
         \/ Become(e)
         \/ calls' = Append(cs, Call(s, "A"))
  BY DEF FindAddress, Calling, cache
<1>1. Top \in CallRecord /\ GoodCall(Top) /\ Len(calls) <= MaxNSDepth /\ CallsInv
      /\ Len(calls) \in 1..Len(calls)
  BY <1>0, TopFacts DEF RecInv
<1>2. /\ c \in CallRecord /\ c.pc = "find" /\ c.q = Top.q /\ c.t = Top.t
      /\ c.zone = Top.zone /\ c.child = Top.child /\ c.known = Top.known
      /\ c.left = Top.left
      /\ c.need = Top.need \ {s} /\ c.found = Top.found /\ c.onBackup = Top.onBackup
      /\ c.backups = Top.backups /\ c.direct = Top.direct
  BY <1>0, <1>1 DEF CallRecord
<1>3. GoodCall(c)
  BY <1>0, <1>1, <1>2 DEF GoodCall, Settled, Wanted
<1>4. s \in Wanted(c)
  BY <1>0, <1>1, <1>2 DEF GoodCall, Wanted
<1> HIDE DEF c
<1>5. CASE Become(d)
  <2>1. /\ d \in CallRecord /\ d.pc = "find" /\ d.q = c.q /\ d.t = c.t
        /\ d.zone = c.zone /\ d.child = c.child /\ d.known = c.known /\ d.left = c.left
        /\ d.need = c.need /\ d.found = c.found \cup {s} /\ d.onBackup = c.onBackup
        /\ d.backups = c.backups /\ d.direct = c.direct
    BY <1>2 DEF CallRecord
  <2>2. Become(d)
    BY <1>5
  <2> HIDE DEF d
  <2>3. GoodCall(d)
    BY <1>2, <1>3, <1>4, <2>1 DEF GoodCall, Settled, Wanted
  <2> QED BY <1>0, <1>1, <1>2, <2>1, <2>2, <2>3, MoveKeeps
<1>6. CASE Become(e)
  <2>1. e \in CallRecord /\ GoodCall(e) /\ e.q = c.q /\ e.t = c.t
    BY <1>2, <1>3, <1>4, InformedIsGood
  <2>2. Become(e)
    BY <1>6
  <2> HIDE DEF e
  <2> QED BY <1>0, <1>1, <1>2, <2>1, <2>2, MoveKeeps
<1>7. CASE calls' = Append(cs, Call(s, "A"))
  <2>1. /\ CallsOK(cs) /\ cs # <<>> /\ cs[1].q = calls[1].q /\ cs[1].t = calls[1].t
    <3>1. c.q = calls[Len(calls)].q /\ c.t = calls[Len(calls)].t
      BY <1>2 DEF Top
    <3> QED BY <1>1, <1>2, <1>3, <3>1, OneCallChanges DEF CallsInv
  <2>2. Len(cs) = Len(calls) /\ cs[Len(calls)] = c
    BY <1>1 DEF CallsInv, CallsOK
  <2> HIDE DEF cs
  <2>3. /\ CallsOK(Append(cs, Call(s, "A"))) /\ Append(cs, Call(s, "A")) # <<>>
        /\ Append(cs, Call(s, "A"))[1] = cs[1]
    BY <1>1, <1>2, <1>4, <2>1, <2>2, CallIsPushed
  <2>4. /\ CallsOK(calls') /\ calls' # <<>>
        /\ calls'[1].q = calls[1].q /\ calls'[1].t = calls[1].t
    BY <1>7, <2>1, <2>3
  <2>5. RestInv'
    BY <1>0 DEF RecInv, RestInv, AliasesHaveNames
  <2>6. TrueInv => TrueInv'
    BY <1>0, <2>4 DEF TrueInv, AllTrue, AnswersTheQuestion
  <2> QED BY <2>4, <2>5, <2>6 DEF StepKeepsInv, RecInv, CallsInv
<1> QED BY <1>0, <1>5, <1>6, <1>7

LEMMA UseAddressesKeeps ==
    ASSUME RecInv, UseAddresses
    PROVE  StepKeepsInv
<1> DEFINE c == [Top EXCEPT !.pc = "ask", !.left = Top.found \ Top.tried,
                            !.tried = Top.tried \cup Top.found, !.found = {}, !.need = {}]
           d == EnterZone(Top, Top.child, Top.found)
<1>0. /\ calls # <<>> /\ Top.pc \in {"found", "find"}
      /\ UNCHANGED <<queries, asked, answers, addrs, expiries>>
  BY DEF UseAddresses, Calling
<1>1. Top \in CallRecord /\ GoodCall(Top) /\ Top.child \in ZonesFor(Top.q, Top.t)
      /\ Top.found \subseteq Wanted(Top) /\ Top.child \in Cuts
  BY <1>0, TopFacts DEF RecInv, GoodCall
<1>2. CASE Top.onBackup
  <2>1. Become(c) /\ UNCHANGED <<dels, hops, result>>
    BY <1>2 DEF UseAddresses, Same
  <2>2. /\ c \in CallRecord /\ c.pc = "ask" /\ c.q = Top.q /\ c.t = Top.t
        /\ c.zone = Top.zone /\ c.child = Top.child /\ c.known = Top.known
        /\ c.left = Top.found \ Top.tried
        /\ c.need = {} /\ c.found = {} /\ c.onBackup = Top.onBackup
        /\ c.backups = Top.backups /\ c.direct = Top.direct
    BY <1>1 DEF CallRecord
  <2> HIDE DEF c
  <2>3. GoodCall(c)
    BY <1>1, <1>2, <2>2 DEF GoodCall, Settled, Wanted
  <2> QED BY <1>0, <2>1, <2>2, <2>3, MoveKeeps
<1>3. CASE ~Top.onBackup
  <2>1. /\ dels' = dels \cup {Top.child}
        /\ IF Top.crossed >= MaxDelegations
             THEN End(Failure("limit"))
             ELSE Become(d) /\ Same
    BY <1>3 DEF UseAddresses
  <2>2. dels' \in SUBSET Cuts /\ addrs' \in SUBSET Tree /\ queries' \in 0..MaxQueries
    BY <1>0, <1>1, <2>1 DEF RecInv, RestInv
  <2>3. CASE Top.crossed >= MaxDelegations
    <3>1. Failure("limit") \in Outcome /\ Failure("limit").kind \notin Told
      BY FailureIsTyped
    <3> QED BY <1>0, <2>1, <2>2, <2>3, <3>1, EndKeeps DEF StepKeepsInv
  <2>4. CASE ~(Top.crossed >= MaxDelegations)
    <3>1. Top.crossed < MaxDelegations
      BY <1>1, <2>4, RecursionAssumption DEF CallRecord
    <3>2. ~Top.direct
      BY <1>0, <1>1, <1>3 DEF GoodCall, Settled
    <3>3. Top.found \in SUBSET Nameservers[Top.child]
      BY <1>1, <1>3 DEF Wanted
    <3>4. d \in CallRecord /\ GoodCall(d) /\ d.pc = "ask" /\ d.q = Top.q /\ d.t = Top.t
      BY <1>1, <3>1, <3>2, <3>3, ZoneIsEntered
    <3>5. calls' = [calls EXCEPT ![Len(calls)] = d] /\ UNCHANGED <<hops, result>>
      BY <2>1, <2>4 DEF Become, Same
    <3> HIDE DEF d
    <3> QED BY <1>0, <2>2, <3>4, <3>5, WalkGoesOn DEF StepKeepsInv
  <2> QED BY <2>3, <2>4
<1> QED BY <1>2, <1>3

LEMMA NoAddressKeeps ==
    ASSUME RecInv, NoAddress
    PROVE  StepKeepsInv
<1> DEFINE c == [Top EXCEPT !.pc = "backup"]
<1>0. /\ calls # <<>> /\ Top.pc = "find" /\ Top.need = {} /\ Top.found = {}
      /\ UNCHANGED <<queries, asked, answers, dels, expiries>>
  BY DEF NoAddress, Calling
<1>1. CASE Top.onBackup
  <2>1. Become(c) /\ UNCHANGED <<addrs, hops, result>>
    BY <1>1 DEF NoAddress, Same
  <2>2. Top \in CallRecord /\ GoodCall(Top)
    BY <1>0, TopFacts DEF RecInv
  <2>3. /\ c \in CallRecord /\ c.pc = "backup" /\ c.q = Top.q /\ c.t = Top.t
        /\ c.zone = Top.zone /\ c.child = Top.child /\ c.known = Top.known
        /\ c.left = Top.left
        /\ c.need = Top.need /\ c.found = Top.found /\ c.onBackup = Top.onBackup
        /\ c.backups = Top.backups /\ c.direct = Top.direct
    BY <2>2 DEF CallRecord
  <2> HIDE DEF c
  <2>4. GoodCall(c)
    BY <1>0, <1>1, <2>2, <2>3 DEF GoodCall, Settled, Wanted
  <2> QED BY <1>0, <2>1, <2>3, <2>4, MoveKeeps
<1>2. CASE ~Top.onBackup
  <2>1. Deliver(Failure("unreachable"))
    BY <1>2 DEF NoAddress
  <2> QED BY <1>0, <2>1, FailsKeeps
<1> QED BY <1>1, <1>2

LEMMA NoBackupLeftKeeps ==
    ASSUME RecInv, NoBackupLeft
    PROVE  StepKeepsInv
  BY FailsKeeps DEF NoBackupLeft, Calling

LEMMA LapseKeeps ==
    ASSUME RecInv, Lapse
    PROVE  StepKeepsInv
<1>1. /\ expiries < MaxExpiries /\ expiries' = expiries + 1
      /\ answers' \subseteq answers /\ dels' \subseteq dels /\ addrs' \subseteq addrs
      /\ UNCHANGED <<calls, queries, hops, result, asked>>
  BY DEF Lapse
<1>2. CallsInv'
  BY <1>1 DEF RecInv, CallsInv
<1>3. expiries' \in 0..MaxExpiries
  BY <1>1, RecursionAssumption DEF RecInv, RestInv
<1>4. RestInv'
  BY <1>1, <1>3 DEF RecInv, RestInv, AliasesHaveNames
<1>5. TrueInv => TrueInv'
  BY <1>1 DEF TrueInv, AllTrue, AnswersTheQuestion
<1> QED BY <1>2, <1>4, <1>5 DEF StepKeepsInv, RecInv

LEMMA StutterKeeps ==
    ASSUME RecInv, UNCHANGED recursionVars
    PROVE  StepKeepsInv
<1>1. UNCHANGED <<calls, queries, hops, result, asked, answers, dels, addrs, expiries>>
  BY DEF recursionVars
<1>2. RecInv'
  BY <1>1 DEF RecInv, CallsInv, RestInv, AliasesHaveNames
<1>3. TrueInv => TrueInv'
  BY <1>1 DEF TrueInv, AllTrue, AnswersTheQuestion
<1> QED BY <1>2, <1>3 DEF StepKeepsInv

LEMMA StepKeeps ==
    ASSUME RecInv, [RecursionNext]_recursionVars
    PROVE  StepKeepsInv
<1>1. ASSUME NEW r \in Questions, Resolve(r) PROVE StepKeepsInv
  BY <1>1, ResolveKeeps
<1>2. ASSUME NEW s \in Tree, AskNext(s) \/ PickBackup(s) \/ FindAddress(s) PROVE StepKeepsInv
  BY <1>2, AskNextKeeps, PickBackupKeeps, FindAddressKeeps
<1>3. ASSUME AnswerFromCache \/ StartWalk PROVE StepKeepsInv
  BY <1>3, AnswerFromCacheKeeps, StartWalkKeeps
<1>4. ASSUME OutOfBudget \/ Abandon PROVE StepKeepsInv
  BY <1>4, EndsKeeps
<1>5. ASSUME AskFull PROVE StepKeepsInv
  BY <1>5, AskFullKeeps
<1>6. ASSUME TryBackups \/ NextBackup PROVE StepKeepsInv
  BY <1>6, BackupsKeep
<1>7. ASSUME NoBackupLeft \/ NoAddress \/ UseAddresses PROVE StepKeepsInv
  BY <1>7, NoBackupLeftKeeps, NoAddressKeeps, UseAddressesKeeps
<1>8. ASSUME Lapse PROVE StepKeepsInv
  BY <1>8, LapseKeeps
<1>9. ASSUME UNCHANGED recursionVars PROVE StepKeepsInv
  BY <1>9, StutterKeeps
<1> QED BY <1>1, <1>2, <1>3, <1>4, <1>5, <1>6, <1>7, <1>8, <1>9 DEF RecursionNext

-----------------------------------------------------------------------------
(* What a resolution promises *)

LEMMA RecInvInit == RecursionInit => RecInv /\ TrueInv
<1> SUFFICES ASSUME RecursionInit PROVE RecInv /\ TrueInv
  OBVIOUS
<1>1. CallsInv
  BY NoCallOK DEF RecursionInit, CallsInv
<1>2. /\ Pending \in Outcome /\ Pending.kind = "pending"
      /\ Question(Root, "NS") \in Questioned
  BY NamespaceAssumption DEF Pending, Outcome, Questioned, Question
<1>3. IsFiniteSet({}) /\ Cardinality({}) = 0
  BY FS_EmptySet
<1>4. RestInv
  BY <1>2, <1>3, RecursionAssumption DEF RecursionInit, RestInv, AliasesHaveNames
<1>5. TrueInv
  BY <1>2 DEF RecursionInit, TrueInv, AllTrue, AnswersTheQuestion
<1> QED BY <1>1, <1>4, <1>5 DEF RecInv

LEMMA RecInvGivesType == RecInv => RecursionTypeOK
<1> SUFFICES ASSUME RecInv PROVE RecursionTypeOK
  OBVIOUS
<1>1. Len(calls) <= MaxNSDepth + 1 /\ DOMAIN calls = 1..Len(calls) /\ calls \in Seq(CallRecord)
  BY DEF RecInv, CallsInv, CallsOK
<1>2. ASSUME NEW i \in DOMAIN calls
      PROVE  /\ calls[i].pc \in {"start", "ask", "full", "backup", "find", "found"}
             /\ i < Len(calls) => calls[i].pc = "find"
             /\ calls[i].zone \in Cuts /\ calls[i].crossed \in 0..MaxDelegations
             /\ InBailiwick(calls[i].zone, calls[i].q)
  <2>1. calls[i] \in CallRecord
    BY <1>1
  <2>2. GoodCall(calls[i]) /\ (i < Len(calls) => calls[i].pc = "find")
    BY <1>1 DEF RecInv, CallsInv, CallsOK
  <2>3. InBailiwick(calls[i].zone, calls[i].q)
    BY <2>2 DEF GoodCall, ZonesFor
  <2> QED BY <2>1, <2>2, <2>3 DEF CallRecord
<1> QED BY <1>1, <1>2 DEF RecInv, RestInv, CachedAnswers, RecursionTypeOK

\* Every variable of the iterative resolver has its type, no resolution sends more
\* queries than its budget and none nests deeper than allowed, whatever the
\* namespace, the nameservers and the limits are.
THEOREM RecursionTypeCorrect == RecursionSpec => []RecursionTypeOK
<1>1. RecInv /\ [RecursionNext]_recursionVars => RecInv'
  BY StepKeeps DEF StepKeepsInv
<1> QED BY <1>1, RecInvInit, RecInvGivesType, PTL DEF RecursionSpec

\* Resolve returns what the zone that holds the name says of the question asked,
\* for every namespace in which no server serves two zones on one path and no
\* server that predates DS records serves a zone that has some.  Without the
\* first hypothesis the run Recursion_shared shows it false.
THEOREM QuestionsAreAnswered ==
    ASSUME OneZoneEach, OldHaveNoDS
    PROVE  RecursionSpec => []AnswersTheQuestion
<1>1. (RecInv /\ TrueInv) /\ [RecursionNext]_recursionVars => (RecInv /\ TrueInv)'
  BY StepKeeps DEF StepKeepsInv
<1>2. RecInv /\ TrueInv => AnswersTheQuestion
  BY DEF TrueInv
<1> QED BY <1>1, <1>2, RecInvInit, PTL DEF RecursionSpec

-----------------------------------------------------------------------------
(* Resolutions end *)

\* Words are compared by the first letter that differs: no sequence of words
\* goes down for ever.
NatLess == {p \in Nat \X Nat : p[1] < p[2]}
LessFor(n) == LexProductOrdering(NatLess, Nat, n)

LEMMA NatLessEnds == IsWellFoundedOn(NatLess, Nat)
<1>1. ASSUME NEW S \in SUBSET Nat, S # {}
      PROVE  \E n \in S : \A m \in S : ~ (<<m, n>> \in NatLess)
  <2>1. PICK n \in S : \A m \in S : n <= m
    BY <1>1, LeastNatural
  <2>2. ASSUME NEW m \in S, <<m, n>> \in NatLess PROVE FALSE
    <3>1. m < n /\ n <= m /\ m \in Nat /\ n \in Nat
      BY <2>1, <2>2 DEF NatLess
    <3> QED BY <3>1
  <2> QED BY <2>2
<1> QED BY <1>1, MinWF, Zenon

\* What a call may still do, in the order that counts: the zones it may enter,
\* whether it may turn to the backups, the backups left, the nameservers left to
\* look up, and how far it is with the servers it has.
Letters == [1..5 -> Nat]
LetterLess == LessFor(5)
CallStage(c) ==
    CASE c.pc = "find" -> 4
      [] c.pc \in {"start", "found"} -> 3
      [] c.pc = "ask" -> 2
      [] c.pc = "backup" -> 1
      [] OTHER -> 0
CallStageAt(cs, n) == IF n < Len(cs) THEN 5 ELSE CallStage(cs[n])
CallLetter(c, stage) ==
    <<MaxDelegations - c.crossed, IF c.onBackup THEN 0 ELSE 1,
      IF c.onBackup THEN Cardinality(c.backups) ELSE 0, Cardinality(c.need), stage>>
Silent == <<0, 0, 0, 0, 0>>

\* What a resolution may still do: ask, follow aliases, and what each of its calls
\* may, the first of them first.
Levels == MaxNSDepth + 2
Words == [1..Levels -> Letters]
Lower == LexProductOrdering(LetterLess, Letters, Levels)
Measure(cs, q, h) ==
    [i \in 1..Levels |->
        IF i = 1 THEN <<MaxQueries - q, MaxCNAMEs - Cardinality(h), 0, 0, 0>>
        ELSE IF i - 1 <= Len(cs) THEN CallLetter(cs[i - 1], CallStageAt(cs, i - 1))
        ELSE Silent]

LEMMA WordsEnd == IsWellFoundedOn(Lower, Words)
<1>1. 5 \in Nat /\ Levels \in Nat
  BY RecursionAssumption DEF Levels
<1>2. IsWellFoundedOn(LetterLess, Letters)
  BY <1>1, NatLessEnds, WFLexProductOrdering, Zenon DEF LetterLess, LessFor, Letters
<1> QED BY <1>1, <1>2, WFLexProductOrdering, Zenon DEF Lower, Words

LEMMA LetterIsLower ==
    ASSUME NEW a \in Letters, NEW b \in Letters, NEW k \in 1..5,
           \A j \in 1..(k - 1) : a[j] = b[j], a[k] < b[k]
    PROVE  <<a, b>> \in LetterLess
<1>1. a[k] \in Nat /\ b[k] \in Nat
  BY DEF Letters
<1>2. <<a[k], b[k]>> \in NatLess
  BY <1>1 DEF NatLess
<1>3. <<a, b>> \in Letters \X Letters /\ <<a, b>>[1] = a /\ <<a, b>>[2] = b
  OBVIOUS
<1> QED BY <1>2, <1>3 DEF LetterLess, LessFor, LexProductOrdering, Letters

LEMMA WordIsLower ==
    ASSUME NEW v \in Words, NEW w \in Words, NEW k \in 1..Levels,
           \A j \in 1..(k - 1) : v[j] = w[j], <<v[k], w[k]>> \in LetterLess
    PROVE  <<v, w>> \in Lower
<1>1. <<v, w>> \in Words \X Words /\ <<v, w>>[1] = v /\ <<v, w>>[2] = w
  OBVIOUS
<1> QED BY <1>1 DEF Lower, LexProductOrdering, Words

LEMMA NumbersAreLetters ==
    ASSUME NEW a \in Nat, NEW b \in Nat, NEW c \in Nat, NEW d \in Nat, NEW e \in Nat
    PROVE  <<a, b, c, d, e>> \in Letters
  BY DEF Letters

LEMMA FiniteCall ==
    ASSUME NEW c \in CallRecord, GoodCall(c)
    PROVE  (c.onBackup => IsFiniteSet(c.backups)) /\ IsFiniteSet(c.need)
<1>1. c.onBackup => c.backups \subseteq Nameservers[c.zone] /\ c.zone \in Cuts
  BY DEF GoodCall, CallRecord
<1>2. c.need \subseteq Wanted(c) /\ c.zone \in Cuts /\ c.child \in Cuts
  BY DEF GoodCall, CallRecord
<1>3. IsFiniteSet(Wanted(c))
  BY <1>2, RecursionAssumption DEF Wanted
<1> QED BY <1>1, <1>2, <1>3, RecursionAssumption, FS_Subset

LEMMA CallHasLetter ==
    ASSUME NEW c \in CallRecord, GoodCall(c), NEW stage \in Nat
    PROVE  CallLetter(c, stage) \in Letters
<1>1. MaxDelegations - c.crossed \in Nat
  BY RecursionAssumption DEF CallRecord
<1>2. Cardinality(c.need) \in Nat /\ (c.onBackup => Cardinality(c.backups) \in Nat)
  BY FiniteCall, FS_CardinalityType
<1> QED BY <1>1, <1>2, NumbersAreLetters DEF CallLetter

LEMMA StageIsNumber ==
    ASSUME NEW cs, NEW n
    PROVE  CallStageAt(cs, n) \in Nat
<1>1. CallStage(cs[n]) \in Nat
  BY DEF CallStage
<1> QED BY <1>1 DEF CallStageAt

LEMMA MeasureIsWord ==
    ASSUME NEW cs, CallsOK(cs), NEW q \in 0..MaxQueries,
           NEW h, IsFiniteSet(h), Cardinality(h) <= MaxCNAMEs
    PROVE  Measure(cs, q, h) \in Words
<1>1. /\ MaxQueries \in Nat /\ MaxCNAMEs \in Nat /\ MaxNSDepth \in Nat
      /\ Cardinality(h) \in Nat
  BY RecursionAssumption, FS_CardinalityType
<1>2. <<MaxQueries - q, MaxCNAMEs - Cardinality(h), 0, 0, 0>> \in Letters
  BY <1>1, NumbersAreLetters
<1>3. Silent \in Letters
  BY NumbersAreLetters DEF Silent
<1>4. ASSUME NEW i \in 1..Levels, i # 1, i - 1 <= Len(cs)
      PROVE  CallLetter(cs[i - 1], CallStageAt(cs, i - 1)) \in Letters
  <2>1. cs \in Seq(CallRecord) /\ i - 1 \in 1..Len(cs)
    BY <1>1, <1>4 DEF CallsOK, Levels
  <2>2. cs[i - 1] \in CallRecord /\ GoodCall(cs[i - 1]) /\ CallStageAt(cs, i - 1) \in Nat
    BY <2>1, StageIsNumber DEF CallsOK
  <2> QED BY <2>2, CallHasLetter, Zenon
<1> QED BY <1>2, <1>3, <1>4 DEF Measure, Words

\* A query or an alias brings the measure down.
LEMMA CountedIsLower ==
    ASSUME NEW cs, NEW ds, NEW p \in 0..MaxQueries, NEW q \in 0..MaxQueries, NEW g, NEW h,
           CallsOK(cs), CallsOK(ds),
           IsFiniteSet(g), Cardinality(g) <= MaxCNAMEs,
           IsFiniteSet(h), Cardinality(h) <= MaxCNAMEs,
           q > p \/ (q = p /\ Cardinality(h) > Cardinality(g))
    PROVE  <<Measure(ds, q, h), Measure(cs, p, g)>> \in Lower
<1> DEFINE v == Measure(ds, q, h)
           w == Measure(cs, p, g)
           a == <<MaxQueries - q, MaxCNAMEs - Cardinality(h), 0, 0, 0>>
           b == <<MaxQueries - p, MaxCNAMEs - Cardinality(g), 0, 0, 0>>
<1>1. v \in Words /\ w \in Words
  BY MeasureIsWord
<1>2. 1 \in 1..Levels
  BY RecursionAssumption DEF Levels
<1>3. v[1] = a /\ w[1] = b
  BY <1>2 DEF Measure
<1>4. a \in Letters /\ b \in Letters
  BY <1>1, <1>2, <1>3 DEF Words
<1>5. /\ Cardinality(g) \in Nat /\ Cardinality(h) \in Nat
      /\ MaxQueries \in Nat /\ MaxCNAMEs \in Nat
  BY RecursionAssumption, FS_CardinalityType
<1>6. a[1] = MaxQueries - q /\ b[1] = MaxQueries - p /\ a[2] = MaxCNAMEs - Cardinality(h)
      /\ b[2] = MaxCNAMEs - Cardinality(g)
  OBVIOUS
<1> HIDE DEF v, w, a, b
<1>7. <<a, b>> \in LetterLess
  <2>1. CASE q > p
    <3>1. a[1] < b[1] /\ 1 \in 1..5 /\ \A j \in 1..(1 - 1) : a[j] = b[j]
      BY <1>5, <1>6, <2>1
    <3> QED BY <1>4, <3>1, LetterIsLower
  <2>2. CASE q = p /\ Cardinality(h) > Cardinality(g)
    <3>1. a[2] < b[2] /\ 2 \in 1..5 /\ \A j \in 1..(2 - 1) : a[j] = b[j]
      BY <1>5, <1>6, <2>2
    <3> QED BY <1>4, <3>1, LetterIsLower
  <2> QED BY <2>1, <2>2
<1>8. \A j \in 1..(1 - 1) : v[j] = w[j]
  OBVIOUS
<1>9. <<v, w>> \in Lower
  BY <1>1, <1>2, <1>3, <1>7, <1>8, WordIsLower
<1> QED BY <1>9 DEF v, w

\* So does a call that does more, whatever it was or is waiting for.
LEMMA DoneIsLower ==
    ASSUME NEW cs, NEW ds, NEW q \in 0..MaxQueries, NEW h,
           CallsOK(cs), CallsOK(ds), IsFiniteSet(h), Cardinality(h) <= MaxCNAMEs,
           NEW n \in Nat \ {0}, n <= Len(cs), n <= Len(ds),
           \A i \in 1..(n - 1) : ds[i] = cs[i],
           <<CallLetter(ds[n], CallStageAt(ds, n)),
             CallLetter(cs[n], CallStageAt(cs, n))>> \in LetterLess
    PROVE  <<Measure(ds, q, h), Measure(cs, q, h)>> \in Lower
<1> DEFINE v == Measure(ds, q, h)
           w == Measure(cs, q, h)
<1>1. v \in Words /\ w \in Words
  BY MeasureIsWord
<1>2. /\ n + 1 \in 1..Levels /\ (n + 1) - 1 = n /\ n + 1 # 1
      /\ Len(cs) \in Nat /\ Len(ds) \in Nat /\ Levels \in Nat
  BY RecursionAssumption DEF CallsOK, Levels
<1>3. /\ v[n + 1] = CallLetter(ds[n], CallStageAt(ds, n))
      /\ w[n + 1] = CallLetter(cs[n], CallStageAt(cs, n))
  BY <1>2 DEF Measure
<1>4. ASSUME NEW j \in 1..((n + 1) - 1)
      PROVE  v[j] = w[j]
  <2>1. j \in 1..Levels
    BY <1>2
  <2>2. CASE j = 1
    BY <2>1, <2>2 DEF Measure
  <2>3. CASE j # 1
    <3>1. /\ j - 1 \in 1..(n - 1) /\ j - 1 <= Len(cs) /\ j - 1 <= Len(ds)
          /\ j - 1 < Len(cs) /\ j - 1 < Len(ds)
      BY <1>2, <2>3
    <3>2. v[j] = CallLetter(ds[j - 1], 5) /\ w[j] = CallLetter(cs[j - 1], 5)
      BY <2>1, <2>3, <3>1 DEF Measure, CallStageAt
    <3> QED BY <3>1, <3>2
  <2> QED BY <2>2, <2>3
<1> HIDE DEF v, w
<1>5. <<v[n + 1], w[n + 1]>> \in LetterLess
  BY <1>3
<1>6. <<v, w>> \in Lower
  BY <1>1, <1>2, <1>4, <1>5, WordIsLower
<1> QED BY <1>6 DEF v, w

\* One call has less left to do than another.
LessToDo(c, cstage, d, dstage) ==
    \/ c.crossed > d.crossed
    \/ /\ c.crossed = d.crossed
       /\ c.onBackup /\ ~d.onBackup
    \/ /\ c.crossed = d.crossed /\ c.onBackup = d.onBackup
       /\ d.onBackup /\ c.backups \subseteq d.backups /\ c.backups # d.backups
    \/ /\ c.crossed = d.crossed /\ c.onBackup = d.onBackup /\ c.backups = d.backups
       /\ c.need \subseteq d.need /\ c.need # d.need
    \/ /\ c.crossed = d.crossed /\ c.onBackup = d.onBackup /\ c.backups = d.backups
       /\ c.need = d.need
       /\ cstage < dstage

LEMMA SmallerSet ==
    ASSUME NEW S, NEW T, S \subseteq T, S # T, IsFiniteSet(T)
    PROVE  Cardinality(S) < Cardinality(T)
<1>1. /\ IsFiniteSet(S) /\ Cardinality(S) <= Cardinality(T)
      /\ Cardinality(S) = Cardinality(T) => S = T
  BY FS_Subset
<1>2. Cardinality(S) \in Nat /\ Cardinality(T) \in Nat
  BY <1>1, FS_CardinalityType
<1> QED BY <1>1, <1>2

LEMMA LetterFields ==
    ASSUME NEW c, NEW stage
    PROVE  /\ CallLetter(c, stage)[1] = MaxDelegations - c.crossed
           /\ CallLetter(c, stage)[2] = IF c.onBackup THEN 0 ELSE 1
           /\ CallLetter(c, stage)[3] = IF c.onBackup THEN Cardinality(c.backups) ELSE 0
           /\ CallLetter(c, stage)[4] = Cardinality(c.need)
           /\ CallLetter(c, stage)[5] = stage
  BY DEF CallLetter

LEMMA LessIsLower ==
    ASSUME NEW c \in CallRecord, GoodCall(c), NEW cstage \in Nat,
           NEW d \in CallRecord, GoodCall(d), NEW dstage \in Nat,
           LessToDo(c, cstage, d, dstage)
    PROVE  <<CallLetter(c, cstage), CallLetter(d, dstage)>> \in LetterLess
<1> DEFINE a == CallLetter(c, cstage)
           b == CallLetter(d, dstage)
<1>1. a \in Letters /\ b \in Letters
  BY CallHasLetter
<1>2. /\ a[1] = MaxDelegations - c.crossed /\ b[1] = MaxDelegations - d.crossed
      /\ a[2] = (IF c.onBackup THEN 0 ELSE 1) /\ b[2] = IF d.onBackup THEN 0 ELSE 1
      /\ a[3] = (IF c.onBackup THEN Cardinality(c.backups) ELSE 0)
      /\ b[3] = (IF d.onBackup THEN Cardinality(d.backups) ELSE 0)
      /\ a[4] = Cardinality(c.need) /\ b[4] = Cardinality(d.need)
      /\ a[5] = cstage /\ b[5] = dstage
  BY LetterFields
<1>3. /\ MaxDelegations \in Nat /\ c.crossed \in Nat /\ d.crossed \in Nat
      /\ c.onBackup \in BOOLEAN /\ d.onBackup \in BOOLEAN
  BY RecursionAssumption DEF CallRecord
<1>4. (d.onBackup => IsFiniteSet(d.backups)) /\ IsFiniteSet(d.need)
  BY FiniteCall
<1> HIDE DEF a, b
<1>5. CASE c.crossed > d.crossed
  <2>1. 1 \in 1..5 /\ a[1] < b[1] /\ \A j \in 1..(1 - 1) : a[j] = b[j]
    BY <1>2, <1>3, <1>5
  <2> QED BY <1>1, <2>1, LetterIsLower DEF a, b
<1>6. CASE c.crossed = d.crossed /\ c.onBackup /\ ~d.onBackup
  <2>1. 2 \in 1..5 /\ a[2] < b[2] /\ \A j \in 1..(2 - 1) : a[j] = b[j]
    BY <1>2, <1>3, <1>6
  <2> QED BY <1>1, <2>1, LetterIsLower DEF a, b
<1>7. CASE /\ c.crossed = d.crossed /\ c.onBackup = d.onBackup
           /\ d.onBackup /\ c.backups \subseteq d.backups /\ c.backups # d.backups
  <2>1. Cardinality(c.backups) < Cardinality(d.backups)
    BY <1>4, <1>7, SmallerSet
  <2>2. 3 \in 1..5 /\ a[3] < b[3] /\ \A j \in 1..(3 - 1) : a[j] = b[j]
    BY <1>2, <1>3, <1>7, <2>1
  <2> QED BY <1>1, <2>2, LetterIsLower DEF a, b
<1>8. CASE /\ c.crossed = d.crossed /\ c.onBackup = d.onBackup /\ c.backups = d.backups
           /\ c.need \subseteq d.need /\ c.need # d.need
  <2>1. Cardinality(c.need) < Cardinality(d.need)
    BY <1>4, <1>8, SmallerSet
  <2>2. 4 \in 1..5 /\ a[4] < b[4] /\ \A j \in 1..(4 - 1) : a[j] = b[j]
    BY <1>2, <1>3, <1>8, <2>1
  <2> QED BY <1>1, <2>2, LetterIsLower DEF a, b
<1>9. CASE /\ c.crossed = d.crossed /\ c.onBackup = d.onBackup /\ c.backups = d.backups
           /\ c.need = d.need /\ cstage < dstage
  <2>1. 5 \in 1..5 /\ a[5] < b[5] /\ \A j \in 1..(5 - 1) : a[j] = b[j]
    BY <1>2, <1>3, <1>9
  <2> QED BY <1>1, <2>1, LetterIsLower DEF a, b
<1> QED BY <1>5, <1>6, <1>7, <1>8, <1>9 DEF LessToDo

Went ==
    calls' # <<>> =>
        <<Measure(calls', queries', hops'), Measure(calls, queries, hops)>> \in Lower

\* The call at n does less, and those before it do not change.
LEMMA CallDoesLess ==
    ASSUME NEW cs, NEW ds, NEW q \in 0..MaxQueries, NEW h,
           CallsOK(cs), CallsOK(ds), IsFiniteSet(h), Cardinality(h) <= MaxCNAMEs,
           NEW n \in Nat \ {0}, n <= Len(cs), n <= Len(ds),
           \A i \in 1..(n - 1) : ds[i] = cs[i],
           LessToDo(ds[n], CallStageAt(ds, n), cs[n], CallStageAt(cs, n))
    PROVE  <<Measure(ds, q, h), Measure(cs, q, h)>> \in Lower
<1>1. n \in 1..Len(cs) /\ n \in 1..Len(ds)
  BY DEF CallsOK
<1>2. cs[n] \in CallRecord /\ GoodCall(cs[n])
  BY <1>1 DEF CallsOK
<1>3. ds[n] \in CallRecord /\ GoodCall(ds[n])
  BY <1>1 DEF CallsOK
<1>4. CallStageAt(ds, n) \in Nat /\ CallStageAt(cs, n) \in Nat
  BY StageIsNumber
<1>5. <<CallLetter(ds[n], CallStageAt(ds, n)),
        CallLetter(cs[n], CallStageAt(cs, n))>> \in LetterLess
  BY <1>2, <1>3, <1>4, LessIsLower, Zenon
<1> QED BY <1>5, DoneIsLower

LEMMA TopDoesLess ==
    ASSUME RecInv, calls # <<>>, RecInv', NEW c, UNCHANGED <<queries, hops>>,
           calls' = [calls EXCEPT ![Len(calls)] = c], LessToDo(c, CallStage(c), Top, CallStage(Top))
    PROVE  Went
<1> DEFINE n == Len(calls)
<1>1. /\ CallsOK(calls) /\ CallsOK(calls') /\ queries \in 0..MaxQueries
      /\ IsFiniteSet(hops) /\ Cardinality(hops) <= MaxCNAMEs
  BY DEF RecInv, CallsInv, RestInv
<1>2. n \in Nat \ {0} /\ calls \in Seq(CallRecord)
  BY <1>1 DEF CallsOK
<1>3. /\ Len(calls') = n /\ calls'[n] = c
      /\ \A i \in 1..(n - 1) : calls'[i] = calls[i]
  BY <1>2
<1>4. LessToDo(calls'[n], CallStageAt(calls', n), calls[n], CallStageAt(calls, n))
  <2>1. calls'[n] = c /\ calls[n] = Top /\ ~(n < Len(calls')) /\ ~(n < Len(calls))
    <3>1. n = Len(calls) /\ n = Len(calls') /\ n \in Nat /\ calls[n] = Top
      BY <1>2, <1>3, Zenon DEF Top
    <3> HIDE DEF n
    <3>2. ~(n < n)
      BY <3>1
    <3> QED BY <1>3, <3>1, <3>2, Zenon
  <2>2. CallStageAt(calls', n) = CallStage(c) /\ CallStageAt(calls, n) = CallStage(Top)
    BY <2>1, Zenon DEF CallStageAt
  <2> QED BY <2>1, <2>2, Zenon
<1>5. n <= Len(calls) /\ n <= Len(calls')
  <2>1. n = Len(calls) /\ n = Len(calls') /\ n \in Nat
    BY <1>2, <1>3
  <2> HIDE DEF n
  <2> QED BY <2>1
<1> HIDE DEF n
<1>6. <<Measure(calls', queries, hops), Measure(calls, queries, hops)>> \in Lower
  BY <1>1, <1>2, <1>3, <1>4, <1>5, CallDoesLess
<1> QED BY <1>6 DEF Went

\* A query is asked.
LEMMA QueryCounts ==
    ASSUME RecInv, RecInv', queries' = queries + 1
    PROVE  Went
<1>1. /\ CallsOK(calls) /\ CallsOK(calls') /\ queries \in 0..MaxQueries
      /\ IsFiniteSet(hops) /\ Cardinality(hops) <= MaxCNAMEs
      /\ queries' \in 0..MaxQueries /\ IsFiniteSet(hops') /\ Cardinality(hops') <= MaxCNAMEs
  BY DEF RecInv, CallsInv, RestInv
<1>2. queries' > queries
  BY <1>1
<1> QED BY <1>1, <1>2, CountedIsLower DEF Went

\* The call that waited has its lookup's outcome, or the next alias is resolved.
LEMMA DeliveredGoesDown ==
    ASSUME RecInv, calls # <<>>, RecInv', NEW o, Deliver(o), UNCHANGED queries
    PROVE  Went
<1>1. /\ CallsOK(calls) /\ CallsOK(calls') /\ queries \in 0..MaxQueries
      /\ IsFiniteSet(hops) /\ Cardinality(hops) <= MaxCNAMEs
      /\ queries' \in 0..MaxQueries /\ IsFiniteSet(hops') /\ Cardinality(hops') <= MaxCNAMEs
  BY DEF RecInv, CallsInv, RestInv
<1>2. Len(calls) \in Nat \ {0} /\ calls \in Seq(CallRecord)
  BY <1>1 DEF CallsOK
<1>3. CASE Len(calls) = 1
  <2>1. Follow(Top.q, Top.t, o)
    BY <1>3 DEF Deliver
  <2>2. CASE calls' = <<>>
    BY <2>2 DEF Went
  <2>3. CASE calls' # <<>>
    <3>1. Top.q \notin hops /\ hops' = hops \cup {Top.q}
      BY <2>1, <2>3 DEF Follow, End
    <3>2. Cardinality(hops') = Cardinality(hops) + 1 /\ Cardinality(hops) \in Nat
      BY <1>1, <3>1, FS_AddElement, FS_CardinalityType
    <3>3. queries' = queries /\ Cardinality(hops') > Cardinality(hops)
      BY <3>2
    <3> QED BY <1>1, <3>3, CountedIsLower DEF Went
  <2> QED BY <2>2, <2>3
<1>4. CASE Len(calls) # 1
  <2> DEFINE n == Len(calls) - 1
             d == Informed(calls[n], o, Top.q)
  <2>1. n \in Nat \ {0} /\ Len(calls) = n + 1 /\ n \in 1..Len(calls)
    <3>1. ASSUME NEW m \in Nat \ {0}, m # 1
          PROVE  m - 1 \in Nat \ {0} /\ m = (m - 1) + 1 /\ m - 1 \in 1..m
      BY <3>1
    <3> QED BY <1>2, <1>4, <3>1, Zenon
  <2>2. /\ calls' = [SubSeq(calls, 1, n) EXCEPT ![n] = Informed(@, o, Top.q)]
        /\ hops' = hops
    BY <1>4, <2>1, Zenon DEF Deliver, Same
  <2>3. /\ SubSeq(calls, 1, n) \in Seq(CallRecord) /\ Len(SubSeq(calls, 1, n)) = n
        /\ \A i \in 1..n : SubSeq(calls, 1, n)[i] = calls[i]
    BY <1>2, <2>1
  <2>4. calls[n] \in CallRecord /\ calls[n].pc = "find"
    BY <1>1, <2>1 DEF CallsOK
  <2>5. /\ d.crossed = calls[n].crossed /\ d.onBackup = calls[n].onBackup
        /\ d.backups = calls[n].backups /\ d.need = calls[n].need
        /\ d.pc \in {"find", "found"}
    BY <2>4 DEF Informed, CallRecord
  <2>6. CallStage(d) < 5
    <3> HIDE DEF d, n
    <3>1. CallStage(d) = 3 \/ CallStage(d) = 4
      BY <2>5 DEF CallStage
    <3> QED BY <3>1
  <2>7. LessToDo(d, CallStage(d), calls[n], 5)
    BY <2>5, <2>6 DEF LessToDo
  <2> HIDE DEF n
  <2>12. calls' = [SubSeq(calls, 1, n) EXCEPT ![n] = d]
    <3> DEFINE rest == SubSeq(calls, 1, n)
    <3>1. rest[n] = calls[n]
      BY <2>1, <2>3
    <3>2. calls' = [rest EXCEPT ![n] = Informed(@, o, Top.q)]
      BY <2>2
    <3> HIDE DEF rest
    <3>3. calls' = [rest EXCEPT ![n] = Informed(calls[n], o, Top.q)]
      BY <3>1, <3>2, Zenon
    <3> QED BY <3>3 DEF rest
  <2> HIDE DEF d
  <2>8. /\ calls'[n] = d /\ Len(calls') = n
        /\ \A i \in 1..(n - 1) : calls'[i] = calls[i]
    <3> DEFINE rest == SubSeq(calls, 1, n)
    <3>1. /\ rest \in Seq(CallRecord) /\ Len(rest) = n /\ n \in Nat \ {0}
          /\ \A i \in 1..n : rest[i] = calls[i]
      BY <2>1, <2>3
    <3>2. calls' = [rest EXCEPT ![n] = d]
      BY <2>12
    <3> HIDE DEF rest
    <3>3. rest \in [1..n -> CallRecord \cup {d}]
      BY <3>1
    <3>4. calls' \in [1..n -> CallRecord \cup {d}] /\ calls'[n] = d
      BY <3>1, <3>2, <3>3
    <3>5. calls' \in Seq(CallRecord \cup {d}) /\ Len(calls') = n
      BY <3>1, <3>4
    <3> QED BY <3>1, <3>2, <3>3, <3>4, <3>5
  <2>9. LessToDo(calls'[n], CallStageAt(calls', n), calls[n], CallStageAt(calls, n))
    <3>1. calls'[n] = d /\ ~(n < Len(calls')) /\ n < Len(calls)
      BY <2>1, <2>8
    <3>2. CallStageAt(calls', n) = CallStage(d) /\ CallStageAt(calls, n) = 5
      BY <3>1, Zenon DEF CallStageAt
    <3> QED BY <2>7, <3>1, <3>2, Zenon
  <2>10. n <= Len(calls) /\ n <= Len(calls')
    BY <2>1, <2>8
  <2>11. <<Measure(calls', queries, hops), Measure(calls, queries, hops)>> \in Lower
    BY <1>1, <2>1, <2>8, <2>9, <2>10, CallDoesLess
  <2> QED BY <2>2, <2>11 DEF Went
<1> QED BY <1>3, <1>4

\* A nameserver is looked up.
LEMMA LookupGoesDown ==
    ASSUME RecInv, calls # <<>>, RecInv', UNCHANGED <<queries, hops>>,
           NEW s, s \in Top.need,
           calls' = Append([calls EXCEPT ![Len(calls)] = [Top EXCEPT !.need = @ \ {s}]],
                           Call(s, "A"))
    PROVE  Went
<1> DEFINE n == Len(calls)
           c == [Top EXCEPT !.need = @ \ {s}]
<1>1. /\ CallsOK(calls) /\ CallsOK(calls') /\ queries \in 0..MaxQueries
      /\ IsFiniteSet(hops) /\ Cardinality(hops) <= MaxCNAMEs
  BY DEF RecInv, CallsInv, RestInv
<1>2. n \in Nat \ {0} /\ calls \in Seq(CallRecord) /\ Top \in CallRecord
  BY <1>1, TopFacts DEF CallsOK, RecInv
<1>3. c \in CallRecord /\ LessToDo(c, 5, Top, CallStage(Top))
  BY <1>2 DEF LessToDo, CallRecord
<1> HIDE DEF c
<1>4. /\ [calls EXCEPT ![n] = c] \in Seq(CallRecord) /\ Len([calls EXCEPT ![n] = c]) = n
      /\ [calls EXCEPT ![n] = c][n] = c
      /\ \A i \in 1..(n - 1) : [calls EXCEPT ![n] = c][i] = calls[i]
  BY <1>2, <1>3
<1>5. /\ Len(calls') = n + 1 /\ calls'[n] = c
      /\ \A i \in 1..(n - 1) : calls'[i] = calls[i]
  BY <1>2, <1>4 DEF c
<1>6. LessToDo(calls'[n], CallStageAt(calls', n), calls[n], CallStageAt(calls, n))
  <2>1. CallStageAt(calls', n) = 5 /\ CallStageAt(calls, n) = CallStage(Top) /\ calls[n] = Top
    BY <1>2, <1>5 DEF Top, CallStageAt
  <2> QED BY <1>3, <1>5, <2>1, Zenon
<1>7. n <= Len(calls) /\ n <= Len(calls')
  BY <1>2, <1>5
<1> HIDE DEF n
<1>8. <<Measure(calls', queries, hops), Measure(calls, queries, hops)>> \in Lower
  BY <1>1, <1>2, <1>5, <1>6, <1>7, CallDoesLess
<1> QED BY <1>8 DEF Went

\* Every step of a resolution takes it nearer its end.
LEMMA StepGoesDown ==
    ASSUME RecInv, RecInv', calls # <<>>, RecursionNext
    PROVE  Went \/ Lapse
<1>0. Top \in CallRecord /\ Top.crossed \in Nat /\ GoodCall(Top)
  BY TopFacts DEF RecInv, CallRecord
<1>1. ASSUME NEW r \in Questions, Resolve(r) PROVE Went
  BY <1>1 DEF Resolve
<1>2. CASE AnswerFromCache
  <2>1. UNCHANGED queries /\ \E o \in Cached(Top.q, Top.t) : Deliver(o.outcome)
    BY <1>2 DEF AnswerFromCache
  <2> QED BY <2>1, DeliveredGoesDown
<1>3. CASE StartWalk
  <2> DEFINE D(z) == [Top EXCEPT !.pc = "ask", !.zone = z, !.known = Glue(z), !.left = Glue(z)]
  <2>1. /\ Top.pc = "start" /\ UNCHANGED <<queries, hops>>
        /\ \E z : calls' = [calls EXCEPT ![Len(calls)] = D(z)]
    BY <1>3, Zenon DEF StartWalk, Calling, Become
  <2>2. PICK z : calls' = [calls EXCEPT ![Len(calls)] = D(z)]
    BY <2>1
  <2>3. LessToDo(D(z), CallStage(D(z)), Top, CallStage(Top))
    BY <1>0, <2>1 DEF LessToDo, CallRecord, CallStage
  <2> QED BY <2>1, <2>2, <2>3, TopDoesLess
<1>4. ASSUME NEW s \in Tree, AskNext(s) PROVE Went
  BY <1>4, QueryCounts DEF AskNext
<1>5. CASE AskFull
  BY <1>5, QueryCounts DEF AskFull
<1>6. CASE OutOfBudget \/ Abandon
  BY <1>6 DEF OutOfBudget, Abandon, End, Went
<1>7. CASE TryBackups
  <2> DEFINE d == [Top EXCEPT !.pc = "backup", !.onBackup = TRUE, !.tried = Top.known,
                     !.backups = IF Top.zone \in dels THEN Nameservers[Top.zone] ELSE {}]
  <2>1. /\ ~Top.onBackup /\ UNCHANGED <<queries, hops>>
        /\ calls' = [calls EXCEPT ![Len(calls)] = d]
    BY <1>7 DEF TryBackups, Become
  <2>2. LessToDo(d, CallStage(d), Top, CallStage(Top))
    BY <1>0, <2>1 DEF LessToDo, CallRecord
  <2> QED BY <2>1, <2>2, TopDoesLess
<1>8. CASE NextBackup
  <2> DEFINE d == [Top EXCEPT !.pc = "backup"]
  <2>1. /\ Top.pc = "ask" /\ UNCHANGED <<queries, hops>>
        /\ calls' = [calls EXCEPT ![Len(calls)] = d]
    BY <1>8 DEF NextBackup, Become, Calling
  <2>2. LessToDo(d, CallStage(d), Top, CallStage(Top))
    BY <1>0, <2>1 DEF LessToDo, CallRecord, CallStage
  <2> QED BY <2>1, <2>2, TopDoesLess
<1>9. ASSUME NEW s \in Tree, PickBackup(s) PROVE Went
  <2> DEFINE c == [Top EXCEPT !.backups = @ \ {s}]
             d1 == [c EXCEPT !.pc = "ask", !.left = {s}, !.tried = @ \cup {s}]
             d2 == [c EXCEPT !.pc = "find", !.need = {s}, !.found = {}]
  <2>1. s \in Top.backups /\ Top.onBackup /\ UNCHANGED queries
    BY <1>0, <1>9 DEF PickBackup, Calling, GoodCall
  <2>2. \/ Become(c) /\ Same
        \/ Become(d1) /\ Same
        \/ End(Failure("limit"))
        \/ Become(d2) /\ Same
    BY <1>9, Zenon DEF PickBackup
  <2>3. /\ LessToDo(c, CallStage(c), Top, CallStage(Top))
        /\ LessToDo(d1, CallStage(d1), Top, CallStage(Top))
        /\ LessToDo(d2, CallStage(d2), Top, CallStage(Top))
    <3>1. /\ c.crossed = Top.crossed /\ c.onBackup = Top.onBackup /\ c.backups = Top.backups \ {s}
      BY <1>0 DEF CallRecord
    <3>2. /\ d1.crossed = Top.crossed /\ d1.onBackup = Top.onBackup
          /\ d1.backups = Top.backups \ {s}
      BY <1>0 DEF CallRecord
    <3>3. /\ d2.crossed = Top.crossed /\ d2.onBackup = Top.onBackup
          /\ d2.backups = Top.backups \ {s}
      BY <1>0 DEF CallRecord
    <3> HIDE DEF c, d1, d2
    <3> QED BY <2>1, <3>1, <3>2, <3>3 DEF LessToDo
  <2> HIDE DEF c, d1, d2
  <2>4. CASE End(Failure("limit"))
    BY <2>4 DEF End, Went
  <2>5. ASSUME NEW d, Become(d) /\ Same, LessToDo(d, CallStage(d), Top, CallStage(Top)) PROVE Went
    BY <2>1, <2>5, TopDoesLess DEF Become, Same
  <2> QED BY <2>2, <2>3, <2>4, <2>5, Zenon
<1>10. CASE NoBackupLeft
  BY <1>10, DeliveredGoesDown DEF NoBackupLeft
<1>11. ASSUME NEW s \in Tree, FindAddress(s) PROVE Went
  <2> DEFINE c == [Top EXCEPT !.need = @ \ {s}]
             d1 == [c EXCEPT !.found = @ \cup {s}]
             d2 == Informed(c, Failure("unreachable"), s)
  <2>1. s \in Top.need /\ UNCHANGED <<queries, hops>>
    BY <1>11 DEF FindAddress
  <2>2. \/ Become(d1)
        \/ Become(d2)
        \/ calls' = Append([calls EXCEPT ![Len(calls)] = c], Call(s, "A"))
    BY <1>11, Zenon DEF FindAddress
  <2>3. /\ LessToDo(d1, CallStage(d1), Top, CallStage(Top))
        /\ LessToDo(d2, CallStage(d2), Top, CallStage(Top))
    <3>1. c \in CallRecord
      BY <1>0 DEF CallRecord
    <3>2. /\ d1.crossed = Top.crossed /\ d1.onBackup = Top.onBackup
          /\ d1.backups = Top.backups /\ d1.need = Top.need \ {s}
      BY <1>0 DEF CallRecord
    <3>3. /\ c.crossed = Top.crossed /\ c.onBackup = Top.onBackup
          /\ c.backups = Top.backups /\ c.need = Top.need \ {s}
      BY <1>0 DEF CallRecord
    <3> HIDE DEF c
    <3>4. /\ d2.crossed = c.crossed /\ d2.onBackup = c.onBackup
          /\ d2.backups = c.backups /\ d2.need = c.need
      BY <3>1 DEF Informed, CallRecord
    <3> HIDE DEF d1, d2
    <3> QED BY <2>1, <3>2, <3>3, <3>4 DEF LessToDo
  <2>4. CASE calls' = Append([calls EXCEPT ![Len(calls)] = c], Call(s, "A"))
    BY <2>1, <2>4, LookupGoesDown
  <2> HIDE DEF c, d1, d2
  <2>5. ASSUME NEW d, Become(d), LessToDo(d, CallStage(d), Top, CallStage(Top)) PROVE Went
    BY <2>1, <2>5, TopDoesLess DEF Become
  <2> QED BY <2>2, <2>3, <2>4, <2>5, Zenon
<1>12. CASE UseAddresses
  <2> DEFINE d1 == [Top EXCEPT !.pc = "ask", !.left = Top.found \ Top.tried,
                      !.tried = @ \cup Top.found, !.found = {}, !.need = {}]
             d2 == EnterZone(Top, Top.child, Top.found)
  <2>1. Top.pc \in {"find", "found"} /\ UNCHANGED queries
    BY <1>12 DEF UseAddresses, Calling
  <2>2. \/ Become(d1) /\ Same
        \/ End(Failure("limit"))
        \/ Become(d2) /\ Same
    BY <1>12, Zenon DEF UseAddresses
  <2>3. LessToDo(d1, CallStage(d1), Top, CallStage(Top))
    <3>1. /\ d1.crossed = Top.crossed /\ d1.onBackup = Top.onBackup
          /\ d1.backups = Top.backups /\ d1.need = {} /\ d1.pc = "ask"
      BY <1>0 DEF CallRecord
    <3> HIDE DEF d1
    <3>2. CallStage(d1) = 2 /\ (CallStage(Top) = 3 \/ CallStage(Top) = 4)
      BY <2>1, <3>1 DEF CallStage
    <3>3. CallStage(d1) < CallStage(Top)
      BY <3>2
    <3>4. d1.need \subseteq Top.need
      BY <3>1
    <3>5. CASE d1.need = Top.need
      <4> HIDE DEF CallStage
      <4>1. /\ d1.crossed = Top.crossed /\ d1.onBackup = Top.onBackup
            /\ d1.backups = Top.backups
        BY <3>1
      <4> QED BY <4>1, <3>3, <3>5, Zenon DEF LessToDo
    <3>6. CASE d1.need # Top.need
      BY <3>1, <3>4, <3>6, Zenon DEF LessToDo
    <3> QED BY <3>5, <3>6
  <2>4. LessToDo(d2, CallStage(d2), Top, CallStage(Top))
    <3>1. d2.crossed = Top.crossed + 1
      BY <1>0 DEF EnterZone, CallRecord
    <3> HIDE DEF d2
    <3>2. d2.crossed > Top.crossed
      BY <1>0, <3>1
    <3> QED BY <3>2, Zenon DEF LessToDo
  <2> HIDE DEF d1, d2
  <2>5. CASE End(Failure("limit"))
    BY <2>5 DEF End, Went
  <2>6. ASSUME NEW d, Become(d) /\ Same, LessToDo(d, CallStage(d), Top, CallStage(Top)) PROVE Went
    BY <2>1, <2>6, TopDoesLess DEF Become, Same
  <2> QED BY <2>2, <2>3, <2>4, <2>5, <2>6, Zenon
<1>13. CASE NoAddress
  <2> DEFINE d == [Top EXCEPT !.pc = "backup"]
  <2>1. Top.pc = "find" /\ UNCHANGED queries
    BY <1>13 DEF NoAddress, Calling
  <2>2. (Become(d) /\ Same) \/ Deliver(Failure("unreachable"))
    BY <1>13, Zenon DEF NoAddress
  <2>3. LessToDo(d, CallStage(d), Top, CallStage(Top))
    BY <1>0, <2>1 DEF LessToDo, CallRecord, CallStage
  <2> HIDE DEF d
  <2>4. CASE Become(d) /\ Same
    BY <2>1, <2>3, <2>4, TopDoesLess DEF Become, Same
  <2>5. CASE Deliver(Failure("unreachable"))
    BY <2>1, <2>5, DeliveredGoesDown
  <2> QED BY <2>2, <2>4, <2>5
<1> QED BY <1>1, <1>2, <1>3, <1>4, <1>5, <1>6, <1>7, <1>8, <1>9, <1>10, <1>11, <1>12, <1>13,
           Zenon DEF RecursionNext

\* A resolution ends, whatever servers fail, refer or have no address: its
\* measure is a word, every step of it but the loss of an entry of the cache lowers
\* the word or ends the resolution, and no words go down for ever.
THEOREM ResolutionsEnd ==
    /\ IsWellFoundedOn(Lower, Words)
    /\ RecursionSpec =>
         /\ [](Measure(calls, queries, hops) \in Words)
         /\ [][calls # <<>> => Went \/ Lapse]_recursionVars
<1> DEFINE Word == Measure(calls, queries, hops) \in Words
           Nearer == calls # <<>> => Went \/ Lapse
<1>1. RecInv => Word
  BY MeasureIsWord DEF RecInv, CallsInv, RestInv
<1>2. RecInv /\ RecInv' /\ [RecursionNext]_recursionVars => [Nearer]_recursionVars
  BY StepGoesDown
<1>3. RecursionInit => RecInv
  BY RecInvInit
<1>4. RecInv /\ [RecursionNext]_recursionVars => RecInv'
  BY StepKeeps DEF StepKeepsInv
<1> HIDE DEF Word, Nearer
<1>5. RecursionSpec => []Word /\ [][Nearer]_recursionVars
  BY <1>1, <1>2, <1>3, <1>4, PTL DEF RecursionSpec
<1> QED BY <1>5, WordsEnd DEF Word, Nearer
-----------------------------------------------------------------------------
(* Zones and their NSEC records *)

\* Signed zones are cuts, and no key of theirs is the attacker's.
LEMMA SignedFacts ==
    /\ Anchors \subseteq Signed /\ Signed \subseteq Cuts /\ Cuts \subseteq Tree
    /\ Root \in Cuts /\ Attacker \notin Cuts /\ Attacker \notin Signed
    /\ DOMAIN Alias \cap Cuts = {}
<1>1. /\ Anchors \subseteq Signed /\ Signed \subseteq Cuts /\ Attacker \notin Cuts
  BY ValidatorAssumption
<1>2. Root \in Cuts /\ Cuts \subseteq Tree /\ DOMAIN Alias \subseteq Tree \ Cuts
  BY NamespaceAssumption
<1> QED BY <1>1, <1>2

\* The records are addresses, and the DS records of the signed zones.
LEMMA HeldFacts ==
    /\ \A r \in Held : /\ r.owner \in Tree /\ r.owner \notin DOMAIN Alias
                       /\ r = Question(r.owner, "A") \/ r = Question(r.owner, "DS")
    /\ \A n : Question(n, "DS") \in Held <=> n \in Signed \ {Root}
    /\ \A n : Question(n, "NS") \notin Held
<1>1. ASSUME NEW r \in Held
      PROVE  /\ r.owner \in Tree /\ r.owner \notin DOMAIN Alias
             /\ r = Question(r.owner, "A") \/ r = Question(r.owner, "DS")
  <2>1. r \in [owner : Tree, type : {"A", "DS"}]
    BY NamespaceAssumption
  <2>2. r.owner \notin DOMAIN Alias
    BY ValidatorAssumption
  <2> QED BY <2>1, <2>2 DEF Question
<1>2. {r.owner : r \in {h \in Held : h.type = "DS"}} = Signed \ {Root}
  BY ValidatorAssumption
<1>3. ASSUME NEW n PROVE Question(n, "DS") \in Held <=> n \in Signed \ {Root}
  <2>1. ASSUME Question(n, "DS") \in Held PROVE n \in Signed \ {Root}
    <3>1. Question(n, "DS").owner = n /\ Question(n, "DS").type = "DS"
      BY DEF Question
    <3> QED BY <1>2, <2>1, <3>1
  <2>2. ASSUME n \in Signed \ {Root} PROVE Question(n, "DS") \in Held
    <3>1. PICK r \in Held : r.type = "DS" /\ r.owner = n
      BY <1>2, <2>2
    <3>2. r = Question(n, "DS")
      BY <1>1, <3>1 DEF Question
    <3> QED BY <3>2
  <2> QED BY <2>1, <2>2
<1>4. ASSUME NEW n PROVE Question(n, "NS") \notin Held
  <2>1. Question(n, "NS").type = "NS"
    BY DEF Question
  <2> QED BY <2>1, NamespaceAssumption
<1> QED BY <1>1, <1>3, <1>4

\* The canonical order: what is below a name comes after it, together.
LEMMA RankFacts ==
    /\ \A n \in Tree : Rank[n] \in Nat
    /\ \A m, n \in Tree : Rank[m] = Rank[n] => m = n
    /\ \A m \in Tree : \A n \in Above[m] :
          /\ n \in Tree /\ Rank[n] <= Rank[m]
          /\ m # n => Rank[n] < Rank[m]
          /\ \A x \in Tree : Rank[n] <= Rank[x] /\ Rank[x] <= Rank[m] => n \in Above[x]
<1>1. /\ \A n \in Tree : Rank[n] \in Nat
      /\ \A m, n \in Tree : Rank[m] = Rank[n] => m = n
  BY ValidatorAssumption
<1>2. ASSUME NEW m \in Tree, NEW n \in Above[m]
      PROVE  /\ n \in Tree /\ Rank[n] <= Rank[m]
             /\ m # n => Rank[n] < Rank[m]
             /\ \A x \in Tree : Rank[n] <= Rank[x] /\ Rank[x] <= Rank[m] => n \in Above[x]
  <2>1. n \in Tree
    BY NameFacts
  <2>2. /\ m # n => Rank[n] < Rank[m]
        /\ \A x \in Tree : Rank[n] <= Rank[x] /\ Rank[x] <= Rank[m] => n \in Above[x]
    BY ValidatorAssumption
  <2> QED BY <1>1, <2>1, <2>2
<1> QED BY <1>1, <1>2

\* A wildcard comes right after the name it is under, and has an address.
LEMMA StarFacts ==
    /\ \A m, e \in Tree : Rank[m] = Rank[e] + 1 => e \in DOMAIN Star /\ m = Star[e]
    /\ \A e \in DOMAIN Star :
          /\ e \in Tree /\ Star[e] \in Tree /\ Star[e] \notin Cuts
          /\ Rank[Star[e]] = Rank[e] + 1 /\ Above[Star[e]] = Above[e] \cup {Star[e]}
          /\ Question(Star[e], "A") \in Held /\ Star[e] \notin DOMAIN Alias
          /\ Star[e] # e
<1>1. ASSUME NEW e \in DOMAIN Star
      PROVE  /\ e \in Tree /\ Star[e] \in Tree /\ Star[e] \notin Cuts
             /\ Rank[Star[e]] = Rank[e] + 1 /\ Above[Star[e]] = Above[e] \cup {Star[e]}
             /\ \E r \in Held : r.owner = Star[e]
  BY ValidatorAssumption
<1>2. ASSUME NEW e \in DOMAIN Star
      PROVE  /\ Question(Star[e], "A") \in Held /\ Star[e] \notin DOMAIN Alias
             /\ Star[e] # e
  <2>1. PICK r \in Held : r.owner = Star[e]
    BY <1>1
  <2>2. Question(Star[e], "DS") \notin Held
    BY <1>1, HeldFacts, SignedFacts
  <2>3. Rank[e] \in Nat
    BY <1>1, RankFacts
  <2> QED BY <1>1, <2>1, <2>2, <2>3, HeldFacts
<1>3. \A m, e \in Tree : Rank[m] = Rank[e] + 1 => e \in DOMAIN Star /\ m = Star[e]
  BY ValidatorAssumption
<1> QED BY <1>1, <1>2, <1>3

\* The zone of a question is the lowest it is for ...
LEMMA ZoneOfFacts ==
    ASSUME NEW n \in Tree, NEW t
    PROVE  /\ ZoneOf(n, t) \in ZonesFor(n, t)
           /\ \A y \in ZonesFor(n, t) : y \in Above[ZoneOf(n, t)]
<1>1. ZonesFor(n, t) \in SUBSET Above[n] /\ ZonesFor(n, t) # {}
  BY ZonesAreAbove
<1>2. /\ Lowest(ZonesFor(n, t)) \in ZonesFor(n, t)
      /\ \A y \in ZonesFor(n, t) : InBailiwick(y, Lowest(ZonesFor(n, t)))
  BY <1>1, LowestIsThere, Zenon
<1> QED BY <1>2 DEF ZoneOf, InBailiwick

\* ... and the only one that is.
LEMMA ZoneOfIs ==
    ASSUME NEW n \in Tree, NEW t, NEW z \in ZonesFor(n, t),
           \A y \in ZonesFor(n, t) : y \in Above[z]
    PROVE  ZoneOf(n, t) = z
<1>1. ZonesFor(n, t) \in SUBSET Above[n]
  BY ZonesAreAbove
<1>2. \A y \in ZonesFor(n, t) : InBailiwick(y, z)
  BY DEF InBailiwick
<1> QED BY <1>1, <1>2, LowestIs, Zenon DEF ZoneOf

\* ZonesFor, spelt out.
LEMMA ZonesForAre ==
    ASSUME NEW n \in Tree, NEW t, NEW z
    PROVE  z \in ZonesFor(n, t) <=> z \in Cuts /\ z \in Above[n] /\ (t = "DS" /\ n # Root => z # n)
  BY DEF ZonesFor, InBailiwick

\* The first zone cut below a zone on the way to a name is delegated by that zone.
LEMMA FirstCut ==
    ASSUME NEW m \in Tree, NEW z \in Cuts, z \in Above[m],
           NEW x \in Cuts, x \in Above[m], z \in Above[x], x # z
    PROVE  \E c \in Cuts : /\ c \in Above[m] /\ c \in Above[x] /\ z \in Above[c] /\ c # z
                           /\ ZoneOf(c, "DS") = z
<1> DEFINE S == {c \in Cuts : c \in Above[m] /\ z \in Above[c] /\ c # z}
           c == Highest(S)
<1>1. S \in SUBSET Above[m] /\ x \in S
  OBVIOUS
<1>2. c \in S /\ \A y \in S : InBailiwick(c, y)
  BY <1>1, HighestIsThere, Zenon
<1>3. c \in Cuts /\ c \in Above[m] /\ z \in Above[c] /\ c # z
  BY <1>2
<1>4. \A y \in S : c \in Above[y]
  BY <1>2 DEF InBailiwick
<1> HIDE DEF c
<1>5. c \in Tree /\ c # Root
  BY <1>3, NameFacts, SignedFacts
<1>6. z \in ZonesFor(c, "DS")
  BY <1>3, <1>5, ZonesForAre
<1>7. ASSUME NEW y \in ZonesFor(c, "DS") PROVE y \in Above[z]
  <2>1. y \in Cuts /\ y \in Above[c] /\ y # c
    BY <1>5, ZonesForAre
  <2>2. y \in Above[z] \/ z \in Above[y]
    BY <1>3, <1>5, <2>1, NameFacts
  <2>3. CASE z \in Above[y] /\ y # z
    <3>1. y \in Above[m]
      BY <1>3, <2>1, NameFacts
    <3>2. y \in S
      BY <2>1, <2>3, <3>1
    <3>3. c \in Above[y]
      BY <1>4, <3>2
    <3> QED BY <1>5, <2>1, <3>3, NameFacts
  <2>4. z \in Above[z]
    BY SignedFacts, NameFacts
  <2> QED BY <2>2, <2>3, <2>4
<1>8. ZoneOf(c, "DS") = z
  BY <1>5, <1>6, <1>7, ZoneOfIs
<1> QED BY <1>1, <1>3, <1>4, <1>8

\* What a zone has at its apex, at a delegation and at any other name.
LEMMA TypesAre ==
    ASSUME NEW z \in Cuts, NEW n \in Tree
    PROVE  /\ n = z => /\ {"NS", "SOA"} \subseteq Types(z, n)
                       /\ "DS" \notin Types(z, n) /\ "CNAME" \notin Types(z, n)
                       /\ "A" \in Types(z, n) <=> Question(n, "A") \in Held
           /\ n \in Cuts \ {z} =>
                       /\ "NS" \in Types(z, n) /\ "SOA" \notin Types(z, n)
                       /\ "DS" \in Types(z, n) <=> n \in Signed
                       /\ "CNAME" \notin Types(z, n)
           /\ n \notin Cuts =>
                       /\ "NS" \notin Types(z, n) /\ "SOA" \notin Types(z, n)
                       /\ "DS" \notin Types(z, n)
                       /\ "A" \in Types(z, n) <=> Question(n, "A") \in Held
                       /\ "CNAME" \in Types(z, n) <=> n \in DOMAIN Alias
                       /\ Types(z, n) # {} <=> Question(n, "A") \in Held \/ n \in DOMAIN Alias
<1> DEFINE here == {r.type : r \in {h \in Held : h.owner = n}}
           data == {r.type : r \in {h \in Held : h.owner = n /\ h.type # "DS"}}
<1>1. ASSUME NEW x
      PROVE  /\ x \in here => Question(n, x) \in Held /\ (x = "A" \/ x = "DS")
             /\ Question(n, x) \in Held => x \in here
  <2>1. ASSUME x \in here PROVE Question(n, x) \in Held /\ (x = "A" \/ x = "DS")
    <3>1. PICK r \in Held : r.owner = n /\ r.type = x
      BY <2>1
    <3>2. r = Question(n, "A") \/ r = Question(n, "DS")
      BY <3>1, HeldFacts
    <3> QED BY <3>1, <3>2 DEF Question
  <2>2. ASSUME Question(n, x) \in Held PROVE x \in here
    <3>1. Question(n, x).owner = n /\ Question(n, x).type = x
      BY DEF Question
    <3> QED BY <2>2, <3>1
  <2> QED BY <2>1, <2>2
<1>2. data = here \ {"DS"}
  OBVIOUS
<1>3. Types(z, n) = IF n = z THEN {"NS", "SOA"} \cup data
                    ELSE IF n \in Cuts THEN {"NS"} \cup (IF n \in Signed THEN {"DS"} ELSE {})
                    ELSE here \cup (IF n \in DOMAIN Alias THEN {"CNAME"} ELSE {})
  BY Zenon DEF Types
<1>4. "DS" \in here => n \in Signed /\ n \in Cuts
  BY <1>1, HeldFacts, SignedFacts
<1> HIDE DEF here, data
<1>5. CASE n = z
  BY <1>1, <1>2, <1>3, <1>5
<1>6. CASE n \in Cuts \ {z}
  BY <1>3, <1>6
<1>7. CASE n \notin Cuts
  <2>1. Types(z, n) = here \cup (IF n \in DOMAIN Alias THEN {"CNAME"} ELSE {})
    BY <1>3, <1>7
  <2>2. \A x \in here : x = "A"
    BY <1>1, <1>4, <1>7
  <2>3. "A" \in here <=> Question(n, "A") \in Held
    BY <1>1
  <2> QED BY <1>7, <2>1, <2>2, <2>3
<1> QED BY <1>5, <1>6, <1>7

\* What has something of its own.
Something == Cuts \cup DOMAIN Alias \cup {r.owner : r \in Held}

\* A name exists when something is at or below it.
LEMMA SomethingIs ==
    /\ \A n : n \in Something <=> n \in Cuts \/ n \in DOMAIN Alias \/ Question(n, "A") \in Held
    /\ Something \subseteq Tree
    /\ \A n : Exists(n) <=> \E m \in Something : n \in Above[m]
<1>1. ASSUME NEW n, n \in Something
      PROVE  n \in Cuts \/ n \in DOMAIN Alias \/ Question(n, "A") \in Held
  <2>1. SUFFICES ASSUME n \notin Cuts, n \notin DOMAIN Alias PROVE Question(n, "A") \in Held
    OBVIOUS
  <2>2. PICK r \in Held : r.owner = n
    BY <1>1, <2>1 DEF Something
  <2>3. Question(n, "DS") \notin Held
    BY <2>1, HeldFacts, SignedFacts
  <2> QED BY <2>2, <2>3, HeldFacts
<1>2. ASSUME NEW n, Question(n, "A") \in Held PROVE n \in Something
  <2>1. Question(n, "A").owner = n
    BY DEF Question
  <2> QED BY <1>2, <2>1 DEF Something
<1>3. \A n : n \in Cuts \/ n \in DOMAIN Alias => n \in Something
  BY DEF Something
<1>4. Something \subseteq Tree
  <2>1. DOMAIN Alias \subseteq Tree
    BY NamespaceAssumption
  <2> QED BY <2>1, HeldFacts, SignedFacts DEF Something
<1>5. \A n : Exists(n) <=> \E m \in Something : n \in Above[m]
  BY DEF Exists, InBailiwick, Something
<1> QED BY <1>1, <1>2, <1>3, <1>4, <1>5

\* A zone has records at its apex, and at what it has and delegates.
LEMMA OwnersAre ==
    ASSUME NEW z \in Cuts
    PROVE  /\ \A n : n \in Owners(z) <=> n \in Something /\ (n = z \/ ZoneOf(n, "DS") = z)
           /\ z \in Owners(z) /\ Owners(z) \subseteq Tree
           /\ \A n \in Owners(z) : z \in Above[n] /\ Rank[n] \in Nat /\ Rank[z] <= Rank[n]
           /\ \A n \in Owners(z) : \A m \in Above[n] : Exists(m)
<1>0. z \in Tree /\ z \in Something
  BY SignedFacts, SomethingIs
<1>1. ASSUME NEW n \in Tree
      PROVE  Types(z, n) # {} <=> n = z \/ n \in Something
  <2>1. CASE n = z
    BY <2>1, TypesAre
  <2>2. CASE n \in Cuts \ {z}
    BY <2>2, TypesAre, SomethingIs
  <2>3. CASE n \notin Cuts
    <3>1. n # z
      BY <2>3
    <3> QED BY <2>3, <3>1, TypesAre, SomethingIs
  <2> QED BY <2>1, <2>2, <2>3
<1>2. ASSUME NEW n
      PROVE  n \in Owners(z) <=> n \in Something /\ (n = z \/ ZoneOf(n, "DS") = z)
  BY <1>0, <1>1, SomethingIs DEF Owners
<1>3. ASSUME NEW n \in Owners(z)
      PROVE  /\ n \in Tree /\ z \in Above[n] /\ Rank[n] \in Nat /\ Rank[z] <= Rank[n]
             /\ \A m \in Above[n] : Exists(m)
  <2>1. n \in Tree /\ n \in Something /\ (n = z \/ ZoneOf(n, "DS") = z)
    BY <1>2, SomethingIs
  <2>2. z \in Above[n]
    <3>1. CASE n = z
      BY <3>1, <1>0, NameFacts
    <3>2. CASE ZoneOf(n, "DS") = z
      <4>1. z \in ZonesFor(n, "DS")
        BY <2>1, <3>2, ZoneOfFacts
      <4> QED BY <2>1, <4>1, ZonesForAre
    <3> QED BY <2>1, <3>1, <3>2
  <2> QED BY <2>1, <2>2, RankFacts, SomethingIs
<1>4. z \in Owners(z)
  BY <1>0, <1>2
<1> QED BY <1>2, <1>3, <1>4

\* Of some names one comes first.
LEMMA FirstOf ==
    ASSUME NEW S \in SUBSET Tree, S # {}
    PROVE  LET f == CHOOSE m \in S : \A x \in S : Rank[m] <= Rank[x]
           IN f \in S /\ \A x \in S : Rank[f] <= Rank[x]
<1>1. \A x \in S : Rank[x] \in Nat
  BY RankFacts
<1>2. \E m \in S : \A x \in S : Rank[m] <= Rank[x]
  BY <1>1, LeastBy
<1> QED BY <1>2, Zenon

\* The next name of a record is the next owner, or the apex after the last.
LEMMA AfterIs ==
    ASSUME NEW z \in Cuts, NEW o \in Owners(z)
    PROVE  LET m == After(z, o) IN
           /\ m \in Owners(z)
           /\ \A p \in Owners(z) : Rank[o] < Rank[p] =>
                 Rank[o] < Rank[m] /\ Rank[m] <= Rank[p]
           /\ (\A p \in Owners(z) : ~(Rank[o] < Rank[p])) => m = z
<1> DEFINE later == {m \in Owners(z) : Rank[m] > Rank[o]}
           S == IF later = {} THEN Owners(z) ELSE later
           f == CHOOSE m \in S : \A x \in S : Rank[m] <= Rank[x]
<1>1. After(z, o) = f
  BY Zenon DEF After
<1>2. S \in SUBSET Tree /\ S # {} /\ S \subseteq Owners(z)
  BY OwnersAre
<1>3. f \in S /\ \A x \in S : Rank[f] <= Rank[x]
  BY <1>2, FirstOf, Zenon
<1> HIDE DEF f
<1>4. f \in Owners(z) /\ Rank[f] \in Nat /\ Rank[o] \in Nat /\ Rank[z] \in Nat
  BY <1>2, <1>3, OwnersAre
<1>5. ASSUME NEW p \in Owners(z), Rank[o] < Rank[p]
      PROVE  Rank[o] < Rank[f] /\ Rank[f] <= Rank[p]
  <2>1. Rank[p] > Rank[o] /\ Rank[p] \in Nat
    BY <1>4, <1>5, OwnersAre
  <2>2. p \in later
    BY <2>1
  <2>3. f \in later /\ Rank[f] <= Rank[p]
    BY <1>3, <2>2
  <2> QED BY <1>4, <2>3
<1>6. ASSUME \A p \in Owners(z) : ~(Rank[o] < Rank[p]) PROVE f = z
  <2>1. \A p \in Owners(z) : Rank[p] \in Nat
    BY OwnersAre
  <2>2. later = {}
    BY <1>4, <1>6, <2>1
  <2>3. z \in S /\ f \in S
    BY <1>3, <2>2, OwnersAre
  <2>4. Rank[f] <= Rank[z] /\ Rank[z] <= Rank[f]
    BY <1>3, <1>4, <2>3, OwnersAre
  <2>5. Rank[f] = Rank[z] /\ f \in Tree /\ z \in Tree
    BY <1>4, <2>4, OwnersAre, SignedFacts
  <2> QED BY <2>5, RankFacts
<1> QED BY <1>1, <1>4, <1>5, <1>6

\* A record spans what comes after its owner and before the next one.
LEMMA SpansMeans ==
    ASSUME NEW z \in Cuts, NEW o \in Owners(z), NEW place \in Nat, Rank[z] <= place
    PROVE  Spans(Nsec(z, o), place) <=>
              /\ Rank[o] < place
              /\ \A p \in Owners(z) : Rank[p] <= Rank[o] \/ place < Rank[p]
<1> DEFINE m == After(z, o)
           a == Rank[o]
           b == Rank[m]
<1>1. /\ m \in Owners(z)
      /\ \A p \in Owners(z) : Rank[o] < Rank[p] => Rank[o] < Rank[m] /\ Rank[m] <= Rank[p]
      /\ (\A p \in Owners(z) : ~(Rank[o] < Rank[p])) => m = z
  BY AfterIs
<1>2. Spans(Nsec(z, o), place) <=>
         IF a < b THEN a < place /\ place < b
         ELSE IF a > b THEN a < place \/ place < b
         ELSE place # a
  BY DEF Spans, Nsec
<1> HIDE DEF m
<1>3. \A p \in Owners(z) : Rank[p] \in Nat /\ Rank[z] <= Rank[p]
  BY OwnersAre
<1>4. a \in Nat /\ b \in Nat /\ Rank[z] <= a /\ Rank[z] \in Nat
  BY <1>1, <1>3, OwnersAre
<1>5. CASE \E p \in Owners(z) : a < Rank[p]
  <2>1. a < b /\ \A p \in Owners(z) : a < Rank[p] => b <= Rank[p]
    BY <1>1, <1>5
  <2>2. Spans(Nsec(z, o), place) <=> a < place /\ place < b
    BY <1>2, <2>1
  <2>3. ASSUME a < place, place < b, NEW p \in Owners(z)
        PROVE  Rank[p] <= a \/ place < Rank[p]
    BY <1>3, <1>4, <2>1, <2>3
  <2>4. ASSUME \A p \in Owners(z) : Rank[p] <= a \/ place < Rank[p]
        PROVE  place < b
    BY <1>1, <1>4, <2>1, <2>4
  <2> QED BY <2>2, <2>3, <2>4
<1>6. CASE \A p \in Owners(z) : ~(a < Rank[p])
  <2>1. m = z /\ b <= a
    BY <1>1, <1>4, <1>6
  <2>2. Spans(Nsec(z, o), place) <=> a < place
    BY <1>2, <1>4, <2>1
  <2>3. \A p \in Owners(z) : Rank[p] <= a
    BY <1>3, <1>4, <1>6
  <2> QED BY <2>2, <2>3
<1> QED BY <1>5, <1>6

\* Between two owners everything is spanned by the record of the first.
LEMMA SomethingSpans ==
    ASSUME NEW z \in Cuts, NEW place \in Nat, Rank[z] < place,
           \A p \in Owners(z) : Rank[p] # place
    PROVE  \E o \in Owners(z) : Spans(Nsec(z, o), place)
<1> DEFINE S == {p \in Owners(z) : Rank[p] < place}
           f == [p \in S |-> place - Rank[p]]
<1>1. /\ \A p \in Owners(z) : Rank[p] \in Nat
      /\ z \in Owners(z)
  BY OwnersAre
<1>2. z \in S /\ \A p \in S : f[p] \in Nat
  BY <1>1
<1>3. PICK o \in S : \A p \in S : f[o] <= f[p]
  BY <1>2, LeastBy
<1>4. ASSUME NEW p \in Owners(z) PROVE Rank[p] <= Rank[o] \/ place < Rank[p]
  <2>1. CASE p \in S
    <3>1. place - Rank[o] <= place - Rank[p]
      BY <1>3, <2>1
    <3> QED BY <1>1, <2>1, <3>1
  <2>2. CASE p \notin S
    BY <1>1, <2>2
  <2> QED BY <2>1, <2>2
<1>5. Rank[o] < place /\ o \in Owners(z)
  OBVIOUS
<1>6. Rank[z] <= place
  BY <1>1
<1> QED BY <1>4, <1>5, <1>6, SpansMeans
-----------------------------------------------------------------------------
(* What the records of a zone prove *)

\* A record of a zone's is of one of its owners.
LEMMA ChainIs ==
    ASSUME NEW z \in Signed, NEW D \in SUBSET Chain(z), NEW s \in D
    PROVE  /\ s.owner \in Owners(z) /\ s = Nsec(z, s.owner) /\ s.zone = z
           /\ s.next = After(z, s.owner) /\ s.types = Types(z, s.owner)
<1>1. PICK o \in Owners(z) : s = Nsec(z, o)
  BY Zenon DEF Chain
<1>2. s.owner = o /\ s.zone = z /\ s.next = After(z, o) /\ s.types = Types(z, o)
  BY <1>1, Zenon DEF Nsec
<1> QED BY <1>1, <1>2, Zenon

\* A record may deny names but at and below the cut it is of.
LEMMA MayDenyIs ==
    ASSUME NEW z \in Signed, NEW D \in SUBSET Chain(z), NEW s \in D, NEW n
    PROVE  MayDeny(s, n) <=> ~(s.owner \in Cuts \ {z} /\ s.owner \in Above[n])
<1>1. /\ s.owner \in Owners(z) /\ s.zone = z /\ s.types = Types(z, s.owner)
  BY ChainIs
<1>2. z \in Cuts /\ s.owner \in Tree
  BY <1>1, SignedFacts, OwnersAre
<1>3. AncestorDelegation(s) <=> s.owner \in Cuts \ {z}
  <2>1. CASE s.owner = z
    BY <1>1, <2>1 DEF AncestorDelegation
  <2>2. CASE s.owner \in Cuts \ {z}
    BY <1>1, <1>2, <2>2, TypesAre DEF AncestorDelegation
  <2>3. CASE s.owner \notin Cuts
    BY <1>1, <1>2, <2>3, TypesAre DEF AncestorDelegation
  <2> QED BY <2>1, <2>2, <2>3
<1> QED BY <1>3 DEF MayDeny, InBailiwick

\* A name whose zone is not z is at or below a cut that z delegates.
LEMMA DelegatedAbove ==
    ASSUME NEW n \in Tree, NEW t, NEW z \in ZonesFor(n, t), ZoneOf(n, t) # z
    PROVE  \E c \in Cuts : /\ c \in Above[n] /\ z \in Above[c] /\ c # z
                           /\ c \in Owners(z) /\ c \in ZonesFor(n, t)
<1> DEFINE y == ZoneOf(n, t)
<1>1. y \in ZonesFor(n, t) /\ z \in Above[y]
  BY ZoneOfFacts
<1>2. /\ z \in Cuts /\ z \in Above[n] /\ y \in Cuts /\ y \in Above[n]
      /\ t = "DS" /\ n # Root => y # n
  BY <1>1, ZonesForAre
<1> HIDE DEF y
<1>3. PICK c \in Cuts : /\ c \in Above[n] /\ c \in Above[y] /\ z \in Above[c] /\ c # z
                        /\ ZoneOf(c, "DS") = z
  BY <1>1, <1>2, FirstCut DEF y
<1>4. c \in Owners(z)
  BY <1>2, <1>3, OwnersAre, SomethingIs
<1>5. t = "DS" /\ n # Root => c # n
  BY <1>2, <1>3, NameFacts
<1>6. c \in ZonesFor(n, t)
  BY <1>3, <1>5, ZonesForAre
<1> QED BY <1>3, <1>4, <1>6

\* Nothing of a zone's covers what the zone has, nor what it has delegated.
LEMMA CoveredIsAbsent ==
    ASSUME NEW z \in Signed, NEW D \in SUBSET Chain(z), NEW n \in Tree, z \in Above[n],
           NEW s \in Covering(D, n)
    PROVE  /\ n \notin Owners(z) /\ n # z
           /\ \A c \in Cuts : c \in Above[n] => c \in Above[z]
           /\ s \in D /\ s.owner \in Owners(z) /\ Rank[s.owner] < Rank[n]
           /\ \A p \in Owners(z) : Rank[p] <= Rank[s.owner] \/ Rank[n] < Rank[p]
<1>1. s \in D /\ Spans(s, Rank[n]) /\ MayDeny(s, n)
  BY DEF Covering
<1> DEFINE o == s.owner
<1>2. o \in Owners(z) /\ s = Nsec(z, o) /\ z \in Cuts /\ Rank[n] \in Nat /\ Rank[z] <= Rank[n]
  BY <1>1, ChainIs, SignedFacts, RankFacts
<1>3. /\ Rank[o] < Rank[n]
      /\ \A p \in Owners(z) : Rank[p] <= Rank[o] \/ Rank[n] < Rank[p]
  BY <1>2, SpansMeans, <1>1
<1>4. Rank[o] \in Nat /\ z \in Owners(z)
  BY <1>2, OwnersAre
<1>5. n \notin Owners(z) /\ n # z
  BY <1>2, <1>3, <1>4
<1>6. ASSUME NEW x \in Cuts, x \in Above[n], x \notin Above[z] PROVE FALSE
  <2>1. z \in Above[x] /\ x # z /\ z \in Tree
    BY <1>2, <1>6, NameFacts, SignedFacts
  <2>2. PICK c \in Cuts : c \in Above[n] /\ z \in Above[c] /\ c # z /\ ZoneOf(c, "DS") = z
    BY <1>2, <1>6, <2>1, FirstCut
  <2>3. c \in Owners(z) /\ c \in Tree
    BY <1>2, <2>2, OwnersAre, SomethingIs, SignedFacts
  <2>4. c # n /\ Rank[c] < Rank[n]
    BY <1>5, <2>2, <2>3, RankFacts
  <2>5. Rank[c] <= Rank[o] /\ Rank[c] \in Nat
    BY <1>2, <1>3, <2>3, <2>4, RankFacts
  <2>6. o \in Tree /\ c \in Above[o]
    BY <1>2, <1>3, <1>4, <2>2, <2>3, <2>5, RankFacts, OwnersAre
  <2>7. o = c
    <3>1. SUFFICES ASSUME o # c PROVE FALSE
      OBVIOUS
    <3>2. o # z
      BY <2>1, <2>2, <2>3, <2>6, NameFacts, SignedFacts
    <3>3. ZoneOf(o, "DS") = z
      BY <1>2, <3>2, OwnersAre
    <3>4. c \in ZonesFor(o, "DS")
      BY <2>6, <3>1, ZonesForAre
    <3>5. c \in Above[z]
      BY <2>6, <3>3, <3>4, ZoneOfFacts
    <3> QED BY <2>2, <2>3, <3>5, <2>1, NameFacts
  <2>8. ~MayDeny(s, n)
    BY <1>1, <2>2, <2>7, MayDenyIs
  <2> QED BY <1>1, <2>8
<1> QED BY <1>1, <1>2, <1>3, <1>5, <1>6

\* Then it has nothing of its own, and the zone is the one it is in.
LEMMA AbsentInZone ==
    ASSUME NEW n \in Tree, NEW t, NEW z \in Cuts, z \in Above[n], n \notin Owners(z),
           \A c \in Cuts : c \in Above[n] => c \in Above[z]
    PROVE  /\ ZoneOf(n, t) = z /\ n \notin Something /\ n \notin Cuts /\ ~Has(n, t)
           /\ n \notin DOMAIN Alias
<1>1. n # z /\ n \notin Cuts
  <2>1. n # z
    BY OwnersAre
  <2>2. n \in Above[n] /\ (n \in Above[z] => n = z)
    BY NameFacts
  <2> QED BY <2>1, <2>2
<1>2. ASSUME NEW u PROVE ZoneOf(n, u) = z
  <2>1. z \in ZonesFor(n, u) /\ \A y \in ZonesFor(n, u) : y \in Above[z]
    BY <1>1, ZonesForAre
  <2> QED BY <2>1, ZoneOfIs
<1>3. n \notin Something
  BY <1>2, OwnersAre
<1>4. ~Has(n, t)
  <2>1. ASSUME Question(n, t) \in Held PROVE FALSE
    <3>1. Question(n, t).owner = n
      BY DEF Question
    <3> QED BY <2>1, <3>1, <1>3 DEF Something
  <2> QED BY <1>1, <2>1 DEF Has
<1> QED BY <1>1, <1>2, <1>3, <1>4, SomethingIs

\* A name that exists in a zone has an owner at or below it there.
LEMMA OwnerBelow ==
    ASSUME NEW n \in Tree, NEW z \in Cuts, z \in Above[n], Exists(n),
           \A c \in Cuts : c \in Above[n] /\ c # n => c \in Above[z]
    PROVE  \E p \in Owners(z) : n \in Above[p]
<1>1. PICK m \in Something : n \in Above[m]
  BY SomethingIs
<1>2. m \in Tree /\ z \in Above[m] /\ z \in Tree
  BY <1>1, SomethingIs, NameFacts
<1>3. CASE \E x \in Cuts : x \in Above[m] /\ z \in Above[x] /\ x # z
  <2>1. PICK c \in Cuts : c \in Above[m] /\ z \in Above[c] /\ c # z /\ ZoneOf(c, "DS") = z
    BY <1>2, <1>3, FirstCut
  <2>2. c \in Owners(z) /\ c \in Tree
    BY <2>1, OwnersAre, SomethingIs, SignedFacts
  <2>3. n \in Above[c] \/ c \in Above[n]
    BY <1>1, <1>2, <2>1, NameFacts
  <2>4. CASE c \in Above[n]
    <3>1. c = n
      BY <1>2, <2>1, <2>2, <2>4, NameFacts
    <3> QED BY <2>2, <3>1, NameFacts
  <2> QED BY <2>2, <2>3, <2>4
<1>4. CASE \A x \in Cuts : x \in Above[m] /\ z \in Above[x] => x = z
  <2>1. ASSUME m # z PROVE ZoneOf(m, "DS") = z
    <3>1. z \in ZonesFor(m, "DS")
      BY <1>2, <2>1, ZonesForAre
    <3>2. ASSUME NEW y \in ZonesFor(m, "DS") PROVE y \in Above[z]
      <4>1. y \in Cuts /\ y \in Above[m]
        BY <1>2, ZonesForAre
      <4>2. y \in Above[z] \/ z \in Above[y]
        BY <1>2, <4>1, NameFacts
      <4> QED BY <1>2, <1>4, <4>1, <4>2, NameFacts
    <3> QED BY <1>2, <3>1, <3>2, ZoneOfIs
  <2>2. m \in Owners(z)
    BY <2>1, OwnersAre
  <2> QED BY <1>1, <2>2
<1> QED BY <1>3, <1>4

\* The types a name has.
LEMMA HasIs ==
    /\ \A n : Has(n, "A") <=> Question(n, "A") \in Held
    /\ \A n : Has(n, "NS") <=> n \in Cuts
    /\ \A n : Has(n, "DS") <=> n \in Signed \ {Root}
    /\ \A n, t : Has(n, t) => Question(n, t) \in Held \/ n \in Cuts
  BY HeldFacts DEF Has

\* What is above a name that exists exists.
LEMMA ExistsFacts ==
    /\ \A n : n \in Something => Exists(n)
    /\ \A n \in Tree : \A m \in Above[n] : Exists(n) => Exists(m)
<1>1. ASSUME NEW n \in Something PROVE Exists(n)
  <2>1. n \in Tree /\ n \in Above[n]
    BY SomethingIs, NameFacts
  <2> QED BY <2>1, SomethingIs
<1>2. ASSUME NEW n \in Tree, NEW m \in Above[n], Exists(n) PROVE Exists(m)
  <2>1. PICK x \in Something : n \in Above[x]
    BY <1>2, SomethingIs
  <2>2. m \in Above[x]
    BY <2>1, SomethingIs, NameFacts
  <2> QED BY <2>1, <2>2, SomethingIs
<1> QED BY <1>1, <1>2

\* A name that is no zone cut is in one zone, whatever is asked of it.
LEMMA ZoneOfSame ==
    ASSUME NEW n \in Tree, n \notin Cuts, NEW t, NEW u
    PROVE  ZoneOf(n, t) = ZoneOf(n, u)
<1>1. ZonesFor(n, t) = ZonesFor(n, u)
  <2>1. \A x : x \in ZonesFor(n, t) <=> x \in ZonesFor(n, u)
    BY ZonesForAre
  <2>2. ZonesFor(n, t) \subseteq Cuts /\ ZonesFor(n, u) \subseteq Cuts
    BY ZonesAreAbove
  <2> QED BY <2>1, <2>2
<1> QED BY <1>1, Zenon DEF ZoneOf

\* A name without the type asked for.
LEMMA NoDataIs ==
    ASSUME NEW n, NEW t, Exists(n), n \notin DOMAIN Alias, ~Has(n, t)
    PROVE  TrueKind(n, t) = "nodata"
  BY DEF TrueKind, Expands

\* A record at the name, or one that shows it to be an empty non-terminal.
LEMMA NoDataSound ==
    ASSUME NEW z \in Signed, NEW D \in SUBSET Chain(z), NEW n \in Tree, NEW t \in RecordTypes,
           z \in ZonesFor(n, t), NoDataProved(D, n, t)
    PROVE  ZoneOf(n, t) = z /\ TrueKind(n, t) = "nodata"
<1>0. /\ z \in Cuts /\ z \in Tree /\ z \in Above[n] /\ n \in Above[n]
      /\ t = "DS" /\ n # Root => z # n
  BY ZonesForAre, SignedFacts, NameFacts
<1>1. ASSUME NEW s \in Matching(D, n, t), s.types \cap {t, "CNAME"} = {}
      PROVE  ZoneOf(n, t) = z /\ TrueKind(n, t) = "nodata"
  <2>1. s \in D /\ s.owner = n /\ (MayDeny(s, n) \/ t = "DS")
    BY DEF Matching, AtName
  <2>2. n \in Owners(z) /\ s.types = Types(z, n)
    BY <2>1, ChainIs
  <2>3. n \in Something /\ (n = z \/ ZoneOf(n, "DS") = z)
    BY <1>0, <2>2, OwnersAre
  <2>4. Exists(n)
    BY <2>3, ExistsFacts
  <2>5. t \notin Types(z, n) /\ "CNAME" \notin Types(z, n)
    BY <1>1, <2>2
  <2>6. ~(n \in Cuts \ {z}) \/ t = "DS"
    BY <1>0, <2>1, MayDenyIs
  <2>7. CASE n = z
    <3>1. ZoneOf(n, t) = z
      <4>1. \A y \in ZonesFor(n, t) : y \in Above[z]
        BY <2>7, ZonesForAre
      <4> QED BY <4>1, ZoneOfIs
    <3>2. n \notin DOMAIN Alias
      BY <1>0, <2>7, SignedFacts
    <3>3. ~Has(n, t)
      BY <1>0, <2>5, <2>7, TypesAre, HasIs DEF RecordTypes
    <3> QED BY <2>4, <3>1, <3>2, <3>3, NoDataIs
  <2>8. CASE n \in Cuts \ {z}
    <3>1. t = "DS" /\ ZoneOf(n, t) = z
      BY <2>3, <2>6, <2>8
    <3>2. n \notin DOMAIN Alias
      BY <2>8, SignedFacts
    <3>3. ~Has(n, t)
      BY <1>0, <2>5, <2>8, <3>1, TypesAre, HasIs
    <3> QED BY <2>4, <3>1, <3>2, <3>3, NoDataIs
  <2>9. CASE n \notin Cuts
    <3>1. ZoneOf(n, t) = z
      BY <1>0, <2>3, <2>9, ZoneOfSame
    <3>2. n \notin DOMAIN Alias
      BY <1>0, <2>5, <2>9, TypesAre
    <3>3. ~Has(n, t)
      BY <1>0, <2>5, <2>9, TypesAre, HasIs, SignedFacts DEF RecordTypes
    <3> QED BY <2>4, <3>1, <3>2, <3>3, NoDataIs
  <2> QED BY <2>7, <2>8, <2>9
<1>2. ASSUME NEW s \in Covering(D, n), StrictlyBelow(n, s.next)
      PROVE  ZoneOf(n, t) = z /\ TrueKind(n, t) = "nodata"
  <2>1. /\ n \notin Owners(z) /\ s \in D /\ s.owner \in Owners(z)
        /\ \A c \in Cuts : c \in Above[n] => c \in Above[z]
    BY <1>0, CoveredIsAbsent
  <2>2. s.next \in Owners(z)
    BY <1>0, <2>1, ChainIs, AfterIs
  <2>3. Exists(n)
    BY <1>0, <1>2, <2>2, OwnersAre DEF StrictlyBelow
  <2>4. ZoneOf(n, t) = z /\ ~Has(n, t) /\ n \notin DOMAIN Alias
    BY <1>0, <2>1, AbsentInZone
  <2> QED BY <2>3, <2>4, NoDataIs
<1> QED BY <1>1, <1>2 DEF NoDataProved, EmptyNonTerminal

\* The nearest name above one that exists ...
LEMMA NearestFacts ==
    ASSUME NEW n \in Tree
    PROVE  /\ Nearest(n) \in Above[n] /\ Nearest(n) \in Tree /\ Exists(Nearest(n))
           /\ \A m \in Above[n] : Exists(m) => m \in Above[Nearest(n)]
           /\ ~Exists(n) => Nearest(n) # n
<1> DEFINE S == {m \in Above[n] : Exists(m)}
<1>1. Root \in S /\ S \in SUBSET Above[n]
  BY NameFacts, SignedFacts, SomethingIs, ExistsFacts
<1>2. Lowest(S) \in S /\ \A y \in S : InBailiwick(y, Lowest(S))
  BY <1>1, LowestIsThere, Zenon
<1>3. Nearest(n) = Lowest(S)
  BY DEF Nearest
<1> HIDE DEF S
<1>4. Nearest(n) \in S /\ \A y \in S : y \in Above[Nearest(n)]
  BY <1>2, <1>3 DEF InBailiwick
<1> QED BY <1>4, NameFacts DEF S

\* ... is the only one.
LEMMA NearestIs ==
    ASSUME NEW n \in Tree, NEW e \in Above[n], Exists(e),
           \A m \in Above[n] : Exists(m) => m \in Above[e]
    PROVE  Nearest(n) = e
<1> DEFINE S == {m \in Above[n] : Exists(m)}
<1>1. S \in SUBSET Above[n] /\ e \in S
  OBVIOUS
<1>2. \A y \in S : InBailiwick(y, e)
  BY DEF InBailiwick
<1>3. Lowest(S) = e
  BY <1>1, <1>2, LowestIs, Zenon
<1> QED BY <1>3 DEF Nearest

\* The record that covers a name that does not exist shows the nearest that does.
LEMMA EncloserIsNearest ==
    ASSUME NEW z \in Signed, NEW D \in SUBSET Chain(z), NEW n \in Tree, z \in Above[n],
           NEW s \in Covering(D, n)
    PROVE  /\ Encloser(n, s) = Nearest(n)
           /\ z \in Above[Nearest(n)]
<1> DEFINE e == Nearest(n)
           o == s.owner
           x == s.next
<1>0. z \in Cuts /\ z \in Tree
  BY SignedFacts
<1>1. /\ n \notin Owners(z) /\ s \in D /\ o \in Owners(z) /\ Rank[o] < Rank[n]
      /\ \A c \in Cuts : c \in Above[n] => c \in Above[z]
      /\ \A p \in Owners(z) : Rank[p] <= Rank[o] \/ Rank[n] < Rank[p]
  BY CoveredIsAbsent
<1>2. /\ e \in Above[n] /\ e \in Tree /\ Exists(e)
      /\ \A m \in Above[n] : Exists(m) => m \in Above[e]
  BY NearestFacts
<1>3. x = After(z, o)
  BY <1>1, ChainIs
<1> HIDE DEF e, o, x
<1>4. /\ x \in Owners(z)
      /\ \A p \in Owners(z) : Rank[o] < Rank[p] => Rank[o] < Rank[x] /\ Rank[x] <= Rank[p]
  BY <1>0, <1>1, <1>3, AfterIs
<1>5. Exists(z) /\ z \in Above[e]
  BY <1>0, <1>2, SomethingIs, ExistsFacts
<1>6. \A c \in Cuts : c \in Above[e] /\ c # e => c \in Above[z]
  BY <1>1, <1>2, NameFacts
<1>7. PICK p \in Owners(z) : e \in Above[p]
  BY <1>0, <1>2, <1>5, <1>6, OwnerBelow
<1>8. o \in Tree /\ x \in Tree /\ p \in Tree
  BY <1>0, <1>1, <1>4, OwnersAre
<1>9. /\ Rank[o] \in Nat /\ Rank[x] \in Nat /\ Rank[p] \in Nat /\ Rank[e] \in Nat
      /\ Rank[n] \in Nat /\ Rank[e] <= Rank[n] /\ Rank[e] <= Rank[p]
  BY <1>2, <1>7, <1>8, RankFacts
<1>10. e \in Above[o] \cup Above[x]
  <2>1. CASE Rank[p] <= Rank[o]
    <3>1. Rank[e] <= Rank[o] /\ Rank[o] <= Rank[n]
      BY <1>1, <1>9, <2>1
    <3> QED BY <1>2, <1>8, <3>1, RankFacts
  <2>2. CASE Rank[n] < Rank[p]
    <3>1. Rank[o] < Rank[p]
      BY <1>1, <1>9, <2>2
    <3>2. Rank[o] < Rank[x] /\ Rank[x] <= Rank[p]
      BY <1>4, <1>7, <3>1
    <3>3. Rank[n] < Rank[x]
      BY <1>1, <1>4, <1>9, <3>2
    <3>4. Rank[e] <= Rank[x]
      BY <1>9, <3>3
    <3> QED BY <1>7, <1>8, <3>2, <3>4, RankFacts
  <2> QED BY <1>1, <1>7, <2>1, <2>2
<1> DEFINE T == Above[n] \cap (Above[o] \cup Above[x])
<1>11. T \in SUBSET Above[n] /\ e \in T
  BY <1>2, <1>10
<1>12. ASSUME NEW y \in T PROVE InBailiwick(y, e)
  <2>1. y \in Above[n] /\ Exists(y)
    BY <1>0, <1>1, <1>4, OwnersAre
  <2> QED BY <1>2, <2>1 DEF InBailiwick
<1>13. Lowest(T) = e
  BY <1>11, <1>12, LowestIs, Zenon
<1>14. Encloser(n, s) = Lowest(T)
  BY Zenon DEF Encloser, o, x
<1> QED BY <1>5, <1>13, <1>14 DEF e

\* The wildcard below a name is in the zone the name is in.
LEMMA StarOwner ==
    ASSUME NEW z \in Cuts, NEW e \in DOMAIN Star, z \in Above[e],
           \A c \in Cuts : c \in Above[e] => c \in Above[z]
    PROVE  Star[e] \in Owners(z) /\ \A t : ZoneOf(Star[e], t) = z
<1>1. /\ e \in Tree /\ Star[e] \in Tree /\ Star[e] \notin Cuts
      /\ Above[Star[e]] = Above[e] \cup {Star[e]}
      /\ Star[e] \in Something
  BY StarFacts, SomethingIs
<1>2. ASSUME NEW t PROVE ZoneOf(Star[e], t) = z
  <2>1. z \in ZonesFor(Star[e], t)
    BY <1>1, ZonesForAre
  <2>2. \A y \in ZonesFor(Star[e], t) : y \in Above[z]
    BY <1>1, ZonesForAre
  <2> QED BY <1>1, <2>1, <2>2, ZoneOfIs
<1> QED BY <1>1, <1>2, OwnersAre

\* Neither the name nor a wildcard that would stand in for it.
LEMMA NameErrorSound ==
    ASSUME NEW z \in Signed, NEW D \in SUBSET Chain(z), NEW n \in Tree, NEW t,
           z \in ZonesFor(n, t), NameErrorProved(D, n)
    PROVE  ZoneOf(n, t) = z /\ TrueKind(n, t) = "nxdomain"
<1>0. z \in Cuts /\ z \in Tree /\ z \in Above[n] /\ n \in Above[n]
  BY ZonesForAre, SignedFacts, NameFacts
<1>1. PICK s \in Covering(D, n) :
          ~StrictlyBelow(n, s.next) /\ CoveringStar(D, Encloser(n, s)) # {}
  BY DEF NameErrorProved
<1> DEFINE e == Nearest(n)
           o == s.owner
           x == s.next
<1>2. /\ n \notin Owners(z) /\ s \in D /\ o \in Owners(z) /\ Rank[o] < Rank[n]
      /\ \A c \in Cuts : c \in Above[n] => c \in Above[z]
      /\ \A p \in Owners(z) : Rank[p] <= Rank[o] \/ Rank[n] < Rank[p]
  BY <1>0, CoveredIsAbsent
<1>3. x = After(z, o)
  BY <1>2, ChainIs
<1>4. CoveringStar(D, e) # {} /\ z \in Above[e]
  BY <1>0, <1>1, EncloserIsNearest
<1>5. e \in Above[n] /\ e \in Tree
  BY NearestFacts
<1> HIDE DEF e, o, x
<1>6. /\ x \in Owners(z)
      /\ \A p \in Owners(z) : Rank[o] < Rank[p] => Rank[o] < Rank[x] /\ Rank[x] <= Rank[p]
  BY <1>0, <1>2, <1>3, AfterIs
<1>7. ~Exists(n)
  <2>1. SUFFICES ASSUME Exists(n) PROVE FALSE
    OBVIOUS
  <2>2. PICK p \in Owners(z) : n \in Above[p]
    BY <1>0, <1>2, <2>1, OwnerBelow
  <2>3. /\ p \in Tree /\ o \in Tree /\ x \in Tree /\ Rank[p] \in Nat /\ Rank[o] \in Nat
        /\ Rank[x] \in Nat /\ Rank[n] \in Nat /\ Rank[n] <= Rank[p]
    BY <1>0, <1>2, <1>6, <2>2, OwnersAre, RankFacts
  <2>4. Rank[o] < Rank[x] /\ Rank[x] <= Rank[p]
    BY <1>2, <1>6, <2>2, <2>3
  <2>5. Rank[n] <= Rank[x]
    BY <1>2, <1>6, <2>3, <2>4
  <2>6. n \in Above[x] /\ n # x
    BY <1>2, <1>6, <2>2, <2>3, <2>4, <2>5, RankFacts
  <2> QED BY <1>1, <2>6 DEF StrictlyBelow, x
<1>8. e \notin DOMAIN Star
  <2>1. SUFFICES ASSUME e \in DOMAIN Star PROVE FALSE
    OBVIOUS
  <2>2. PICK q \in D : Spans(q, Rank[e] + 1)
    BY <1>4 DEF CoveringStar
  <2>3. \A c \in Cuts : c \in Above[e] => c \in Above[z]
    BY <1>2, <1>5, NameFacts
  <2>4. Star[e] \in Owners(z) /\ Rank[Star[e]] = Rank[e] + 1
    BY <1>0, <1>4, <2>1, <2>3, StarOwner, StarFacts
  <2>5. Rank[e] \in Nat /\ Rank[z] \in Nat /\ Rank[z] <= Rank[e]
    BY <1>0, <1>4, <1>5, RankFacts
  <2>6. q.owner \in Owners(z) /\ q = Nsec(z, q.owner) /\ Rank[q.owner] \in Nat
    BY <1>0, ChainIs, OwnersAre
  <2> DEFINE place == Rank[e] + 1
  <2>7. place \in Nat /\ Rank[z] <= place
    BY <2>5
  <2>8. Spans(Nsec(z, q.owner), place)
    BY <2>2, <2>6
  <2> HIDE DEF place
  <2>9. /\ Rank[q.owner] < place
        /\ \A p \in Owners(z) : Rank[p] <= Rank[q.owner] \/ place < Rank[p]
    BY <1>0, <2>6, <2>7, <2>8, SpansMeans
  <2>10. Rank[Star[e]] = place
    BY <2>4 DEF place
  <2> QED BY <2>4, <2>6, <2>7, <2>9, <2>10
<1>9. ZoneOf(n, t) = z /\ ~Has(n, t) /\ n \notin DOMAIN Alias
  BY <1>0, <1>2, AbsentInZone
<1> QED BY <1>7, <1>8, <1>9 DEF TrueKind, Expands, e

\* What is above the next name down is above the name before it.
LEMMA NextLabelIs ==
    ASSUME NEW n \in Tree, NEW e \in Above[n], e # n
    PROVE  /\ NextLabel(e, n) \in Above[n] /\ NextLabel(e, n) \in Tree
           /\ e # NextLabel(e, n) /\ e \in Above[NextLabel(e, n)]
           /\ \A m \in Above[n] :
                 m \in Above[NextLabel(e, n)] => m = NextLabel(e, n) \/ m \in Above[e]
<1> DEFINE S == {m \in Above[n] : StrictlyBelow(e, m)}
           l == Highest(S)
<1>1. S \in SUBSET Above[n] /\ n \in S
  BY NameFacts DEF StrictlyBelow
<1>2. l \in S /\ \A y \in S : InBailiwick(l, y)
  BY <1>1, HighestIsThere, Zenon
<1>3. NextLabel(e, n) = l
  BY DEF NextLabel
<1> HIDE DEF l
<1>4. /\ l \in Above[n] /\ l \in Tree /\ e # l /\ e \in Above[l]
      /\ \A y \in Above[n] : e # y /\ e \in Above[y] => l \in Above[y]
  BY <1>2, NameFacts DEF StrictlyBelow, InBailiwick
<1>5. ASSUME NEW m \in Above[n], m \in Above[l], m # l PROVE m \in Above[e]
  <2>1. m \in Tree /\ (m \in Above[e] \/ e \in Above[m])
    BY NameFacts
  <2>2. ASSUME e \in Above[m], e # m PROVE FALSE
    BY <1>4, <1>5, <2>1, <2>2, NameFacts
  <2>3. e \in Above[e]
    BY NameFacts
  <2> QED BY <2>1, <2>2, <2>3
<1> QED BY <1>3, <1>4, <1>5

\* The name next below the wildcard's place is shown to have no records: it does
\* not exist and the wildcard stands in for the name, or a name below it does.
LEMMA ExpansionSound ==
    ASSUME NEW z \in Signed, NEW D \in SUBSET Chain(z), NEW n \in Tree, NEW t,
           NEW e \in DOMAIN Star, StrictlyBelow(e, n), Has(Star[e], t),
           ZoneOf(Star[e], t) = z, ExpansionProved(D, n, e)
    PROVE  /\ NextLabel(e, n) \notin Owners(z)
           /\ ~Exists(NextLabel(e, n)) =>
                /\ ZoneOf(n, t) = z /\ TrueKind(n, t) = "data" /\ Source(n) = e
                /\ n \notin Wildcards
<1> DEFINE l == NextLabel(e, n)
<1>1. /\ e \in Tree /\ Star[e] \in Tree /\ Star[e] \notin Cuts
      /\ Above[Star[e]] = Above[e] \cup {Star[e]}
      /\ Star[e] \in Something
  BY StarFacts, SomethingIs
<1>2. e \in Above[n] /\ e # n
  BY DEF StrictlyBelow
<1>3. /\ l \in Above[n] /\ l \in Tree /\ e # l /\ e \in Above[l]
      /\ \A m \in Above[n] : m \in Above[l] => m = l \/ m \in Above[e]
  BY <1>2, NextLabelIs
<1>4. z \in Cuts /\ z \in Tree /\ z \in Above[e]
  <2>1. z \in ZonesFor(Star[e], t)
    BY <1>1, ZoneOfFacts
  <2> QED BY <1>1, <2>1, ZonesForAre, SignedFacts
<1>5. z \in Above[l] /\ z \in Above[n]
  BY <1>3, <1>4, NameFacts
<1>6. PICK s : s \in Covering(D, l)
  BY DEF ExpansionProved
<1> HIDE DEF l
<1>7. l \notin Owners(z) /\ \A c \in Cuts : c \in Above[l] => c \in Above[z]
  BY <1>3, <1>5, <1>6, CoveredIsAbsent
<1>8. ASSUME ~Exists(l)
      PROVE  ZoneOf(n, t) = z /\ TrueKind(n, t) = "data" /\ Source(n) = e /\ n \notin Wildcards
  <2>1. ASSUME NEW m \in Above[n], Exists(m) PROVE m \in Above[e] /\ m # n
    <3>1. m \in Tree /\ n \in Above[n] /\ (m \in Above[l] \/ l \in Above[m])
      BY <1>3, NameFacts
    <3>2. ~(l \in Above[m]) /\ m # n /\ m # l
      BY <1>3, <1>8, <2>1, <3>1, ExistsFacts
    <3> QED BY <1>3, <3>1, <3>2
  <2>2. ~Exists(n)
    BY <2>1, NameFacts
  <2>3. Exists(e)
    BY <1>1, ExistsFacts, NameFacts
  <2>4. Nearest(n) = e
    BY <1>2, <2>1, <2>3, NearestIs
  <2>5. Expands(n)
    BY <2>2, <2>4 DEF Expands
  <2>6. n \notin DOMAIN Alias /\ n \notin Cuts /\ n \notin Wildcards
    BY <2>2, ExistsFacts, SomethingIs, StarFacts DEF Wildcards
  <2>7. TrueKind(n, t) = "data" /\ Source(n) = e
    BY <2>4, <2>5, <2>6 DEF TrueKind, Source
  <2>8. \A c \in Cuts : c \in Above[n] => c \in Above[z]
    <3>1. ASSUME NEW c \in Cuts, c \in Above[n] PROVE c \in Above[z]
      <4>1. c \in Above[e]
        BY <2>1, <3>1, SomethingIs, ExistsFacts
      <4>2. c \in Above[l]
        BY <1>3, <4>1, NameFacts
      <4> QED BY <1>7, <4>2
    <3> QED BY <3>1
  <2>9. ZoneOf(n, t) = z
    <3>1. n # z
      BY <1>4, <2>6
    <3>2. z \in ZonesFor(n, t)
      BY <1>4, <1>5, <3>1, ZonesForAre
    <3>3. \A y \in ZonesFor(n, t) : y \in Above[z]
      BY <2>8, ZonesForAre
    <3> QED BY <3>2, <3>3, ZoneOfIs
  <2> QED BY <2>6, <2>7, <2>9
<1> QED BY <1>7, <1>8 DEF l

\* A delegation without a DS at the name itself.
LEMMA NoDSSound ==
    ASSUME NEW z \in Signed, NEW D \in SUBSET Chain(z), NEW n, NEW b,
           DSDenial(D, n, b) = "insecure"
    PROVE  n \in Cuts \ Signed
<1> DEFINE at == {s \in AtName(D, n) : "SOA" \notin s.types}
<1>1. PICK s \in at : "NS" \in s.types /\ "DS" \notin s.types
  BY DEF DSDenial
<1>2. s \in D /\ s.owner = n /\ "SOA" \notin s.types
  BY DEF AtName
<1>3. n \in Owners(z) /\ s.types = Types(z, n) /\ z \in Cuts
  BY <1>2, ChainIs, SignedFacts
<1>4. n \in Tree
  BY <1>3, OwnersAre
<1> QED BY <1>1, <1>2, <1>3, <1>4, TypesAre
-----------------------------------------------------------------------------
(* What all the records of a zone prove *)

\* All the records of a zone are one for each owner.
LEMMA InChain ==
    ASSUME NEW z \in Signed
    PROVE  /\ \A o \in Owners(z) : Nsec(z, o) \in Chain(z) /\ Nsec(z, o).owner = o
           /\ \A s \in Chain(z) : s.owner \in Owners(z)
<1>1. \A o \in Owners(z) : Nsec(z, o) \in Chain(z) /\ Nsec(z, o).owner = o
  BY Zenon DEF Chain, Nsec
<1> QED BY <1>1, ChainIs

\* None is of a name the zone has nothing at.
LEMMA NoneAtName ==
    ASSUME NEW z \in Signed, NEW n, n \notin Owners(z), NEW t
    PROVE  AtName(Chain(z), n) = {} /\ Matching(Chain(z), n, t) = {}
<1>1. AtName(Chain(z), n) = {}
  BY InChain DEF AtName
<1> QED BY <1>1 DEF Matching

\* Something covers a name that is in the zone and has nothing there.
LEMMA SomethingCovers ==
    ASSUME NEW z \in Signed, NEW n \in Tree, z \in Above[n], n \notin Owners(z),
           \A c \in Cuts : c \in Above[n] /\ c # n => c \in Above[z]
    PROVE  \E s : s \in Covering(Chain(z), n)
<1>0. z \in Cuts /\ z \in Tree /\ z \in Owners(z)
  BY SignedFacts, OwnersAre
<1>1. Rank[n] \in Nat /\ Rank[z] < Rank[n]
  BY <1>0, RankFacts
<1>2. \A p \in Owners(z) : Rank[p] # Rank[n]
  BY <1>0, OwnersAre, RankFacts
<1>3. PICK o \in Owners(z) : Spans(Nsec(z, o), Rank[n])
  BY <1>0, <1>1, <1>2, SomethingSpans
<1>4. Nsec(z, o) \in Chain(z) /\ Nsec(z, o).owner = o
  BY InChain
<1>5. ~(o \in Cuts \ {z} /\ o \in Above[n])
  BY <1>0, OwnersAre, NameFacts
<1>6. MayDeny(Nsec(z, o), n)
  BY <1>4, <1>5, MayDenyIs
<1> QED BY <1>3, <1>4, <1>6 DEF Covering

\* The zone of a question is below every other on the way to it.
LEMMA ZoneOfMeans ==
    ASSUME NEW n \in Tree, NEW t, NEW z, ZoneOf(n, t) = z
    PROVE  /\ z \in Cuts /\ z \in Above[n] /\ (t = "DS" /\ n # Root => z # n)
           /\ \A c \in Cuts : c \in Above[n] /\ c # n => c \in Above[z]
           /\ \A c \in Cuts : c \in Above[n] /\ t # "DS" => c \in Above[z]
<1>1. z \in ZonesFor(n, t) /\ \A y \in ZonesFor(n, t) : y \in Above[z]
  BY ZoneOfFacts
<1> QED BY <1>1, ZonesForAre

\* They prove the absence of a type at a name that exists ...
LEMMA NoDataComplete ==
    ASSUME NEW z \in Signed, NEW n \in Tree, NEW t \in RecordTypes, ZoneOf(n, t) = z,
           TrueKind(n, t) = "nodata", ~Expands(n)
    PROVE  NoDataProved(Chain(z), n, t)
<1> DEFINE D == Chain(z)
<1>1. n \notin DOMAIN Alias /\ ~Has(n, t) /\ Exists(n)
  BY DEF TrueKind
<1>2. /\ z \in Cuts /\ z \in Tree /\ z \in Above[n]
      /\ \A c \in Cuts : c \in Above[n] /\ c # n => c \in Above[z]
      /\ \A c \in Cuts : c \in Above[n] /\ t # "DS" => c \in Above[z]
  BY ZoneOfMeans, SignedFacts
<1>3. CASE n \in Owners(z)
  <2>1. n \in Cuts \ {z} => t = "DS" /\ n # Root
    BY <1>2, NameFacts
  <2>2. t \notin Types(z, n) /\ "CNAME" \notin Types(z, n)
    <3>1. CASE n = z
      BY <1>1, <1>2, <3>1, TypesAre, HasIs DEF RecordTypes
    <3>2. CASE n \in Cuts \ {z}
      BY <1>1, <1>2, <2>1, <3>2, TypesAre, HasIs
    <3>3. CASE n \notin Cuts
      BY <1>1, <1>2, <3>3, TypesAre, HasIs, SignedFacts DEF RecordTypes
    <3> QED BY <3>1, <3>2, <3>3
  <2>3. Nsec(z, n) \in D /\ Nsec(z, n).owner = n
    BY <1>3, InChain
  <2>4. Nsec(z, n) \in Matching(D, n, t)
    BY <2>1, <2>3, MayDenyIs DEF Matching, AtName
  <2>5. ASSUME NEW s \in Matching(D, n, t) PROVE s.types \cap {t, "CNAME"} = {}
    <3>1. s \in D /\ s.owner = n
      BY DEF Matching, AtName
    <3>2. s.types = Types(z, n)
      BY <3>1, ChainIs
    <3> QED BY <2>2, <3>2
  <2> QED BY <2>4, <2>5 DEF NoDataProved
<1>4. CASE n \notin Owners(z)
  <2>1. AtName(D, n) = {} /\ Matching(D, n, t) = {}
    BY <1>4, NoneAtName
  <2>2. PICK s : s \in Covering(D, n)
    BY <1>2, <1>4, SomethingCovers
  <2>3. /\ s \in D /\ s.owner \in Owners(z) /\ Rank[s.owner] < Rank[n]
        /\ \A p \in Owners(z) : Rank[p] <= Rank[s.owner] \/ Rank[n] < Rank[p]
    BY <1>2, <2>2, CoveredIsAbsent
  <2>4. PICK p \in Owners(z) : n \in Above[p]
    BY <1>1, <1>2, OwnerBelow
  <2> DEFINE o == s.owner
             x == s.next
  <2>5. x = After(z, o)
    BY <2>3, ChainIs
  <2> HIDE DEF o, x
  <2>6. /\ x \in Owners(z)
        /\ \A y \in Owners(z) : Rank[o] < Rank[y] => Rank[o] < Rank[x] /\ Rank[x] <= Rank[y]
    BY <1>2, <2>3, <2>5, AfterIs DEF o
  <2>7. /\ p \in Tree /\ x \in Tree /\ Rank[p] \in Nat /\ Rank[o] \in Nat
        /\ Rank[x] \in Nat /\ Rank[n] \in Nat /\ Rank[n] <= Rank[p]
    BY <1>2, <2>3, <2>4, <2>6, OwnersAre, RankFacts DEF o
  <2>8. Rank[o] < Rank[n]
    BY <2>3 DEF o
  <2>9. Rank[o] < Rank[x] /\ Rank[x] <= Rank[p]
    BY <2>4, <2>6, <2>7, <2>8
  <2>10. Rank[n] <= Rank[x]
    BY <2>3, <2>6, <2>7, <2>9 DEF o
  <2>11. n \in Above[x] /\ n # x
    BY <1>4, <2>4, <2>6, <2>7, <2>9, <2>10, RankFacts
  <2>12. StrictlyBelow(n, s.next)
    BY <2>11 DEF StrictlyBelow, x
  <2> QED BY <2>1, <2>2, <2>12 DEF NoDataProved, EmptyNonTerminal
<1> QED BY <1>3, <1>4

\* ... of a name, and of a wildcard for it ...
LEMMA NameErrorComplete ==
    ASSUME NEW z \in Signed, NEW n \in Tree, NEW t, ZoneOf(n, t) = z,
           TrueKind(n, t) = "nxdomain"
    PROVE  NameErrorProved(Chain(z), n)
<1> DEFINE D == Chain(z)
           e == Nearest(n)
<1>1. ~Exists(n) /\ e \notin DOMAIN Star
  BY DEF TrueKind, Expands
<1>2. /\ z \in Cuts /\ z \in Tree /\ z \in Above[n] /\ n \in Above[n]
      /\ \A c \in Cuts : c \in Above[n] /\ c # n => c \in Above[z]
  BY ZoneOfMeans, SignedFacts, NameFacts
<1>3. n \notin Owners(z)
  BY <1>1, <1>2, OwnersAre
<1>4. AtName(D, n) = {}
  BY <1>3, NoneAtName
<1>5. PICK s : s \in Covering(D, n)
  BY <1>2, <1>3, SomethingCovers
<1>6. Encloser(n, s) = e /\ z \in Above[e]
  BY <1>2, <1>5, EncloserIsNearest
<1>7. e \in Above[n] /\ e \in Tree /\ e # n
  BY <1>1, NearestFacts
<1> HIDE DEF e
<1>8. ~StrictlyBelow(n, s.next)
  <2>1. s \in D /\ s.owner \in Owners(z)
    BY <1>2, <1>5, CoveredIsAbsent
  <2>2. s.next \in Owners(z)
    BY <1>2, <2>1, ChainIs, AfterIs
  <2> QED BY <1>1, <1>2, <2>2, OwnersAre DEF StrictlyBelow
<1>9. ASSUME NEW p \in Owners(z) PROVE Rank[p] # Rank[e] + 1
  BY <1>1, <1>2, <1>7, OwnersAre, StarFacts
<1>10. AtStar(D, e) = {}
  BY <1>9, InChain DEF AtStar
<1>11. CoveringStar(D, e) # {}
  <2> DEFINE place == Rank[e] + 1
  <2>1. Rank[e] \in Nat /\ Rank[z] \in Nat /\ Rank[z] <= Rank[e]
    BY <1>2, <1>6, <1>7, RankFacts
  <2>2. place \in Nat /\ Rank[z] < place
    BY <2>1
  <2>3. \A p \in Owners(z) : Rank[p] # place
    BY <1>9
  <2> HIDE DEF place
  <2>4. PICK o \in Owners(z) : Spans(Nsec(z, o), place)
    BY <1>2, <2>2, <2>3, SomethingSpans
  <2>5. Nsec(z, o) \in D /\ Nsec(z, o).owner = o
    BY InChain
  <2>6. o \in Above[e] => o \in Above[n] /\ o # n
    BY <1>2, <1>3, <1>7, NameFacts
  <2>7. ~(o \in Cuts \ {z} /\ o \in Above[e])
    BY <1>2, <2>6, OwnersAre, NameFacts
  <2>8. MayDeny(Nsec(z, o), e)
    BY <2>5, <2>7, MayDenyIs
  <2> QED BY <2>4, <2>5, <2>8 DEF CoveringStar, place
<1> QED BY <1>4, <1>5, <1>6, <1>8, <1>10, <1>11 DEF NameErrorProved

\* ... and of a name closer than the wildcard that stands in for it.
LEMMA ExpansionComplete ==
    ASSUME NEW z \in Signed, NEW n \in Tree, NEW t, ZoneOf(n, t) = z, Expands(n)
    PROVE  ExpansionProved(Chain(z), n, Nearest(n))
<1> DEFINE e == Nearest(n)
           l == NextLabel(e, n)
<1>1. ~Exists(n)
  BY DEF Expands
<1>2. /\ z \in Cuts /\ z \in Tree /\ z \in Above[n] /\ n \in Above[n]
      /\ \A c \in Cuts : c \in Above[n] /\ c # n => c \in Above[z]
  BY ZoneOfMeans, SignedFacts, NameFacts
<1>3. /\ e \in Above[n] /\ e \in Tree /\ e # n
      /\ \A m \in Above[n] : Exists(m) => m \in Above[e]
  BY <1>1, NearestFacts
<1> HIDE DEF e
<1>4. l \in Above[n] /\ l \in Tree /\ e # l /\ e \in Above[l]
  BY <1>3, NextLabelIs
<1> HIDE DEF l
<1>5. ~Exists(l)
  BY <1>3, <1>4, NameFacts
<1>6. z \in Above[l]
  <2>1. Exists(z)
    BY <1>2, SomethingIs, ExistsFacts
  <2>2. z \in Above[e]
    BY <1>2, <1>3, <2>1
  <2> QED BY <1>4, <2>2, NameFacts
<1>7. l \notin Owners(z)
  BY <1>2, <1>4, <1>5, NameFacts, OwnersAre
<1>8. \A c \in Cuts : c \in Above[l] /\ c # l => c \in Above[z]
  <2>1. ASSUME NEW c \in Cuts, c \in Above[l] PROVE c \in Above[z]
    <3>1. c \in Above[n] /\ Exists(c)
      BY <1>4, <2>1, NameFacts, SomethingIs, ExistsFacts
    <3>2. c # n
      BY <1>1, <3>1
    <3> QED BY <1>2, <3>1, <3>2
  <2> QED BY <2>1
<1>9. AtName(Chain(z), l) = {}
  BY <1>7, NoneAtName
<1>10. \E s : s \in Covering(Chain(z), l)
  BY <1>4, <1>6, <1>7, <1>8, SomethingCovers
<1> QED BY <1>9, <1>10 DEF ExpansionProved, e, l

\* True records never contradict that there is no DS ...
LEMMA NoDSConsistent ==
    ASSUME NEW z \in Signed, NEW D \in SUBSET Chain(z), NEW n \in Tree, n \notin Signed,
           NEW b, b => ~Exists(n)
    PROVE  DSDenial(D, n, b) # "contradicted"
<1> DEFINE at == {s \in AtName(D, n) : "SOA" \notin s.types}
<1>1. ASSUME NEW s \in at
      PROVE  /\ "DS" \notin s.types
             /\ "NS" \in s.types => ~b
  <2>1. s \in D /\ s.owner = n
    BY DEF AtName
  <2>2. n \in Owners(z) /\ s.types = Types(z, n) /\ z \in Cuts
    BY <2>1, ChainIs, SignedFacts
  <2>3. Exists(n)
    BY <2>2, NameFacts, OwnersAre
  <2>4. "DS" \notin Types(z, n)
    BY <2>2, TypesAre
  <2> QED BY <2>2, <2>3, <2>4
<1> QED BY <1>1 DEF DSDenial

\* ... and say so of a delegation.
LEMMA NoDSComplete ==
    ASSUME NEW z \in Signed, NEW n \in Cuts, n \notin Signed, ZoneOf(n, "DS") = z
    PROVE  DSDenial(Chain(z), n, FALSE) = "insecure"
<1> DEFINE D == Chain(z)
           at == {s \in AtName(D, n) : "SOA" \notin s.types}
<1>1. n \in Tree /\ n # z /\ z \in Cuts
  BY SignedFacts
<1>2. n \in Owners(z)
  BY <1>1, OwnersAre, SomethingIs
<1>3. Nsec(z, n) \in D /\ Nsec(z, n).owner = n
  BY <1>2, InChain
<1>4. Nsec(z, n).types = Types(z, n)
  BY DEF Nsec
<1>5. "NS" \in Types(z, n) /\ "SOA" \notin Types(z, n) /\ "DS" \notin Types(z, n)
  BY <1>1, TypesAre
<1>6. Nsec(z, n) \in at /\ "NS" \in Nsec(z, n).types
  BY <1>3, <1>4, <1>5 DEF AtName
<1>7. ASSUME NEW s \in at PROVE "DS" \notin s.types
  <2>1. s \in D /\ s.owner = n
    BY DEF AtName
  <2>2. s.types = Types(z, n)
    BY <2>1, ChainIs
  <2> QED BY <1>5, <2>2
<1> QED BY <1>6, <1>7 DEF DSDenial
-----------------------------------------------------------------------------
(* What lookups bring *)

OfZone(D, z) == {s \in D : s.zone = z}

\* Of the records a lookup brings, those a zone signed are the zone's.
LEMMA DenialsAre ==
    ASSUME NEW n, NEW t, NEW D \in DenialsFor(n, t), NEW z \in Signed
    PROVE  OfZone(D, z) \in SUBSET Chain(z)
<1>1. ASSUME NEW s \in D PROVE \E y \in Signed : s \in Chain(y)
  <2>1. CASE D = Chain(ZoneOf(n, t))
    BY <1>1, <2>1 DEF Chain
  <2>2. CASE D \in SomeDenials
    <3>1. s \in Denials
      BY <1>1, <2>2 DEF SomeDenials, kSubset
    <3>2. PICK y \in Cuts : s \in Chain(y)
      BY <3>1 DEF Denials
    <3> QED BY <3>2 DEF Chain
  <2> QED BY <2>1, <2>2 DEF DenialsFor
<1>2. ASSUME NEW s \in D, s.zone = z PROVE s \in Chain(z)
  <2>1. PICK y \in Signed : s \in Chain(y)
    BY <1>1
  <2>2. s.zone = y
    BY <2>1, ChainIs
  <2> QED BY <1>2, <2>1, <2>2
<1> QED BY <1>2 DEF OfZone

\* All of them, when the answer is full.
LEMMA AllOfZone ==
    ASSUME NEW z \in Signed
    PROVE  OfZone(Chain(z), z) = Chain(z)
  BY ChainIs DEF OfZone
-----------------------------------------------------------------------------
(* The walk down *)

WalkRecord ==
    [pc : {"idle", "hop", "keys", "descend", "ds", "answer"}, name : Tree,
     type : RecordTypes, visited : SUBSET Tree, path : Seq(Signed),
     keys : SUBSET (Cuts \cup {Attacker}), left : SUBSET Tree, child : Tree,
     vouched : SUBSET (Cuts \cup {Attacker})]

ZoneAt(w) == w.path[Len(w.path)]
OnTheWay(w) == Candidates(Anchor(w.name), w.name, w.type)

\* In a zone, and on the way into one below it.
InZone(w) == w.pc \in {"descend", "ds", "answer"} \/ (w.pc = "keys" /\ w.path # <<>>)
Crossing(w) == w.pc \in {"ds", "keys"}

\* A walk stands in a signed zone between the anchor and its name, whose key alone
\* it trusts; what is left to try is below it, and so is a zone it crosses into.
GoodWalk(w) ==
    /\ w.pc \notin {"idle", "hop"} => AnchorsOf(w.name) # {}
    /\ w.pc = "keys" => w.vouched = {w.child} /\ w.child \in Signed
    /\ w.pc = "keys" /\ w.path = <<>> => w.child = Anchor(w.name)
    /\ w.pc = "answer" => w.left = {}
    /\ InZone(w) =>
        /\ w.path # <<>> /\ w.keys = {ZoneAt(w)}
        /\ ZoneAt(w) = Anchor(w.name) \/ ZoneAt(w) \in OnTheWay(w)
        /\ \A m \in w.left : m \in OnTheWay(w) /\ StrictlyBelow(ZoneAt(w), m)
        /\ Crossing(w) => /\ w.child \in OnTheWay(w) /\ StrictlyBelow(ZoneAt(w), w.child)
                          /\ \A m \in w.left : StrictlyBelow(w.child, m)

\* No zone on the way has been passed over.
Complete(w) ==
    InZone(w) =>
        \A z \in ZonesFor(w.name, w.type) :
            StrictlyBelow(ZoneAt(w), z) => z \in w.left \/ (Crossing(w) /\ z = w.child)

GoodProof(p) == p.path \in Seq(Signed) /\ p.path # <<>> /\ p.keys = {p.path[Len(p.path)]}

\* A walk starts from the lowest anchor above the name.
LEMMA AnchorFacts ==
    ASSUME NEW n \in Tree, AnchorsOf(n) # {}
    PROVE  /\ Anchor(n) \in Anchors /\ Anchor(n) \in Signed /\ Anchor(n) \in Tree
           /\ Anchor(n) \in Above[n]
           /\ \A a \in Anchors : a \in Above[n] => a \in Above[Anchor(n)]
<1> DEFINE S == AnchorsOf(n)
<1>1. S \in SUBSET Above[n] /\ S # {}
  BY DEF AnchorsOf, InBailiwick
<1>2. Lowest(S) \in S /\ \A y \in S : InBailiwick(y, Lowest(S))
  BY <1>1, LowestIsThere, Zenon
<1>3. Anchor(n) = Lowest(S)
  BY DEF Anchor
<1>4. Anchor(n) \in Anchors /\ Anchor(n) \in Above[n]
  BY <1>2, <1>3 DEF AnchorsOf, InBailiwick
<1>5. \A a \in Anchors : a \in Above[n] => a \in Above[Anchor(n)]
  BY <1>2, <1>3 DEF AnchorsOf, InBailiwick
<1> QED BY <1>4, <1>5, SignedFacts

\* The way to a name is above it; for a DS it stops short of the name.
LEMMA OnTheWayFacts ==
    ASSUME NEW w, w.name \in Tree
    PROVE  /\ OnTheWay(w) \subseteq Above[w.name] /\ OnTheWay(w) \subseteq Tree
           /\ \A m \in OnTheWay(w) : w.type = "DS" /\ w.name # Root => m # w.name
  BY NameFacts DEF OnTheWay, Candidates

\* Where a walk stands.
LEMMA ZoneFacts ==
    ASSUME NEW w \in WalkRecord, GoodWalk(w), InZone(w)
    PROVE  /\ ZoneAt(w) \in Signed /\ ZoneAt(w) \in Above[w.name] /\ w.keys = {ZoneAt(w)}
           /\ ZoneAt(w) \in ZonesFor(w.name, w.type)
              \/ (w.type = "DS" /\ w.name \in Anchors \ {Root})
           /\ w.name \in Tree /\ w.type \in RecordTypes /\ w.path \in Seq(Signed)
<1>1. /\ w.name \in Tree /\ w.type \in RecordTypes /\ w.path \in Seq(Signed)
      /\ w.pc \in {"idle", "hop", "keys", "descend", "ds", "answer"}
  BY DEF WalkRecord
<1>2. /\ w.path # <<>> /\ w.keys = {ZoneAt(w)} /\ AnchorsOf(w.name) # {}
      /\ ZoneAt(w) = Anchor(w.name) \/ ZoneAt(w) \in OnTheWay(w)
  BY <1>1 DEF GoodWalk, InZone
<1>3. ZoneAt(w) \in Signed
  BY <1>1, <1>2 DEF ZoneAt
<1>4. ZoneAt(w) \in Above[w.name]
  BY <1>1, <1>2, AnchorFacts, OnTheWayFacts
<1>5. ASSUME ZoneAt(w) \notin ZonesFor(w.name, w.type)
      PROVE  w.type = "DS" /\ w.name \in Anchors \ {Root}
  <2>1. w.type = "DS" /\ w.name # Root /\ ZoneAt(w) = w.name
    BY <1>1, <1>3, <1>4, <1>5, ZonesForAre, SignedFacts
  <2>2. ZoneAt(w) \notin OnTheWay(w)
    BY <1>1, <2>1, OnTheWayFacts
  <2> QED BY <1>1, <1>2, <2>1, <2>2, AnchorFacts
<1> QED BY <1>1, <1>2, <1>3, <1>4, <1>5

\* Between two hops a walk stands nowhere.
LEMMA OutsideIsGood ==
    ASSUME NEW w \in WalkRecord, w.pc \in {"idle", "hop"}
    PROVE  GoodWalk(w) /\ Complete(w)
  BY DEF GoodWalk, Complete, InZone

\* Nor before the first.
LEMMA NoWalkIsGood ==
    /\ NoWalk \in WalkRecord /\ NoWalk.pc = "idle"
    /\ GoodWalk(NoWalk) /\ Complete(NoWalk)
<1>1. Root \in Tree
  BY SignedFacts
<1>2. <<>> \in Seq(Signed)
  OBVIOUS
<1>3. NoWalk \in WalkRecord /\ NoWalk.pc = "idle"
  BY <1>1, <1>2 DEF NoWalk, WalkRecord, RecordTypes
<1> QED BY <1>3, OutsideIsGood

\* The anchor's keys are asked for ...
LEMMA AnchorAsked ==
    ASSUME NEW w \in WalkRecord, AnchorsOf(w.name) # {}
    PROVE  LET v == [w EXCEPT !.pc = "keys", !.path = <<>>, !.child = Anchor(w.name),
                              !.vouched = {Anchor(w.name)}]
           IN v \in WalkRecord /\ GoodWalk(v) /\ Complete(v)
<1> DEFINE a == Anchor(w.name)
           v == [w EXCEPT !.pc = "keys", !.path = <<>>, !.child = a, !.vouched = {a}]
<1>1. w.name \in Tree
  BY DEF WalkRecord
<1>2. a \in Signed /\ a \in Tree /\ a \in Cuts
  BY <1>1, AnchorFacts, SignedFacts
<1>3. <<>> \in Seq(Signed)
  OBVIOUS
<1> HIDE DEF a
<1>4. v \in WalkRecord
  BY <1>2, <1>3 DEF WalkRecord
<1>5. v.pc = "keys" /\ v.path = <<>> /\ v.child = a /\ v.vouched = {a} /\ v.name = w.name
  BY DEF WalkRecord
<1> HIDE DEF v
<1>6. GoodWalk(v) /\ Complete(v)
  BY <1>2, <1>5 DEF GoodWalk, Complete, InZone, a
<1> QED BY <1>4, <1>6 DEF v, a

\* ... and vouched for: the way to the name starts.
LEMMA AnchorEntered ==
    ASSUME NEW w \in WalkRecord, AnchorsOf(w.name) # {}, NEW a, a = Anchor(w.name)
    PROVE  LET v == [w EXCEPT !.pc = "descend", !.path = <<a>>, !.keys = {a},
                              !.left = Candidates(a, w.name, w.type)]
           IN v \in WalkRecord /\ GoodWalk(v) /\ Complete(v)
<1> DEFINE l == Candidates(a, w.name, w.type)
           v == [w EXCEPT !.pc = "descend", !.path = <<a>>, !.keys = {a}, !.left = l]
<1>1. w.name \in Tree
  BY DEF WalkRecord
<1>2. a \in Signed /\ a \in Tree /\ a \in Cuts
  BY <1>1, AnchorFacts, SignedFacts
<1>3. l = OnTheWay(w) /\ l \subseteq Tree
  BY <1>1, OnTheWayFacts DEF OnTheWay
<1>4. \A m \in l : StrictlyBelow(a, m)
  BY DEF Candidates
<1>5. \A z \in ZonesFor(w.name, w.type) : StrictlyBelow(a, z) => z \in l
  BY <1>1, ZonesForAre DEF Candidates
<1>6. <<a>> \in Seq(Signed) /\ <<a>> # <<>> /\ Len(<<a>>) = 1 /\ <<a>>[1] = a
  BY <1>2
<1> HIDE DEF l
<1>7. v \in WalkRecord
  BY <1>2, <1>3, <1>6 DEF WalkRecord
<1>8. /\ v.pc = "descend" /\ v.path = <<a>> /\ v.keys = {a} /\ v.left = l
      /\ v.name = w.name /\ v.type = w.type
  BY DEF WalkRecord
<1> HIDE DEF v
<1>9. ZoneAt(v) = a /\ OnTheWay(v) = OnTheWay(w) /\ InZone(v)
  BY <1>6, <1>8 DEF ZoneAt, OnTheWay, InZone
<1>10. GoodWalk(v)
  BY <1>3, <1>4, <1>6, <1>8, <1>9 DEF GoodWalk, Crossing
<1>11. Complete(v)
  BY <1>5, <1>8, <1>9 DEF Complete
<1> QED BY <1>7, <1>10, <1>11 DEF v, l

\* The last of a path.
LEMMA AppendFacts ==
    ASSUME NEW S, NEW p \in Seq(S), NEW c \in S
    PROVE  /\ Append(p, c) \in Seq(S) /\ Append(p, c) # <<>>
           /\ Append(p, c)[Len(Append(p, c))] = c
  OBVIOUS

\* A zone whose keys are vouched for is entered.
LEMMA ChildEntered ==
    ASSUME NEW w \in WalkRecord, GoodWalk(w), w.pc = "keys", w.path # <<>>
    PROVE  LET v == [w EXCEPT !.pc = "descend", !.path = Append(w.path, w.child),
                              !.keys = {w.child}]
           IN v \in WalkRecord /\ GoodWalk(v) /\ (Complete(w) => Complete(v))
<1> DEFINE c == w.child
           p == Append(w.path, c)
           v == [w EXCEPT !.pc = "descend", !.path = p, !.keys = {c}]
<1>1. InZone(w) /\ Crossing(w)
  BY DEF InZone, Crossing
<1>2. /\ c \in Signed /\ c \in Cuts /\ w.path \in Seq(Signed) /\ w.name \in Tree
      /\ AnchorsOf(w.name) # {}
      /\ c \in OnTheWay(w) /\ StrictlyBelow(ZoneAt(w), c)
      /\ \A m \in w.left : m \in OnTheWay(w) /\ StrictlyBelow(c, m)
  BY <1>1, SignedFacts DEF GoodWalk, WalkRecord
<1>3. p \in Seq(Signed) /\ p # <<>> /\ p[Len(p)] = c
  BY <1>2, AppendFacts
<1> HIDE DEF p
<1>4. v \in WalkRecord
  BY <1>2, <1>3 DEF WalkRecord
<1>5. /\ v.pc = "descend" /\ v.path = p /\ v.keys = {c} /\ v.left = w.left
      /\ v.name = w.name /\ v.type = w.type
  BY DEF WalkRecord
<1> HIDE DEF v, c
<1>6. ZoneAt(v) = c /\ OnTheWay(v) = OnTheWay(w) /\ InZone(v)
  BY <1>3, <1>5 DEF ZoneAt, OnTheWay, InZone
<1>7. GoodWalk(v)
  BY <1>2, <1>3, <1>5, <1>6 DEF GoodWalk, Crossing
<1>8. ASSUME Complete(w) PROVE Complete(v)
  <2>1. ASSUME NEW z \in ZonesFor(w.name, w.type), StrictlyBelow(c, z) PROVE z \in w.left
    <3>1. z \in Tree /\ c \in Tree /\ ZoneAt(w) \in Above[z] /\ z # c /\ z # ZoneAt(w)
      BY <1>2, <2>1, ZonesAreAbove, NameFacts, SignedFacts DEF StrictlyBelow
    <3> QED BY <1>1, <1>8, <3>1 DEF Complete, StrictlyBelow, c
  <2> QED BY <1>5, <1>6, <2>1 DEF Complete
<1> QED BY <1>4, <1>7, <1>8 DEF v, p, c

\* The next name to try.
LEMMA HighestLeft ==
    ASSUME NEW w \in WalkRecord, GoodWalk(w), w.pc = "descend", w.left # {}
    PROVE  LET c == Highest(w.left) IN
           /\ c \in w.left /\ c \in OnTheWay(w) /\ c \in Tree /\ StrictlyBelow(ZoneAt(w), c)
           /\ \A m \in w.left \ {c} : m \in OnTheWay(w) /\ StrictlyBelow(c, m)
<1> DEFINE c == Highest(w.left)
<1>1. InZone(w) /\ w.name \in Tree
  BY DEF InZone, WalkRecord
<1>2. \A m \in w.left : m \in OnTheWay(w) /\ StrictlyBelow(ZoneAt(w), m)
  BY <1>1 DEF GoodWalk
<1>3. w.left \in SUBSET Above[w.name]
  BY <1>1, <1>2, OnTheWayFacts
<1>4. c \in w.left /\ \A m \in w.left : InBailiwick(c, m)
  BY <1>1, <1>3, HighestIsThere, Zenon
<1> HIDE DEF c
<1>5. \A m \in w.left \ {c} : m \in OnTheWay(w) /\ StrictlyBelow(c, m)
  BY <1>2, <1>4 DEF StrictlyBelow, InBailiwick
<1>6. c \in Tree
  BY <1>1, <1>2, <1>4, OnTheWayFacts
<1> QED BY <1>2, <1>4, <1>5, <1>6 DEF c

\* One crossed into before is entered again.
LEMMA CrossedBefore ==
    ASSUME NEW w \in WalkRecord, GoodWalk(w), w.pc = "descend", w.left # {},
           NEW c \in Signed, c = Highest(w.left)
    PROVE  LET v == [w EXCEPT !.left = w.left \ {c}, !.path = Append(w.path, c), !.keys = {c}]
           IN v \in WalkRecord /\ GoodWalk(v) /\ (Complete(w) => Complete(v))
<1> DEFINE p == Append(w.path, c)
           l == w.left \ {c}
           v == [w EXCEPT !.left = l, !.path = p, !.keys = {c}]
<1>1. InZone(w) /\ ~Crossing(w)
  BY DEF InZone, Crossing
<1>2. /\ c \in Cuts /\ w.path \in Seq(Signed) /\ w.name \in Tree /\ w.left \subseteq Tree
      /\ AnchorsOf(w.name) # {}
  BY SignedFacts DEF GoodWalk, WalkRecord
<1>3. /\ c \in w.left /\ c \in OnTheWay(w) /\ c \in Tree /\ StrictlyBelow(ZoneAt(w), c)
      /\ \A m \in l : m \in OnTheWay(w) /\ StrictlyBelow(c, m)
  BY HighestLeft
<1>4. p \in Seq(Signed) /\ p # <<>> /\ p[Len(p)] = c
  BY <1>2, AppendFacts
<1>5. l \subseteq Tree
  BY <1>2
<1> HIDE DEF p, l
<1>6. v \in WalkRecord
  BY <1>2, <1>4, <1>5 DEF WalkRecord
<1>7. /\ v.pc = "descend" /\ v.path = p /\ v.keys = {c} /\ v.left = l
      /\ v.name = w.name /\ v.type = w.type
  BY DEF WalkRecord
<1> HIDE DEF v
<1>8. ZoneAt(v) = c /\ OnTheWay(v) = OnTheWay(w) /\ InZone(v)
  BY <1>4, <1>7 DEF ZoneAt, OnTheWay, InZone
<1>9. GoodWalk(v)
  BY <1>2, <1>3, <1>4, <1>7, <1>8 DEF GoodWalk, Crossing
<1>10. ASSUME Complete(w) PROVE Complete(v)
  <2>1. ASSUME NEW z \in ZonesFor(w.name, w.type), StrictlyBelow(c, z) PROVE z \in l
    <3>1. z \in Tree /\ ZoneAt(w) \in Above[z] /\ z # c /\ z # ZoneAt(w)
      BY <1>2, <1>3, <2>1, ZonesAreAbove, NameFacts, SignedFacts DEF StrictlyBelow
    <3>2. z \in w.left
      BY <1>1, <1>10, <3>1 DEF Complete, StrictlyBelow
    <3> QED BY <3>1, <3>2 DEF l
  <2> QED BY <1>7, <1>8, <2>1 DEF Complete
<1> QED BY <1>6, <1>9, <1>10 DEF v, p, l

\* Another's DS is asked for.
LEMMA ChildAsked ==
    ASSUME NEW w \in WalkRecord, GoodWalk(w), w.pc = "descend", w.left # {},
           NEW c, c = Highest(w.left)
    PROVE  LET v == [w EXCEPT !.pc = "ds", !.child = c, !.left = w.left \ {c}]
           IN v \in WalkRecord /\ GoodWalk(v) /\ (Complete(w) => Complete(v))
<1> DEFINE l == w.left \ {c}
           v == [w EXCEPT !.pc = "ds", !.child = c, !.left = l]
<1>1. InZone(w) /\ ~Crossing(w)
  BY DEF InZone, Crossing
<1>2. /\ w.name \in Tree /\ w.left \subseteq Tree /\ AnchorsOf(w.name) # {}
      /\ w.path # <<>> /\ w.keys = {ZoneAt(w)}
      /\ ZoneAt(w) = Anchor(w.name) \/ ZoneAt(w) \in OnTheWay(w)
      /\ \A m \in w.left : StrictlyBelow(ZoneAt(w), m)
  BY <1>1 DEF GoodWalk, WalkRecord
<1>3. /\ c \in w.left /\ c \in OnTheWay(w) /\ c \in Tree /\ StrictlyBelow(ZoneAt(w), c)
      /\ \A m \in l : m \in OnTheWay(w) /\ StrictlyBelow(c, m)
  BY HighestLeft
<1>4. l \subseteq w.left
  OBVIOUS
<1> HIDE DEF l
<1>5. v \in WalkRecord
  BY <1>2, <1>3, <1>4 DEF WalkRecord
<1>6. /\ v.pc = "ds" /\ v.path = w.path /\ v.keys = w.keys /\ v.left = l /\ v.child = c
      /\ v.name = w.name /\ v.type = w.type
  BY DEF WalkRecord
<1> HIDE DEF v
<1>7. ZoneAt(v) = ZoneAt(w) /\ OnTheWay(v) = OnTheWay(w) /\ InZone(v) /\ Crossing(v)
  BY <1>6 DEF ZoneAt, OnTheWay, InZone, Crossing
<1>8. GoodWalk(v)
  BY <1>2, <1>3, <1>4, <1>6, <1>7 DEF GoodWalk
<1>9. ASSUME Complete(w) PROVE Complete(v)
  BY <1>1, <1>6, <1>7, <1>9 DEF Complete, l
<1> QED BY <1>5, <1>8, <1>9 DEF v, l

\* With nothing left to try, the answer is asked for.
LEMMA AnswerAsked ==
    ASSUME NEW w \in WalkRecord, GoodWalk(w), w.pc = "descend", w.left = {}
    PROVE  LET v == [w EXCEPT !.pc = "answer"]
           IN v \in WalkRecord /\ GoodWalk(v) /\ (Complete(w) => Complete(v))
<1> DEFINE v == [w EXCEPT !.pc = "answer"]
<1>1. InZone(w) /\ ~Crossing(w)
  BY DEF InZone, Crossing
<1>2. v \in WalkRecord
  BY DEF WalkRecord
<1>3. /\ v.pc = "answer" /\ v.path = w.path /\ v.keys = w.keys /\ v.left = w.left
      /\ v.name = w.name /\ v.type = w.type
  BY DEF WalkRecord
<1> HIDE DEF v
<1>4. /\ ZoneAt(v) = ZoneAt(w) /\ OnTheWay(v) = OnTheWay(w) /\ InZone(v) /\ ~Crossing(v)
  BY <1>3 DEF ZoneAt, OnTheWay, InZone, Crossing
<1>5. GoodWalk(v)
  BY <1>1, <1>3, <1>4 DEF GoodWalk
<1>6. ASSUME Complete(w) PROVE Complete(v)
  BY <1>1, <1>3, <1>4, <1>6 DEF Complete
<1> QED BY <1>2, <1>5, <1>6 DEF v

\* A zone with a DS has its keys asked for.
LEMMA KeysAsked ==
    ASSUME NEW w \in WalkRecord, GoodWalk(w), w.pc = "ds", w.child \in Signed
    PROVE  LET v == [w EXCEPT !.pc = "keys", !.vouched = {w.child}]
           IN v \in WalkRecord /\ GoodWalk(v) /\ (Complete(w) => Complete(v))
<1> DEFINE c == w.child
           v == [w EXCEPT !.pc = "keys", !.vouched = {c}]
<1>1. InZone(w) /\ Crossing(w) /\ c \in Signed /\ c \in Cuts
  BY SignedFacts DEF InZone, Crossing
<1> HIDE DEF c
<1>2. v \in WalkRecord
  BY <1>1 DEF WalkRecord
<1>3. /\ v.pc = "keys" /\ v.path = w.path /\ v.keys = w.keys /\ v.left = w.left
      /\ v.name = w.name /\ v.type = w.type /\ v.child = w.child /\ v.vouched = {c}
  BY DEF WalkRecord
<1> HIDE DEF v
<1>4. w.path # <<>>
  BY <1>1 DEF GoodWalk
<1>5. ZoneAt(v) = ZoneAt(w) /\ OnTheWay(v) = OnTheWay(w) /\ InZone(v) /\ Crossing(v)
  BY <1>3, <1>4 DEF ZoneAt, OnTheWay, InZone, Crossing
<1>6. GoodWalk(v)
  BY <1>1, <1>3, <1>4, <1>5 DEF GoodWalk, c
<1>7. ASSUME Complete(w) PROVE Complete(v)
  BY <1>1, <1>3, <1>5, <1>7 DEF Complete
<1> QED BY <1>2, <1>6, <1>7 DEF v, c

\* A name that is no cut on the way is passed over.
LEMMA PassedOver ==
    ASSUME NEW w \in WalkRecord, GoodWalk(w), w.pc = "ds"
    PROVE  LET v == [w EXCEPT !.pc = "descend"]
           IN /\ v \in WalkRecord /\ GoodWalk(v)
              /\ Complete(w) /\ w.child \notin Cuts => Complete(v)
<1> DEFINE v == [w EXCEPT !.pc = "descend"]
<1>1. InZone(w) /\ Crossing(w) /\ w.name \in Tree
  BY DEF InZone, Crossing, WalkRecord
<1>2. v \in WalkRecord
  BY DEF WalkRecord
<1>3. /\ v.pc = "descend" /\ v.path = w.path /\ v.keys = w.keys /\ v.left = w.left
      /\ v.name = w.name /\ v.type = w.type
  BY DEF WalkRecord
<1> HIDE DEF v
<1>4. ZoneAt(v) = ZoneAt(w) /\ OnTheWay(v) = OnTheWay(w) /\ InZone(v) /\ ~Crossing(v)
  BY <1>3 DEF ZoneAt, OnTheWay, InZone, Crossing
<1>5. GoodWalk(v)
  BY <1>1, <1>3, <1>4 DEF GoodWalk
<1>6. ASSUME Complete(w), w.child \notin Cuts PROVE Complete(v)
  <2>1. ZonesFor(w.name, w.type) \subseteq Cuts
    BY <1>1, ZonesAreAbove
  <2> QED BY <1>1, <1>3, <1>4, <1>6, <2>1 DEF Complete
<1> QED BY <1>2, <1>5, <1>6 DEF v

\* When nothing has been passed over, the zone crossed from is the one above the child.
LEMMA ChildsZone ==
    ASSUME NEW w \in WalkRecord, GoodWalk(w), w.pc = "ds", Complete(w)
    PROVE  ZoneOf(w.child, "DS") = ZoneAt(w)
<1> DEFINE z == ZoneAt(w)
           c == w.child
<1>1. InZone(w) /\ Crossing(w)
  BY DEF InZone, Crossing
<1>2. z \in Signed /\ z \in Cuts /\ w.name \in Tree
  BY <1>1, ZoneFacts, SignedFacts
<1>3. /\ c \in OnTheWay(w) /\ z # c /\ z \in Above[c]
      /\ \A m \in w.left : c \in Above[m] /\ c # m
  BY <1>1 DEF GoodWalk, StrictlyBelow
<1>4. \A y \in ZonesFor(w.name, w.type) : z # y /\ z \in Above[y] => y \in w.left \/ y = c
  BY <1>1 DEF Complete, StrictlyBelow
<1> HIDE DEF z, c
<1>5. c \in Tree /\ c \in Above[w.name]
  BY <1>2, <1>3, OnTheWayFacts
<1>6. ASSUME NEW y \in ZonesFor(c, "DS") PROVE y \in Above[z]
  <2>1. y \in Cuts /\ y \in Above[c] /\ (c # Root => y # c)
    BY <1>5, ZonesForAre
  <2>2. c # Root
    BY <1>2, <1>3, NameFacts
  <2>3. y \in Above[w.name] /\ y # w.name
    BY <1>2, <1>5, <2>1, <2>2, NameFacts
  <2>4. y \in ZonesFor(w.name, w.type)
    BY <1>2, <2>1, <2>3, ZonesForAre
  <2>5. y \notin w.left
    BY <1>3, <1>5, <2>1, <2>2, NameFacts
  <2>6. ~(z # y /\ z \in Above[y])
    BY <1>4, <2>1, <2>2, <2>4, <2>5
  <2>7. y \in Above[z] \/ z \in Above[y]
    BY <1>3, <1>5, <2>1, NameFacts
  <2>8. y \in Above[y]
    BY <2>1, SignedFacts, NameFacts
  <2> QED BY <2>6, <2>7, <2>8
<1>7. z \in ZonesFor(c, "DS")
  BY <1>2, <1>3, <1>5, ZonesForAre
<1>8. ZoneOf(c, "DS") = z
  BY <1>5, <1>6, <1>7, ZoneOfIs
<1> QED BY <1>8 DEF z, c

\* ... and the zone arrived at is the name's.
LEMMA AnswersZone ==
    ASSUME NEW w \in WalkRecord, GoodWalk(w), w.pc = "answer", Complete(w),
           ~(w.type = "DS" /\ w.name \in Anchors \ {Root})
    PROVE  ZoneOf(w.name, w.type) = ZoneAt(w)
<1> DEFINE z == ZoneAt(w)
<1>1. InZone(w) /\ ~Crossing(w) /\ w.left = {}
  BY DEF InZone, Crossing, GoodWalk
<1>2. z \in ZonesFor(w.name, w.type) /\ w.name \in Tree
  BY <1>1, ZoneFacts
<1>3. \A y \in ZonesFor(w.name, w.type) : ~(z # y /\ z \in Above[y])
  BY <1>1 DEF Complete, StrictlyBelow
<1> HIDE DEF z
<1>4. ASSUME NEW y \in ZonesFor(w.name, w.type) PROVE y \in Above[z]
  <2>1. y \in Above[w.name] /\ z \in Above[w.name] /\ y \in Tree
    BY <1>2, ZonesAreAbove, SignedFacts
  <2>2. y \in Above[z] \/ z \in Above[y]
    BY <1>2, <2>1, NameFacts
  <2>3. y \in Above[y]
    BY <2>1, NameFacts
  <2> QED BY <1>3, <2>2, <2>3
<1>5. ZoneOf(w.name, w.type) = z
  BY <1>2, <1>4, ZoneOfIs
<1> QED BY <1>5 DEF z

\* Every zone from the anchor down to a signed one is signed.
LEMMA SignedAllTheWay ==
    ASSUME NEW n \in Tree, NEW t, ZoneOf(n, t) \in Signed, AnchorsOf(n) # {}
    PROVE  \A z \in ZonesFor(n, t) : InBailiwick(Anchor(n), z) => z \in Signed
<1> DEFINE y == ZoneOf(n, t)
<1>1. SUFFICES ASSUME NEW z \in ZonesFor(n, t), Anchor(n) \in Above[z], z # y PROVE z \in Signed
  BY DEF InBailiwick
<1>2. /\ z \in Above[y] /\ z \in Cuts /\ z \in Tree /\ y \in Above[n] /\ y \in Tree
      /\ y \in Signed
  BY ZoneOfFacts, ZonesAreAbove, ZonesForAre, SignedFacts
<1> HIDE DEF y
<1>3. CASE y \in Anchors
  <2>1. y \in Above[Anchor(n)]
    BY <1>2, <1>3, AnchorFacts
  <2>2. y \in Above[z]
    BY <1>1, <1>2, <2>1, NameFacts
  <2> QED BY <1>1, <1>2, <2>2, NameFacts
<1>4. CASE y \notin Anchors
  <2>1. ZonesFor(y, "DS") \subseteq Signed
    BY <1>2, <1>4, ValidatorAssumption
  <2>2. z \in ZonesFor(y, "DS")
    BY <1>1, <1>2, ZonesForAre
  <2> QED BY <2>1, <2>2
<1> QED BY <1>3, <1>4
-----------------------------------------------------------------------------
(* Claims *)

ClaimOf(w, kind, under, by) ==
    [kind |-> kind, name |-> w.name, type |-> w.type, under |-> under, by |-> by]

\* A claim, field by field.
LEMMA ClaimFields ==
    ASSUME NEW w, NEW k, NEW u, NEW b
    PROVE  /\ ClaimOf(w, k, u, b).kind = k /\ ClaimOf(w, k, u, b).name = w.name
           /\ ClaimOf(w, k, u, b).type = w.type /\ ClaimOf(w, k, u, b).under = u
           /\ ClaimOf(w, k, u, b).by = b
  BY DEF ClaimOf

\* Unsigned is said of a zone on the way.
LEMMA UnsignedEarned ==
    ASSUME NEW w \in WalkRecord, GoodWalk(w), w.pc = "ds", w.child \in Cuts \ Signed, NEW b
    PROVE  Established(ClaimOf(w, "unsigned", w.child, b))
<1>1. w.child \in OnTheWay(w)
  BY DEF GoodWalk, InZone, Crossing
<1> QED BY <1>1, ClaimFields DEF Established, True, OnTheWay

\* What makes a claim of an answer true.
LEMMA TrueIs ==
    ASSUME NEW w \in WalkRecord, AnchorsOf(w.name) # {},
           NEW k \in {"data", "alias", "nodata", "nxdomain"}, NEW u,
           ZoneOf(w.name, w.type) \in Signed, k = TrueKind(w.name, w.type),
           k = "data" => u = Source(w.name)
    PROVE  Established(ClaimOf(w, k, u, ZoneOf(w.name, w.type)))
<1>1. w.name \in Tree
  BY DEF WalkRecord
<1>2. \A z \in ZonesFor(w.name, w.type) : InBailiwick(Anchor(w.name), z) => z \in Signed
  BY <1>1, SignedAllTheWay
<1> QED BY <1>2, ClaimFields DEF Established, True

\* Where a walk stands when it asks for the answer.
LEMMA AtAnswer ==
    ASSUME NEW w \in WalkRecord, GoodWalk(w), w.pc = "answer"
    PROVE  /\ InZone(w) /\ AnchorsOf(w.name) # {}
           /\ w.name \in Tree /\ w.type \in RecordTypes
           /\ ZoneAt(w) \in Signed /\ ZoneAt(w) # Attacker
           /\ \A k, u, b : /\ AtItsAnchor(ClaimOf(w, k, u, b)) <=>
                                 w.type = "DS" /\ w.name \in Anchors \ {Root}
           /\ ZoneAt(w) \in ZonesFor(w.name, w.type)
              \/ (w.type = "DS" /\ w.name \in Anchors \ {Root})
<1>1. InZone(w) /\ AnchorsOf(w.name) # {}
  BY DEF InZone, GoodWalk
<1> QED BY <1>1, ZoneFacts, ClaimFields, SignedFacts DEF AtItsAnchor

\* Absence that is proved is so.
LEMMA AbsenceEarned ==
    ASSUME NEW w \in WalkRecord, GoodWalk(w), w.pc = "answer",
           NEW D \in SUBSET Chain(ZoneAt(w)), NEW b \in BOOLEAN,
           IF b THEN NameErrorProved(D, w.name) ELSE NoDataProved(D, w.name, w.type)
    PROVE  Established(ClaimOf(w, IF b THEN "nxdomain" ELSE "nodata", w.name, ZoneAt(w)))
<1> DEFINE z == ZoneAt(w)
           k == IF b THEN "nxdomain" ELSE "nodata"
<1>1. /\ AnchorsOf(w.name) # {} /\ w.name \in Tree /\ w.type \in RecordTypes /\ z \in Signed
      /\ AtItsAnchor(ClaimOf(w, k, w.name, z)) <=> w.type = "DS" /\ w.name \in Anchors \ {Root}
      /\ z \in ZonesFor(w.name, w.type) \/ (w.type = "DS" /\ w.name \in Anchors \ {Root})
  BY AtAnswer
<1>2. CASE w.type = "DS" /\ w.name \in Anchors \ {Root}
  BY <1>1, <1>2 DEF Established
<1>3. CASE z \in ZonesFor(w.name, w.type)
  <2>1. ZoneOf(w.name, w.type) = z /\ TrueKind(w.name, w.type) = k
    <3>1. CASE b
      BY <1>1, <1>3, <3>1, NameErrorSound
    <3>2. CASE ~b
      BY <1>1, <1>3, <3>2, NoDataSound
    <3> QED BY <3>1, <3>2
  <2>2. k # "data" /\ k \in {"data", "alias", "nodata", "nxdomain"}
    OBVIOUS
  <2> HIDE DEF z, k
  <2>3. Established(ClaimOf(w, k, w.name, z))
    BY <1>1, <2>1, <2>2, TrueIs
  <2> QED BY <2>3 DEF z, k
<1> QED BY <1>1, <1>2, <1>3

\* The records a lookup brings: made up, or some zone's.
LEMMA RecordIs ==
    ASSUME NEW n, NEW t, NEW r \in RecordsAt(n, t)
    PROVE  /\ r.kind \in {"data", "alias"}
           /\ r.by = Attacker
              \/ (r.kind = "alias" /\ r.under = n /\ n \in DOMAIN Alias /\ r.by = Key(ZoneOf(n, t)))
              \/ (r.kind = "data" /\ r.under = n /\ Has(n, t) /\ n \notin Wildcards
                    /\ r.by = Key(ZoneOf(n, t)))
              \/ (r.kind = "data" /\ r.under \in DOMAIN Star /\ StrictlyBelow(r.under, n)
                    /\ Has(Star[r.under], t) /\ r.by = Key(ZoneOf(Star[r.under], t)))
<1> DEFINE stars == {e \in DOMAIN Star : StrictlyBelow(e, n) /\ Has(Star[e], t)}
           P == [kind : {"data", "alias"}, by : {Attacker}, under : {n}]
           Q == IF Has(n, t) /\ n \notin Wildcards
                  THEN {[kind |-> "data", by |-> Key(ZoneOf(n, t)), under |-> n]} ELSE {}
           R == IF n \in DOMAIN Alias
                  THEN {[kind |-> "alias", by |-> Key(ZoneOf(n, t)), under |-> n]} ELSE {}
           S == {[kind |-> "data", by |-> Key(ZoneOf(Star[e], t)), under |-> e] : e \in stars}
<1>1. r \in P \/ r \in Q \/ r \in R \/ r \in S
  BY DEF RecordsAt
<1>2. CASE r \in P
  BY <1>2
<1>3. CASE r \in Q
  <2>1. Has(n, t) /\ n \notin Wildcards
        /\ r = [kind |-> "data", by |-> Key(ZoneOf(n, t)), under |-> n]
    BY <1>3
  <2> QED BY <2>1
<1>4. CASE r \in R
  <2>1. n \in DOMAIN Alias /\ r = [kind |-> "alias", by |-> Key(ZoneOf(n, t)), under |-> n]
    BY <1>4
  <2> QED BY <2>1
<1>5. CASE r \in S
  <2>1. PICK e \in stars : r = [kind |-> "data", by |-> Key(ZoneOf(Star[e], t)), under |-> e]
    BY <1>5
  <2>2. /\ e \in DOMAIN Star /\ StrictlyBelow(e, n) /\ Has(Star[e], t)
    OBVIOUS
  <2>3. r.kind = "data" /\ r.under = e /\ r.by = Key(ZoneOf(Star[e], t))
    BY <2>1
  <2> QED BY <2>2, <2>3
<1> QED BY <1>1, <1>2, <1>3, <1>4, <1>5

\* Records that count are of a signed zone.
LEMMA KeyIs ==
    ASSUME NEW z, Key(z) # Attacker
    PROVE  z \in Signed /\ Key(z) = z
  BY DEF Key

\* A name that has the type itself is not an expansion.
LEMMA HasMeans ==
    ASSUME NEW n \in Tree, NEW t, Has(n, t)
    PROVE  Exists(n) /\ n \notin DOMAIN Alias /\ TrueKind(n, t) = "data"
<1>1. CASE Question(n, t) \in Held
  <2>1. Question(n, t).owner = n
    BY DEF Question
  <2>2. n \notin DOMAIN Alias /\ n \in Something
    BY <1>1, <2>1, HeldFacts DEF Something
  <2> QED BY <2>2, ExistsFacts DEF TrueKind
<1>2. CASE n \in Cuts
  BY <1>2, SignedFacts, SomethingIs, ExistsFacts DEF TrueKind
<1> QED BY <1>1, <1>2, HasIs

\* Records that are signed by the zone are what it holds.
LEMMA RecordsEarned ==
    ASSUME NEW w \in WalkRecord, GoodWalk(w), w.pc = "answer",
           NEW D \in SUBSET Chain(ZoneAt(w)), NEW r \in RecordsAt(w.name, w.type),
           r.by = ZoneAt(w),
           r.under # w.name => ExpansionProved(D, w.name, r.under)
    PROVE  Established(ClaimOf(w, r.kind, r.under, r.by))
<1> DEFINE z == ZoneAt(w)
           n == w.name
           t == w.type
<1>1. /\ AnchorsOf(n) # {} /\ n \in Tree /\ t \in RecordTypes /\ z \in Signed /\ z # Attacker
  BY AtAnswer
<1>2. /\ r.kind \in {"data", "alias"} /\ r.by = z
      /\ \/ r.kind = "alias" /\ r.under = n /\ n \in DOMAIN Alias /\ r.by = Key(ZoneOf(n, t))
         \/ r.kind = "data" /\ r.under = n /\ Has(n, t) /\ n \notin Wildcards
              /\ r.by = Key(ZoneOf(n, t))
         \/ r.kind = "data" /\ r.under \in DOMAIN Star /\ StrictlyBelow(r.under, n)
              /\ Has(Star[r.under], t) /\ r.by = Key(ZoneOf(Star[r.under], t))
  BY <1>1, RecordIs
<1>3. CASE r.kind = "alias" /\ n \in DOMAIN Alias /\ r.by = Key(ZoneOf(n, t))
  <2>1. ZoneOf(n, t) \in Signed /\ ZoneOf(n, t) = r.by
    BY <1>1, <1>2, <1>3, KeyIs
  <2>2. TrueKind(n, t) = "alias"
    BY <1>3 DEF TrueKind
  <2> QED BY <1>1, <1>2, <1>3, <2>1, <2>2, TrueIs
<1>4. CASE r.kind = "data" /\ r.under = n /\ Has(n, t) /\ n \notin Wildcards
              /\ r.by = Key(ZoneOf(n, t))
  <2>1. ZoneOf(n, t) \in Signed /\ ZoneOf(n, t) = r.by
    BY <1>1, <1>2, <1>4, KeyIs
  <2>2. TrueKind(n, t) = "data" /\ Exists(n)
    BY <1>1, <1>4, HasMeans
  <2>3. Source(n) = n
    BY <1>4, <2>2 DEF Source, Expands
  <2> QED BY <1>1, <1>2, <1>4, <2>1, <2>2, <2>3, TrueIs
<1>5. CASE r.kind = "data" /\ r.under \in DOMAIN Star /\ StrictlyBelow(r.under, n)
              /\ Has(Star[r.under], t) /\ r.by = Key(ZoneOf(Star[r.under], t))
  <2> DEFINE e == r.under
             c == ClaimOf(w, r.kind, r.under, r.by)
  <2>1. ZoneOf(Star[e], t) = z
    BY <1>1, <1>2, <1>5, KeyIs
  <2>2. e # n
    BY <1>5 DEF StrictlyBelow
  <2>3. ExpansionProved(D, n, e)
    BY <2>2
  <2>4. /\ NextLabel(e, n) \notin Owners(z)
        /\ ~Exists(NextLabel(e, n)) =>
                /\ ZoneOf(n, t) = z /\ TrueKind(n, t) = "data" /\ Source(n) = e
                /\ n \notin Wildcards
    BY <1>1, <1>5, <2>1, <2>3, ExpansionSound
  <2>5. CASE Exists(NextLabel(e, n))
    <3>1. /\ c.kind = "data" /\ c.name = n /\ c.type = t /\ c.under = e /\ c.by = z
      BY <1>2, <1>5, ClaimFields
    <3> HIDE DEF c, e, n, t, z
    <3>2. BesideWildcard(c)
      BY <1>5, <2>1, <2>4, <2>5, <3>1 DEF BesideWildcard, e
    <3>3. Established(c)
      BY <3>2 DEF Established
    <3> QED BY <3>3 DEF c
  <2>6. CASE ~Exists(NextLabel(e, n))
    BY <1>1, <1>2, <1>5, <2>4, <2>6, TrueIs
  <2> QED BY <2>5, <2>6
<1> QED BY <1>2, <1>3, <1>4, <1>5

\* A true and full answer is accepted, or is not read.
LEMMA AbsenceAccepted ==
    ASSUME NEW w \in WalkRecord, GoodWalk(w), w.pc = "answer", Complete(w), NEW b \in BOOLEAN,
           TrueKind(w.name, w.type) = (IF b THEN "nxdomain" ELSE "nodata"),
           NEW D, D = TrueDenial(w.name, w.type),
           ~(IF b THEN NameErrorProved(OfZone(D, ZoneAt(w)), w.name)
             ELSE NoDataProved(OfZone(D, ZoneAt(w)), w.name, w.type))
    PROVE  NotRead(ClaimOf(w, IF b THEN "nxdomain" ELSE "nodata", w.name, ZoneAt(w)))
<1> DEFINE c == ClaimOf(w, IF b THEN "nxdomain" ELSE "nodata", w.name, ZoneAt(w))
<1>1. /\ w.name \in Tree /\ w.type \in RecordTypes /\ ZoneAt(w) \in Signed
      /\ AtItsAnchor(c) <=> w.type = "DS" /\ w.name \in Anchors \ {Root}
  BY AtAnswer
<1>2. c.kind = (IF b THEN "nxdomain" ELSE "nodata") /\ c.name = w.name
  BY ClaimFields
<1> HIDE DEF c
<1>3. SUFFICES ASSUME ~NotRead(c) PROVE FALSE
  BY DEF c
<1>4. ~AtItsAnchor(c) /\ (~b => ~Expands(w.name))
  BY <1>2, <1>3 DEF NotRead
<1>5. ZoneOf(w.name, w.type) = ZoneAt(w)
  BY <1>1, <1>4, AnswersZone
<1>6. OfZone(D, ZoneAt(w)) = Chain(ZoneAt(w))
  BY <1>1, <1>5, AllOfZone DEF TrueDenial
<1>7. CASE b
  BY <1>1, <1>5, <1>6, <1>7, NameErrorComplete
<1>8. CASE ~b
  BY <1>1, <1>4, <1>5, <1>6, <1>8, NoDataComplete
<1> QED BY <1>7, <1>8

\* The same of records.
LEMMA RecordsAccepted ==
    ASSUME NEW w \in WalkRecord, GoodWalk(w), w.pc = "answer", Complete(w),
           NEW r \in RecordsAt(w.name, w.type), r.kind = TrueKind(w.name, w.type),
           r.by = Key(ZoneOf(w.name, w.type)), r.under = Source(w.name),
           NEW D, D = TrueDenial(w.name, w.type),
           \/ r.by # ZoneAt(w)
           \/ r.under # w.name /\ ~ExpansionProved(OfZone(D, ZoneAt(w)), w.name, r.under)
    PROVE  NotRead(ClaimOf(w, r.kind, r.under, r.by))
<1> DEFINE c == ClaimOf(w, r.kind, r.under, r.by)
           n == w.name
<1>1. /\ n \in Tree /\ w.type \in RecordTypes /\ ZoneAt(w) \in Signed
      /\ AtItsAnchor(c) <=> w.type = "DS" /\ n \in Anchors \ {Root}
  BY AtAnswer
<1>2. c.kind = r.kind /\ c.name = n
  BY ClaimFields
<1> HIDE DEF c
<1>3. SUFFICES ASSUME ~NotRead(c) PROVE FALSE
  BY DEF c
<1>4. ~AtItsAnchor(c) /\ (r.kind = "data" => n \notin Wildcards)
  BY <1>2, <1>3 DEF NotRead
<1>5. ZoneOf(n, w.type) = ZoneAt(w)
  BY <1>1, <1>4, AnswersZone
<1>6. r.by = ZoneAt(w)
  BY <1>1, <1>5 DEF Key
<1>7. n \notin Wildcards
  <2>1. CASE r.kind = "data"
    BY <1>4, <2>1
  <2>2. CASE r.kind # "data"
    <3>1. r.kind = "alias"
      BY <2>2, RecordIs
    <3>2. n \in DOMAIN Alias
      BY <3>1 DEF TrueKind
    <3> QED BY <3>2, StarFacts DEF Wildcards
  <2> QED BY <2>1, <2>2
<1>8. Source(n) # n
  BY <1>6
<1>9. Expands(n) /\ Source(n) = Nearest(n)
  BY <1>7, <1>8 DEF Source
<1>10. OfZone(D, ZoneAt(w)) = Chain(ZoneAt(w))
  BY <1>1, <1>5, <1>9, AllOfZone DEF TrueDenial
<1> QED BY <1>1, <1>5, <1>6, <1>9, <1>10, ExpansionComplete
-----------------------------------------------------------------------------
(* The validator's invariant *)

Statuses == {"none", "secure", "insecure", "indeterminate", "bogus"}

\* While a validation goes on nothing has been said, and what was taken to be so
\* is; if every answer was true, no zone has been passed over.
ValidatorInv ==
    /\ walk \in WalkRecord /\ GoodWalk(walk)
    /\ honest \in BOOLEAN /\ (honest => Complete(walk))
    /\ \A p \in proved : GoodProof(p)
    /\ lookups \in 0..MaxLookups /\ verdict \in Statuses
    /\ walk.pc # "idle" => verdict = "none" /\ \A c \in taken : Established(c)
    /\ VerdictIsEarned

\* It holds at the start ...
LEMMA ValidatorInvInit == ValidatorInit => ValidatorInv
<1>1. SUFFICES ASSUME ValidatorInit PROVE ValidatorInv
  OBVIOUS
<1>2. walk \in WalkRecord /\ walk.pc = "idle" /\ GoodWalk(walk) /\ Complete(walk)
  BY <1>1, NoWalkIsGood DEF ValidatorInit
<1>3. 0 \in 0..MaxLookups
  BY ValidatorAssumption
<1> QED BY <1>1, <1>2, <1>3 DEF ValidatorInit, ValidatorInv, VerdictIsEarned, Statuses

\* A validation that ends.
LEMMA ValidationEnds ==
    ASSUME NEW s \in Statuses, EndWith(s), lookups' \in 0..MaxLookups, honest' \in BOOLEAN,
           s \in {"secure", "insecure"} => \A c \in taken' : Established(c),
           honest' /\ s = "bogus" => \E c \in taken' : NotRead(c)
    PROVE  ValidatorInv'
<1>1. walk' = NoWalk /\ verdict' = s /\ proved' = {}
  BY DEF EndWith
<1>2. walk' \in WalkRecord /\ walk'.pc = "idle" /\ GoodWalk(walk') /\ Complete(walk')
  BY <1>1, NoWalkIsGood
<1>3. VerdictIsEarned'
  BY <1>1 DEF VerdictIsEarned
<1> QED BY <1>1, <1>2, <1>3 DEF ValidatorInv

\* One that goes on.
LEMMA ValidationGoesOn ==
    ASSUME ValidatorInv, walk.pc # "idle", UNCHANGED verdict,
           walk' \in WalkRecord, GoodWalk(walk'), honest' => Complete(walk'),
           lookups' \in 0..MaxLookups, honest' \in BOOLEAN,
           \A p \in proved' : GoodProof(p),
           \A c \in taken' : Established(c)
    PROVE  ValidatorInv'
<1>1. verdict' = "none"
  BY DEF ValidatorInv
<1>2. VerdictIsEarned'
  BY <1>1 DEF VerdictIsEarned
<1> QED BY <1>1, <1>2 DEF ValidatorInv, Statuses

\* A lookup is counted.
LEMMA LookupCounts ==
    ASSUME ValidatorInv, lookups < MaxLookups, lookups' = lookups + 1
    PROVE  lookups' \in 0..MaxLookups
  BY ValidatorAssumption DEF ValidatorInv

LEMMA ValidateKeeps ==
    ASSUME ValidatorInv, NEW q \in Examined, Validate(q)
    PROVE  ValidatorInv'
<1>1. q.owner \in Tree /\ q.type \in {"A", "NS", "DS"}
  BY ValidatorAssumption
<1>2. walk' \in WalkRecord /\ walk'.pc = "hop"
  BY <1>1, NoWalkIsGood DEF Validate, WalkRecord, RecordTypes, NoWalk
<1>3. GoodWalk(walk') /\ Complete(walk')
  BY <1>2, OutsideIsGood
<1>4. 0 \in 0..MaxLookups
  BY ValidatorAssumption
<1>5. /\ lookups' = 0 /\ verdict' = "none" /\ taken' = {} /\ honest' = TRUE
      /\ \A p \in proved' : GoodProof(p)
  BY DEF Validate, ValidatorInv
<1>6. VerdictIsEarned'
  BY <1>5 DEF VerdictIsEarned
<1> QED BY <1>2, <1>3, <1>4, <1>5, <1>6 DEF ValidatorInv, Statuses

LEMMA FromAnchorKeeps ==
    ASSUME ValidatorInv, walk.pc # "idle", AnchorsOf(walk.name) # {},
           FromAnchor(Anchor(walk.name), {Anchor(walk.name)}),
           lookups' \in 0..MaxLookups, honest' \in BOOLEAN, UNCHANGED taken
    PROVE  ValidatorInv'
<1> DEFINE a == Anchor(walk.name)
           left == Candidates(a, walk.name, walk.type)
           v == [walk EXCEPT !.pc = "descend", !.path = <<a>>, !.keys = {a}, !.left = left]
<1>1. \A c \in taken' : Established(c)
  BY DEF ValidatorInv
<1>2. CASE Cardinality(left) > MaxZones
  <2>1. EndWith("indeterminate")
    BY <1>2 DEF FromAnchor
  <2> QED BY <1>1, <2>1, ValidationEnds DEF Statuses
<1>3. CASE ~(Cardinality(left) > MaxZones)
  <2>1. /\ walk' = v /\ UNCHANGED verdict
        /\ proved' = proved \cup {[path |-> <<a>>, keys |-> {a}]}
    BY <1>3, Zenon DEF FromAnchor, Proceed
  <2>2. walk \in WalkRecord /\ walk.name \in Tree
    BY DEF ValidatorInv, WalkRecord
  <2>3. v \in WalkRecord /\ GoodWalk(v) /\ Complete(v)
    BY <2>2, AnchorEntered
  <2>4. a \in Signed
    BY <2>2, AnchorFacts
  <2> HIDE DEF a, v
  <2>5. GoodProof([path |-> <<a>>, keys |-> {a}])
    BY <2>4 DEF GoodProof
  <2>6. \A p \in proved' : GoodProof(p)
    BY <2>1, <2>5 DEF ValidatorInv
  <2> QED BY <1>1, <2>1, <2>3, <2>6, ValidationGoesOn
<1> QED BY <1>2, <1>3

LEMMA BeginHopKeeps ==
    ASSUME ValidatorInv, BeginHop
    PROVE  ValidatorInv'
<1> DEFINE a == Anchor(walk.name)
           before == {p \in proved : p.path = <<a>>}
           v == [walk EXCEPT !.pc = "keys", !.path = <<>>, !.child = a, !.vouched = {a}]
<1>1. /\ walk.pc = "hop" /\ walk.pc # "idle" /\ walk \in WalkRecord
      /\ lookups' \in 0..MaxLookups /\ honest' \in BOOLEAN /\ UNCHANGED taken
      /\ \A c \in taken' : Established(c)
  BY DEF BeginHop, ValidatorInv
<1>2. \/ EndWith("indeterminate")
      \/ AnchorsOf(walk.name) # {} /\ before # {}
           /\ FromAnchor(a, (CHOOSE p \in before : TRUE).keys)
      \/ AnchorsOf(walk.name) # {} /\ walk' = v /\ UNCHANGED verdict /\ UNCHANGED proved
  BY Zenon DEF BeginHop, Proceed
<1>3. CASE EndWith("indeterminate")
  BY <1>1, <1>3, ValidationEnds DEF Statuses
<1>4. CASE AnchorsOf(walk.name) # {} /\ before # {}
             /\ FromAnchor(a, (CHOOSE p \in before : TRUE).keys)
  <2> DEFINE p == CHOOSE p \in before : TRUE
  <2>1. p \in before
    BY <1>4
  <2>2. p.path = <<a>> /\ GoodProof(p)
    BY <2>1 DEF ValidatorInv
  <2>3. FromAnchor(a, p.keys)
    BY <1>4
  <2> HIDE DEF p, a
  <2>4. p.keys = {a}
    BY <2>2 DEF GoodProof
  <2>5. FromAnchor(a, {a})
    BY <2>3, <2>4
  <2> QED BY <1>1, <1>4, <2>5, FromAnchorKeeps DEF a
<1>5. CASE AnchorsOf(walk.name) # {} /\ walk' = v /\ UNCHANGED verdict /\ UNCHANGED proved
  <2>1. v \in WalkRecord /\ GoodWalk(v) /\ Complete(v)
    BY <1>1, <1>5, AnchorAsked
  <2>2. \A p \in proved' : GoodProof(p)
    BY <1>5 DEF ValidatorInv
  <2> HIDE DEF v
  <2> QED BY <1>1, <1>5, <2>1, <2>2, ValidationGoesOn
<1> QED BY <1>2, <1>3, <1>4, <1>5

LEMMA DescendKeeps ==
    ASSUME ValidatorInv, Descend
    PROVE  ValidatorInv'
<1> DEFINE c == Highest(walk.left)
           before == {p \in proved : p.path = Append(walk.path, c)}
           found == (CHOOSE p \in before : TRUE).keys
           v1 == [walk EXCEPT !.pc = "answer"]
           v2 == [walk EXCEPT !.left = walk.left \ {c}, !.path = Append(walk.path, c),
                              !.keys = found]
           v3 == [walk EXCEPT !.pc = "ds", !.child = c, !.left = walk.left \ {c}]
<1>1. /\ walk.pc = "descend" /\ walk.pc # "idle" /\ walk \in WalkRecord /\ GoodWalk(walk)
      /\ lookups' \in 0..MaxLookups /\ honest' \in BOOLEAN /\ honest' = honest
      /\ honest => Complete(walk)
      /\ \A y \in taken' : Established(y)
      /\ \A p \in proved' : GoodProof(p)
  BY DEF Descend, ValidatorInv
<1>2. /\ UNCHANGED verdict
      /\ \/ walk.left = {} /\ walk' = v1
         \/ walk.left # {} /\ before # {} /\ walk' = v2
         \/ walk.left # {} /\ walk' = v3
  <2>1. IF walk.left = {} THEN Proceed(v1)
        ELSE IF before # {} THEN Proceed(v2) ELSE Proceed(v3)
    BY DEF Descend
  <2> HIDE DEF v1, v2, v3, before
  <2> QED BY <2>1 DEF Proceed
<1>3. CASE walk.left = {} /\ walk' = v1
  <2>1. v1 \in WalkRecord /\ GoodWalk(v1) /\ (Complete(walk) => Complete(v1))
    BY <1>1, <1>3, AnswerAsked
  <2> HIDE DEF v1
  <2> QED BY <1>1, <1>2, <1>3, <2>1, ValidationGoesOn
<1>4. CASE walk.left # {} /\ before # {} /\ walk' = v2
  <2> DEFINE p == CHOOSE p \in before : TRUE
  <2>1. p \in before
    BY <1>4
  <2>2. p.path = Append(walk.path, c) /\ GoodProof(p) /\ found = p.keys
    BY <2>1 DEF ValidatorInv
  <2>3. c \in Tree /\ walk.path \in Seq(Signed)
    BY <1>1, <1>4, HighestLeft DEF WalkRecord
  <2> HIDE DEF p, found, c, before
  <2>4. p.path \in Seq(Signed) /\ p.keys = {p.path[Len(p.path)]} /\ p.path # <<>>
    BY <2>2 DEF GoodProof
  <2>5. p.path[Len(p.path)] = c
    BY <2>2, <2>3
  <2>6. c \in Signed /\ found = {c}
    BY <2>2, <2>4, <2>5
  <2> DEFINE u == [walk EXCEPT !.left = walk.left \ {c}, !.path = Append(walk.path, c),
                               !.keys = {c}]
  <2>7. walk' = u
    BY <1>4, <2>6
  <2>8. u \in WalkRecord /\ GoodWalk(u) /\ (Complete(walk) => Complete(u))
    BY <1>1, <1>4, <2>6, CrossedBefore DEF c
  <2> HIDE DEF u
  <2> QED BY <1>1, <1>2, <2>7, <2>8, ValidationGoesOn
<1>5. CASE walk.left # {} /\ walk' = v3
  <2>1. v3 \in WalkRecord /\ GoodWalk(v3) /\ (Complete(walk) => Complete(v3))
    BY <1>1, <1>5, ChildAsked
  <2> HIDE DEF v3
  <2> QED BY <1>1, <1>2, <1>5, <2>1, ValidationGoesOn
<1> QED BY <1>2, <1>3, <1>4, <1>5

LEMMA NoAnswerKeeps ==
    ASSUME ValidatorInv, NoAnswer
    PROVE  ValidatorInv'
<1>1. /\ EndWith("indeterminate") /\ honest' = (honest /\ lookups >= MaxLookups)
      /\ lookups' \in 0..MaxLookups
  BY DEF NoAnswer, ValidatorInv
<1>2. honest' \in BOOLEAN
  BY <1>1 DEF ValidatorInv
<1> QED BY <1>1, <1>2, ValidationEnds DEF Statuses

LEMMA AuthenticateKeysKeeps ==
    ASSUME ValidatorInv, AuthenticateKeys
    PROVE  ValidatorInv'
<1> DEFINE c == walk.child
<1>1. /\ walk.pc = "keys" /\ walk.pc # "idle" /\ walk \in WalkRecord /\ GoodWalk(walk)
      /\ honest \in BOOLEAN /\ honest => Complete(walk)
      /\ UNCHANGED taken /\ \A y \in taken' : Established(y)
      /\ \A p \in proved : GoodProof(p)
  BY DEF AuthenticateKeys, ValidatorInv
<1>2. /\ walk.vouched = {c} /\ c \in Signed /\ c # Attacker
      /\ AnchorsOf(walk.name) # {}
      /\ walk.path = <<>> => c = Anchor(walk.name)
  BY <1>1, SignedFacts DEF GoodWalk
<1>3. PICK r \in KeyResponses(c) :
         /\ Lookup(r.by = c /\ c \in Signed)
         /\ IF r.by \notin Signers(r) THEN EndWith("bogus")
            ELSE IF walk.path = <<>> THEN FromAnchor(c, r.keys)
            ELSE Enter(Append(walk.path, c), r.keys)
  BY <1>1, Zenon DEF AuthenticateKeys
<1>4. /\ lookups < MaxLookups /\ lookups' = lookups + 1
      /\ honest' = (honest /\ (r.by = c /\ c \in Signed))
  BY <1>3, Zenon DEF Lookup
<1>5. lookups' \in 0..MaxLookups /\ honest' \in BOOLEAN /\ (honest' => honest /\ r.by = c)
  BY <1>1, <1>4, LookupCounts
<1>6. (r.keys = {c} /\ r.by = c) \/ r.by = Attacker
  BY DEF KeyResponses
<1>7. r.by \in Signers(r) <=> r.keys = {c} /\ r.by = c
  BY <1>2, <1>6 DEF Signers
<1> HIDE DEF c
<1>8. CASE r.by \notin Signers(r)
  <2>1. EndWith("bogus") /\ ~honest'
    BY <1>2, <1>3, <1>5, <1>6, <1>7, <1>8
  <2> QED BY <1>5, <2>1, ValidationEnds DEF Statuses
<1>9. CASE r.by \in Signers(r) /\ walk.path = <<>>
  <2>1. FromAnchor(Anchor(walk.name), {Anchor(walk.name)})
    BY <1>2, <1>3, <1>7, <1>9
  <2> QED BY <1>1, <1>2, <1>5, <2>1, FromAnchorKeeps
<1>10. CASE r.by \in Signers(r) /\ walk.path # <<>>
  <2> DEFINE p == Append(walk.path, c)
             v == [walk EXCEPT !.pc = "descend", !.path = p, !.keys = {c}]
  <2>1. Enter(p, {c})
    BY <1>3, <1>7, <1>10
  <2>2. /\ walk' = v /\ UNCHANGED verdict
        /\ proved' = proved \cup {[path |-> p, keys |-> {c}]}
    BY <2>1, Zenon DEF Enter, Proceed
  <2>3. v \in WalkRecord /\ GoodWalk(v) /\ (Complete(walk) => Complete(v))
    BY <1>1, <1>10, ChildEntered DEF c
  <2>4. p \in Seq(Signed) /\ p # <<>> /\ p[Len(p)] = c
    BY <1>1, <1>2, AppendFacts DEF WalkRecord
  <2> HIDE DEF p, v
  <2>5. GoodProof([path |-> p, keys |-> {c}])
    BY <2>4 DEF GoodProof
  <2>6. \A y \in proved' : GoodProof(y)
    BY <1>1, <2>2, <2>5
  <2>7. walk' \in WalkRecord /\ GoodWalk(walk') /\ (honest' => Complete(walk'))
    BY <1>1, <1>5, <2>2, <2>3
  <2> QED BY <1>1, <1>5, <2>2, <2>6, <2>7, ValidationGoesOn
<1> QED BY <1>8, <1>9, <1>10

LEMMA CrossDelegationKeeps ==
    ASSUME ValidatorInv, CrossDelegation
    PROVE  ValidatorInv'
<1> DEFINE c == walk.child
           v == [walk EXCEPT !.pc = "keys", !.vouched = {c}]
<1>1. /\ walk.pc = "ds" /\ walk.pc # "idle" /\ walk \in WalkRecord /\ GoodWalk(walk)
      /\ honest \in BOOLEAN /\ honest => Complete(walk)
      /\ UNCHANGED taken /\ \A y \in taken' : Established(y)
      /\ \A p \in proved : GoodProof(p)
  BY DEF CrossDelegation, ValidatorInv
<1>2. InZone(walk)
  BY <1>1 DEF InZone
<1>3. walk.keys = {ZoneAt(walk)} /\ ZoneAt(walk) \in Signed /\ ZoneAt(walk) # Attacker
  BY <1>1, <1>2, ZoneFacts, SignedFacts
<1>4. PICK r \in DSResponses(c) :
         /\ Lookup(r.by \in Cuts)
         /\ IF Signature(r.by)
              THEN Proceed([walk EXCEPT !.pc = "keys", !.vouched = r.digests]) /\ UNCHANGED proved
              ELSE EndWith("bogus")
  BY <1>1, Zenon DEF CrossDelegation
<1>5. /\ lookups < MaxLookups /\ lookups' = lookups + 1
      /\ honest' = (honest /\ r.by \in Cuts)
  BY <1>4, Zenon DEF Lookup
<1>6. lookups' \in 0..MaxLookups /\ honest' \in BOOLEAN /\ (honest' => honest /\ r.by \in Cuts)
  BY <1>1, <1>5, LookupCounts
<1>7. r.by = Attacker \/ (c \in Signed /\ r.digests = {c} /\ r.by = ZoneOf(c, "DS"))
  BY DEF DSResponses
<1>8. CASE r.by = ZoneAt(walk)
  <2>1. Signature(r.by) /\ c \in Signed /\ r.digests = {c}
    BY <1>3, <1>7, <1>8 DEF Signature
  <2>2. walk' = v /\ UNCHANGED verdict /\ UNCHANGED proved
    BY <1>4, <2>1, Zenon DEF Proceed
  <2>3. v \in WalkRecord /\ GoodWalk(v) /\ (Complete(walk) => Complete(v))
    BY <1>1, <2>1, KeysAsked
  <2> HIDE DEF v
  <2>4. walk' \in WalkRecord /\ GoodWalk(walk') /\ (honest' => Complete(walk'))
    BY <1>1, <1>6, <2>2, <2>3
  <2>5. \A p \in proved' : GoodProof(p)
    BY <1>1, <2>2
  <2> QED BY <1>1, <1>6, <2>2, <2>4, <2>5, ValidationGoesOn
<1>9. CASE r.by # ZoneAt(walk)
  <2>1. EndWith("bogus")
    BY <1>3, <1>4, <1>9 DEF Signature
  <2>2. ~honest'
    BY <1>1, <1>6, <1>7, <1>9, ChildsZone, SignedFacts
  <2> QED BY <1>6, <2>1, <2>2, ValidationEnds DEF Statuses
<1> QED BY <1>8, <1>9

LEMMA NoDSKeeps ==
    ASSUME ValidatorInv, NoDS
    PROVE  ValidatorInv'
<1> DEFINE c == walk.child
           v == [walk EXCEPT !.pc = "descend"]
           z == ZoneAt(walk)
<1>1. /\ walk.pc = "ds" /\ walk.pc # "idle" /\ walk \in WalkRecord /\ GoodWalk(walk)
      /\ honest \in BOOLEAN /\ honest => Complete(walk)
      /\ \A y \in taken : Established(y)
      /\ \A p \in proved : GoodProof(p)
  BY DEF NoDS, ValidatorInv
<1>2. InZone(walk) /\ c \in Tree
  BY <1>1 DEF InZone, WalkRecord
<1>3. walk.keys = {z} /\ z \in Signed
  BY <1>1, <1>2, ZoneFacts
<1>4. PICK D \in DenialsFor(c, "DS"), b \in BOOLEAN :
        LET denial == DSDenial(Authenticated(D), c, b) IN
        /\ Lookup(/\ c \notin Signed /\ D = TrueDenial(c, "DS")
                  /\ b = (TrueKind(c, "DS") = "nxdomain"))
        /\ CASE denial = "insecure" -> EndWith("insecure")
             [] denial = "contradicted" -> EndWith("bogus")
             [] denial = "not a cut" -> Stay
             [] OTHER -> Stay \/ EndWith("indeterminate")
        /\ IF denial = "insecure" THEN Claim("unsigned", c, Zone) ELSE UNCHANGED taken
  BY <1>1, Zenon DEF NoDS
<1> DEFINE A == OfZone(D, z)
           denial == DSDenial(A, c, b)
<1>5. Authenticated(D) = A
  BY <1>3 DEF Authenticated, OfZone, Signature
<1>6. A \in SUBSET Chain(z)
  BY <1>3, DenialsAre
<1>7. /\ lookups < MaxLookups /\ lookups' = lookups + 1
      /\ honest' = (honest /\ (/\ c \notin Signed /\ D = TrueDenial(c, "DS")
                               /\ b = (TrueKind(c, "DS") = "nxdomain")))
  BY <1>4, Zenon DEF Lookup
<1>8. /\ lookups' \in 0..MaxLookups /\ honest' \in BOOLEAN
      /\ honest' => /\ honest /\ c \notin Signed /\ D = TrueDenial(c, "DS")
                    /\ b = (TrueKind(c, "DS") = "nxdomain")
  BY <1>1, <1>7, LookupCounts
<1>9. b \in BOOLEAN
  OBVIOUS
<1>10. /\ denial = "insecure" => EndWith("insecure") /\ Claim("unsigned", c, Zone)
       /\ denial = "contradicted" => EndWith("bogus")
       /\ denial # "insecure" /\ denial # "contradicted" =>
             (Stay \/ EndWith("indeterminate")) /\ UNCHANGED taken
  BY <1>4, <1>5
<1>11. denial \in {"insecure", "contradicted", "not a cut", "none"}
  BY DEF DSDenial
\* What the records say when they are all there.
<1>12. ASSUME honest'
       PROVE  denial # "contradicted" /\ (c \in Cuts => denial = "insecure")
  <2>1. c \notin Signed /\ (b => ~Exists(c))
    BY <1>8, <1>12 DEF TrueKind
  <2>2. denial # "contradicted"
    BY <1>2, <1>3, <1>6, <2>1, NoDSConsistent
  <2>3. ASSUME c \in Cuts PROVE denial = "insecure"
    <3>1. ZoneOf(c, "DS") = z
      BY <1>1, <1>8, <1>12, ChildsZone
    <3>2. Exists(c) /\ c \notin DOMAIN Alias /\ ~Has(c, "DS")
      BY <2>1, <2>3, SomethingIs, ExistsFacts, SignedFacts, HasIs
    <3>3. TrueKind(c, "DS") = "nodata"
      BY <3>2, NoDataIs
    <3>4. D = Chain(z) /\ ~b
      BY <1>8, <1>12, <3>1, <3>3 DEF TrueDenial
    <3>5. A = Chain(z) /\ b = FALSE
      BY <1>3, <1>9, <3>4, AllOfZone
    <3>6. DSDenial(Chain(z), c, FALSE) = "insecure"
      BY <1>3, <2>1, <2>3, <3>1, NoDSComplete
    <3> QED BY <3>5, <3>6
  <2> QED BY <2>2, <2>3
<1>13. CASE denial = "insecure"
  <2>1. EndWith("insecure") /\ Claim("unsigned", c, Zone)
    BY <1>10, <1>13
  <2>2. c \in Cuts \ Signed
    BY <1>3, <1>6, <1>13, NoDSSound
  <2>3. taken' = taken \cup {ClaimOf(walk, "unsigned", c, Zone)}
    BY <2>1, Zenon DEF Claim, ClaimOf
  <2>4. Established(ClaimOf(walk, "unsigned", c, Zone))
    BY <1>1, <2>2, UnsignedEarned
  <2>5. \A y \in taken' : Established(y)
    BY <1>1, <2>3, <2>4
  <2> QED BY <1>8, <2>1, <2>5, ValidationEnds DEF Statuses
<1>14. CASE denial = "contradicted"
  <2>1. EndWith("bogus")
    BY <1>10, <1>14
  <2>2. ~honest'
    BY <1>12, <1>14
  <2> QED BY <1>8, <2>1, <2>2, ValidationEnds DEF Statuses
<1>15. CASE denial # "insecure" /\ denial # "contradicted"
  <2>1. (Stay \/ EndWith("indeterminate")) /\ UNCHANGED taken
    BY <1>10, <1>15
  <2>2. CASE EndWith("indeterminate")
    BY <1>8, <2>2, ValidationEnds DEF Statuses
  <2>3. CASE Stay
    <3>1. walk' = v /\ UNCHANGED verdict /\ UNCHANGED proved
      BY <2>3, Zenon DEF Stay, Proceed
    <3>2. v \in WalkRecord /\ GoodWalk(v) /\ (Complete(walk) /\ c \notin Cuts => Complete(v))
      BY <1>1, PassedOver
    <3> HIDE DEF v, denial
    <3>3. honest' => Complete(walk) /\ c \notin Cuts
      BY <1>1, <1>8, <1>12, <1>15
    <3>4. walk' \in WalkRecord /\ GoodWalk(walk') /\ (honest' => Complete(walk'))
      BY <3>1, <3>2, <3>3
    <3>5. \A p \in proved' : GoodProof(p)
      BY <1>1, <3>1
    <3>6. \A y \in taken' : Established(y)
      BY <1>1, <2>1
    <3> QED BY <1>1, <1>8, <3>1, <3>4, <3>5, <3>6, ValidationGoesOn
  <2> QED BY <2>1, <2>2, <2>3
<1> QED BY <1>13, <1>14, <1>15

LEMMA AcceptAbsenceKeeps ==
    ASSUME ValidatorInv, AcceptAbsence
    PROVE  ValidatorInv'
<1> DEFINE n == walk.name
           t == walk.type
           z == ZoneAt(walk)
<1>1. /\ walk.pc = "answer" /\ walk \in WalkRecord /\ GoodWalk(walk)
      /\ honest \in BOOLEAN /\ honest => Complete(walk)
      /\ \A y \in taken : Established(y)
  BY DEF AcceptAbsence, ValidatorInv
<1>2. InZone(walk)
  BY <1>1 DEF InZone
<1>3. walk.keys = {z} /\ z \in Signed /\ Zone = z
  BY <1>1, <1>2, ZoneFacts DEF Zone, ZoneAt
<1>4. PICK D \in DenialsFor(n, t), b \in BOOLEAN :
       /\ Lookup(/\ TrueKind(n, t) = IF b THEN "nxdomain" ELSE "nodata"
                 /\ D = TrueDenial(n, t))
       /\ Claim(IF b THEN "nxdomain" ELSE "nodata", n, Zone)
       /\ IF IF b THEN NameErrorProved(Authenticated(D), n)
                  ELSE NoDataProved(Authenticated(D), n, t)
            THEN EndWith("secure") ELSE EndWith("bogus")
  BY Zenon DEF AcceptAbsence
<1> DEFINE A == OfZone(D, z)
           k == IF b THEN "nxdomain" ELSE "nodata"
           c == ClaimOf(walk, k, n, z)
           ok == IF b THEN NameErrorProved(A, n) ELSE NoDataProved(A, n, t)
<1>5. Authenticated(D) = A
  BY <1>3 DEF Authenticated, OfZone, Signature
<1>6. A \in SUBSET Chain(z)
  BY <1>3, DenialsAre
<1>7. /\ lookups < MaxLookups /\ lookups' = lookups + 1
      /\ honest' = (honest /\ (/\ TrueKind(n, t) = IF b THEN "nxdomain" ELSE "nodata"
                               /\ D = TrueDenial(n, t)))
  BY <1>4, Zenon DEF Lookup
<1>8. /\ lookups' \in 0..MaxLookups /\ honest' \in BOOLEAN
      /\ honest' => /\ honest /\ TrueKind(n, t) = k /\ D = TrueDenial(n, t)
  BY <1>1, <1>7, LookupCounts
<1>9. taken' = taken \cup {c}
  BY <1>3, <1>4 DEF Claim, ClaimOf
<1>10. IF ok THEN EndWith("secure") ELSE EndWith("bogus")
  BY <1>4, <1>5
<1>11. CASE ok
  <2>1. Established(c)
    BY <1>1, <1>6, <1>11, AbsenceEarned
  <2>2. \A y \in taken' : Established(y)
    BY <1>1, <1>9, <2>1
  <2>3. EndWith("secure")
    BY <1>10, <1>11
  <2> QED BY <1>8, <2>2, <2>3, ValidationEnds DEF Statuses
<1>12. CASE ~ok
  <2>1. EndWith("bogus")
    BY <1>10, <1>12
  <2>2. honest' => NotRead(c)
    BY <1>1, <1>8, <1>12, AbsenceAccepted
  <2>3. honest' => \E y \in taken' : NotRead(y)
    BY <1>9, <2>2
  <2> QED BY <1>8, <2>1, <2>3, ValidationEnds DEF Statuses
<1> QED BY <1>11, <1>12

LEMMA AcceptRecordsKeeps ==
    ASSUME ValidatorInv, AcceptRecords
    PROVE  ValidatorInv'
<1> DEFINE n == walk.name
           t == walk.type
           z == ZoneAt(walk)
           to == IF n \in DOMAIN Alias THEN Alias[n] ELSE Root
           v == [walk EXCEPT !.pc = "hop", !.visited = walk.visited \cup {n}, !.name = to]
<1>1. /\ walk.pc = "answer" /\ walk.pc # "idle" /\ walk \in WalkRecord /\ GoodWalk(walk)
      /\ honest \in BOOLEAN /\ honest => Complete(walk)
      /\ \A y \in taken : Established(y)
      /\ \A p \in proved : GoodProof(p)
  BY DEF AcceptRecords, ValidatorInv
<1>2. InZone(walk)
  BY <1>1 DEF InZone
<1>3. walk.keys = {z} /\ z \in Signed
  BY <1>1, <1>2, ZoneFacts
<1>4. PICK r \in RecordsAt(n, t), D \in DenialsFor(n, t), b \in BOOLEAN :
       /\ Lookup(/\ r.kind = TrueKind(n, t) /\ ~b
                 /\ r.by = Key(ZoneOf(n, t))
                 /\ r.under = Source(n)
                 /\ D = TrueDenial(n, t))
       /\ Claim(r.kind, r.under, r.by)
       /\ IF \/ b /\ r.kind = "data"
             \/ ~Signature(r.by)
             \/ r.under # n /\ ~ExpansionProved(Authenticated(D), n, r.under)
            THEN EndWith("bogus")
          ELSE IF r.kind = "data" THEN EndWith("secure")
          ELSE Proceed(v) /\ UNCHANGED proved
  BY Zenon DEF AcceptRecords
<1> DEFINE A == OfZone(D, z)
           c == ClaimOf(walk, r.kind, r.under, r.by)
           bad == \/ b /\ r.kind = "data"
                  \/ r.by # z
                  \/ r.under # n /\ ~ExpansionProved(A, n, r.under)
<1>5. Authenticated(D) = A
  BY <1>3 DEF Authenticated, OfZone, Signature
<1>6. A \in SUBSET Chain(z)
  BY <1>3, DenialsAre
<1>7. /\ lookups < MaxLookups /\ lookups' = lookups + 1
      /\ honest' = (honest /\ (/\ r.kind = TrueKind(n, t) /\ ~b
                               /\ r.by = Key(ZoneOf(n, t))
                               /\ r.under = Source(n)
                               /\ D = TrueDenial(n, t)))
  BY <1>4, Zenon DEF Lookup
<1>8. /\ lookups' \in 0..MaxLookups /\ honest' \in BOOLEAN
      /\ honest' => /\ honest /\ r.kind = TrueKind(n, t) /\ ~b
                    /\ r.by = Key(ZoneOf(n, t)) /\ r.under = Source(n)
                    /\ D = TrueDenial(n, t)
  BY <1>1, <1>7, LookupCounts
<1>9. taken' = taken \cup {c}
  BY <1>4 DEF Claim, ClaimOf
<1>10. Signature(r.by) <=> r.by = z
  BY <1>3 DEF Signature
<1>11. IF bad THEN EndWith("bogus")
       ELSE IF r.kind = "data" THEN EndWith("secure")
       ELSE Proceed(v) /\ UNCHANGED proved
  BY <1>4, <1>5, <1>10
<1>12. CASE bad
  <2>1. EndWith("bogus")
    BY <1>11, <1>12
  <2>2. honest' => NotRead(c)
    BY <1>1, <1>8, <1>12, RecordsAccepted
  <2>3. honest' => \E y \in taken' : NotRead(y)
    BY <1>9, <2>2
  <2> QED BY <1>8, <2>1, <2>3, ValidationEnds DEF Statuses
<1>13. CASE ~bad
  <2>1. Established(c)
    BY <1>1, <1>6, <1>13, RecordsEarned
  <2>2. \A y \in taken' : Established(y)
    BY <1>1, <1>9, <2>1
  <2>3. CASE r.kind = "data"
    <3>1. EndWith("secure")
      BY <1>11, <1>13, <2>3
    <3> QED BY <1>8, <2>2, <3>1, ValidationEnds DEF Statuses
  <2>4. CASE r.kind # "data"
    <3>1. walk' = v /\ UNCHANGED verdict /\ UNCHANGED proved
      BY <1>11, <1>13, <2>4, Zenon DEF Proceed
    <3>2. n \in Tree /\ to \in Tree
      BY <1>1, SignedFacts, NamespaceAssumption DEF WalkRecord
    <3> HIDE DEF to
    <3>3. v \in WalkRecord /\ v.pc = "hop"
      BY <1>1, <3>2 DEF WalkRecord
    <3>4. GoodWalk(v) /\ Complete(v)
      BY <3>3, OutsideIsGood
    <3> HIDE DEF v
    <3>5. \A p \in proved' : GoodProof(p)
      BY <1>1, <3>1
    <3> QED BY <1>1, <1>8, <2>2, <3>1, <3>3, <3>4, <3>5, ValidationGoesOn
  <2> QED BY <2>3, <2>4
<1> QED BY <1>12, <1>13

\* ... and is kept by every step.
LEMMA ValidatorInvStep ==
    ValidatorInv /\ [ValidatorNext]_validatorVars => ValidatorInv'
<1>1. SUFFICES ASSUME ValidatorInv, [ValidatorNext]_validatorVars PROVE ValidatorInv'
  OBVIOUS
<1>2. CASE UNCHANGED validatorVars
  BY <1>1, <1>2 DEF ValidatorInv, VerdictIsEarned, validatorVars
<1>3. CASE ValidatorNext
  BY <1>1, <1>3, ValidateKeeps, BeginHopKeeps, DescendKeeps, NoAnswerKeeps,
     AuthenticateKeysKeeps, CrossDelegationKeeps, NoDSKeeps, AcceptRecordsKeeps,
     AcceptAbsenceKeeps DEF ValidatorNext
<1> QED BY <1>1, <1>2, <1>3

LEMMA ValidatorInvGivesType == ValidatorInv => ValidatorTypeOK
<1>1. SUFFICES ASSUME ValidatorInv PROVE ValidatorTypeOK
  OBVIOUS
<1>2. ASSUME NEW p \in proved PROVE p.keys \subseteq Cuts \cup {Attacker}
  <2>1. GoodProof(p)
    BY <1>1 DEF ValidatorInv
  <2>2. p.path[Len(p.path)] \in Signed
    BY <2>1 DEF GoodProof
  <2> QED BY <2>1, <2>2, SignedFacts DEF GoodProof
<1>3. /\ walk.pc \in {"idle", "hop", "keys", "descend", "ds", "answer"}
      /\ walk.name \in Tree /\ walk.visited \subseteq Tree
      /\ walk.keys \subseteq Cuts \cup {Attacker}
  BY <1>1 DEF ValidatorInv, WalkRecord
<1> QED BY <1>1, <1>2, <1>3 DEF ValidatorInv, ValidatorTypeOK, Statuses

\* The validator's variables hold values of their kinds, and no validation looks
\* up more than its budget (validator.go's walk and its lookup).
THEOREM ValidatorTypeCorrect == ValidatorSpec => []ValidatorTypeOK
<1>1. ValidatorSpec => []ValidatorInv
  BY ValidatorInvInit, ValidatorInvStep, PTL DEF ValidatorSpec
<1> QED BY <1>1, ValidatorInvGivesType, PTL

\* Whatever the network answers a validation, secure and insecure are said only of
\* what the zones really say, and bogus is not said of true and full answers; the
\* exceptions are those that Established and NotRead name.
THEOREM VerdictsAreEarned == ValidatorSpec => []VerdictIsEarned
<1>1. ValidatorSpec => []ValidatorInv
  BY ValidatorInvInit, ValidatorInvStep, PTL DEF ValidatorSpec
<1>2. ValidatorInv => VerdictIsEarned
  BY DEF ValidatorInv
<1> QED BY <1>1, <1>2, PTL

\* What is said of the zones is so, and what is true is never called bogus.
VerdictIsExact ==
    /\ verdict \in {"secure", "insecure"} => \A c \in taken : True(c)
    /\ honest => verdict # "bogus"

\* In a world without wildcards, validated from the root, there are no exceptions.
THEOREM VerdictsAreExact ==
    ASSUME DOMAIN Star = {}, Anchors \subseteq {Root}
    PROVE  ValidatorSpec => []VerdictIsExact
<1>1. ASSUME NEW c PROVE ~BesideWildcard(c) /\ ~AtItsAnchor(c) /\ ~NotRead(c)
  BY DEF BesideWildcard, AtItsAnchor, NotRead, Expands, Wildcards
<1>2. VerdictIsEarned => VerdictIsExact
  BY <1>1 DEF VerdictIsEarned, VerdictIsExact, Established
<1> QED BY <1>2, VerdictsAreEarned, PTL

-----------------------------------------------------------------------------
(* Validations end *)

\* What a validation may still do, in the order that counts: look up, begin a hop
\* or go on down, and cross zone cuts on the way.
Distance(w, l) ==
    <<MaxLookups - l,
      IF w.pc = "hop" THEN 2 ELSE IF w.pc = "descend" THEN 1 ELSE 0,
      IF w.pc = "descend" THEN Cardinality(w.left) ELSE 0>>
Distances == [1..3 -> Nat]
Nearer == LessFor(3)

LEMMA DistancesEnd == IsWellFoundedOn(Nearer, Distances)
<1>1. 3 \in Nat
  OBVIOUS
<1> QED BY <1>1, NatLessEnds, WFLexProductOrdering, Zenon DEF Nearer, LessFor, Distances

LEMMA LeftIsFinite ==
    ASSUME NEW w \in WalkRecord, GoodWalk(w), w.pc = "descend"
    PROVE  IsFiniteSet(w.left)
<1>1. InZone(w)
  BY DEF InZone
<1>2. w.left \subseteq OnTheWay(w)
  BY <1>1 DEF GoodWalk
<1>3. OnTheWay(w) \subseteq Above[w.name]
  BY DEF OnTheWay, Candidates
<1>4. IsFiniteSet(Above[w.name])
  BY NamespaceAssumption DEF WalkRecord
<1> QED BY <1>2, <1>3, <1>4, FS_Subset

LEMMA DistanceIs ==
    ASSUME NEW w \in WalkRecord, GoodWalk(w), NEW l \in 0..MaxLookups
    PROVE  /\ Distance(w, l) \in Distances
           /\ Distance(w, l)[1] = MaxLookups - l
           /\ Distance(w, l)[2] = IF w.pc = "hop" THEN 2 ELSE IF w.pc = "descend" THEN 1 ELSE 0
           /\ Distance(w, l)[3] = IF w.pc = "descend" THEN Cardinality(w.left) ELSE 0
<1>1. MaxLookups - l \in Nat
  BY ValidatorAssumption
<1>2. w.pc = "descend" => Cardinality(w.left) \in Nat
  BY LeftIsFinite, FS_CardinalityType
<1> QED BY <1>1, <1>2 DEF Distance, Distances

LEMMA NearerBy ==
    ASSUME NEW a \in Distances, NEW b \in Distances,
           \/ a[1] < b[1]
           \/ a[1] = b[1] /\ a[2] < b[2]
           \/ a[1] = b[1] /\ a[2] = b[2] /\ a[3] < b[3]
    PROVE  <<a, b>> \in Nearer
<1>1. /\ a[1] \in Nat /\ a[2] \in Nat /\ a[3] \in Nat
      /\ b[1] \in Nat /\ b[2] \in Nat /\ b[3] \in Nat
  BY DEF Distances
<1>2. <<a, b>> \in Distances \X Distances /\ <<a, b>>[1] = a /\ <<a, b>>[2] = b
  OBVIOUS
<1>3. ASSUME NEW k \in 1..3, \A j \in 1..(k - 1) : a[j] = b[j], a[k] < b[k]
      PROVE  <<a, b>> \in Nearer
  <2>1. <<a[k], b[k]>> \in NatLess
    BY <1>3 DEF NatLess, Distances
  <2> QED BY <1>2, <1>3, <2>1 DEF Nearer, LessFor, LexProductOrdering, Distances
<1>4. CASE a[1] < b[1]
  <2>1. 1 \in 1..3 /\ \A j \in 1..(1 - 1) : a[j] = b[j]
    OBVIOUS
  <2> QED BY <1>3, <1>4, <2>1
<1>5. CASE a[1] = b[1] /\ a[2] < b[2]
  <2>1. 2 \in 1..3 /\ \A j \in 1..(2 - 1) : a[j] = b[j]
    BY <1>5
  <2> QED BY <1>3, <1>5, <2>1
<1>6. CASE a[1] = b[1] /\ a[2] = b[2] /\ a[3] < b[3]
  <2>1. 3 \in 1..3 /\ \A j \in 1..(3 - 1) : a[j] = b[j]
    BY <1>6
  <2> QED BY <1>3, <1>6, <2>1
<1> QED BY <1>4, <1>5, <1>6

Approached ==
    walk'.pc # "idle" => <<Distance(walk', lookups'), Distance(walk, lookups)>> \in Nearer

LEMMA StepApproaches ==
    ASSUME ValidatorInv, ValidatorInv', walk.pc # "idle", ValidatorNext
    PROVE  Approached
<1> DEFINE a == Distance(walk', lookups')
           b == Distance(walk, lookups)
<1>1. /\ walk \in WalkRecord /\ GoodWalk(walk) /\ lookups \in 0..MaxLookups
      /\ walk' \in WalkRecord /\ GoodWalk(walk') /\ lookups' \in 0..MaxLookups
      /\ MaxLookups \in Nat
  BY ValidatorAssumption DEF ValidatorInv
<1>2. /\ b \in Distances /\ b[1] = MaxLookups - lookups
      /\ b[2] = IF walk.pc = "hop" THEN 2 ELSE IF walk.pc = "descend" THEN 1 ELSE 0
      /\ b[3] = IF walk.pc = "descend" THEN Cardinality(walk.left) ELSE 0
  BY <1>1, DistanceIs
<1>3. /\ a \in Distances /\ a[1] = MaxLookups - lookups'
      /\ a[2] = IF walk'.pc = "hop" THEN 2 ELSE IF walk'.pc = "descend" THEN 1 ELSE 0
      /\ a[3] = IF walk'.pc = "descend" THEN Cardinality(walk'.left) ELSE 0
  BY <1>1, DistanceIs
<1> HIDE DEF a, b
<1>4. SUFFICES ASSUME walk'.pc # "idle" PROVE <<a, b>> \in Nearer
  BY DEF Approached, a, b
<1>5. CASE lookups' = lookups + 1
  <2>1. a[1] < b[1]
    BY <1>1, <1>2, <1>3, <1>5
  <2> QED BY <1>2, <1>3, <2>1, NearerBy
<1>6. ASSUME NEW s, EndWith(s) PROVE FALSE
  BY <1>4, <1>6 DEF EndWith, NoWalk
<1>7. CASE BeginHop
  <2>1. walk.pc = "hop" /\ lookups' = lookups
    BY <1>7 DEF BeginHop
  <2>2. walk'.pc \in {"descend", "keys"}
    <3>1. ASSUME NEW z, NEW found, FromAnchor(z, found) PROVE walk'.pc = "descend"
      BY <1>1, <1>6, <3>1 DEF FromAnchor, Proceed, WalkRecord
    <3>2. ASSUME NEW z,
                 Proceed([walk EXCEPT !.pc = "keys", !.path = <<>>, !.child = z,
                                      !.vouched = {z}])
          PROVE walk'.pc = "keys"
      BY <1>1, <3>2 DEF Proceed, WalkRecord
    <3> QED BY <1>6, <1>7, <3>1, <3>2, Zenon DEF BeginHop
  <2>3. a[1] = b[1] /\ a[2] < b[2]
    BY <1>2, <1>3, <2>1, <2>2
  <2> QED BY <1>2, <1>3, <2>3, NearerBy
<1>8. CASE Descend
  <2> DEFINE c == Highest(walk.left)
  <2>1. walk.pc = "descend" /\ lookups' = lookups
    BY <1>8 DEF Descend
  <2>2. \/ walk'.pc \in {"answer", "ds"}
        \/ walk.left # {} /\ walk'.pc = "descend" /\ walk'.left = walk.left \ {c}
    <3>1. CASE walk.left = {}
      BY <1>1, <1>8, <3>1 DEF Descend, Proceed, WalkRecord
    <3>2. CASE walk.left # {}
      <4>1. ASSUME NEW path, NEW keys1,
                   Proceed([walk EXCEPT !.left = @ \ {c}, !.path = path, !.keys = keys1])
            PROVE  walk'.pc = "descend" /\ walk'.left = walk.left \ {c}
        BY <1>1, <2>1, <4>1 DEF Proceed, WalkRecord
      <4>2. ASSUME Proceed([walk EXCEPT !.pc = "ds", !.child = c, !.left = @ \ {c}])
            PROVE  walk'.pc = "ds"
        BY <1>1, <4>2 DEF Proceed, WalkRecord
      <4> QED BY <1>8, <3>2, <4>1, <4>2, Zenon DEF Descend
    <3> QED BY <3>1, <3>2
  <2>3. CASE walk'.pc \in {"answer", "ds"}
    <3>1. a[1] = b[1] /\ a[2] < b[2]
      BY <1>2, <1>3, <2>1, <2>3
    <3> QED BY <1>2, <1>3, <3>1, NearerBy
  <2>4. CASE walk.left # {} /\ walk'.pc = "descend" /\ walk'.left = walk.left \ {c}
    <3>1. IsFiniteSet(walk.left)
      BY <1>1, <2>1, LeftIsFinite
    <3>2. c \in walk.left
      BY <1>1, <2>1, <2>4, HighestLeft
    <3>3. Cardinality(walk'.left) < Cardinality(walk.left)
      BY <2>4, <3>1, <3>2, SmallerSet
    <3>4. a[1] = b[1] /\ a[2] = b[2] /\ a[3] < b[3]
      BY <1>2, <1>3, <2>1, <2>4, <3>3
    <3> QED BY <1>2, <1>3, <3>4, NearerBy
  <2> QED BY <2>2, <2>3, <2>4
<1>9. CASE NoAnswer
  BY <1>6, <1>9, Zenon DEF NoAnswer
<1>10. CASE AuthenticateKeys \/ CrossDelegation \/ NoDS \/ AcceptRecords \/ AcceptAbsence
  BY <1>5, <1>10, Zenon DEF AuthenticateKeys, CrossDelegation, NoDS, AcceptRecords,
     AcceptAbsence, Lookup
<1>11. \A q \in Examined : ~Validate(q)
  BY DEF Validate
<1> QED BY <1>7, <1>8, <1>9, <1>10, <1>11, Zenon DEF ValidatorNext

\* A validation ends, whatever the network answers: each step of it ends it or
\* lowers what it may still do, in an order in which nothing goes down for ever.
THEOREM ValidationsFinish ==
    /\ IsWellFoundedOn(Nearer, Distances)
    /\ ValidatorSpec =>
         /\ [](Distance(walk, lookups) \in Distances)
         /\ [][walk.pc # "idle" => Approached]_validatorVars
<1> DEFINE Placed == Distance(walk, lookups) \in Distances
           Goes == walk.pc # "idle" => Approached
<1>1. ValidatorInv => Placed
  BY DistanceIs DEF ValidatorInv
<1>2. ValidatorInv /\ ValidatorInv' /\ [ValidatorNext]_validatorVars => [Goes]_validatorVars
  BY StepApproaches
<1> HIDE DEF Placed, Goes
<1>3. ValidatorSpec => []Placed /\ [][Goes]_validatorVars
  BY <1>1, <1>2, ValidatorInvInit, ValidatorInvStep, PTL DEF ValidatorSpec
<1> QED BY <1>3, DistancesEnd DEF Placed, Goes
=============================================================================
