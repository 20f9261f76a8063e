---------------------------- MODULE TrustAnchors ----------------------------
(***************************************************************************)
(* The managed trust point (RFC 5011): the keys learned from the zone, the *)
(* anchors answers are validated with, and the state file they outlive a   *)
(* restart in.  A refresh holds Manager.mu from its fetch to its save, so  *)
(* it is one action; a process that dies before the save's rename is a     *)
(* save that failed followed by a Restart.  Keys are key-signing keys,     *)
(* known by their material.                                                *)
(***************************************************************************)
EXTENDS Naturals

CONSTANTS
    Keys,
    Configured,       \* the keys whose digests the build ships
    AddHoldDown, RemoveHoldDown,
    TTLs,             \* the TTLs an answer may carry
    Never,            \* no time
    MaxTime,          \* bound on the clock
    MaxFaults         \* bound on restarts

ASSUME AnchorAssumption ==
    /\ Configured \subseteq Keys /\ Configured # {}
    /\ AddHoldDown \in Nat /\ RemoveHoldDown \in Nat
    /\ TTLs \subseteq Nat
    /\ MaxTime \in Nat /\ MaxFaults \in Nat
    /\ Never \notin Nat

VARIABLES
    clock,
    keys,        \* Manager.tp.Keys: the state and the timers of each key
    anchors,     \* Manager.anchors
    stuck,       \* TrustPoint.NeedsIntervention
    stored,      \* the state file: [keys, stuck], or Never
    faults,
    since,       \* since when every authenticated answer has held the key
    withdrawn,   \* tracked anchors that signed an answer with their REVOKE bit
    rolledBack,  \* a restart read a file older than what was in memory
    forgotten    \* a restart found no file, with keys in memory

anchorVars == <<clock, keys, anchors, stuck, stored, faults, since,
                withdrawn, rolledBack, forgotten>>
history == <<since, withdrawn, rolledBack, forgotten>>

Untracked == [state |-> "start", addUntil |-> 0, removeUntil |-> 0]
NoKeys == [k \in Keys |-> Untracked]

Trusted(tp, k) == tp[k].state \in {"valid", "missing"}
Revoked(tp, k) == tp[k].state \in {"revoked", "removed"}

FaultyRecompute(tp) == Configured \cup {k \in Keys : Trusted(tp, k)}

\* The configured anchors that are not revoked, and the trusted keys.
Recompute(tp) ==
    {k \in Configured : ~Revoked(tp, k)} \cup {k \in Keys : Trusted(tp, k)}

AnchorsInit ==
    /\ clock = 0
    /\ keys = NoKeys
    /\ anchors = Recompute(NoKeys)
    /\ stuck = FALSE
    /\ stored = Never
    /\ faults = 0
    /\ since = [k \in Keys |-> Never]
    /\ withdrawn = {}
    /\ rolledBack = FALSE /\ forgotten = FALSE
-----------------------------------------------------------------------------
\* An answer publishes each key as it is or with its REVOKE bit; some of the
\* published keys sign it.
Answers ==
    {a \in [live : SUBSET Keys, revoked : SUBSET Keys, signers : SUBSET Keys, ttl : TTLs] :
        /\ a.live \cap a.revoked = {} /\ a.live \cup a.revoked # {}
        /\ a.signers \subseteq a.live \cup a.revoked}

\* isTrusted asks the digests first: a configured key counts, revoked or not.
IsTrusted(k) == k \in Configured \/ Trusted(keys, k)

TrustedKeys(a) == {k \in a.live : IsTrusted(k)}

FaultySelfRevoked(a) ==
    IF \E s \in a.signers : IsTrusted(s)
      THEN {k \in a.revoked : IsTrusted(k)} ELSE {}

SelfRevoked(a) == {k \in a.revoked \cap a.signers : IsTrusted(k)}

Authentic(a) == (TrustedKeys(a) \cup SelfRevoked(a)) \cap a.signers # {}

MaxOf(m, n) == IF m > n THEN m ELSE n

FaultyDropped(key) == [key EXCEPT !.state = "start"]

\* forget: a hold-down abandoned leaves nothing behind.
Dropped(key) == Untracked

\* What advance makes of one stored key.
Stepped(k, key, a) ==
    IF k \in SelfRevoked(a) /\ key.state \notin {"revoked", "removed"}
      THEN [key EXCEPT !.state = "revoked", !.removeUntil = clock + RemoveHoldDown]
    ELSE IF k \in a.live
      THEN IF key.state = "missing" \/ (key.state = "addpend" /\ clock >= key.addUntil)
             THEN [key EXCEPT !.state = "valid"] ELSE key
    ELSE CASE key.state = "valid" -> [key EXCEPT !.state = "missing"]
           [] key.state = "addpend" -> Dropped(key)
           [] key.state = "revoked" /\ clock >= key.removeUntil ->
                [key EXCEPT !.state = "removed"]
           [] OTHER -> key

Noticed(a) ==
    [state |-> "addpend", addUntil |-> clock + MaxOf(AddHoldDown, a.ttl), removeUntil |-> 0]

\* seed: a published key that a configured digest names needs no hold-down.
Seeded(k, key, a) ==
    IF k \in a.live \cap Configured /\ key.state \notin {"revoked", "removed"}
      THEN [key EXCEPT !.state = "valid"] ELSE key

FaultyAdvanced(a) ==
    [k \in Keys |->
        IF k \notin a.live /\ keys[k].state = "addpend" THEN keys[k]
        ELSE Seeded(k, IF keys[k] # Untracked THEN Stepped(k, keys[k], a)
                       ELSE IF k \in a.live THEN Noticed(a) ELSE Untracked, a)]

Advanced(a) ==
    [k \in Keys |->
        Seeded(k, IF keys[k] # Untracked THEN Stepped(k, keys[k], a)
                  ELSE IF k \in a.live THEN Noticed(a) ELSE Untracked, a)]

\* The save may fail, which changes nothing else.
Persist == stored' \in {stored, [keys |-> keys', stuck |-> stuck']}

\* An authenticated answer advances the state machine.
Refresh(a) ==
    /\ Authentic(a)
    /\ keys' = Advanced(a)
    /\ anchors' = Recompute(keys')
    /\ stuck' = (anchors' = {})
    /\ Persist
    /\ since' = [k \in Keys |-> IF k \notin a.live THEN Never
                                ELSE IF since[k] = Never THEN clock ELSE since[k]]
    /\ withdrawn' = withdrawn \cup {k \in a.revoked \cap a.signers \cap anchors :
                                      keys[k] # Untracked}
    /\ UNCHANGED <<clock, faults, rolledBack, forgotten>>

\* No source, no answer, or one that no trusted key signed: only saved.
Failed ==
    /\ UNCHANGED <<clock, keys, anchors, stuck, faults, history>>
    /\ Persist

\* The process stops and NewManager reads the file, which may be lost or
\* damaged by then.
Restart ==
    \E found \in {stored, Never} :
        LET file == IF found = Never THEN [keys |-> NoKeys, stuck |-> FALSE] ELSE found
        IN /\ faults < MaxFaults
           /\ keys' = file.keys
           /\ stuck' = file.stuck
           /\ anchors' = Recompute(keys')
           /\ stored' = found
           /\ faults' = faults + 1
           /\ rolledBack' = (rolledBack \/ (found # Never /\ keys' # keys))
           /\ forgotten' = (forgotten \/ (found = Never /\ keys' # keys))
           /\ UNCHANGED <<clock, since, withdrawn>>

Tick ==
    /\ clock < MaxTime
    /\ clock' = clock + 1
    /\ UNCHANGED <<keys, anchors, stuck, stored, faults, history>>

AnchorsNext ==
    \/ \E a \in Answers : Refresh(a)
    \/ Failed
    \/ Restart
    \/ Tick

AnchorsSpec == AnchorsInit /\ [][AnchorsNext]_anchorVars
-----------------------------------------------------------------------------
ManagedKey == [state : {"start", "addpend", "valid", "missing", "revoked", "removed"},
               addUntil : Nat, removeUntil : Nat]
TrustPoint == [Keys -> ManagedKey]

\* Every variable holds a value of its kind.
AnchorsTypeOK ==
    /\ clock \in 0..MaxTime
    /\ keys \in TrustPoint
    /\ \A k \in Keys : keys[k].state = "start" => keys[k] = Untracked
    /\ anchors \subseteq Keys
    /\ stuck \in BOOLEAN
    /\ stored \in {Never} \cup [keys : TrustPoint, stuck : BOOLEAN]
    /\ faults \in 0..MaxFaults
    /\ since \in [Keys -> Nat \cup {Never}]
    /\ withdrawn \subseteq Keys
    /\ rolledBack \in BOOLEAN /\ forgotten \in BOOLEAN

\* A key the build does not ship becomes an anchor only after it was in every
\* authenticated answer for the whole hold-down, whatever crashed, failed to
\* save or was lost meanwhile, unless a failed save let a restart go back.
HoldDownServed ==
    [][~rolledBack' =>
         \A k \in anchors' \ (anchors \cup Configured) :
             since'[k] # Never /\ since'[k] + AddHoldDown <= clock]_anchorVars

\* A tracked key that withdrew itself is never an anchor again, configured or
\* not, while the process finds the state it stopped with.
RevocationLasts ==
    ~rolledBack /\ ~forgotten => withdrawn \cap anchors = {}

\* Whoever signs an answer, an anchor is lost only to its own signature over
\* its own withdrawal; failed, absent and foreign answers leave it in force.
OnlyItselfRevokes ==
    [][faults' = faults => anchors \ anchors' \subseteq withdrawn']_anchorVars

\* The manager says it needs an operator exactly when it has no anchor left.
StuckIffAnchorless == stuck <=> anchors = {}
=============================================================================
