--------------------------- MODULE ProviderEngine ---------------------------
(***************************************************************************)
(* The engine behind the external reputation providers, for one provider:  *)
(* queries queue lookups, workers ask the provider and commit what it says *)
(* to the memory cache and the database, and meanwhile administrators, one *)
(* at a time, change the provider or switch sharing off.                   *)
(*                                                                         *)
(* Every task carries the permission it was queued under, a context.  What *)
(* matters of a context is whether it was cancelled, so a task carries     *)
(* that, and a withdrawal marks every task it cancels.  Contexts of the    *)
(* current instance are open when sharing of their kind is on and the      *)
(* instance was not revoked.                                               *)
(***************************************************************************)
EXTENDS Naturals, Sequences

CONSTANTS
    Askers,          \* the engine's workers
    Operators,       \* administrators
    ProviderQueue,   \* the queue's capacity
    Nobody,
    MaxInstances,    \* bound on the instances built
    MaxSwitches      \* bound on changes of the sharing settings

ASSUME ProviderAssumption ==
    /\ ProviderQueue \in Nat \ {0} /\ MaxInstances \in Nat \ {0}
    /\ MaxSwitches \in Nat
    /\ Nobody \notin Askers

Kinds == {"reputation", "enrichment"}

VARIABLES
    sharing,      \* Engine.mode is not off; Engine.enrichment
    enabledRow,   \* the provider's row: enabled or not
    instance,     \* Engine.instances: the number of the listed one, or 0
    usable,       \* Instance.Usable
    revoked,      \* providerPermission.revoked of the listed one
    built,        \* instances built so far
    cached,       \* MemoryCache: the instance the verdict is from, or 0
    saved,        \* the database: likewise, per kind
    tasks,        \* Engine.queue
    asker,        \* what each worker does
    committing,   \* the worker that holds commitMu
    operator,     \* what each administrator's handler does
    switches

providerVars == <<sharing, enabledRow, instance, usable, revoked, built, cached, saved,
                  tasks, asker, committing, operator, switches>>
settings == <<sharing, enabledRow, switches>>
listing == <<instance, usable, revoked, built>>

NoTask == [from |-> 0, kind |-> "reputation", open |-> FALSE]
Permitted(k) == instance # 0 /\ usable /\ ~revoked /\ sharing[k]

ProviderInit ==
    /\ sharing = [k \in Kinds |-> TRUE]
    /\ enabledRow = TRUE
    /\ instance = 1 /\ usable = TRUE /\ revoked = FALSE /\ built = 1
    /\ cached = 0
    /\ saved = [k \in Kinds |-> 0]
    /\ tasks = <<>>
    /\ asker = [w \in Askers |-> [pc |-> "idle", task |-> NoTask]]
    /\ committing = Nobody
    /\ operator = [o \in Operators |-> [pc |-> "idle", found |-> FALSE, stale |-> FALSE]]
    /\ switches = 0
-----------------------------------------------------------------------------
\* Consult, Enrich: a lookup is queued under the permission in force.
Ask(k) ==
    /\ Permitted(k)
    /\ Len(tasks) < ProviderQueue
    /\ tasks' = Append(tasks, [from |-> instance, kind |-> k, open |-> TRUE])
    /\ UNCHANGED <<settings, listing, cached, saved, asker, committing, operator>>

At(w, pc, t) == asker' = [asker EXCEPT ![w] = [pc |-> pc, task |-> t]]
AskerIdle(w) == At(w, "idle", NoTask)

\* A task whose permission is gone is not asked about.
TakeTask(w) ==
    /\ asker[w].pc = "idle" /\ tasks # <<>>
    /\ IF Head(tasks).open THEN At(w, "asking", Head(tasks)) ELSE UNCHANGED asker
    /\ tasks' = Tail(tasks)
    /\ UNCHANGED <<settings, listing, cached, saved, committing, operator>>

\* The provider answers, fails, or answers after the permission has gone.
Answered(w) ==
    /\ asker[w].pc = "asking"
    /\ \/ AskerIdle(w)
       \/ asker[w].task.open /\ At(w, "answered", asker[w].task)
    /\ UNCHANGED <<settings, listing, cached, saved, tasks, committing, operator>>

FaultyBeginCommit(w) ==
    /\ asker[w].pc = "answered" /\ committing = Nobody
    /\ committing' = w /\ At(w, "committing", asker[w].task)
    /\ UNCHANGED <<settings, listing, cached, saved, tasks, operator>>

\* commitMu is taken and the permission looked at again.
BeginCommit(w) ==
    /\ asker[w].pc = "answered" /\ committing = Nobody
    /\ IF asker[w].task.open
         THEN committing' = w /\ At(w, "committing", asker[w].task)
         ELSE AskerIdle(w) /\ UNCHANGED committing
    /\ UNCHANGED <<settings, listing, cached, saved, tasks, operator>>

\* A verdict goes to memory and then to the database, an enrichment to the
\* database; the write may fail.
CommitVerdict(w) ==
    /\ asker[w].pc = "committing" /\ asker[w].task.kind = "reputation"
    /\ cached' = asker[w].task.from
    /\ At(w, "saving", asker[w].task)
    /\ UNCHANGED <<settings, listing, saved, tasks, committing, operator>>

Save(w) ==
    LET t == asker[w].task IN
    /\ asker[w].pc = IF t.kind = "reputation" THEN "saving" ELSE "committing"
    /\ saved' \in {saved, [saved EXCEPT ![t.kind] = t.from]}
    /\ committing' = Nobody
    /\ AskerIdle(w)
    /\ UNCHANGED <<settings, listing, cached, tasks, operator>>

\* The verdict expires, or its shard is full.
Evict ==
    /\ cached # 0 /\ cached' = 0
    /\ UNCHANGED <<settings, listing, saved, tasks, asker, committing, operator>>
-----------------------------------------------------------------------------
\* Cancelling the contexts of an instance reaches every task queued or asked
\* under them.
Closed(t, kinds) == IF t.kind \in kinds THEN [t EXCEPT !.open = FALSE] ELSE t

Withdraw(kinds) ==
    /\ tasks' = [i \in DOMAIN tasks |-> Closed(tasks[i], kinds)]
    /\ asker' = [w \in Askers |-> [asker[w] EXCEPT !.task = Closed(@, kinds)]]

OperatorAt(o, pc) == operator' = [operator EXCEPT ![o].pc = pc]

\* API.configWrites lets one handler in at a time.
WritesAreFree == \A o \in Operators : operator[o].pc = "idle"

\* SetMode, SetEnrichment: sharing of one kind is switched; switching it off
\* waits for the commit under way.
Switch(o, k, on) ==
    /\ WritesAreFree /\ switches < MaxSwitches
    /\ switches' = switches + 1
    /\ sharing' = [sharing EXCEPT ![k] = on]
    /\ IF on THEN UNCHANGED <<tasks, asker, operator>>
       ELSE Withdraw({k}) /\ OperatorAt(o, "waiting")
    /\ UNCHANGED <<enabledRow, listing, cached, saved, committing>>

WaitForCommits(o) ==
    /\ operator[o].pc = "waiting" /\ committing = Nobody
    /\ OperatorAt(o, "idle")
    /\ UNCHANGED <<settings, listing, cached, saved, tasks, asker, committing>>

\* InvalidateProvider, before any write to the provider's row ...
Invalidate(o) ==
    /\ WritesAreFree /\ built < MaxInstances
    /\ revoked' = TRUE
    /\ Withdraw(Kinds)
    /\ OperatorAt(o, "forgetting")
    /\ UNCHANGED <<settings, instance, usable, built, cached, saved, committing>>

FaultyForgetInstance(o) ==
    /\ operator[o].pc = "forgetting"
    /\ cached' = 0
    /\ OperatorAt(o, "writing")
    /\ UNCHANGED <<settings, listing, saved, tasks, asker, committing>>

\* ... then waits for the commit under way and forgets the provider's verdicts.
ForgetInstance(o) ==
    /\ operator[o].pc = "forgetting" /\ committing = Nobody
    /\ cached' = 0
    /\ OperatorAt(o, "writing")
    /\ UNCHANGED <<settings, listing, saved, tasks, asker, committing>>

\* The write expires the durable verdicts with it, or fails.
WriteRow(o) ==
    /\ operator[o].pc = "writing"
    /\ \/ enabledRow' \in BOOLEAN /\ saved' = [k \in Kinds |-> 0]
       \/ UNCHANGED <<enabledRow, saved>>
    /\ OperatorAt(o, "loading")
    /\ UNCHANGED <<sharing, switches, listing, cached, tasks, asker, committing>>

\* LoadProviders reads the row that SetInstances will build from.
LoadProviders(o) ==
    /\ operator[o].pc = "loading"
    /\ operator' = [operator EXCEPT ![o].pc = "installing", ![o].found = enabledRow]
    /\ UNCHANGED <<settings, listing, cached, saved, tasks, asker, committing>>

\* SetInstances: a new instance is listed and the old one's tasks cancelled;
\* after a failed load nothing is listed.
Install(o) ==
    /\ operator[o].pc = "installing" /\ built < MaxInstances + 1
    /\ Withdraw(Kinds)
    /\ revoked' = FALSE
    /\ \/ instance' = built + 1 /\ built' = built + 1 /\ usable' = operator[o].found
       \/ instance' = 0 /\ usable' = FALSE /\ UNCHANGED built
    /\ operator' = [operator EXCEPT ![o].pc = "dropping", ![o].found = FALSE,
                                    ![o].stale = instance # 0]
    /\ UNCHANGED <<settings, cached, saved, committing>>

\* ... and its verdicts forgotten after the commit under way, by provider, so
\* that a verdict the new instance has already fetched may go with them.
DropStale(o) ==
    /\ operator[o].pc = "dropping" /\ committing = Nobody
    /\ cached' = IF operator[o].stale THEN 0 ELSE cached
    /\ operator' = [operator EXCEPT ![o].pc = "idle", ![o].stale = FALSE]
    /\ UNCHANGED <<settings, listing, saved, tasks, asker, committing>>

ProviderNext ==
    \/ \E k \in Kinds : Ask(k)
    \/ \E w \in Askers :
          TakeTask(w) \/ Answered(w) \/ BeginCommit(w) \/ CommitVerdict(w) \/ Save(w)
    \/ Evict
    \/ \E o \in Operators :
          \/ \E k \in Kinds, on \in BOOLEAN : Switch(o, k, on)
          \/ WaitForCommits(o) \/ Invalidate(o) \/ ForgetInstance(o) \/ WriteRow(o)
          \/ LoadProviders(o) \/ Install(o) \/ DropStale(o)

ProviderSpec == ProviderInit /\ [][ProviderNext]_providerVars
-----------------------------------------------------------------------------
Task == [from : 0..built, kind : Kinds, open : BOOLEAN]

\* Every variable holds a value of its kind; commitMu is held by the worker at
\* its commit.
ProviderTypeOK ==
    /\ sharing \in [Kinds -> BOOLEAN] /\ enabledRow \in BOOLEAN
    /\ built \in Nat /\ instance \in 0..built
    /\ usable \in BOOLEAN /\ revoked \in BOOLEAN
    /\ cached \in 0..built /\ saved \in [Kinds -> 0..built]
    /\ tasks \in Seq(Task) /\ Len(tasks) <= ProviderQueue
    /\ asker \in [Askers -> [pc : {"idle", "asking", "answered", "committing", "saving"},
                             task : Task]]
    /\ committing \in Askers \cup {Nobody}
    /\ \A w \in Askers : (committing = w) = (asker[w].pc \in {"committing", "saving"})
    /\ operator \in [Operators ->
           [pc : {"idle", "waiting", "forgetting", "writing", "loading", "installing",
                  "dropping"}, found : BOOLEAN, stale : BOOLEAN]]
    /\ switches \in 0..MaxSwitches

\* A handler is between a withdrawal and the return that promises it.
Withdrawing == \E o \in Operators :
                   operator[o].pc \in {"waiting", "forgetting", "dropping"}

\* The verdict queries are answered with is the listed instance's own: none
\* outlives the edit that revoked or replaced where it came from.
CacheFollowsInstances ==
    cached # 0 => (cached = instance /\ ~revoked) \/ Withdrawing

\* Nothing is committed under a permission whose withdrawal has returned: once
\* a switch is off or an edit done, a late answer reaches neither the cache nor
\* the database.
NoLateCommit ==
    [][\A w \in Askers :
         CommitVerdict(w) \/ (Save(w) /\ saved' # saved)
           => asker[w].task.open \/ Withdrawing]_providerVars
=============================================================================
