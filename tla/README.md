# DNS Daddy in TLA+

A verification project for the DNS Daddy daemon (Go, about 62,000 lines without
tests): TLA+ modules translated from the source, TLC runs on small instances and
TLAPS proofs for every instance. `PROJECT.json` ties each definition to the lines
it models, each property to the hazard it is for and to a mutant it catches.

## 1. The system

One process answers DNS queries for the networks it knows, blocks names by policy
and blocklists, forwards the others or resolves them itself, may validate DNSSEC
("Daddybound"), and is managed through an HTTP API that writes SQLite.

| Component | State it keeps | Operations | Interacts through | What is hard | What makes it correct |
|---|---|---|---|---|---|
| Forwarding resolver (`internal/resolver/resolver.go`, `route.go`) | the in-flight map, the slot semaphore, each route's `retired` flag and admission count | Resolve, forwardOnce, forward, failover, race, Begin, Close | called by the handler; reads the generation and the route; calls upstreams and the cache | sharing of work between queries, cancellation from four sides, race losers | an answer is for its request; one exchange per flight; nobody is stranded; a closed route is quiet |
| Answer cache (`cache.go`) | 16 sharded maps of messages | Put, Get, evictLocked, Purge | the resolver, the API's purges | steps outside the lock, clamping, conversion | bounded; no record outlives its TTL |
| Handler and listeners (`internal/dnsserver`) | counters, access tracker | Handle over UDP, TCP, DoT, DoH | everything on the query path | several loads of shared snapshots in one query | a query is decided as some configuration says |
| Policy engine (`internal/policy`) | the compiled snapshot | Reload, MatchClient, Evaluate | the handler, the API | a snapshot read table by table; longest prefixes over several networks | the snapshot was stored as a whole; attribution and rule order |
| Client access list (`internal/clientacl`) | the effective set, `stale` | Reload, Current | the handler, the API, diagnostics | reads that fail after the commit | holds what is stored or says it does not |
| Management API (`internal/api`) | `configWrites` and its other locks, login state | about 100 handlers, changes one at a time under `configWrites` | store, engine, ACL, feeds, controller, providers, webhooks | failures after the commit, crashes between intent and outcome, logins that take no lock | an answered change is journalled and in force; a session proves the password |
| Resolution controller (`cmd/dnsdaddy/dns_transport.go`, `dnssec_control.go`, `native_runtime.go`) | the current selection, the saved settings, runtimes | SetMode, SetTransport, Close, start-up | handler, resolver, store, native runtime, learn observer, trust anchors | publish before drain, shared bundles, crashes between save and publish | nothing outlives what it uses; nothing stays on plaintext |
| Blocklist and feeds (`internal/blocklist`) | the index and its generation, cached feed files, refresh slot, ingest lock | Refresh, RefreshFeed, rebuild, LookupEnabled | handler, store, disk, API | a commit in several steps on disk, in memory and in the database; three locks; claims of several feeds on one name | the index holds committed copies, never goes back, blocks exactly what is claimed |
| Query log, decisions, evidence (`internal/querylog`, `decisions`, `evidence`) | bounded queues and counters | Record, Run, drain | handler, store | shutdown order, failed batches | every event is written, failed or counted |
| Detection and learning (`internal/detect`, `internal/learning`) | per-client trackers, baselines, a checkpoint | Observe, evaluate, Checkpoint | handler, store, disk | bounds, checkpoint and restart | bounded; never half a model |
| Reputation providers (`internal/apiprovider`, `internal/intel`) | breaker, limiter, verdict cache, queue, permission tokens | Lookup, worker pool, Reload, settings | policy engine, HTTP, API | late answers after a withdrawal | verdicts belong to the configuration that asked |
| Client protection (`internal/protection`) | token buckets, settings | Allow, Update, CheckResponse | handler, API | bounds of the table, settings replaced in use | limits hold across updates |
| DNSSEC validator (`internal/daddybound/dnssec`) | none | validate a chain | native client, iterative resolver | a network that forges, replays and omits | a verdict is earned |
| Iterative resolver (`.../recursive`) | delegation and message caches, work budget | Resolve | native client, network | loops, budgets, minimised questions | the answer is to the question; ends within its budget |
| Native client, learn observer (`.../native`, `.../observe`, `internal/dnssecobs`) | queues, worker pools | ResolveClient, Observe, Run | controller, handler, store | queue limits, shutdown | drops are counted; workers stop |
| Managed trust anchors (`.../trustanchors`) | RFC 5011 key states on disk | Refresh, Save, Load | refresh loop, disk | timers across restarts and failed saves | no key is trusted before its hold-down, none returns |
| Webhook delivery (`internal/webhook`, `store/webhooks.go`) | the outbox, its settings and counters, the request under way | triggers, claim, post, finish, Reload | findings and reviews, the API, HTTP | settings replaced while posting, late outcomes, crashes | every event accounted for; none sent to another receiver |
| Store (`internal/store`) | SQLite tables | transactions | all of the above | a commit followed by a read that fails | per-table invariants |
| Backup and restore (`internal/backup`) | an archive, a staging directory | Create, Restore | store, disk | crash windows | never over existing data |
| Configuration, diagnostics, support, lab | none or static | parsing, checks, test servers | | | |

On the query path the handler reads, in this order and with no lock across them: the
ACL, the engine's snapshot (twice), the native client, the blocklist generation and
the forward route. Each is an atomic load; each may be replaced between two of them.
On the management path one lock orders the changes, but each is a sequence of a
journal row, a commit and several reloads that may fail or be cut short. These are the
two themes of the project: what holds of a query that sees snapshots of different
ages, and what the parts that replace the snapshots owe each other when a step is late,
fails or never comes.

## 2. The modules

Each module's header says what it leaves out; each action names the code it models.
Definitions named `Faulty...` are bugs kept for mutation testing; no specification uses
them. Variables called "known", "since", "withdrawn", "captured" and the like, with no
counterpart in the code, are history that a property needs.

### Resolving

**`Resolver`** (`resolver.go`, `route.go`, the `Resolve` call in `handler.go`,
`Holder.Store`). Each query is a goroutine: `pc` is the place in
`Resolve`/`forwardOnce`/`forward`. `generation` and `route` are what it loaded;
`dead` is "its context is done", for whatever reason; `registered` and `flight` are
`Resolver.inflight` and the `call` results, `slots` the semaphore, `cached` the
cache's entries, `part[q][u]` the exchange goroutines, `active` the admissions
counted by `ForwardRoute.active`. A message is identified by the query that led the
exchange it came from (`origin`), so "the answer to another question" is something a
state can show. The keys are records, because `Key` and its suffixes are an injective
encoding of those fields. The cache is seen from outside (entries may vanish at any
moment); its inside is `AnswerCache`. Context cancellation is not instant:
`RetirementReaches` is the goroutine of `context.AfterFunc`.

**`RouteGate`** is the abstract specification of a `ForwardRoute`: work enters before
retirement only, and the owner closes a route that is retired and empty. `Resolver`
implements it with the identity mapping on `current`, `retired`, `closed`, `active`
(`RouteGateHolds`, checked and proved).

**`AnswerCache`** (`cache.go`) opens one shard: `Put` with `minTTL`, the clamp and the
sampled eviction for every iteration order of the Go map, and `Get` as its three
moments (clock, lookup under the lock, remaining lifetime after it). A message is the sets
of TTLs in its three sections, of which `minTTL` reads two and `setTTL` writes all. Time is whole
seconds; `UintModulus` is the width of the TTL.

**`TransportControl`** (`dns_transport.go`, `dnssec_control.go`,
`native_runtime.go`). An operation goes prepared, saved, published, stop learn, cancel
and shut the runtime, wait for the refresh loop, close the route and its bundle,
activate; `op` is the holder of the controller's mutex with the old and new
selections. Queries load `NativeClient` and `ForwardRoute` in two steps. `Restart` is
a crash at any moment followed by start-up from the settings. `Close` is shutdown.

**`Namespace`** is a world of names: a tree, given by the names above each name, the
zone cuts, what is held where. It has no counterpart in the code and is not a model of it: it is what the Internet
would answer, which the next two are judged by.

**`Recursion`** (`recursive/`). One resolution at a time with what outlives it, the
message, delegation and address caches, whose entries lapse at any moment. `calls` is
the stack: resolveOnce at the bottom, a nameserver lookup above the call that waits for
it. Minimised questions, the retry in full, referrals, in-bailiwick addresses, backups
from the parent, aliases and every budget are actions or guards. A server may be an
old one that refers a DS question to the child.

**`Validator`** (`dnssec/`). One walk from a trust anchor to the zone of a name, one
delegation at a time, then the judgement of the answer along a chain of aliases. A
lookup is answered by a network that may tell the truth, leave things out, make things
up or replay any signed record of any zone; a signature is the key it was made with.
`MayDeny`, `Spans`, `Encloser` and `AncestorDelegation` are the NSEC checks of
`nsec.go`. `taken` records what a validation took the responses to say, and
`VerdictIsEarned` compares it with what the zones of `Namespace` hold: `Established` is
what secure and insecure promise, with two exceptions stated beside it, and `NotRead`
lists the true answers that the code refuses.

**`TrustAnchors`** (`trustanchors/`). `Refresh(a)` is one authenticated or failed fetch
through `Advance`, `recompute` and `Save`; the state file is written or not; `Restart`
reads it back or finds none. The clock passes in units of the hold-downs.

**`Observation`** (`observe/observer.go`, `dnssecobs/writer.go`, and the shutdown in
`dnssecobserve.go`). Two bounded queues in a row with their worker pools, the
readers-writer gate of admission, and the order in which they are stopped.

### Deciding

**`BlockIndex`** is the abstract specification of the blocklist: for each feed the
index holds its latest committed copy or none, and only a stop of the process loses
everything.

**`FeedManager`** (`manager.go`, `ingest.go`, the feed handlers). The database rows, the
cached copies and the published index, with the refresh slot, the ingest lock and the
operation gate. A refresh lists the rows, downloads with the row's ETag, stages, renames,
stores the index and records the row; edits, new versions, crashes and lost copies fall
in between. Edits take turns (`Editable`), because `withConfigAudit` holds `configWrites`
around each handler. An ETag tells the versions of one URL apart and no more, as HTTP has
it: `Honoured` compares versions alone, and the mark `stray`, which the code does not
have, says of an ETag that its row's URL was another by the time it was recorded. The
module implements `BlockIndex` under the mapping `Abstract`: `files` and `index`
are what the abstract module calls so, except that a renamed file counts as committed
only when the index that holds it is stored.

**`BlockClaims`** (`index.go`, `domainutil.Suffixes`). The builder fed with claims in
some order, and `LookupEnabled`'s walk, against the definition of what should block
(`BlockingIsExact`).

**`QueryDecision`** (`engine.go`, `handler.go`, `default_network.go`). The compiled
snapshot, of whose routes `MatchClient` takes the first by length and name, the catch-alls, the fallback, the
order of allow, block and category rules and of the providers; the query's two loads of
the snapshot with writes in between. The property compares with a definition that has no
sorting: the longest prefix that holds the client, among enabled networks.

**`ProviderEngine`** (`apiprovider/engine.go` and its handlers). Tasks carry the
permission they were queued under; workers commit under `commitMu`; administrators
switch sharing off, or edit a provider, which revokes, waits and invalidates.

**`DecisionRecorder`** (`decisions/recorder.go`). `Record` with its tried lock, the
goroutine of `context.AfterFunc` that seals the queue, `Run` and its bounded drain.

### Managing

**`ConfigChange`** (`handlers_recovery.go`, `handlers_config.go`, `engine.go` Reload,
`controller.go`). A request authenticates, takes `configWrites`, captures the
configuration, writes its intent row, runs the handler (commit, read back, engine
reload in three reads and a publication, ACL reload), captures again and completes its
row. Any read or write may fail; the process may crash at any step and starts again. A
table is the set of the writes committed to it, a snapshot the sets it read.

**`Credentials`** (`api/auth.go`, `store/admin_auth.go`, `store/sessions.go`,
`recover_admin.go`). A first start generates a password, stores its hash, writes the
file and activates it, each as a step; starts may overlap, die or be resumed; recovery
replaces the credential while the daemon is stopped. Logins verify outside any lock and
insert their session later; password changes replace the hash at a revision.

**`Outbox`** (`webhook/service.go`, `store/webhooks.go`, `webhook_schema.sql`). The
triggers that capture an event within the transaction that stores a finding or a
review, the worker's claim, recheck, signing, post and outcome as separate steps, and
the settings handler's save and `Reload`.

### Instances and proofs

`MCResolver`, `MCAnswerCache`, `MCConfigChange`, `MCRecursion` and `MCFeedManager` give
the constants their values. **`MCServices`** does so for the eleven specifications that share no state
with one another: its variable `focus` picks one of them for the whole behaviour, so that
its states are the sum and not the product of theirs, and each component's properties are
checked in the behaviours where it runs (in the others its state is the initial one).
Theorems are in `ResolverProofs`, `TransportControlProofs`, `BlocklistProofs` (`FeedManager`
with `BlockClaims`), `DecisionProofs` (`QueryDecision`, `ProviderEngine`), `CacheProofs`
(`AnswerCache`), `DaddyboundProofs` (`TrustAnchors`, `Recursion`, `Validator`),
`ConfigChangeProofs` (`ConfigChange`) and `ServiceProofs` (`DecisionRecorder`,
`Observation`, `Outbox`, `Credentials`, and what `MCServices` composes).

## 3. The runs

| Run | Bounds | What it shows |
|---|---|---|
| `Resolver_race` | 2 identical queries, 2 upstreams racing, 1 slot, 1 refresh, legacy route then encrypted | an answer is for this request, flights are shared, followers are not stranded, `RouteGate` is implemented |
| `Resolver_failover` | 2 queries differing in CD, 2 upstreams in turn, 1 slot, 1 route | no sharing across CD, `max_inflight` holds, every query ends, a retired route closes |
| `AnswerCache` | 4 keys, 3 places, a sample of 2, TTLs 0-2 over three sections, 3 instants, 1 refresh, 1 reader | size (in `TypeOK`), the TTLs that count, fair eviction |
| `AnswerCache_zero_ttl` (violation) | a TTL of zero | it is cached for `negative_ttl` |
| `AnswerCache_pause` (violation) | a Get held up for up to 2 s | a negative lifetime becomes a huge TTL |
| `TransportControl` | 2 queries, 3 changes or restarts, shutdown | encrypted means encrypted, bundles outlive users, one refresh owner, settings match, changes return |
| `TransportControl_profile` (violation) | 1 query, 2 changes | one query can mix two profiles |
| `ConfigChange` | 2 network writes, a policy and a client write, 1 crash, every read and write may fail | the journal accounts for what is stored, the snapshot was stored as a whole, unwarned writes hold, drift is reported |
| `ConfigChange_unread` (violation) | as above | a committed write that cannot be read back leaves the ACL behind, unnoticed |
| `Services` | below | eleven components, about 2.3 million states |
| `FeedManager_etag` (violation) | 1 feed, 2 URLs, 1 edit during a refresh | the refresh of the old URL records its ETag on the row of the new one |
| `Recursion_shared` (violation) | one server for a zone and the zone below it | the reply to a minimised probe is returned as the answer |

The instances inside `Services`:

| Component | Bounds | Properties |
|---|---|---|
| `FeedManager` | 2 feeds, 2 URLs (one publishes a second version), 2 loaders, 2 events among edits, versions, crashes, losses | `ImplementsBlockIndex`, `NotModifiedIsSound`, `RefreshKeepsProtection`, `SwitchedOffStopsBlocking` |
| `BlockClaims` | a name and its parent, 3 categories, 2 feeds, 4 claims | `BlockingIsExact` |
| `TrustAnchors` | 2 keys, 1 of them configured, hold-downs of 1 (longer than any TTL), clock to 2, 1 restart | `HoldDownServed`, `RevocationLasts`, `OnlyItselfRevokes` |
| `DecisionRecorder` | 2 callers, a queue of 2, 4 decisions | `NoDecisionStranded` |
| `Observation` | 2 queriers, 2 workers, queues of 2 and 1, batches of 2, 4 queries | `EveryObservationAccounted` |
| `ProviderEngine` | 2 workers, 2 administrators one at a time, a queue of 1, 2 instances, 1 switch | `CacheFollowsInstances`, `NoLateCommit` |
| `Recursion` | 25 names, 6 zones (two that only serve each other), 5 queries, depth 2, 2 delegations, 2 aliases, 1 expiry | `AnswersTheQuestion` |
| `Validator` | the same names, 3 signed zones, 2 of them anchors, 16 questions, a forger's key, 3 hops, 3 zones, 10 lookups | `VerdictIsEarned` |
| `QueryDecision` | 4 networks, 2 policies, 3 prefixes, 2 clients, 2 writes, 1 query | `DecidedAsConfigured` |
| `Credentials` | 2 starts, 2 browsers, 2 passwords, 3 revisions | `SessionsProveThePassword`, `ActiveIsDelivered` |
| `Outbox` | 3 events, an outbox of 2, 2 attempts, 2 changes of settings, 1 crash or failed write | `EventsAreAccounted`, `SentAsConsented` |

Why the bounds are enough. The properties of `Resolver` relate two queries, or a query
and the controller; two queries give a leader with a follower, a hit with the query
that stored it, and a loser of a race that outlives its query; two upstreams give a
first and a later attempt, and a winner and a loser; one slot makes the second flight
wait; two routes give a retired and a current one. In `AnswerCache` a sample
of two in three places leaves an entry unseen, as 24 in 3125 do in the default
configuration, and four names fill the places and one more; the additional section has a
record shorter than what counts and one as long; `MaxPause = 0` says that a `Get` takes
less than a second, and `AnswerCache_pause` is the run about what happens when it does
not. Three changes in `TransportControl` let a resource be created, replaced and replaced
again, or replaced across a restart. In `ConfigChange` a second network write may repair
or hide what the first left behind, and the crash may fall anywhere in either. The queues
of the pipelines are smaller than what is offered, so that they fill, and shutdown meets
a full and an empty one. A feed, a key or a provider is replaced once while work on the
old one is under way; a hold-down of 1 can be served, or cut short and begun again. The
world of names has, once each, what the validator and the resolver must tell apart: a signed
and an unsigned delegation, an empty non-terminal, a wildcard, another empty
non-terminal beside it, an alias, an alias of itself, a name below one that does not exist and two zones that cannot be reached. In
`Outbox` three events overfill the outbox, and a change of settings may overtake a worker
that already works under changed ones. For larger instances most safety properties are
proved (section 5).

Symmetry is used where no property or constant tells the members apart: queries, cache
keys, and the network writes of `ConfigChange`. No run with a liveness property uses it.

`CHECK_DEADLOCK FALSE` is set where a bound makes the model stop: the clock of the three
`AnswerCache` runs, and the budgets of `Services` and `Recursion_shared`. Elsewhere the
end is an explicit `Idle` step, enabled only when nothing is left to do, so a real
deadlock is found.

**Fairness.** `Resolver` (`FairSpec`): a runnable goroutine runs; an exchange ends
because it has a timeout; `context.AfterFunc` runs its function; a `Close` that has
begun is carried through. It is not assumed that an upstream answers, that a client
gives up or that a slot is ever granted: waiting for a slot ends by its timeout, which
is a step of the same goroutine. `TransportControl`: the operation takes its next step
when it can, refresh loops and learn lookups end once cancelled or timed out, and a
query inside a runtime or a route ends, all of them having deadlines in the code. The
other specifications state no fairness and have no liveness property.

## 4. Findings

The six violation runs are disagreements between the code and its own comments or
documentation; `PROJECT.json` quotes both sides. In short:

- `ConfigChange_unread`: a network write that commits and then cannot be read back, as
  when the client has gone, is answered as failed and reloads nothing; the ACL stays
  behind the store with nothing to show for it.
- `Recursion_shared`: a server that serves a zone and the zone below it answers the
  minimised NS probe itself, and that answer is taken for the answer to the question.
- `AnswerCache_zero_ttl`: a TTL of 0 is cached for `negative_ttl` although `min_ttl: 0`
  is documented to honour it. A record of the additional section may outlive its TTL too:
  `minTTL` does not look at it and `setTTL` writes the entry's lifetime on it
  (`cache.go:274`, `:289`); the property of the passing run excepts both.
- `AnswerCache_pause`: `Cache.Get` may convert a negative lifetime to an unsigned TTL.
- `FeedManager_etag`: a refresh is recorded by the feed's id, so that one which a change
  of the URL overtook puts the old source's ETag and success on the row of the new one,
  which `feeds.go:139` says a changed source clears. If the new source knows the same
  ETag, the old copy stays in force as the new source's.
- `TransportControl_profile`: the handler's two loads of the selection can mix two
  profiles, so that a query is forwarded unvalidated on a route that was only ever
  selected together with validation.

Smaller things met while modelling, for which there is no run:

- `dns.max_inflight` bounds flights and not exchanges in race mode: `race`
  (`resolver.go:352`) starts one exchange per upstream under one slot, which is freed
  while losers are still cancelling, whereas `resolver.go:43` and
  `docs/threat-model.md:346` speak of exchanges.
- An event captured under new settings and claimed by a worker that read the old ones a
  moment before is counted as failed without an attempt (`webhook/service.go:168`); so is
  one whose secret is read after a cancellation. `store/webhooks.go:149` says delivery is
  at least once.
- A query overtaken by two configuration changes may be decided as none of the three
  configurations says (`handler.go:349`); and a DoH or DoT token whose network has left
  the snapshot in between falls back to the address (`handler.go:335`).
- A deleted feed blocks until the next rebuild. So does one that was switched off when the
  row could not be read back (`feeds.go:171`): the change stands, its handler answers an
  error without a rebuild, and a repeated request finds nothing to change.
- Running out of budget inside a nameserver lookup is reported as no server being
  reachable (`resolve.go:791`).
- `controller.go:36` speaks of handlers that run concurrently; `configWrites` has since
  made them take turns.
- A configured key that withdrew itself and is published again without its REVOKE bit is
  no anchor, but still authenticates a key set (`refresh.go:253`); the comment above it
  says a revoked key is never trusted there.
- The proof asked of an expanded wildcard is that the next closer name has no records
  (`proveWildcardAnswer`, `nsec.go:472`); `validation-model.md:81` says the name is shown
  not to exist. The two differ at and below an empty non-terminal beside a wildcard
  (`BesideWildcard`), which `proveNameError` looks for and this does not.
- A DS asked for at an anchor that is not the root is judged in the anchor's own zone,
  where it is not (`chain.go:877`): `AtItsAnchor`.
- True answers that come out bogus (`NotRead`): a wildcard asked for by its own name,
  which counts as an expansion because its signature has one label less
  (`denialwalk.go:227`), and the absence of a type at an expanded wildcard.
- A generated credential whose file was interrupted before it was whole cannot be
  resumed, only recovered (`ErrPasswordBootstrap`).

## 5. The proofs

`tlapm` checks the eight modules to the last leaf; every theorem is about the
specification that the runs check and holds for all values of the constants.

**Assumptions.** Each module names its own: `NoneAssumption`, `QuestionAssumption` and
`BoundAssumption` (None is no query; a question is its name, DO and CD, as the key takes
it; upstreams, slots and routes are positive numbers), `ControlAssumption` (None is no
route, runtime or operation; the number of changes is positive), `RequestAssumption` (the kinds of request are
disjoint), `CredentialAssumption` (no password is the absent or the partial one),
`RecorderAssumption`, `ObservationAssumption`, `ProviderAssumption` and
`OutboxAssumption` (limits are positive; the goroutines or events counted are finitely
many), `AnchorAssumption` (at least one configured key; times are natural numbers),
`FeedAssumption` (names of goroutines, feeds, copies and ETags do not collide),
`ClaimAssumption` (finitely many names; no two categories of one severity),
`DecisionAssumption` (finitely many prefixes and networks; no two
networks of one name; the stored rows have the default network and policy, and the
policies their networks name), `CacheAssumption` (settings
as `NewCache` clamps them; the clock fits the TTL's width), `NamespaceAssumption` (names
form a tree, nothing is below an alias, a delegation's NS records are kept apart) and
`RecursionAssumption` (nameservers and questions are of that world, a zone has finitely
many nameservers, as a reply lists finitely many, limits are numbers)
and `ValidatorAssumption` (signed zones hang together below the anchors and have the DS
records; names are in canonical order, where what is below a name follows it and its
wildcard comes first; limits are numbers). TLC evaluates them in the runs. Some theorems have a hypothesis of their own
instead, named with them below; where one is refuted without it, a violation run shows so.

**`ResolverProofs`.** The inductive invariant is built in layers.
- `TypeInv` is `TypeOK` and "a follower's origin is a query"; without the latter the
  result a follower copies has no type.
- `RouteInv` adds that nothing runs ahead of the published route (`RoutesInOrder`),
  that a query inside `Resolve` and every running exchange each hold an admission of
  their own (`WorkIsAdmitted`), and that a closed route holds none (`ClosedIsEmpty`).
  It is the admission counts that keep `Close` waiting. From it follow
  `ClosedRoutesAreQuiet`, `RetiredRoutesAdmitNothing` and the refinement
  `GateIsImplemented`, whose step case maps each action to a step of `RouteGate` or to a
  stutter.
- `AnswerInv` says that from the moment a query has an origin, the origin made the
  same request, and that what the maps hold belongs to queries whose key can no longer
  change; `AnswersAreForTheRequest` follows.
- `FlightInv` says that leaders at work are registered under distinct keys, that a
  leader no longer at work has settled, and that followers follow leaders;
  `FlightsAreShared` and `FollowersHaveLeaders` follow.
- `FailoverKeepsToMaxInflight`: outside race mode each slot holder runs at most one
  exchange, so the exchanges inject into the slots. It assumes `Mode # "race"`,
  as it must: there one slot covers an exchange per upstream.

**`TransportControlProofs`.** `ControlInv` describes what may be in use at each point of
an operation (`InUse`: the selections before and after it, as far as they have not been
drained) and says that whatever a query, a learn worker or a refresh loop captured is in
use, shut or retired; and that the settings are those of what runs or will run. It
gives `BundlesOutliveTheirUsers`, `RefreshHasOneOwner`, `EncryptedIsEncrypted` and
`SettingsAreRunning`. `ChangesAreNotHeldUp` is the half of `ChangeReturns` that needs no
fairness: `WaitedFor` is what an operation waits for at its present step (learn workers,
queries inside the old runtime, its refresh loop, queries on the old route), and while
it stands at that step the set never grows. `ToldInv` is what that needs: by then the
runtime was cancelled and its loop told to stop. What remains, that each of those
waited for leaves, is fairness and stays with TLC.

**`BlocklistProofs`** has four parts. The first has a section for each shared thing: the
cached copies, the index, the refresh, the rebuilds, the holders of the locks and the
rest (`FeedInv`). Two
goroutines never build an index at once, so what a candidate was made of is still
committed when it is stored. `FeedsAreABlockIndex` maps every action to a commit, a
rebuild or a stop of `BlockIndex`, or to a stutter.
The second part adds `EtagInv`: an ETag in a row, in a row already read or in an outcome
is stray, or it came from the row's URL and is either that of the cached copy or one the
URL no longer honours. A change of URL drops the ETag, so that a URL is never sent one
that it did not give unless it is stray, and the rename outdates the row's ETag before the
row is written. `ConfirmationsAreSound` rests on one assumption about servers, that a URL
never publishes a version twice; none is made about the ETags of different URLs.
The third, `SwitchInv`, says what is owed to a feed whose switch was changed: until
the index follows, the change is unanswered (`Switching`), or a rebuild is still to read
the rows (`Coming`), or a failure was reported. A feed that is off and owed nothing is in
no index that is being built (`OffInv`); one that is on, in force and missing from the
index being built was switched on since (`KeepInv`). `SwitchesOffAreFollowed` and
`RefreshesKeepProtection` follow; what the handler of a switch read is still stored when
it writes, because no other edit has begun (`EditInv`).
The fourth is about `BlockClaims`. `ClaimsInv`: what a name keeps is the first claim
of its category (`KeptIsFirst`), every claim's category is kept, one claim per category,
and the counters are the cardinalities of what is filed. From there a lookup stops at the
nearest name that a claim of an enabled category is on, and of the claims there `ClaimOn`
picks the most severe; `BlockingExact` follows. That there is a nearest and a most severe
one is `LeastNat`, a least counterexample over the well-founded order of the naturals.

**`DaddyboundProofs`** has a part for each module. `AnchorsInv`: the anchors are computed from the keys, a key on
hold has been seen without a gap since its timer was set, one that withdrew itself is
recorded as revoked unless a restart lost that, and the file holds what memory once held.
For `Recursion`, `RecInv` says of the stack that each call but the first is a lookup the
call below waits for (`CallsInv`), and of each call that the servers it may ask serve the
zone it stands in and that zone is above the name (`GoodCall`). `TrueInv`: an outcome kept
in the message cache is what the world holds for its question, and the bottom call asks
for what the client asked, or for what its aliases lead to. A reply to a full question is
then exact (`ExactReply`), and one to a minimised probe is a referral or sends the walk one
label on (`ProbeReply`). `QuestionsAreAnswered` assumes `OneZoneEach`, that no server
serves a zone and one below it, which is what `Recursion_shared` is about, and
`OldHaveNoDS`, that a server that answers a DS question as any other type is not
authoritative for a signed delegation. The nearest and the farthest of the names above one
(`Lowest`, `Highest`) exist by `LeastNatural`, over the number of names above them.
`ResolutionsEnd` says that a resolution cannot go round for ever, whatever servers fail,
refer, have no address or answer with aliases. Its `Measure` is a word:
first the queries and aliases left, then a letter for each call on the stack, the bottom
one first, which counts the zones it may still enter, whether it may turn to the backups,
the backups left, the nameservers left to look up and the stage it is at. Every step of the
resolver lowers the word or ends the resolution (`Lapse`, which ages an entry of the
cache, leaves it), and the library's theorem on lexicographic orderings gives that words
do not go down for ever. The budget of queries alone would not do: a resolution whose
replies come from the cache sends none.
For `Validator` there are three layers. The NSEC checks are compared with the canonical
order: a record spans what lies between two neighbouring owners (`SpansMeans`), what is
covered has nothing in the zone and no delegation above it (`CoveredIsAbsent`), and the
encloser a covering record shows is the nearest name that exists (`EncloserIsNearest`).
Hence each proof is sound for any records of the zone (`NoDataSound`, `NameErrorSound`,
`ExpansionSound`, `NoDSSound`) and succeeds on all of them (`NoDataComplete` and so on).
`GoodWalk` says that a walk stands in a signed zone between the anchor and the name,
trusts that zone's key alone and has left to try only what is below; `Complete`, that no
zone cut on the way has been passed over, which holds while the answers are true, so that
the walk arrives in the name's own zone (`AnswersZone`). `ValidatorInv` adds that
everything taken so far is `Established`; `VerdictsAreEarned` follows. Its exceptions need
a wildcard or an anchor below the root: without either, `VerdictsAreExact` says, secure
and insecure are true and a true and full answer is never bogus. `ValidationsFinish`
measures a walk by the lookups left, its place in the hop and the names left, in that
order; each of its steps lowers that or ends it.

**`DecisionProofs`** is about `QueryDecision` and `ProviderEngine`. `DecisionInv`: every
snapshot is of rows that were stored together, whose networks' policies exist and one of
which is the default; the query's network is the one its first snapshot attributes the
client to, and its rule what the second says of that network's policy. Attribution
(`FirstRouteIsLongest`, `MatchedWhereItBelongs`) is compared with the longest prefix as
the documentation has it, the fallback is shown to exist, and a change that touches only
networks or only policies leaves one of the two snapshots agreeing with both
(`DecidedByOneOfTwo`). Sets of rows are finite, so least and greatest elements exist by
`SmallestNat`, again a least counterexample. `ProviderInv`: a task that is still open is permitted, a
commit under way is awaited by whoever withdraws its permission, and a cached verdict
is of the listed instance or somebody is about to clear it.

**`CacheProofs`.** `TypeInv` adds to `TypeOK` the type of each
reader's `Get`; that a shard never overfills rests on a lemma about what any scan that
`evictLocked` may have made deletes (`EvictionMakesRoom`). `EvictionIsByAge` follows from
another one (`EvictionIsFair`): what a scan ends with is expired, or no fresher than a
full sample, or than everything; it holds for any sample, the default one included.
`TimeInv` says that an entry never ends later than its lifetime from now, and that what a
`Get` found has not ended. It assumes `MaxPause = 0`, that no second passes within a
`Get`, and `AnswerCache_pause` is the run about the other case. That a lifetime is at most
each TTL that counts, as `min_ttl` raises it, is `LifetimeHonoursTTLs`; what does not
count is excepted by the property `HonoursCountedTTL` itself and not by a hypothesis of
`UpstreamTTLsAreHonoured`: shorter records of the additional section, and zero TTLs, which
are `AnswerCache_zero_ttl`.

**`ConfigChangeProofs`.** `ChangeInv`: what a request captured or read is still stored,
because no other commits meanwhile (`configWrites`); the journal row says how far its
write has come; a stored network write is in the ACL, on its way there, marked stale or
answered with an error.

**`ServiceProofs`.** `RecorderInv` counts a decision as waiting, in the worker's hand or
settled, and says that nobody is past the gate of a sealed queue, that the drain begins
sealed and that `Run` returns from an empty queue. `ObservationInv` does the same for two
queues, counting the goroutines at each place by cardinalities, with the order of the
shutdown. `OutboxInv` says that each captured event has a row or was counted; that every
row and the worker's event were captured under the settings they name; and that a
request that is still live under replaced settings is about to be cancelled by the
handler that replaced them. `CredentialInv`: a password about to be activated has been
delivered, and a proof of an earlier password has an earlier revision, which is why the
insertion of a session, conditional on the revision, refuses it.

The last part is about the composition. A step of `ServicesSpec` is one of the component
that `focus` names and leaves the others' variables alone (`OneServiceSteps`), so
`ServicesRunTheirSpecifications`: its behaviours satisfy the specification of every
component, and with it each theorem about that component. `ServicesTypeCorrect` is drawn
from that.

**Only model-checked.** Liveness under fairness (`EveryQueryEnds`, `RetiredRouteCloses`,
`ChangeReturns`), which is beyond the prover; of `ChangeReturns` the half without fairness
is proved, as are the two termination arguments above, which no run could make for every
namespace. Every other property of a passing run is stated by a theorem. Nothing is proved
by induction over data: where a theorem needs a least or a nearest element it comes from
the well-founded order of the naturals, by a least counterexample. The other way round,
`ClosedRouteIsQuiet`, `NoAdmissionAfterRetirement`, `StuckIffAnchorless`,
`ChangesAreNotHeldUp`, `ResolutionsEnd`, `ValidationsFinish` and the
`TypeOK` of `Resolver`, `TransportControl` and `ConfigChange` are proved and listed in
no run.

## 6. Not modelled

The map covers about a tenth of the implementation. The rest is of five kinds.

- **Arithmetic over real time and statistics**: detection, local learning, client
  protection, the breaker and the limiter of the providers. What matters there is a
  threshold over real numbers, which the unit tests reach and TLC does not. (The
  breaker's half-open state may let a second probe through after a late `Failure`,
  `breaker.go:129`.)
- **Formats and I/O**: wire formats, DoH, DoT and DoQ framing, connection sharing, list
  formats and import budgets, configuration files, archives, SQL schemas. In the models
  a copy parses or does not, an exchange answers or fails, a statement commits or not.
- **Read-only code**: dashboards, exports, reports, diagnostics, evidence texts, static
  catalogues. They keep no state.
- **Cryptography and its policy**: algorithms, digests, validity times, key sizes; NSEC3
  (the same argument as NSEC over hashed names) and DNAME. A signature is the key that
  made it.
- **Code beside the daemon**: the lab, the differential tests, the command-line tools.

Left out with something to say about it:

- **Query log**: its writer stops on the signal's context while the DNS server still
  answers (`main.go:582`), so records offered after its drain are counted nowhere; a
  batch the database refuses is counted neither as written nor as dropped.
- **Backup and restore**: sequential commands under a lock. `Create` captures the
  database and the files beside it as two snapshots, not one.
- **API tokens, finding reviews, the setup-address route**: single transactions; the
  last keeps a journal of its own, of the form that `ConfigChange` models.
- **The zone-cut evidence** that the iterative resolver hands to the validator when its
  answer came from a cache (`source.go:107`); `Validator` lets an unproved delegation be
  taken either way instead.
- In the resolver, its embedding without a controller (no route at all), the attempt
  budgets between encrypted endpoints, and failures to build a runtime, which change
  nothing.

## 7. What could come next

The order that seems most useful: the query log beside the DNS server's shutdown (the
pattern of `Observation`); NSEC3 in `Validator`, for opt-out spans; the breaker and the
limiter with time in steps; `Backup.Create` beside the writers it does not exclude. To
prove: a measure for the queries of `Resolver`, as `ResolutionsEnd` has one for those of
`Recursion`, and the denials of NSEC3 once they are modelled.
