---------------------------- MODULE FeedManager ----------------------------
(***************************************************************************)
(* The blocklist's feeds: rows in the database, cached copies on disk and  *)
(* the index queries are answered from.  One refresh at a time downloads   *)
(* feeds (Refresh all of them, RefreshFeed one); the goroutines that the   *)
(* dashboard's switch starts rebuild the index from the cache              *)
(* (LoadFromCache); administrators edit the rows meanwhile; Close stops    *)
(* everything and joins it; the process may die at any moment.             *)
(*                                                                         *)
(* A copy is known by the URL it came from and by its version there.  Its  *)
(* ETag tells the versions of that URL apart and nothing more: two URLs    *)
(* give their versions the same ETags.  Manager.mu is only ever taken by   *)
(* the holder of ingestMu, which stands for both.                          *)
(***************************************************************************)
EXTENDS Naturals, FiniteSets

CONSTANTS
    Feeds, Urls,
    UrlOf,          \* the URL each feed starts with
    Loaders,        \* goroutines that rebuild the index from the cache
    None,
    Refresher,      \* the goroutine that holds the refresh slot
    MaxVersion,     \* bound on the versions each URL publishes
    MaxEvents       \* bound on edits to rows, new versions, crashes and lost copies

ASSUME FeedAssumption ==
    /\ UrlOf \in [Feeds -> Urls]
    /\ None \notin Feeds \cup Loaders \cup {Refresher}
    /\ None \notin Urls \X Nat
    /\ None \notin [of : Urls \X Nat, stray : BOOLEAN]
    /\ Refresher \notin Loaders
    /\ MaxVersion \in [Urls -> Nat \ {0}] /\ MaxEvents \in Nat

Content == Urls \X Nat

VARIABLES
    rows,       \* table feeds: listed, url, enabled, etag
    provider,   \* the version each URL serves
    files,      \* the cached copy of each feed, or None
    lost,       \* feeds whose cached copy is damaged or gone
    index,      \* Holder: the copies the published index was built from
    warm,       \* Holder.Generation() is not 0
    loaded,     \* Manager.loads: the feeds marked Loaded
    slot,       \* Manager.refreshing
    ingest,     \* the holder of ingestMu, or None
    gate,       \* the operations holding lifecycle for reading
    closing, closed, serving,
    ref,        \* the refresh
    load,       \* the rebuilds
    edit,       \* the switch of a feed whose handler holds configWrites
    reported,     \* a rebuild after a feed change failed and was only reported
    events      \* edits, new versions, crashes and lost copies so far

vars == <<rows, provider, files, lost, index, warm, loaded, slot, ingest, gate,
          closing, closed, serving, ref, load, edit, reported, events>>

disk == <<rows, provider, files, lost>>
locks == <<slot, ingest, gate>>
life == <<closing, closed, serving>>

NoRows == [f \in Feeds |-> [listed |-> FALSE, url |-> UrlOf[f],
                            enabled |-> FALSE, etag |-> None]]
NoCopies == [f \in Feeds |-> None]

\* A refresh: where it is, what it is asked for, the rows it read, the feeds
\* left to do, the feed in hand and the copy its URL serves, the index being
\* built, how the feed ended and whether any was committed or failed.  A context that is
\* done shows as the failure of the next step that looks at it.
IdleRef == [pc |-> "idle", all |-> FALSE, seen |-> NoRows, todo |-> {},
            feed |-> None, body |-> None, cand |-> NoCopies, res |-> "none",
            etag |-> None, committed |-> FALSE, failed |-> FALSE]
IdleLoad == [pc |-> "idle", cand |-> NoCopies]
IdleEdit == [pc |-> "idle", feed |-> None, before |-> FALSE, want |-> FALSE]

Init ==
    /\ rows = [f \in Feeds |-> [listed |-> TRUE, url |-> UrlOf[f],
                                enabled |-> TRUE, etag |-> None]]
    /\ provider = [u \in Urls |-> 1]
    /\ files = NoCopies
    /\ lost = {}
    /\ index = NoCopies
    /\ warm = FALSE
    /\ loaded = {}
    /\ slot = FALSE
    /\ ingest = None
    /\ gate = {}
    /\ closing = FALSE /\ closed = FALSE /\ serving = FALSE
    /\ ref = IdleRef
    /\ load = [l \in Loaders |-> IdleLoad]
    /\ edit = IdleEdit
    /\ reported = FALSE
    /\ events = 0

-----------------------------------------------------------------------------
(* Building an index *)

On(f) == rows[f].listed /\ rows[f].enabled
Readable(f) == files[f] # None /\ f \notin lost

\* Manager.candidate: every enabled feed with its cached copy, the override
\* with the staged one.  A copy that cannot be read is left out...
Candidate(over, body) ==
    [f \in Feeds |-> IF ~On(f) THEN None
                     ELSE IF f = over THEN body
                     ELSE IF Readable(f) THEN files[f] ELSE None]

FaultyRetained(over, retain) == TRUE

\* ... unless the feed is in force now and the caller retains what is.
Retained(over, retain) ==
    retain => \A f \in loaded \ {over} : On(f) => Readable(f)

MadeFrom(cand) == {f \in Feeds : cand[f] # None}

\* Holder.Store, and Manager.loads.Store under the same mutex.
Publish(cand) == index' = cand /\ warm' = TRUE /\ loaded' = MadeFrom(cand)

-----------------------------------------------------------------------------
(* Start-up: LoadFromCache before any listener opens.  A database error is  *)
(* logged and the process starts with an empty index.                       *)

Boot ==
    /\ ~serving /\ ~closing
    /\ \/ Publish(Candidate(None, None))
       \/ UNCHANGED <<index, warm, loaded>>
    /\ serving' = TRUE
    /\ UNCHANGED <<disk, locks, closing, closed, ref, load, edit, reported, events>>

-----------------------------------------------------------------------------
(* The operation gate and the locks *)

\* BeginRefreshFeed claims the slot in the handler, before anything else.
BeginRefreshFeed(f) ==
    /\ serving /\ ~closing /\ ~slot /\ ref.pc = "idle"
    /\ On(f)
    /\ slot' = TRUE
    /\ ref' = [IdleRef EXCEPT !.pc = "claimed", !.feed = f]
    /\ UNCHANGED <<disk, index, warm, loaded, ingest, gate, life, load, edit,
                   reported, events>>

\* refreshOne enters the gate, or finds the manager closing and gives the slot
\* back.
EnterGate ==
    /\ ref.pc = "claimed"
    /\ \/ /\ closing
          /\ ref' = IdleRef
          /\ slot' = FALSE
          /\ UNCHANGED gate
       \/ /\ ~closing
          /\ ref' = [ref EXCEPT !.pc = "waiting"]
          /\ gate' = gate \cup {Refresher}
          /\ UNCHANGED slot
    /\ UNCHANGED <<disk, index, warm, loaded, ingest, life, load, edit, reported,
                   events>>

\* Refresh enters the gate and then claims the slot.
BeginRefresh ==
    /\ serving /\ ~closing /\ ~slot /\ ref.pc = "idle"
    /\ gate' = gate \cup {Refresher}
    /\ slot' = TRUE
    /\ ref' = [IdleRef EXCEPT !.pc = "waiting", !.all = TRUE]
    /\ UNCHANGED <<disk, index, warm, loaded, ingest, life, load, edit, reported,
                   events>>

\* With ingestMu, the refresh lists the feeds: those to do are the enabled
\* ones, or the one asked for if it is still there and enabled.
LockAndList ==
    /\ ref.pc = "waiting" /\ ingest = None
    /\ ingest' = Refresher
    /\ \/ \E todo \in {IF ref.all THEN {f \in Feeds : On(f)}
                       ELSE {f \in {ref.feed} : On(f)}} :
            ref' = [ref EXCEPT !.pc = IF todo = {} /\ ~ref.all THEN "return"
                                      ELSE "pick",
                               !.seen = rows, !.todo = todo]
       \/ ref' = [ref EXCEPT !.pc = "return"]
    /\ UNCHANGED <<disk, index, warm, loaded, slot, gate, life, load, edit,
                   reported, events>>

\* The deferred calls: ingestMu, the slot, the context and the gate.
Return ==
    /\ ref.pc = "return"
    /\ ref' = IdleRef
    /\ ingest' = None
    /\ slot' = FALSE
    /\ gate' = gate \ {Refresher}
    /\ UNCHANGED <<disk, index, warm, loaded, life, load, edit, reported, events>>

-----------------------------------------------------------------------------
(* One feed *)

\* The next feed; an interrupted Refresh returns.  At the end a Refresh that
\* committed nothing and met no failure rebuilds the index.
Pick ==
    /\ ref.pc = "pick"
    /\ \/ \E f \in ref.todo :
            ref' = [ref EXCEPT !.pc = "download", !.feed = f, !.todo = @ \ {f}]
       \/ /\ ref.todo # {} /\ ref.all
          /\ ref' = [ref EXCEPT !.pc = "return"]
       \/ /\ ref.todo = {}
          /\ ref' = [ref EXCEPT !.feed = None,
                                !.pc = IF ref.all /\ ~ref.failed /\ ~ref.committed
                                       THEN "rebuild" ELSE "return"]
    /\ UNCHANGED <<disk, index, warm, loaded, locks, life, load, edit, reported,
                   events>>

\* The row is not looked at again.
Forget(r) == [r EXCEPT !.seen[r.feed] = NoRows[r.feed]]

FaultyFinishRefresh(r, res, etag) ==
    [r EXCEPT !.pc = "record", !.etag = etag,
              !.res = IF res = "304" THEN "confirmed" ELSE res]

\* finishRefresh: a cold manager that failed tries the cache, and a 304 is a
\* success only once a complete index with the cached copy was published.
FinishRefresh(r, res, etag) ==
    [r EXCEPT !.pc = IF res = "304" \/ (res = "error" /\ ~warm)
                     THEN "rebuild" ELSE "record",
              !.res = res, !.etag = etag]
Fail(r) == FinishRefresh(r, "error", None)

\* The ETag of a copy.  It is stray if it went to, or stays on, a row for another
\* URL than it came from; nothing in the program tells.
ETagOf(copy) == [of |-> copy, stray |-> FALSE]

\* What a URL's server knows its ETags by is their version.
Honoured(etag, copy) == etag # None /\ etag.of[2] = copy[2]

\* download, with the row as it was listed: an error, 304 to the ETag stored,
\* or a new copy, parsed and staged.
Download ==
    /\ ref.pc = "download"
    /\ LET row == ref.seen[ref.feed]
           now == <<row.url, provider[row.url]>> IN
       \/ ref' = Fail(Forget(ref))
       \/ /\ Honoured(row.etag, now)
          /\ ref' = FinishRefresh([Forget(ref) EXCEPT !.body = now], "304", row.etag)
       \/ /\ ~Honoured(row.etag, now)
          /\ ref' = [Forget(ref) EXCEPT !.pc = "staged", !.body = now]
    /\ UNCHANGED <<disk, index, warm, loaded, locks, life, load, edit, reported,
                   events>>

FaultyStage ==
    /\ ref.pc = "staged" /\ Retained(ref.feed, TRUE)
    /\ Publish(Candidate(ref.feed, ref.body))
    /\ ref' = [ref EXCEPT !.pc = "candidate", !.cand = index']
    /\ UNCHANGED <<disk, locks, life, load, edit, reported, events>>

\* snapshot builds the candidate with the staged copy; limits, errors and a
\* feed that must be retained and cannot be read end it.
Stage ==
    /\ ref.pc = "staged"
    /\ \/ ref' = Fail(ref)
       \/ /\ Retained(ref.feed, TRUE)
          /\ ref' = [ref EXCEPT !.pc = "candidate",
                                !.cand = Candidate(ref.feed, ref.body)]
    /\ UNCHANGED <<disk, index, warm, loaded, locks, life, load, edit, reported,
                   events>>

\* The commit point: the staged file is renamed over the cached one.
Rename ==
    /\ ref.pc = "candidate"
    /\ \/ /\ ref' = Fail(ref)
          /\ UNCHANGED <<files, lost>>
       \/ /\ files' = [files EXCEPT ![ref.feed] = ref.body]
          /\ lost' = lost \ {ref.feed}
          /\ ref' = [ref EXCEPT !.pc = "renamed"]
    /\ UNCHANGED <<rows, provider, index, warm, loaded, locks, life, load, edit,
                   reported, events>>

\* The index follows, and the directory is synced; a failure of that is a
\* warning.  Not every copy comes with an ETag.
StoreIndex ==
    /\ ref.pc = "renamed"
    /\ Publish(ref.cand)
    /\ \E etag \in {ETagOf(ref.body), None} :
          ref' = FinishRefresh(ref, "committed", etag)
    /\ UNCHANGED <<disk, locks, life, load, edit, reported, events>>

\* rebuildRequired: with a feed it must be loaded and what is in force is
\* retained; without one (the end of a Refresh) neither is asked.
AfterRebuild(r, ok) ==
    IF r.feed = None THEN [r EXCEPT !.pc = "return"]
    ELSE IF r.res = "304" /\ ok THEN [r EXCEPT !.pc = "record", !.res = "confirmed"]
    ELSE [r EXCEPT !.pc = "record", !.res = "error", !.etag = None]

Rebuild ==
    /\ ref.pc = "rebuild"
    /\ LET cand == Candidate(None, None) IN
       \/ ref' = AfterRebuild(ref, FALSE)
       \/ /\ Retained(None, ref.feed # None)
          /\ ref.feed # None => cand[ref.feed] # None
          /\ ref' = [ref EXCEPT !.pc = "rebuilt", !.cand = cand]
    /\ UNCHANGED <<disk, index, warm, loaded, locks, life, load, edit, reported,
                   events>>

StoreRebuilt ==
    /\ ref.pc = "rebuilt"
    /\ Publish(ref.cand)
    /\ ref' = AfterRebuild(ref, TRUE)
    /\ UNCHANGED <<disk, locks, life, load, edit, reported, events>>

\* The ETag as it goes to the row, whatever URL the row has by now.
Stored(etag) ==
    IF etag = None THEN None
    ELSE [etag EXCEPT !.stray = @ \/ rows[ref.feed].url # ref.body[1]]

\* RecordFeedRefresh, by the feed's id: a commit stores the ETag of its copy, a
\* confirmation leaves the row's or, if a feed's count could not be written,
\* stores the one that was sent; an error leaves it.  Either is recorded although
\* the context is done; any write may fail.
Record ==
    /\ ref.pc = "record"
    /\ ref' = [ref EXCEPT !.pc = "pick", !.body = None, !.cand = NoCopies,
                          !.res = "none", !.etag = None,
                          !.committed = @ \/ ref.res # "error",
                          !.failed = @ \/ ref.res = "error"]
    /\ \/ /\ ref.res \in {"committed", "confirmed"}
          /\ rows[ref.feed].listed
          /\ rows' = [rows EXCEPT ![ref.feed].etag = Stored(ref.etag)]
       \/ UNCHANGED rows
    /\ UNCHANGED <<provider, files, lost, index, warm, loaded, locks, life,
                   load, edit, reported, events>>

-----------------------------------------------------------------------------
(* LoadFromCache, in the background after a feed was switched *)

EnterLoad(l) ==
    /\ load[l].pc = "spawned"
    /\ \/ /\ closing
          /\ load' = [load EXCEPT ![l] = IdleLoad]
          /\ reported' = TRUE
          /\ UNCHANGED gate
       \/ /\ ~closing
          /\ load' = [load EXCEPT ![l].pc = "waiting"]
          /\ gate' = gate \cup {l}
          /\ UNCHANGED reported
    /\ UNCHANGED <<disk, index, warm, loaded, slot, ingest, life, ref, edit, events>>

\* Under ingestMu the candidate is built; what cannot be read is left out.
LoadCandidate(l) ==
    /\ load[l].pc = "waiting" /\ ingest = None
    /\ ingest' = l
    /\ \/ /\ load' = [load EXCEPT ![l].pc = "done"]
          /\ reported' = TRUE
       \/ /\ load' = [load EXCEPT ![l].pc = "built",
                                  ![l].cand = Candidate(None, None)]
          /\ UNCHANGED reported
    /\ UNCHANGED <<disk, index, warm, loaded, slot, gate, life, ref, edit, events>>

LoadStore(l) ==
    /\ load[l].pc = "built"
    /\ Publish(load[l].cand)
    /\ load' = [load EXCEPT ![l].pc = "done"]
    /\ UNCHANGED <<disk, locks, life, ref, edit, reported, events>>

LoadDone(l) ==
    /\ load[l].pc = "done"
    /\ load' = [load EXCEPT ![l] = IdleLoad]
    /\ ingest' = None
    /\ gate' = gate \ {l}
    /\ UNCHANGED <<disk, index, warm, loaded, slot, life, ref, edit, reported, events>>

-----------------------------------------------------------------------------
(* The administrators.  withConfigAudit lets one request in at a time, which *)
(* holds configWrites until its handler has returned.                        *)

Editable == serving /\ ~closing /\ edit.pc = "idle" /\ events < MaxEvents

\* handleUpdateFeed reads the row first ...
ReadSwitch(f) ==
    /\ Editable /\ rows[f].listed
    /\ \E want \in BOOLEAN :
          edit' = [pc |-> "read", feed |-> f, before |-> rows[f].enabled, want |-> want]
    /\ events' = events + 1
    /\ UNCHANGED <<disk, index, warm, loaded, locks, life, ref, load, reported>>

\* ... updates it, or answers an error ...
WriteSwitch ==
    /\ edit.pc = "read"
    /\ \/ /\ rows' = [rows EXCEPT ![edit.feed].enabled = edit.want]
          /\ edit' = [edit EXCEPT !.pc = "written"]
       \/ /\ edit' = IdleEdit
          /\ UNCHANGED rows
    /\ UNCHANGED <<provider, files, lost, index, warm, loaded, locks, life, ref,
                   load, reported, events>>

Spawn(l) == load[l].pc = "idle" /\ load' = [load EXCEPT ![l].pc = "spawned"]

FaultyAnswerSwitch ==
    /\ edit.pc = "written"
    /\ edit' = IdleEdit
    /\ IF rows[edit.feed].enabled /\ ~edit.before
       THEN \E l \in Loaders : Spawn(l)
       ELSE UNCHANGED load
    /\ UNCHANGED <<disk, index, warm, loaded, locks, life, ref, reported, events>>

\* ... reads it again and starts a rebuild if the feed is now switched the other
\* way than it was.  If that read fails the change stands, but is answered with an
\* error and nothing is rebuilt.
AnswerSwitch ==
    /\ edit.pc = "written"
    /\ edit' = IdleEdit
    /\ \/ /\ reported' = TRUE
          /\ UNCHANGED load
       \/ /\ IF rows[edit.feed].enabled # edit.before
               THEN \E l \in Loaders : Spawn(l)
               ELSE UNCHANGED load
          /\ UNCHANGED reported
    /\ UNCHANGED <<disk, index, warm, loaded, locks, life, ref, events>>

\* The ETag of the old source left on the row.
FaultyChangeUrl(f, u) ==
    /\ Editable /\ rows[f].listed
    /\ rows' = [rows EXCEPT ![f].url = u]
    /\ events' = events + 1
    /\ UNCHANGED <<provider, files, lost, index, warm, loaded, locks, life, ref,
                   load, edit, reported>>

\* A new source invalidates the ETag; the cached copy stays until the next
\* refresh.
ChangeUrl(f, u) ==
    /\ Editable /\ rows[f].listed
    /\ rows' = [rows EXCEPT ![f].url = u, ![f].etag = None]
    /\ events' = events + 1
    /\ UNCHANGED <<provider, files, lost, index, warm, loaded, locks, life, ref,
                   load, edit, reported>>

\* Deleting a feed rebuilds nothing.
DeleteFeed(f) ==
    /\ Editable /\ rows[f].listed
    /\ rows' = [rows EXCEPT ![f].listed = FALSE]
    /\ events' = events + 1
    /\ UNCHANGED <<provider, files, lost, index, warm, loaded, locks, life, ref,
                   load, edit, reported>>

-----------------------------------------------------------------------------
(* The world *)

Upload(u) ==
    /\ provider[u] < MaxVersion[u] /\ events < MaxEvents
    /\ provider' = [provider EXCEPT ![u] = @ + 1]
    /\ events' = events + 1
    /\ UNCHANGED <<rows, files, lost, index, warm, loaded, locks, life, ref,
                   load, edit, reported>>

\* A cached copy is deleted, truncated or made unreadable behind our back.
LoseCopy(f) ==
    /\ events < MaxEvents
    /\ files[f] # None /\ f \notin lost
    /\ lost' = lost \cup {f}
    /\ events' = events + 1
    /\ UNCHANGED <<rows, provider, files, index, warm, loaded, locks, life, ref,
                   load, edit, reported>>

\* The process dies and another starts; the renamed files are there.
Crash ==
    /\ events < MaxEvents
    /\ events' = events + 1
    /\ index' = NoCopies
    /\ warm' = FALSE
    /\ loaded' = {}
    /\ slot' = FALSE
    /\ ingest' = None
    /\ gate' = {}
    /\ closing' = FALSE /\ closed' = FALSE /\ serving' = FALSE
    /\ ref' = IdleRef
    /\ load' = [l \in Loaders |-> IdleLoad]
    /\ edit' = IdleEdit
    /\ reported' = FALSE
    /\ UNCHANGED disk

\* Close: the flag and the cancelled context, then the write lock of the gate.
BeginClose ==
    /\ serving /\ ~closing
    /\ closing' = TRUE
    /\ UNCHANGED <<disk, index, warm, loaded, locks, closed, serving, ref, load,
                   edit, reported, events>>

Close ==
    /\ closing /\ ~closed /\ gate = {}
    /\ closed' = TRUE
    /\ UNCHANGED <<disk, index, warm, loaded, locks, closing, serving, ref, load,
                   edit, reported, events>>

\* Nothing is left to do.
Idle ==
    /\ closed /\ ref.pc = "idle"
    /\ \A l \in Loaders : load[l].pc = "idle"
    /\ edit.pc = "idle"
    /\ UNCHANGED vars

-----------------------------------------------------------------------------
RefreshStep ==
    \/ EnterGate \/ LockAndList \/ Pick \/ Download \/ Stage \/ Rename
    \/ StoreIndex \/ Rebuild \/ StoreRebuilt \/ Record \/ Return

LoadStep(l) ==
    EnterLoad(l) \/ LoadCandidate(l) \/ LoadStore(l) \/ LoadDone(l)

Next ==
    \/ Boot
    \/ \E f \in Feeds : BeginRefreshFeed(f)
    \/ BeginRefresh
    \/ RefreshStep
    \/ \E l \in Loaders : LoadStep(l)
    \/ \E f \in Feeds : ReadSwitch(f)
    \/ WriteSwitch \/ AnswerSwitch
    \/ \E f \in Feeds, u \in Urls : ChangeUrl(f, u)
    \/ \E f \in Feeds : DeleteFeed(f)
    \/ \E u \in Urls : Upload(u)
    \/ \E f \in Feeds : LoseCopy(f)
    \/ Crash \/ BeginClose \/ Close \/ Idle

Spec == Init /\ [][Next]_vars

-----------------------------------------------------------------------------
(* Properties *)

Versions == UNION {{<<u, v>> : v \in 1..MaxVersion[u]} : u \in Urls}
Copies == Versions \cup {None}
ETags == [of : Versions, stray : BOOLEAN] \cup {None}

\* Every variable has its type, and the slot, the mutex and the gate are held by
\* those at a place that holds them and by nobody else.
TypeOK ==
    /\ rows \in [Feeds -> [listed : BOOLEAN, url : Urls, enabled : BOOLEAN,
                           etag : ETags]]
    /\ \A u \in Urls : provider[u] \in 1..MaxVersion[u]
    /\ files \in [Feeds -> Copies] /\ lost \subseteq Feeds
    /\ index \in [Feeds -> Copies] /\ loaded \subseteq Feeds
    /\ {warm, slot, closing, closed, serving, reported} \subseteq BOOLEAN
    /\ ingest \in Loaders \cup {Refresher, None}
    /\ gate \subseteq Loaders \cup {Refresher}
    /\ ref.pc \in {"idle", "claimed", "waiting", "pick", "download", "staged",
                   "candidate", "renamed", "rebuild", "rebuilt",
                   "record", "return"}
    /\ \A l \in Loaders :
          /\ load[l].pc \in {"idle", "spawned", "waiting", "built", "done"}
          /\ l \in gate <=> load[l].pc \in {"waiting", "built", "done"}
          /\ ingest = l <=> load[l].pc \in {"built", "done"}
    /\ slot <=> ref.pc # "idle"
    /\ Refresher \in gate <=> ref.pc \notin {"idle", "claimed"}
    /\ ingest = Refresher <=> ref.pc \notin {"idle", "claimed", "waiting"}

\* What queries are answered from, seen from outside: a copy counts as
\* committed once it is renamed, and so does the index that follows it.
Abstract == INSTANCE BlockIndex WITH
    Content <- Versions,
    committed <- files,
    served <- IF ref.pc = "renamed" THEN ref.cand ELSE index

\* The index holds, feed by feed, the latest committed copy or nothing, through
\* concurrent rebuilds, failures between the steps and crashes.
ImplementsBlockIndex == Abstract!Spec

\* A 304 is reported as a success only when the copy in force is the one the
\* provider confirmed: the ETag sent was that of the cached copy, across changed
\* URLs and crashes between the rename and the record.  The exception is an ETag
\* recorded after the feed's URL was changed under the refresh.
NotModifiedIsSound ==
    ref.pc = "record" /\ ref.res = "confirmed"
    => index[ref.feed] = ref.body \/ ref.etag.stray

\* A changed source invalidates the cached ETag: the row of a feed carries no ETag
\* that another URL gave.
ETagIsOfItsSource ==
    \A f \in Feeds : rows[f].etag # None => rows[f].etag.of[1] = rows[f].url

\* A refresh never takes an enabled feed out of force, however it fails: only a
\* switch does, whose rebuild is then on its way or failed and was reported.
RefreshKeepsProtection ==
    [][ref' # ref /\ serving' =>
          \A f \in Feeds :
              index[f] # None /\ index'[f] = None
              => ~On(f) \/ reported
                 \/ (\E l \in Loaders : load[l].pc # "idle")
                 \/ edit.pc # "idle"]_vars

\* A feed that was switched off stops blocking: as long as it is in the index a
\* rebuild is under way, or its failure was reported.
SwitchedOffStopsBlocking ==
    \A f \in Feeds :
        index[f] # None /\ rows[f].listed /\ ~rows[f].enabled
        => \/ reported
           \/ \E l \in Loaders : load[l].pc # "idle"
           \/ edit.pc # "idle"
=============================================================================
