-------------------------- MODULE BlocklistProofs --------------------------
(***************************************************************************)
(* The blocklist from its feeds to its answers, for any feeds, URLs,       *)
(* goroutines, edits, crashes and claims.                                  *)
(*                                                                         *)
(* What queries are answered from is a BlockIndex: two goroutines never    *)
(* build an index at once, so what a candidate was made of is still        *)
(* committed when it is stored.                                            *)
(*                                                                         *)
(* A feed's "not modified" is believed only of the copy in force.  The     *)
(* row's ETag and the cached file are written in two steps with a crash or *)
(* an edit in between; what saves the claim is that an edit drops the ETag *)
(* of the old URL and that a URL never gives two versions one ETag.  It    *)
(* does not hold of an ETag that was stored after such an edit.            *)
(*                                                                         *)
(* A feed that is switched off stops blocking, and no refresh takes one    *)
(* that is on out of force: what is switched is switched one at a time.    *)
(*                                                                         *)
(* A name is blocked exactly when a claim of an enabled category is on it  *)
(* or on a name above it, by the claim that should win.                    *)
(***************************************************************************)
EXTENDS FeedManager, BlockClaims, FiniteSetTheorems, WellFoundedInduction, TLAPS

(* The feed manager *)

RefPlaces == {"idle", "claimed", "waiting", "pick", "download", "staged", "candidate",
              "renamed", "rebuild", "rebuilt", "record", "return"}
Results == {"none", "error", "304", "confirmed", "committed"}

Row == [listed : BOOLEAN, url : Urls, enabled : BOOLEAN, etag : ETags]
Refreshing == [pc : RefPlaces, all : BOOLEAN, seen : [Feeds -> Row], todo : SUBSET Feeds,
               feed : Feeds \cup {None}, body : Copies, cand : [Feeds -> Copies],
               res : Results, etag : ETags, committed : BOOLEAN, failed : BOOLEAN]
Loading == [pc : {"idle", "spawned", "waiting", "built", "done"}, cand : [Feeds -> Copies]]
Editing == [pc : {"idle", "read", "written"}, feed : Feeds \cup {None},
            before : BOOLEAN, want : BOOLEAN]

\* An index made of committed copies.
Latest(ix) == \A f \in Feeds : ix[f] \in {None, files[f]}

DiskInv ==
    /\ rows \in [Feeds -> Row]
    /\ provider \in [Urls -> Nat] /\ \A u \in Urls : provider[u] \in 1..MaxVersion[u]
    /\ files \in [Feeds -> Copies] /\ lost \subseteq Feeds

\* Between the rename and the store the index lags behind the files.
IndexInv ==
    /\ index \in [Feeds -> Copies] /\ loaded \subseteq Feeds /\ warm \in BOOLEAN
    /\ ref.pc # "renamed" => Latest(index)

\* The feed in hand is one, its new copy is a version its URL published, and
\* the index being built is made of it and of committed copies.
RefInv ==
    /\ ref \in Refreshing
    /\ ref.pc \in {"download", "staged", "candidate", "renamed", "record"}
         => ref.feed \in Feeds
    /\ ref.pc \in {"claimed", "waiting"} /\ ~ref.all => ref.feed \in Feeds
    /\ ref.pc \in {"staged", "candidate", "renamed"} => ref.body \in Versions
    /\ ref.pc = "candidate" =>
         \A f \in Feeds : ref.cand[f] \in {None, IF f = ref.feed THEN ref.body ELSE files[f]}
    /\ ref.pc \in {"renamed", "rebuilt"} => Latest(ref.cand)

LoadInv ==
    /\ load \in [Loaders -> Loading]
    /\ \A l \in Loaders : load[l].pc = "built" => Latest(load[l].cand)

\* The holders of the locks: what makes the rename and the store one step.
LockInv ==
    /\ slot <=> ref.pc # "idle"
    /\ Refresher \in gate <=> ref.pc \notin {"idle", "claimed"}
    /\ ingest = Refresher <=> ref.pc \notin {"idle", "claimed", "waiting"}
    /\ \A l \in Loaders :
          /\ l \in gate <=> load[l].pc \in {"waiting", "built", "done"}
          /\ ingest = l <=> load[l].pc \in {"built", "done"}
    /\ ingest \in Loaders \cup {Refresher, None}
    /\ gate \subseteq Loaders \cup {Refresher}

OtherInv ==
    /\ slot \in BOOLEAN /\ closing \in BOOLEAN /\ closed \in BOOLEAN
    /\ serving \in BOOLEAN /\ reported \in BOOLEAN
    /\ edit \in Editing

FeedInv == DiskInv /\ IndexInv /\ RefInv /\ LoadInv /\ LockInv /\ OtherInv

-----------------------------------------------------------------------------
(* The operators the steps are built from *)

LEMMA NoneIsNoVersion ==
    /\ None \notin Versions /\ None \in Copies /\ Versions \subseteq Copies
    /\ None \notin [of : Versions, stray : BOOLEAN] /\ None \in ETags
<1>1. Versions \subseteq Urls \X Nat
  BY FeedAssumption DEF Versions
<1> QED
  BY <1>1, FeedAssumption DEF Copies, ETags

\* The ETag of a copy, and what of it is stored.
LEMMA EtagOfCopy ==
    ASSUME NEW copy \in Versions
    PROVE  /\ ETagOf(copy) \in ETags /\ ETagOf(copy) # None
           /\ ETagOf(copy).of = copy /\ ~ETagOf(copy).stray
<1>1. ETagOf(copy) \in [of : Versions, stray : BOOLEAN]
  BY DEF ETagOf
<1>2. ETagOf(copy) # None
  BY <1>1, NoneIsNoVersion
<1> QED
  BY <1>1, <1>2 DEF ETagOf, ETags

LEMMA StoredEtag ==
    ASSUME NEW etag \in ETags
    PROVE  /\ Stored(etag) \in ETags
           /\ etag = None <=> Stored(etag) = None
           /\ etag # None =>
                /\ Stored(etag).of = etag.of
                /\ Stored(etag).stray = (etag.stray \/ rows[ref.feed].url # ref.body[1])
<1>1. CASE etag = None
  BY <1>1 DEF Stored
<1>2. CASE etag # None
  <2>1. etag \in [of : Versions, stray : BOOLEAN]
    BY <1>2 DEF ETags
  <2> DEFINE astray == etag.stray \/ rows[ref.feed].url # ref.body[1]
  <2>2. Stored(etag) = [etag EXCEPT !.stray = astray] /\ astray \in BOOLEAN
    BY <1>2, <2>1 DEF Stored
  <2> HIDE DEF astray
  <2>3. /\ Stored(etag) \in [of : Versions, stray : BOOLEAN]
        /\ Stored(etag).of = etag.of /\ Stored(etag).stray = astray
    BY <2>1, <2>2
  <2> QED
    BY <1>2, <2>3, NoneIsNoVersion DEF ETags, astray
<1> QED
  BY <1>1, <1>2

\* A candidate is made of committed copies and of the staged one.
LEMMA CandidateMadeOf ==
    ASSUME NEW over, NEW body \in Copies, files \in [Feeds -> Copies]
    PROVE  /\ Candidate(over, body) \in [Feeds -> Copies]
           /\ \A f \in Feeds : Candidate(over, body)[f] \in
                                  {None, IF f = over THEN body ELSE files[f]}
BY NoneIsNoVersion DEF Candidate

LEMMA CandidateOfCache ==
    ASSUME files \in [Feeds -> Copies]
    PROVE  Candidate(None, None) \in [Feeds -> Copies] /\ Latest(Candidate(None, None))
<1>1. None \in Copies /\ None \notin Feeds
  BY NoneIsNoVersion, FeedAssumption
<1>2. /\ Candidate(None, None) \in [Feeds -> Copies]
      /\ \A f \in Feeds : Candidate(None, None)[f] \in
                             {None, IF f = None THEN None ELSE files[f]}
  BY <1>1, CandidateMadeOf
<1> QED
  BY <1>1, <1>2 DEF Latest

\* What the end of a feed's download makes of the refresh.
LEMMA FinishKeeps ==
    ASSUME NEW r \in Refreshing, NEW res \in Results, NEW etag \in ETags
    PROVE  /\ FinishRefresh(r, res, etag) \in Refreshing
           /\ FinishRefresh(r, res, etag).pc \in {"rebuild", "record"}
           /\ FinishRefresh(r, res, etag).feed = r.feed
           /\ FinishRefresh(r, res, etag).all = r.all
<1> DEFINE p == IF res = "304" \/ (res = "error" /\ ~warm) THEN "rebuild" ELSE "record"
<1>1. FinishRefresh(r, res, etag) = [r EXCEPT !.pc = p, !.res = res, !.etag = etag]
  BY DEF FinishRefresh
<1> HIDE DEF p
<1>2. p \in {"rebuild", "record"} /\ p \in RefPlaces
  BY DEF p, RefPlaces
<1> QED
  BY <1>1, <1>2 DEF Refreshing
-----------------------------------------------------------------------------
(* The steps of a refresh *)

LEMMA IdleRefOK == IdleRef \in Refreshing /\ IdleRef.pc = "idle"
<1>1. NoRows \in [Feeds -> Row]
  BY NoneIsNoVersion, FeedAssumption DEF NoRows, Row
<1>2. NoCopies \in [Feeds -> Copies]
  BY NoneIsNoVersion DEF NoCopies
<1> QED
  BY <1>1, <1>2, NoneIsNoVersion DEF IdleRef, Refreshing, RefPlaces, Results

\* A step that leaves the disk and the published index as they are.
LEMMA DiskFrame ==
    ASSUME DiskInv, UNCHANGED <<rows, provider, files, lost>>
    PROVE  DiskInv'
BY DEF DiskInv, Row, ETags, Copies, Versions

LEMMA IndexFrame ==
    ASSUME IndexInv, UNCHANGED <<index, warm, loaded, files>>,
           ref'.pc = "renamed" \/ ref.pc # "renamed"
    PROVE  IndexInv'
BY DEF IndexInv, Copies, Versions, Latest

LEMMA LoadFrame ==
    ASSUME LoadInv, UNCHANGED <<load, files>>
    PROVE  LoadInv'
BY DEF LoadInv, Loading, Copies, Versions, Latest

LEMMA RefFrame ==
    ASSUME RefInv, UNCHANGED <<ref, files>>
    PROVE  RefInv'
BY DEF RefInv, Refreshing, Row, ETags, Copies, Versions, Latest

LEMMA EnterGateStep ==
    ASSUME FeedInv, EnterGate
    PROVE  FeedInv'
<1>1. DiskInv /\ IndexInv /\ RefInv /\ LoadInv /\ LockInv /\ OtherInv
  BY DEF FeedInv
<1>2. /\ UNCHANGED <<rows, provider, files, lost, index, warm, loaded, ingest, load, closing,
                     closed, serving, edit, reported, events>>
      /\ ref.pc = "claimed"
  BY DEF EnterGate, disk, life
<1>3. DiskInv' /\ IndexInv' /\ LoadInv'
  BY <1>1, <1>2, DiskFrame, IndexFrame, LoadFrame
<1>4. CASE /\ closing /\ ref' = IdleRef /\ slot' = FALSE /\ UNCHANGED gate
  <2>1. RefInv'
    BY <1>4, IdleRefOK DEF RefInv, Refreshing, Row, ETags, Copies, Versions
  <2>2. LockInv' /\ OtherInv'
    BY <1>1, <1>2, <1>4, IdleRefOK DEF LockInv, OtherInv, Editing
  <2> QED
    BY <1>3, <2>1, <2>2 DEF FeedInv
<1>5. CASE /\ ~closing /\ ref' = [ref EXCEPT !.pc = "waiting"]
           /\ gate' = gate \cup {Refresher} /\ UNCHANGED slot
  <2>1. ref' \in Refreshing /\ ref'.pc = "waiting" /\ ref'.feed = ref.feed
        /\ ref'.all = ref.all
    BY <1>1, <1>5 DEF RefInv, Refreshing, RefPlaces
  <2>2. RefInv'
    BY <1>1, <1>2, <2>1 DEF RefInv, Refreshing, Row, ETags, Copies, Versions
  <2>3. LockInv' /\ OtherInv'
    BY <1>1, <1>2, <1>5, <2>1, FeedAssumption DEF LockInv, OtherInv, Editing
  <2> QED
    BY <1>3, <2>2, <2>3 DEF FeedInv
<1> QED
  BY <1>4, <1>5 DEF EnterGate

\* A step within the locks that moves the refresh alone.
LEMMA RefMoves ==
    ASSUME FeedInv, RefInv',
           UNCHANGED <<disk, index, warm, loaded, locks, life, load, edit, reported>>,
           ref.pc \notin {"idle", "claimed", "waiting", "renamed"},
           ref'.pc \notin {"idle", "claimed", "waiting"}
    PROVE  FeedInv'
<1>1. DiskInv /\ IndexInv /\ LoadInv /\ LockInv /\ OtherInv
  BY DEF FeedInv
<1>2. DiskInv' /\ IndexInv' /\ LoadInv'
  BY <1>1, DiskFrame, IndexFrame, LoadFrame DEF disk
<1>3. LockInv' /\ OtherInv'
  BY <1>1 DEF LockInv, OtherInv, Editing, locks, life
<1> QED
  BY <1>2, <1>3 DEF FeedInv

LEMMA PickStep ==
    ASSUME FeedInv, Pick
    PROVE  FeedInv'
<1>1. RefInv /\ ref \in Refreshing /\ ref.pc = "pick" /\ UNCHANGED files
  BY DEF FeedInv, RefInv, Pick, disk
<1>2. /\ ref' \in Refreshing /\ ref'.pc \in {"download", "rebuild", "return"}
      /\ ref'.pc = "download" => ref'.feed \in Feeds
  <2>1. CASE \E f \in ref.todo :
               ref' = [ref EXCEPT !.pc = "download", !.feed = f, !.todo = @ \ {f}]
    <3>1. PICK f \in ref.todo :
            ref' = [ref EXCEPT !.pc = "download", !.feed = f, !.todo = @ \ {f}]
      BY <2>1
    <3>2. f \in Feeds
      BY <1>1 DEF Refreshing
    <3> QED
      BY <1>1, <3>1, <3>2 DEF Refreshing, RefPlaces
  <2>2. CASE ref' = [ref EXCEPT !.pc = "return"]
    BY <1>1, <2>2 DEF Refreshing, RefPlaces
  <2>3. CASE ref' = [ref EXCEPT !.feed = None,
                                !.pc = IF ref.all /\ ~ref.failed /\ ~ref.committed
                                       THEN "rebuild" ELSE "return"]
    BY <1>1, <2>3 DEF Refreshing, RefPlaces
  <2> QED
    BY <2>1, <2>2, <2>3 DEF Pick
<1>3. RefInv'
  BY <1>2 DEF RefInv, Refreshing, Row, ETags, Copies, Versions
<1> QED
  BY <1>1, <1>2, <1>3, RefMoves DEF Pick

LEMMA DownloadStep ==
    ASSUME FeedInv, Download
    PROVE  FeedInv'
<1> DEFINE row == ref.seen[ref.feed]
           now == <<row.url, provider[row.url]>>
<1>1. /\ RefInv /\ ref \in Refreshing /\ ref.pc = "download" /\ ref.feed \in Feeds
      /\ UNCHANGED files
  BY DEF FeedInv, RefInv, Download, disk
<1>2. row \in Row
  BY <1>1 DEF Refreshing
<1>3. now \in Versions
  BY <1>2 DEF FeedInv, DiskInv, Row, Versions
<1>4. Forget(ref) \in Refreshing /\ Forget(ref).feed = ref.feed
  <2>1. NoRows[ref.feed] \in Row
    BY <1>1, NoneIsNoVersion, FeedAssumption DEF NoRows, Row
  <2> QED
    BY <1>1, <2>1 DEF Forget, Refreshing
<1>5. /\ ref' \in Refreshing /\ ref'.feed \in Feeds
      /\ ref'.pc \in {"rebuild", "record", "staged"}
      /\ ref'.pc = "staged" => ref'.body \in Versions
  <2>1. CASE ref' = Fail(Forget(ref))
    BY <1>1, <1>4, <2>1, FinishKeeps, NoneIsNoVersion DEF Fail, Results
  <2>2. CASE ref' = FinishRefresh([Forget(ref) EXCEPT !.body = now], "304", row.etag)
    <3> HIDE DEF now
    <3>1. /\ [Forget(ref) EXCEPT !.body = now] \in Refreshing
          /\ [Forget(ref) EXCEPT !.body = now].feed = ref.feed
      BY <1>3, <1>4, NoneIsNoVersion DEF Refreshing
    <3> QED
      BY <1>1, <1>2, <2>2, <3>1, FinishKeeps DEF Row, Results
  <2>3. CASE ref' = [Forget(ref) EXCEPT !.pc = "staged", !.body = now]
    <3> HIDE DEF now
    <3> QED
      BY <1>1, <1>3, <1>4, <2>3, NoneIsNoVersion DEF Refreshing, RefPlaces
  <2> QED
    BY <2>1, <2>2, <2>3 DEF Download
<1>6. RefInv'
  BY <1>5 DEF RefInv, Refreshing, Row, ETags, Copies, Versions
<1> QED
  BY <1>1, <1>5, <1>6, RefMoves DEF Download

LEMMA StageStep ==
    ASSUME FeedInv, Stage
    PROVE  FeedInv'
<1>1. /\ RefInv /\ ref \in Refreshing /\ ref.pc = "staged" /\ ref.feed \in Feeds
      /\ ref.body \in Versions /\ UNCHANGED files /\ files \in [Feeds -> Copies]
  BY DEF FeedInv, DiskInv, RefInv, Stage, disk
<1>2. CASE ref' = Fail(ref)
  <2>1. /\ ref' \in Refreshing /\ ref'.feed \in Feeds /\ ref'.pc \in {"rebuild", "record"}
    BY <1>1, <1>2, FinishKeeps, NoneIsNoVersion DEF Fail, Results
  <2>2. RefInv'
    BY <2>1 DEF RefInv, Refreshing, Row, ETags, Copies, Versions
  <2> QED
    BY <1>1, <2>1, <2>2, RefMoves DEF Stage
<1>3. CASE ref' = [ref EXCEPT !.pc = "candidate", !.cand = Candidate(ref.feed, ref.body)]
  <2>1. /\ Candidate(ref.feed, ref.body) \in [Feeds -> Copies]
        /\ \A f \in Feeds : Candidate(ref.feed, ref.body)[f] \in
                               {None, IF f = ref.feed THEN ref.body ELSE files[f]}
    BY <1>1, CandidateMadeOf, NoneIsNoVersion
  <2>2. /\ ref' \in Refreshing /\ ref'.feed = ref.feed /\ ref'.body = ref.body
        /\ ref'.pc = "candidate" /\ ref'.cand = Candidate(ref.feed, ref.body)
    BY <1>1, <1>3, <2>1 DEF Refreshing, RefPlaces
  <2>3. \A f \in Feeds : ref'.cand[f] \in {None, IF f = ref'.feed THEN ref'.body ELSE files'[f]}
    BY <1>1, <2>1, <2>2
  <2>4. RefInv'
    BY <1>1, <2>2, <2>3 DEF RefInv, Refreshing, Row, ETags, Copies, Versions
  <2> QED
    BY <1>1, <2>2, <2>4, RefMoves DEF Stage
<1> QED
  BY <1>2, <1>3 DEF Stage

LEMMA RebuildStep ==
    ASSUME FeedInv, Rebuild
    PROVE  FeedInv'
<1>1. /\ RefInv /\ ref \in Refreshing /\ ref.pc = "rebuild"
      /\ UNCHANGED files /\ files \in [Feeds -> Copies]
  BY DEF FeedInv, DiskInv, RefInv, Rebuild, disk
<1>2. CASE ref' = AfterRebuild(ref, FALSE)
  <2>1. /\ ref' \in Refreshing /\ ref'.pc \in {"return", "record"}
        /\ ref'.pc = "record" => ref'.feed \in Feeds
    BY <1>1, <1>2, NoneIsNoVersion DEF AfterRebuild, Refreshing, RefPlaces, Results
  <2>2. RefInv'
    BY <2>1 DEF RefInv, Refreshing, Row, ETags, Copies, Versions
  <2> QED
    BY <1>1, <2>1, <2>2, RefMoves DEF Rebuild
<1>3. CASE ref' = [ref EXCEPT !.pc = "rebuilt", !.cand = Candidate(None, None)]
  <2>1. Candidate(None, None) \in [Feeds -> Copies] /\ Latest(Candidate(None, None))
    BY <1>1, CandidateOfCache
  <2>2. ref' \in Refreshing /\ ref'.pc = "rebuilt" /\ ref'.cand = Candidate(None, None)
    BY <1>1, <1>3, <2>1 DEF Refreshing, RefPlaces
  <2>3. \A f \in Feeds : ref'.cand[f] \in {None, files'[f]}
    BY <1>1, <2>1, <2>2 DEF Latest
  <2>4. RefInv'
    BY <2>2, <2>3 DEF RefInv, Refreshing, Row, ETags, Copies, Versions, Latest
  <2> QED
    BY <1>1, <2>2, <2>4, RefMoves DEF Rebuild
<1> QED
  BY <1>2, <1>3 DEF Rebuild

LEMMA LockAndListStep ==
    ASSUME FeedInv, LockAndList
    PROVE  FeedInv'
<1>1. /\ DiskInv /\ IndexInv /\ RefInv /\ LoadInv /\ LockInv /\ OtherInv
      /\ ref \in Refreshing /\ ref.pc = "waiting"
      /\ ~ref.all => ref.feed \in Feeds
  BY DEF FeedInv, RefInv, LockAndList
<1>2. /\ UNCHANGED <<rows, provider, files, lost, index, warm, loaded, slot, gate, closing,
                     closed, serving, load, edit, reported>>
      /\ ingest = None /\ ingest' = Refresher
  BY DEF LockAndList, disk, life
<1>3. /\ ref' \in Refreshing /\ ref'.pc \in {"pick", "return"}
  <2>1. CASE ref' = [ref EXCEPT !.pc = "return"]
    BY <1>1, <2>1 DEF Refreshing, RefPlaces
  <2>2. CASE \E todo \in {IF ref.all THEN {f \in Feeds : On(f)}
                          ELSE {f \in {ref.feed} : On(f)}} :
               ref' = [ref EXCEPT !.pc = IF todo = {} /\ ~ref.all THEN "return" ELSE "pick",
                                  !.seen = rows, !.todo = todo]
    <3>1. PICK todo \in {IF ref.all THEN {f \in Feeds : On(f)}
                         ELSE {f \in {ref.feed} : On(f)}} :
            ref' = [ref EXCEPT !.pc = IF todo = {} /\ ~ref.all THEN "return" ELSE "pick",
                               !.seen = rows, !.todo = todo]
      BY <2>2
    <3>2. todo \subseteq Feeds
      BY <1>1
    <3>3. rows \in [Feeds -> Row]
      BY <1>1 DEF DiskInv
    <3> QED
      BY <1>1, <3>1, <3>2, <3>3 DEF Refreshing, RefPlaces
  <2> QED
    BY <2>1, <2>2 DEF LockAndList
<1>4. DiskInv' /\ IndexInv' /\ LoadInv'
  BY <1>1, <1>2, DiskFrame, IndexFrame, LoadFrame
<1>5. RefInv'
  BY <1>3 DEF RefInv, Refreshing, Row, ETags, Copies, Versions
<1>6. LockInv' /\ OtherInv'
  <2>1. \A l \in Loaders : load[l].pc \notin {"built", "done"}
    BY <1>1, <1>2, FeedAssumption DEF LockInv
  <2> QED
    BY <1>1, <1>2, <1>3, <2>1, FeedAssumption DEF LockInv, OtherInv, Editing
<1> QED
  BY <1>4, <1>5, <1>6 DEF FeedInv

LEMMA ReturnStep ==
    ASSUME FeedInv, Return
    PROVE  FeedInv'
<1>1. DiskInv /\ IndexInv /\ RefInv /\ LoadInv /\ LockInv /\ OtherInv
  BY DEF FeedInv
<1>2. /\ UNCHANGED <<rows, provider, files, lost, index, warm, loaded, closing,
                     closed, serving, load, edit, reported>>
      /\ ref.pc = "return" /\ ref' = IdleRef /\ ingest' = None /\ slot' = FALSE
      /\ gate' = gate \ {Refresher}
  BY DEF Return, disk, life
<1>3. DiskInv' /\ IndexInv' /\ LoadInv'
  BY <1>1, <1>2, DiskFrame, IndexFrame, LoadFrame
<1>4. RefInv'
  BY <1>2, IdleRefOK DEF RefInv, Refreshing, Row, ETags, Copies, Versions
<1>5. LockInv' /\ OtherInv'
  <2>1. \A l \in Loaders : load[l].pc \notin {"built", "done"}
    BY <1>1, <1>2, FeedAssumption DEF LockInv
  <2> QED
    BY <1>1, <1>2, <2>1, IdleRefOK, FeedAssumption DEF LockInv, OtherInv, Editing
<1> QED
  BY <1>3, <1>4, <1>5 DEF FeedInv

\* The rename makes the candidate the index that follows.
LEMMA RenameStep ==
    ASSUME FeedInv, Rename
    PROVE  FeedInv'
<1>1. /\ DiskInv /\ IndexInv /\ RefInv /\ LoadInv /\ LockInv /\ OtherInv
      /\ ref \in Refreshing /\ ref.pc = "candidate" /\ ref.feed \in Feeds
      /\ ref.body \in Versions
  BY DEF FeedInv, RefInv, Rename
<1>2. CASE ref' = Fail(ref) /\ UNCHANGED <<files, lost>>
  <2>1. /\ ref' \in Refreshing /\ ref'.feed \in Feeds /\ ref'.pc \in {"rebuild", "record"}
    BY <1>1, <1>2, FinishKeeps, NoneIsNoVersion DEF Fail, Results
  <2>2. RefInv'
    BY <2>1 DEF RefInv, Refreshing, Row, ETags, Copies, Versions
  <2> QED
    BY <1>1, <1>2, <2>1, <2>2, RefMoves DEF Rename, disk
<1>3. CASE /\ files' = [files EXCEPT ![ref.feed] = ref.body]
           /\ lost' = lost \ {ref.feed}
           /\ ref' = [ref EXCEPT !.pc = "renamed"]
  <2>1. UNCHANGED <<rows, provider, index, warm, loaded, slot, ingest, gate, closing,
                    closed, serving, load, edit, reported>>
    BY DEF Rename, locks, life
  <2>2. files' \in [Feeds -> Copies]
    BY <1>1, <1>3, NoneIsNoVersion DEF DiskInv
  <2>3. /\ ref' \in Refreshing /\ ref'.feed = ref.feed /\ ref'.body = ref.body
        /\ ref'.pc = "renamed" /\ ref'.cand = ref.cand
    BY <1>1, <1>3 DEF Refreshing, RefPlaces
  <2>4. \A f \in Feeds : ref'.cand[f] \in {None, files'[f]}
    <3>1. \A f \in Feeds : ref.cand[f] \in {None, IF f = ref.feed THEN ref.body ELSE files[f]}
      BY <1>1 DEF RefInv
    <3>2. \A f \in Feeds : files'[f] = IF f = ref.feed THEN ref.body ELSE files[f]
      BY <1>1, <1>3 DEF DiskInv
    <3> QED
      BY <2>3, <3>1, <3>2
  <2>5. DiskInv'
    <3>1. lost' \subseteq Feeds
      BY <1>1, <1>3 DEF DiskInv
    <3> QED
      BY <1>1, <2>1, <2>2, <3>1 DEF DiskInv, Row, ETags, Copies, Versions
  <2>6. IndexInv'
    BY <1>1, <2>1, <2>3 DEF IndexInv, Copies, Versions
  <2>7. RefInv'
    BY <1>1, <2>3, <2>4 DEF RefInv, Refreshing, Row, ETags, Copies, Versions, Latest
  <2>8. LoadInv'
    <3>1. \A l \in Loaders : load[l].pc # "built"
      BY <1>1, FeedAssumption DEF LockInv
    <3> QED
      BY <1>1, <2>1, <3>1 DEF LoadInv, Loading, Copies, Versions
  <2>9. LockInv' /\ OtherInv'
    BY <1>1, <2>1, <2>3 DEF LockInv, OtherInv, Editing
  <2> QED
    BY <2>5, <2>6, <2>7, <2>8, <2>9 DEF FeedInv
<1> QED
  BY <1>2, <1>3 DEF Rename

\* An index built of the committed copies is published.
LEMMA PublishStep ==
    ASSUME IndexInv, NEW cand \in [Feeds -> Copies], Latest(cand), Publish(cand),
           UNCHANGED files
    PROVE  IndexInv'
<1>1. index' = cand /\ warm' = TRUE /\ loaded' \subseteq Feeds
  BY DEF Publish, MadeFrom
<1>2. \A f \in Feeds : index'[f] \in {None, files'[f]}
  BY <1>1 DEF Latest
<1> QED
  BY <1>1, <1>2 DEF IndexInv, Copies, Versions, Latest

LEMMA StoreIndexStep ==
    ASSUME FeedInv, StoreIndex
    PROVE  FeedInv'
<1>1. /\ DiskInv /\ IndexInv /\ RefInv /\ LoadInv /\ LockInv /\ OtherInv
      /\ ref \in Refreshing /\ ref.pc = "renamed" /\ ref.feed \in Feeds
      /\ ref.body \in Versions /\ Latest(ref.cand) /\ Publish(ref.cand)
  BY DEF FeedInv, RefInv, StoreIndex
<1>2. UNCHANGED <<rows, provider, files, lost, slot, ingest, gate, closing,
                  closed, serving, load, edit, reported>>
  BY DEF StoreIndex, disk, locks, life
<1>3. PICK etag \in {ETagOf(ref.body), None} : ref' = FinishRefresh(ref, "committed", etag)
  BY DEF StoreIndex
<1>4. etag \in ETags
  BY <1>1, <1>3, EtagOfCopy, NoneIsNoVersion
<1>5. ref' \in Refreshing /\ ref'.feed \in Feeds /\ ref'.pc \in {"rebuild", "record"}
  BY <1>1, <1>3, <1>4, FinishKeeps DEF Results
<1>6. DiskInv' /\ LoadInv'
  BY <1>1, <1>2, DiskFrame, LoadFrame
<1>7. IndexInv'
  BY <1>1, <1>2, PublishStep DEF Refreshing
<1>8. RefInv'
  BY <1>5 DEF RefInv, Refreshing, Row, ETags, Copies, Versions
<1>9. LockInv' /\ OtherInv'
  BY <1>1, <1>2, <1>5 DEF LockInv, OtherInv, Editing
<1> QED
  BY <1>6, <1>7, <1>8, <1>9 DEF FeedInv

LEMMA StoreRebuiltStep ==
    ASSUME FeedInv, StoreRebuilt
    PROVE  FeedInv'
<1>1. /\ DiskInv /\ IndexInv /\ RefInv /\ LoadInv /\ LockInv /\ OtherInv
      /\ ref \in Refreshing /\ ref.pc = "rebuilt" /\ Latest(ref.cand) /\ Publish(ref.cand)
      /\ ref' = AfterRebuild(ref, TRUE)
  BY DEF FeedInv, RefInv, StoreRebuilt
<1>2. UNCHANGED <<rows, provider, files, lost, slot, ingest, gate, closing,
                  closed, serving, load, edit, reported>>
  BY DEF StoreRebuilt, disk, locks, life
<1>3. /\ ref' \in Refreshing /\ ref'.pc \in {"return", "record"}
      /\ ref'.pc = "record" => ref'.feed \in Feeds
  BY <1>1, NoneIsNoVersion DEF AfterRebuild, Refreshing, RefPlaces, Results
<1>4. DiskInv' /\ LoadInv'
  BY <1>1, <1>2, DiskFrame, LoadFrame
<1>5. IndexInv'
  BY <1>1, <1>2, PublishStep DEF Refreshing
<1>6. RefInv'
  BY <1>3 DEF RefInv, Refreshing, Row, ETags, Copies, Versions
<1>7. LockInv' /\ OtherInv'
  BY <1>1, <1>2, <1>3 DEF LockInv, OtherInv, Editing
<1> QED
  BY <1>4, <1>5, <1>6, <1>7 DEF FeedInv

LEMMA RecordStep ==
    ASSUME FeedInv, Record
    PROVE  FeedInv'
<1>1. /\ DiskInv /\ IndexInv /\ RefInv /\ LoadInv /\ LockInv /\ OtherInv
      /\ ref \in Refreshing /\ ref.pc = "record" /\ ref.feed \in Feeds
  BY DEF FeedInv, RefInv, Record
<1>2. UNCHANGED <<provider, files, lost, index, warm, loaded, slot, ingest, gate, closing,
                  closed, serving, load, edit, reported>>
  BY DEF Record, locks, life
<1>3. ref' \in Refreshing /\ ref'.pc = "pick"
  <2>1. NoCopies \in [Feeds -> Copies]
    BY NoneIsNoVersion DEF NoCopies
  <2> QED
    BY <1>1, <2>1, NoneIsNoVersion DEF Record, Refreshing, RefPlaces, Results
<1>4. rows' \in [Feeds -> Row]
  <2>1. rows \in [Feeds -> Row]
    BY <1>1 DEF DiskInv
  <2>2. CASE rows' = [rows EXCEPT ![ref.feed].etag = Stored(ref.etag)]
    <3>1. [rows[ref.feed] EXCEPT !.etag = Stored(ref.etag)] \in Row
      BY <1>1, <2>1, StoredEtag DEF Row, Refreshing
    <3> QED
      BY <1>1, <2>1, <2>2, <3>1
  <2> QED
    BY <2>1, <2>2 DEF Record
<1>5. DiskInv'
  BY <1>1, <1>2, <1>4 DEF DiskInv, Row, ETags, Copies, Versions
<1>6. IndexInv' /\ LoadInv'
  BY <1>1, <1>2, <1>3, IndexFrame, LoadFrame
<1>7. RefInv'
  BY <1>3 DEF RefInv, Refreshing, Row, ETags, Copies, Versions
<1>8. LockInv' /\ OtherInv'
  BY <1>1, <1>2, <1>3 DEF LockInv, OtherInv, Editing
<1> QED
  BY <1>5, <1>6, <1>7, <1>8 DEF FeedInv

LEMMA RefreshStepKeeps ==
    ASSUME FeedInv, RefreshStep
    PROVE  FeedInv'
BY EnterGateStep, LockAndListStep, PickStep, DownloadStep, StageStep, RenameStep,
   StoreIndexStep, RebuildStep, StoreRebuiltStep, RecordStep, ReturnStep DEF RefreshStep

-----------------------------------------------------------------------------
(* The steps of a rebuild *)

\* A rebuild that moves on, with no index in hand or with a sound one.
LEMMA LoadMoves ==
    ASSUME LoadInv, UNCHANGED files, NEW l \in Loaders, NEW next \in Loading,
           load' = [load EXCEPT ![l] = next], next.pc = "built" => Latest(next.cand)
    PROVE  /\ LoadInv'
           /\ load'[l] = next
           /\ \A k \in Loaders \ {l} : load'[k] = load[k]
<1>1. load \in [Loaders -> Loading]
  BY DEF LoadInv
<1>2. load' \in [Loaders -> Loading]
  BY <1>1
<1>3. load'[l] = next /\ \A k \in Loaders \ {l} : load'[k] = load[k]
  BY <1>1
<1>4. \A k \in Loaders : load'[k].pc = "built" => \A f \in Feeds : load'[k].cand[f] \in {None, files'[f]}
  BY <1>3 DEF LoadInv, Latest
<1> QED
  BY <1>2, <1>3, <1>4 DEF LoadInv, Loading, Copies, Versions, Latest

LEMMA IdleLoadOK == IdleLoad \in Loading /\ IdleLoad.pc = "idle"
BY NoneIsNoVersion DEF IdleLoad, Loading, NoCopies

LEMMA EnterLoadStep ==
    ASSUME FeedInv, NEW l \in Loaders, EnterLoad(l)
    PROVE  FeedInv'
<1>1. /\ DiskInv /\ IndexInv /\ RefInv /\ LoadInv /\ LockInv /\ OtherInv
      /\ load \in [Loaders -> Loading]
  BY DEF FeedInv, LoadInv
<1>2. /\ UNCHANGED <<rows, provider, files, lost, index, warm, loaded, slot, ingest,
                     closing, closed, serving, ref, edit>>
      /\ load[l].pc = "spawned"
  BY DEF EnterLoad, disk, life
<1>3. DiskInv' /\ IndexInv' /\ RefInv'
  BY <1>1, <1>2, DiskFrame, IndexFrame, RefFrame
<1>4. CASE closing /\ load' = [load EXCEPT ![l] = IdleLoad] /\ reported' = TRUE /\ UNCHANGED gate
  <2>1. LoadInv' /\ load'[l].pc = "idle" /\ \A k \in Loaders \ {l} : load'[k] = load[k]
    BY <1>1, <1>2, <1>4, LoadMoves, IdleLoadOK
  <2>2. LockInv' /\ OtherInv'
    BY <1>1, <1>2, <1>4, <2>1 DEF LockInv, OtherInv, Editing
  <2> QED
    BY <1>3, <2>1, <2>2 DEF FeedInv
<1>5. CASE load' = [load EXCEPT ![l].pc = "waiting"] /\ gate' = gate \cup {l} /\ UNCHANGED reported
  <2>1. [load[l] EXCEPT !.pc = "waiting"] \in Loading /\ [load[l] EXCEPT !.pc = "waiting"].pc = "waiting"
    BY <1>1 DEF Loading
  <2>2. load' = [load EXCEPT ![l] = [load[l] EXCEPT !.pc = "waiting"]]
    BY <1>5
  <2>3. LoadInv' /\ load'[l].pc = "waiting" /\ \A k \in Loaders \ {l} : load'[k] = load[k]
    BY <1>1, <1>2, <2>1, <2>2, LoadMoves
  <2>4. LockInv' /\ OtherInv'
    BY <1>1, <1>2, <1>5, <2>3, FeedAssumption DEF LockInv, OtherInv, Editing
  <2> QED
    BY <1>3, <2>3, <2>4 DEF FeedInv
<1> QED
  BY <1>4, <1>5 DEF EnterLoad

LEMMA LoadCandidateStep ==
    ASSUME FeedInv, NEW l \in Loaders, LoadCandidate(l)
    PROVE  FeedInv'
<1>1. /\ DiskInv /\ IndexInv /\ RefInv /\ LoadInv /\ LockInv /\ OtherInv
      /\ load \in [Loaders -> Loading]
  BY DEF FeedInv, LoadInv
<1>2. /\ UNCHANGED <<rows, provider, files, lost, index, warm, loaded, slot, gate,
                     closing, closed, serving, ref, edit>>
      /\ load[l].pc = "waiting" /\ ingest = None /\ ingest' = l
  BY DEF LoadCandidate, disk, life
<1>3. DiskInv' /\ IndexInv' /\ RefInv'
  BY <1>1, <1>2, DiskFrame, IndexFrame, RefFrame
<1>4. /\ LoadInv' /\ load'[l].pc \in {"built", "done"} /\ reported' \in BOOLEAN
      /\ \A k \in Loaders \ {l} : load'[k] = load[k]
  <2>1. CASE load' = [load EXCEPT ![l].pc = "done"] /\ reported' = TRUE
    <3>1. [load[l] EXCEPT !.pc = "done"] \in Loading /\ [load[l] EXCEPT !.pc = "done"].pc = "done"
      BY <1>1 DEF Loading
    <3>2. load' = [load EXCEPT ![l] = [load[l] EXCEPT !.pc = "done"]]
      BY <2>1
    <3> QED
      BY <1>1, <1>2, <2>1, <3>1, <3>2, LoadMoves
  <2>2. CASE load' = [load EXCEPT ![l].pc = "built", ![l].cand = Candidate(None, None)]
             /\ UNCHANGED reported
    <3> DEFINE next == [load[l] EXCEPT !.pc = "built", !.cand = Candidate(None, None)]
    <3>1. Candidate(None, None) \in [Feeds -> Copies] /\ Latest(Candidate(None, None))
      BY <1>1, CandidateOfCache DEF DiskInv
    <3>2. next \in Loading /\ next.pc = "built" /\ next.cand = Candidate(None, None)
      BY <1>1, <3>1 DEF Loading
    <3>3. load' = [load EXCEPT ![l] = next]
      BY <1>1, <2>2 DEF Loading
    <3>4. next.pc = "built" => Latest(next.cand)
      BY <3>1, <3>2
    <3> HIDE DEF next
    <3> QED
      BY <1>1, <1>2, <2>2, <3>2, <3>3, <3>4, LoadMoves DEF OtherInv
  <2> QED
    BY <2>1, <2>2 DEF LoadCandidate
<1>5. LockInv' /\ OtherInv'
  <2>1. \A k \in Loaders : load[k].pc \notin {"built", "done"}
    BY <1>1, <1>2, FeedAssumption DEF LockInv
  <2> QED
    BY <1>1, <1>2, <1>4, <2>1, FeedAssumption DEF LockInv, OtherInv, Editing
<1> QED
  BY <1>3, <1>4, <1>5 DEF FeedInv

LEMMA LoadStoreStep ==
    ASSUME FeedInv, NEW l \in Loaders, LoadStore(l)
    PROVE  FeedInv'
<1>1. /\ DiskInv /\ IndexInv /\ RefInv /\ LoadInv /\ LockInv /\ OtherInv
      /\ load \in [Loaders -> Loading]
  BY DEF FeedInv, LoadInv
<1>2. /\ UNCHANGED <<rows, provider, files, lost, slot, ingest, gate,
                     closing, closed, serving, ref, edit, reported>>
      /\ load[l].pc = "built" /\ Publish(load[l].cand)
      /\ load' = [load EXCEPT ![l].pc = "done"]
  BY DEF LoadStore, disk, locks, life
<1>3. DiskInv' /\ RefInv'
  BY <1>1, <1>2, DiskFrame, RefFrame
<1>4. IndexInv'
  <2>1. load[l].cand \in [Feeds -> Copies] /\ Latest(load[l].cand)
    BY <1>1, <1>2 DEF LoadInv, Loading
  <2> QED
    BY <1>1, <1>2, <2>1, PublishStep
<1>5. /\ LoadInv' /\ load'[l].pc = "done"
      /\ \A k \in Loaders \ {l} : load'[k] = load[k]
  <2>1. [load[l] EXCEPT !.pc = "done"] \in Loading /\ [load[l] EXCEPT !.pc = "done"].pc = "done"
    BY <1>1 DEF Loading
  <2>2. load' = [load EXCEPT ![l] = [load[l] EXCEPT !.pc = "done"]]
    BY <1>2
  <2> QED
    BY <1>1, <1>2, <2>1, <2>2, LoadMoves
<1>6. LockInv' /\ OtherInv'
  BY <1>1, <1>2, <1>5 DEF LockInv, OtherInv, Editing
<1> QED
  BY <1>3, <1>4, <1>5, <1>6 DEF FeedInv

LEMMA LoadDoneStep ==
    ASSUME FeedInv, NEW l \in Loaders, LoadDone(l)
    PROVE  FeedInv'
<1>1. /\ DiskInv /\ IndexInv /\ RefInv /\ LoadInv /\ LockInv /\ OtherInv
      /\ load \in [Loaders -> Loading]
  BY DEF FeedInv, LoadInv
<1>2. /\ UNCHANGED <<rows, provider, files, lost, index, warm, loaded, slot,
                     closing, closed, serving, ref, edit, reported>>
      /\ load[l].pc = "done" /\ load' = [load EXCEPT ![l] = IdleLoad]
      /\ ingest' = None /\ gate' = gate \ {l}
  BY DEF LoadDone, disk, life
<1>3. DiskInv' /\ IndexInv' /\ RefInv'
  BY <1>1, <1>2, DiskFrame, IndexFrame, RefFrame
<1>4. LoadInv' /\ load'[l].pc = "idle" /\ \A k \in Loaders \ {l} : load'[k] = load[k]
  BY <1>1, <1>2, LoadMoves, IdleLoadOK
<1>5. LockInv' /\ OtherInv'
  <2>1. ingest = l
    BY <1>1, <1>2 DEF LockInv
  <2> QED
    BY <1>1, <1>2, <1>4, <2>1, FeedAssumption DEF LockInv, OtherInv, Editing
<1> QED
  BY <1>3, <1>4, <1>5 DEF FeedInv

LEMMA LoadStepKeeps ==
    ASSUME FeedInv, NEW l \in Loaders, LoadStep(l)
    PROVE  FeedInv'
BY EnterLoadStep, LoadCandidateStep, LoadStoreStep, LoadDoneStep DEF LoadStep

-----------------------------------------------------------------------------
(* Start-up, the claims of the slot, the administrators and the world *)

LEMMA BootStep ==
    ASSUME FeedInv, Boot
    PROVE  FeedInv'
<1>1. DiskInv /\ IndexInv /\ RefInv /\ LoadInv /\ LockInv /\ OtherInv
  BY DEF FeedInv
<1>2. UNCHANGED <<rows, provider, files, lost, slot, ingest, gate, closing, closed, ref,
                  load, edit, reported>> /\ serving' = TRUE
  BY DEF Boot, disk, locks
<1>3. DiskInv' /\ RefInv' /\ LoadInv'
  BY <1>1, <1>2, DiskFrame, RefFrame, LoadFrame
<1>4. IndexInv'
  <2>1. CASE Publish(Candidate(None, None))
    <3>1. Candidate(None, None) \in [Feeds -> Copies] /\ Latest(Candidate(None, None))
      BY <1>1, CandidateOfCache DEF DiskInv
    <3> QED
      BY <1>1, <1>2, <2>1, <3>1, PublishStep
  <2>2. CASE UNCHANGED <<index, warm, loaded>>
    BY <1>1, <1>2, <2>2, IndexFrame
  <2> QED
    BY <2>1, <2>2 DEF Boot
<1>5. LockInv' /\ OtherInv'
  BY <1>1, <1>2 DEF LockInv, OtherInv, Editing
<1> QED
  BY <1>3, <1>4, <1>5 DEF FeedInv

LEMMA BeginStep ==
    ASSUME FeedInv, BeginRefresh \/ \E f \in Feeds : BeginRefreshFeed(f)
    PROVE  FeedInv'
<1>1. DiskInv /\ IndexInv /\ RefInv /\ LoadInv /\ LockInv /\ OtherInv
  BY DEF FeedInv
<1>2. /\ UNCHANGED <<rows, provider, files, lost, index, warm, loaded, ingest, closing,
                     closed, serving, load, edit, reported>>
      /\ ref.pc = "idle" /\ slot' = TRUE
  BY DEF BeginRefresh, BeginRefreshFeed, disk, life
<1>3. /\ ref' \in Refreshing
      /\ \/ ref'.pc = "waiting" /\ ref'.all /\ gate' = gate \cup {Refresher}
         \/ ref'.pc = "claimed" /\ ref'.feed \in Feeds /\ gate' = gate
  <2>1. CASE BeginRefresh
    BY <2>1, IdleRefOK DEF BeginRefresh, Refreshing, RefPlaces
  <2>2. CASE \E f \in Feeds : BeginRefreshFeed(f)
    BY <2>2, IdleRefOK DEF BeginRefreshFeed, Refreshing, RefPlaces
  <2> QED
    BY <2>1, <2>2
<1>4. DiskInv' /\ IndexInv' /\ LoadInv'
  BY <1>1, <1>2, DiskFrame, IndexFrame, LoadFrame
<1>5. RefInv'
  BY <1>3 DEF RefInv, Refreshing, Row, ETags, Copies, Versions
<1>6. LockInv' /\ OtherInv'
  BY <1>1, <1>2, <1>3, FeedAssumption DEF LockInv, OtherInv, Editing
<1> QED
  BY <1>4, <1>5, <1>6 DEF FeedInv

\* A step that changes the rows, the provider, what is lost or a handler.
LEMMA OutsideStep ==
    ASSUME FeedInv, rows' \in [Feeds -> Row], lost' \subseteq Feeds,
           provider' \in [Urls -> Nat], \A u \in Urls : provider'[u] \in 1..MaxVersion[u],
           edit' \in Editing, closing' \in BOOLEAN, closed' \in BOOLEAN,
           UNCHANGED <<files, index, warm, loaded, locks, serving, ref, load, reported>>
    PROVE  FeedInv'
<1>1. DiskInv /\ IndexInv /\ RefInv /\ LoadInv /\ LockInv /\ OtherInv
  BY DEF FeedInv
<1>2. DiskInv'
  BY <1>1 DEF DiskInv, Row, ETags, Copies, Versions
<1>3. IndexInv' /\ RefInv' /\ LoadInv'
  BY <1>1, IndexFrame, RefFrame, LoadFrame
<1>4. LockInv' /\ OtherInv'
  BY <1>1 DEF LockInv, OtherInv, Editing, locks
<1> QED
  BY <1>2, <1>3, <1>4 DEF FeedInv

LEMMA AnswerSwitchStep ==
    ASSUME FeedInv, AnswerSwitch
    PROVE  FeedInv'
<1>1. /\ DiskInv /\ IndexInv /\ RefInv /\ LoadInv /\ LockInv /\ OtherInv
      /\ load \in [Loaders -> Loading] /\ edit \in Editing
  BY DEF FeedInv, LoadInv, OtherInv
<1>2. /\ UNCHANGED <<rows, provider, files, lost, index, warm, loaded, slot, ingest, gate,
                     closing, closed, serving, ref>>
      /\ reported' \in BOOLEAN
  BY <1>1 DEF AnswerSwitch, disk, locks, life, OtherInv
<1>3. edit' \in Editing
  <2>1. IdleEdit \in Editing
    BY DEF IdleEdit, Editing
  <2> QED
    BY <1>1, <2>1 DEF AnswerSwitch
<1>4. /\ LoadInv'
      /\ \A k \in Loaders : \/ load'[k].pc = load[k].pc
                            \/ load[k].pc = "idle" /\ load'[k].pc = "spawned"
  <2>1. CASE UNCHANGED load
    BY <1>1, <1>2, <2>1, LoadFrame
  <2>2. CASE \E l \in Loaders : /\ load[l].pc = "idle"
                                /\ load' = [load EXCEPT ![l].pc = "spawned"]
    <3>1. PICK l \in Loaders : /\ load[l].pc = "idle"
                               /\ load' = [load EXCEPT ![l].pc = "spawned"]
      BY <2>2
    <3>2. /\ [load[l] EXCEPT !.pc = "spawned"] \in Loading
          /\ [load[l] EXCEPT !.pc = "spawned"].pc = "spawned"
      BY <1>1 DEF Loading
    <3>3. load' = [load EXCEPT ![l] = [load[l] EXCEPT !.pc = "spawned"]]
      BY <3>1
    <3>4. /\ LoadInv' /\ load'[l].pc = "spawned"
          /\ \A k \in Loaders \ {l} : load'[k] = load[k]
      BY <1>1, <1>2, <3>2, <3>3, LoadMoves
    <3> QED
      BY <3>1, <3>4
  <2> QED
    BY <2>1, <2>2 DEF AnswerSwitch, Spawn
<1>5. DiskInv' /\ IndexInv' /\ RefInv'
  BY <1>1, <1>2, DiskFrame, IndexFrame, RefFrame
<1>6. LockInv' /\ OtherInv'
  BY <1>1, <1>2, <1>3, <1>4 DEF LockInv, OtherInv, Editing
<1> QED
  BY <1>4, <1>5, <1>6 DEF FeedInv

\* What survives the process is on the disk.
LEMMA CrashStep ==
    ASSUME FeedInv, Crash
    PROVE  FeedInv'
<1>1. NoCopies \in [Feeds -> Copies] /\ \A f \in Feeds : NoCopies[f] = None
  BY NoneIsNoVersion DEF NoCopies
<1>2. DiskInv /\ UNCHANGED files /\ edit \in Editing
  BY DEF FeedInv, Crash, disk, OtherInv
<1>3. DiskInv'
  BY <1>2, DiskFrame DEF Crash, disk
<1>4. IndexInv'
  BY <1>1 DEF Crash, IndexInv, Copies, Versions, Latest
<1>5. RefInv'
  BY IdleRefOK DEF Crash, RefInv, Refreshing, Row, ETags, Copies, Versions
<1>6. LoadInv'
  BY IdleLoadOK DEF Crash, LoadInv, Loading, Copies, Versions
<1>7. LockInv'
  BY IdleRefOK, IdleLoadOK, FeedAssumption DEF Crash, LockInv
<1>8. OtherInv'
  BY <1>2 DEF Crash, OtherInv, Editing, IdleEdit
<1> QED
  BY <1>3, <1>4, <1>5, <1>6, <1>7, <1>8 DEF FeedInv

LEMMA FeedInvInit == Init => FeedInv
<1> SUFFICES ASSUME Init
             PROVE  FeedInv
  OBVIOUS
<1>1. NoCopies \in [Feeds -> Copies] /\ \A f \in Feeds : NoCopies[f] = None
  BY NoneIsNoVersion DEF NoCopies
<1>2. DiskInv
  <2>1. rows \in [Feeds -> Row]
    BY NoneIsNoVersion, FeedAssumption DEF Init, Row
  <2>2. provider \in [Urls -> Nat] /\ \A u \in Urls : provider[u] \in 1..MaxVersion[u]
    BY FeedAssumption DEF Init
  <2> QED
    BY <1>1, <2>1, <2>2 DEF Init, DiskInv
<1>3. IndexInv
  BY <1>1 DEF Init, IndexInv, Latest
<1>4. RefInv
  BY IdleRefOK DEF Init, RefInv
<1>5. LoadInv
  BY IdleLoadOK DEF Init, LoadInv
<1>6. LockInv
  BY IdleRefOK, IdleLoadOK, FeedAssumption DEF Init, LockInv
<1>7. OtherInv
  BY DEF Init, OtherInv, Editing, IdleEdit
<1> QED
  BY <1>2, <1>3, <1>4, <1>5, <1>6, <1>7 DEF FeedInv

LEMMA FeedInvStep == FeedInv /\ [Next]_vars => FeedInv'
<1> SUFFICES ASSUME FeedInv, [Next]_vars
             PROVE  FeedInv'
  OBVIOUS
<1>1. /\ DiskInv /\ OtherInv /\ rows \in [Feeds -> Row] /\ edit \in Editing
      /\ provider \in [Urls -> Nat] /\ (\A u \in Urls : provider[u] \in 1..MaxVersion[u])
      /\ lost \subseteq Feeds /\ closing \in BOOLEAN /\ closed \in BOOLEAN
  BY DEF FeedInv, DiskInv, OtherInv
<1>2. CASE Boot
  BY <1>2, BootStep
<1>3. CASE BeginRefresh \/ \E f \in Feeds : BeginRefreshFeed(f)
  BY <1>3, BeginStep
<1>4. CASE RefreshStep
  BY <1>4, RefreshStepKeeps
<1>5. CASE \E l \in Loaders : LoadStep(l)
  BY <1>5, LoadStepKeeps
<1>6. ASSUME NEW f \in Feeds, ReadSwitch(f)
      PROVE  FeedInv'
  <2>1. edit' \in Editing
    <3>1. rows[f].enabled \in BOOLEAN
      BY <1>1 DEF Row
    <3> QED
      BY <1>1, <1>6, <3>1 DEF ReadSwitch, Editing
  <2> QED
    BY <1>1, <1>6, <2>1, OutsideStep DEF ReadSwitch, disk, life
<1>7. CASE WriteSwitch
  <2>1. edit' \in Editing
    <3>1. IdleEdit \in Editing /\ [edit EXCEPT !.pc = "written"] \in Editing
      BY <1>1 DEF IdleEdit, Editing
    <3> QED
      BY <1>1, <1>7, <3>1 DEF WriteSwitch
  <2>2. rows' \in [Feeds -> Row]
    <3>1. CASE UNCHANGED rows
      BY <1>1, <3>1
    <3>2. CASE rows' = [rows EXCEPT ![edit.feed].enabled = edit.want]
      <4>1. edit.want \in BOOLEAN
        BY <1>1 DEF Editing
      <4>2. \A f \in Feeds : [rows[f] EXCEPT !.enabled = edit.want] \in Row
        BY <1>1, <4>1 DEF Row
      <4> QED
        BY <1>1, <3>2, <4>2
    <3> QED
      BY <1>7, <3>1, <3>2 DEF WriteSwitch
  <2> QED
    BY <1>1, <1>7, <2>1, <2>2, OutsideStep DEF WriteSwitch, life
<1>8. CASE AnswerSwitch
  BY <1>8, AnswerSwitchStep
<1>9. ASSUME NEW f \in Feeds, NEW u \in Urls, ChangeUrl(f, u)
      PROVE  FeedInv'
  <2>1. rows' = [rows EXCEPT ![f] = [rows[f] EXCEPT !.url = u, !.etag = None]]
    BY <1>1, <1>9 DEF ChangeUrl, Row
  <2>2. [rows[f] EXCEPT !.url = u, !.etag = None] \in Row
    BY <1>1, NoneIsNoVersion DEF Row
  <2>3. rows' \in [Feeds -> Row]
    BY <1>1, <2>1, <2>2
  <2> QED
    BY <1>1, <1>9, <2>3, OutsideStep DEF ChangeUrl, life
<1>10. ASSUME NEW f \in Feeds, DeleteFeed(f)
       PROVE  FeedInv'
  <2>1. rows' = [rows EXCEPT ![f] = [rows[f] EXCEPT !.listed = FALSE]]
    BY <1>10 DEF DeleteFeed
  <2>2. [rows[f] EXCEPT !.listed = FALSE] \in Row
    BY <1>1 DEF Row
  <2>3. rows' \in [Feeds -> Row]
    BY <1>1, <2>1, <2>2
  <2> QED
    BY <1>1, <1>10, <2>3, OutsideStep DEF DeleteFeed, life
<1>11. ASSUME NEW u \in Urls, Upload(u)
       PROVE  FeedInv'
  <2>1. MaxVersion[u] \in Nat /\ provider[u] \in Nat /\ provider[u] < MaxVersion[u]
    BY <1>1, <1>11, FeedAssumption DEF Upload
  <2>2. provider' \in [Urls -> Nat] /\ \A v \in Urls : provider'[v] \in 1..MaxVersion[v]
    BY <1>1, <1>11, <2>1 DEF Upload
  <2> QED
    BY <1>1, <1>11, <2>2, OutsideStep DEF Upload, life
<1>12. ASSUME NEW f \in Feeds, LoseCopy(f)
       PROVE  FeedInv'
  <2>1. lost' \subseteq Feeds
    BY <1>1, <1>12 DEF LoseCopy
  <2> QED
    BY <1>1, <1>12, <2>1, OutsideStep DEF LoseCopy, life
<1>13. CASE Crash
  BY <1>13, CrashStep
<1>14. CASE BeginClose \/ Close
  <2>1. closing' \in BOOLEAN /\ closed' \in BOOLEAN
    BY <1>1, <1>14 DEF BeginClose, Close
  <2> QED
    BY <1>1, <1>14, <2>1, OutsideStep DEF BeginClose, Close, disk
<1>15. CASE Idle \/ UNCHANGED vars
  BY <1>1, <1>15, OutsideStep DEF Idle, vars, locks
<1> QED
  BY <1>2, <1>3, <1>4, <1>5, <1>6, <1>7, <1>8, <1>9, <1>10, <1>11, <1>12, <1>13, <1>14, <1>15
     DEF Next

-----------------------------------------------------------------------------
\* In every reachable state of the feed manager each variable has its type, and
\* the slot, the mutex and the gate are held by those at a place that holds them.
THEOREM FeedTypeCorrect == Spec => []TypeOK
<1>1. FeedInv => TypeOK
  <2> SUFFICES ASSUME FeedInv
               PROVE  TypeOK
    OBVIOUS
  <2>1. DiskInv /\ IndexInv /\ RefInv /\ LoadInv /\ LockInv /\ OtherInv
    BY DEF FeedInv
  <2>2. /\ rows \in [Feeds -> Row] /\ (\A u \in Urls : provider[u] \in 1..MaxVersion[u])
        /\ files \in [Feeds -> Copies] /\ lost \subseteq Feeds
        /\ index \in [Feeds -> Copies] /\ loaded \subseteq Feeds
    BY <2>1 DEF DiskInv, IndexInv
  <2>3. {warm, slot, closing, closed, serving, reported} \subseteq BOOLEAN
    BY <2>1 DEF IndexInv, OtherInv
  <2>4. ref.pc \in RefPlaces
    BY <2>1 DEF RefInv, Refreshing
  <2>5. \A l \in Loaders : load[l].pc \in {"idle", "spawned", "waiting", "built", "done"}
    BY <2>1 DEF LoadInv, Loading
  <2> QED
    BY <2>1, <2>2, <2>3, <2>4, <2>5 DEF TypeOK, LockInv, Row, RefPlaces
<1> QED
  BY <1>1, FeedInvInit, FeedInvStep, PTL DEF Spec

\* What queries are answered from, by BlockIndex.
Answering == IF ref.pc = "renamed" THEN ref.cand ELSE index

\* The manager starts as a BlockIndex does.
LEMMA AbstractInit == Init => Abstract!Init
<1> SUFFICES ASSUME Init
             PROVE  Abstract!Init
  OBVIOUS
<1>1. files = NoCopies /\ index = NoCopies /\ ref.pc = "idle"
  BY DEF Init, IdleRef
<1>2. NoCopies \in [Feeds -> Versions \cup {None}]
  BY DEF NoCopies
<1> QED
  BY <1>1, <1>2 DEF Abstract!Init, Abstract!Empty, NoCopies

\* Every step of the manager is a step of a BlockIndex or none.
LEMMA AbstractStep ==
    ASSUME FeedInv, [Next]_vars
    PROVE  [Abstract!Next]_(Abstract!bivars)
<1>1. /\ DiskInv /\ IndexInv /\ RefInv /\ LoadInv /\ LockInv /\ OtherInv
      /\ files \in [Feeds -> Copies] /\ ref \in Refreshing
  BY DEF FeedInv, DiskInv, RefInv
<1>2. ASSUME UNCHANGED <<files, Answering>>
      PROVE  UNCHANGED Abstract!bivars
  BY <1>2 DEF Abstract!bivars, Answering
<1>3. ASSUME NEW cand \in [Feeds -> Copies], Latest(cand), Publish(cand), UNCHANGED files,
             ref'.pc # "renamed"
      PROVE  Abstract!Rebuild
  BY <1>3 DEF Publish, Abstract!Rebuild, Abstract!MadeOf, Latest
<1>4. CASE Boot
  <2>1. UNCHANGED <<files, ref>>
    BY <1>4 DEF Boot, disk
  <2>2. CASE UNCHANGED index \/ ref.pc = "renamed"
    BY <1>2, <2>1, <2>2 DEF Answering
  <2>3. CASE Publish(Candidate(None, None)) /\ ref.pc # "renamed"
    BY <1>1, <1>3, <2>1, <2>3, CandidateOfCache DEF Abstract!Next
  <2> QED
    BY <1>4, <2>2, <2>3 DEF Boot
<1>5. CASE Rename
  <2>1. CASE ref' = Fail(ref) /\ UNCHANGED <<files, lost>>
    <3>1. ref.pc # "renamed" /\ ref'.pc # "renamed" /\ index' = index
      BY <1>1, <1>5, <2>1, FinishKeeps, NoneIsNoVersion DEF Rename, Fail, Results
    <3> QED
      BY <1>2, <2>1, <3>1 DEF Answering
  <2>2. CASE /\ files' = [files EXCEPT ![ref.feed] = ref.body]
             /\ ref' = [ref EXCEPT !.pc = "renamed"]
    <3>1. /\ ref.feed \in Feeds /\ ref.body \in Versions
          /\ ref'.pc = "renamed" /\ ref'.cand = ref.cand /\ ref.cand \in [Feeds -> Copies]
          /\ \A f \in Feeds : ref.cand[f] \in {None, IF f = ref.feed THEN ref.body ELSE files[f]}
      BY <1>1, <1>5, <2>2 DEF RefInv, Rename, Refreshing
    <3>2. \A f \in Feeds : ref.cand[f] \in {None, files'[f]}
      BY <1>1, <2>2, <3>1
    <3> QED
      BY <2>2, <3>1, <3>2 DEF Abstract!Next, Abstract!Commit, Abstract!MadeOf
  <2> QED
    BY <1>5, <2>1, <2>2 DEF Rename
<1>6. CASE StoreIndex
  <2>1. /\ UNCHANGED files /\ ref.pc = "renamed" /\ index' = ref.cand
        /\ ref'.pc # "renamed"
    <3>1. PICK etag \in {ETagOf(ref.body), None} : ref' = FinishRefresh(ref, "committed", etag)
      BY <1>6 DEF StoreIndex
    <3>2. etag \in ETags
      BY <1>1, <1>6, <3>1, EtagOfCopy, NoneIsNoVersion DEF StoreIndex, RefInv
    <3> QED
      BY <1>1, <1>6, <3>1, <3>2, FinishKeeps DEF StoreIndex, disk, Publish, Results
  <2> QED
    BY <1>2, <2>1 DEF Answering
<1>7. CASE StoreRebuilt
  <2>1. /\ ref.cand \in [Feeds -> Copies] /\ Latest(ref.cand) /\ Publish(ref.cand)
        /\ UNCHANGED files /\ ref'.pc # "renamed"
    BY <1>1, <1>7 DEF StoreRebuilt, RefInv, Refreshing, RefPlaces, AfterRebuild, disk
  <2> QED
    BY <1>3, <2>1 DEF Abstract!Next
<1>8. ASSUME NEW l \in Loaders, LoadStore(l)
      PROVE  Abstract!Next
  <2>1. /\ load[l].cand \in [Feeds -> Copies] /\ Latest(load[l].cand)
        /\ Publish(load[l].cand) /\ UNCHANGED <<files, ref>>
    BY <1>1, <1>8 DEF LoadStore, LoadInv, Loading, disk
  <2>2. ref.pc # "renamed"
    BY <1>1, <1>8, FeedAssumption DEF LoadStore, LockInv
  <2> QED
    BY <1>3, <2>1, <2>2 DEF Abstract!Next
<1>9. CASE Crash
  BY <1>9 DEF Crash, disk, IdleRef, NoCopies, Abstract!Next, Abstract!Stop, Abstract!Empty
<1>10. CASE \/ EnterGate \/ LockAndList \/ Pick \/ Download \/ Stage \/ Rebuild \/ Record
            \/ Return
  <2>1. UNCHANGED <<files, index>> /\ ref.pc # "renamed"
    BY <1>10 DEF EnterGate, LockAndList, Pick, Download, Stage, Rebuild, Record, Return, disk
  <2>2. ref'.pc # "renamed"
    <3>1. CASE EnterGate \/ Return
      BY <1>1, <3>1, IdleRefOK DEF EnterGate, Return, Refreshing
    <3>2. CASE LockAndList \/ Pick \/ Record
      <4>1. CASE LockAndList
        BY <1>1, <4>1 DEF LockAndList, Refreshing
      <4>2. CASE Pick
        BY <1>1, <4>2 DEF Pick, Refreshing
      <4>3. CASE Record
        BY <1>1, <4>3 DEF Record, Refreshing
      <4> QED
        BY <3>2, <4>1, <4>2, <4>3
    <3>3. CASE Download
      <4>1. ref.feed \in Feeds
        BY <1>1, <3>3 DEF Download, RefInv
      <4>2. ref.seen[ref.feed] \in Row
        BY <1>1, <4>1 DEF Refreshing
      <4>3. NoRows[ref.feed] \in Row
        BY <4>1, NoneIsNoVersion, FeedAssumption DEF NoRows, Row
      <4>4. Forget(ref) \in Refreshing
        BY <1>1, <4>1, <4>3 DEF Forget, Refreshing
      <4>5. ref.seen[ref.feed].etag \in ETags
        BY <4>2 DEF Row
      <4>6. CASE ref' = Fail(Forget(ref))
        BY <4>4, <4>6, FinishKeeps, NoneIsNoVersion DEF Fail, Results
      <4> DEFINE row == ref.seen[ref.feed]
                 now == <<row.url, provider[row.url]>>
      <4>7. CASE ref' = FinishRefresh([Forget(ref) EXCEPT !.body = now], "304", row.etag)
        <5>1. now \in Versions
          BY <1>1, <4>2 DEF DiskInv, Row, Versions
        <5> HIDE DEF now
        <5>2. [Forget(ref) EXCEPT !.body = now] \in Refreshing
          BY <4>4, <5>1, NoneIsNoVersion DEF Refreshing
        <5> QED
          BY <4>5, <4>7, <5>2, FinishKeeps DEF Results
      <4>8. CASE ref' = [Forget(ref) EXCEPT !.pc = "staged", !.body = now]
        BY <4>4, <4>8 DEF Refreshing
      <4> QED
        BY <3>3, <4>6, <4>7, <4>8 DEF Download
    <3>4. CASE Stage
      <4>1. CASE ref' = Fail(ref)
        BY <1>1, <4>1, FinishKeeps, NoneIsNoVersion DEF Fail, Results
      <4>2. CASE \E c : ref' = [ref EXCEPT !.pc = "candidate", !.cand = c]
        BY <1>1, <4>2 DEF Refreshing
      <4> QED
        BY <3>4, <4>1, <4>2 DEF Stage
    <3>5. CASE Rebuild
      <4>1. CASE ref' = AfterRebuild(ref, FALSE)
        BY <1>1, <4>1 DEF AfterRebuild, Refreshing
      <4>2. CASE \E c : ref' = [ref EXCEPT !.pc = "rebuilt", !.cand = c]
        BY <1>1, <4>2 DEF Refreshing
      <4> QED
        BY <3>5, <4>1, <4>2 DEF Rebuild
    <3> QED
      BY <1>10, <3>1, <3>2, <3>3, <3>4, <3>5
  <2> QED
    BY <1>2, <2>1, <2>2 DEF Answering
<1>11. CASE BeginRefresh \/ \E f \in Feeds : BeginRefreshFeed(f)
  <2>1. UNCHANGED <<files, index>> /\ ref.pc = "idle" /\ ref'.pc \in {"waiting", "claimed"}
    BY <1>11, IdleRefOK DEF BeginRefresh, BeginRefreshFeed, disk, Refreshing
  <2> QED
    BY <1>2, <2>1 DEF Answering
<1>12. CASE \/ \E l \in Loaders : EnterLoad(l) \/ LoadCandidate(l) \/ LoadDone(l)
            \/ (\E f \in Feeds : ReadSwitch(f)) \/ WriteSwitch \/ AnswerSwitch
            \/ \E f \in Feeds, u \in Urls : ChangeUrl(f, u)
            \/ \E f \in Feeds : DeleteFeed(f) \/ LoseCopy(f)
            \/ \E u \in Urls : Upload(u)
            \/ BeginClose \/ Close \/ Idle \/ UNCHANGED vars
  <2>1. UNCHANGED <<files, index, ref>>
    BY <1>12 DEF EnterLoad, LoadCandidate, LoadDone, ReadSwitch, WriteSwitch, AnswerSwitch,
       ChangeUrl, DeleteFeed, LoseCopy, Upload, BeginClose, Close, Idle, vars, disk
  <2> QED
    BY <1>2, <2>1 DEF Answering
<1> QED
  BY <1>4, <1>5, <1>6, <1>7, <1>8, <1>9, <1>10, <1>11, <1>12 DEF Next, RefreshStep, LoadStep

\* Refreshes, rebuilds, edits and crashes in any order implement a BlockIndex:
\* queries are answered, feed by feed, from the latest committed copy or none.
THEOREM FeedsAreABlockIndex == Spec => ImplementsBlockIndex
<1>1. FeedInv /\ [Next]_vars => [Abstract!Next]_(Abstract!bivars)
  BY AbstractStep
<1> QED
  BY <1>1, AbstractInit, FeedInvInit, FeedInvStep, PTL
     DEF Spec, ImplementsBlockIndex, Abstract!Spec

-----------------------------------------------------------------------------
(* Confirmations *)

\* An ETag that is not stray is one that the row's URL has given, and one the URL
\* would still confirm is that of the cached copy.
HasServed(copy) == copy[2] <= provider[copy[1]]
Sound(etag, url, f) ==
    etag # None /\ ~etag.stray =>
       /\ HasServed(etag.of) /\ etag.of[1] = url
       /\ etag.of[2] = provider[url] => files[f] = etag.of

RowsInv == \A f \in Feeds : Sound(rows[f].etag, rows[f].url, f)

\* The feeds whose listed row is still to be used.
Ahead == ref.todo \cup (IF ref.pc = "download" THEN {ref.feed} ELSE {})

\* A listed row is the row, unless an edit has dropped the ETag since.
SeenInv ==
    \A f \in Ahead :
        /\ Sound(ref.seen[f].etag, ref.seen[f].url, f)
        /\ rows[f].etag # None => /\ rows[f].url = ref.seen[f].url
                                  /\ rows[f].etag = ref.seen[f].etag

\* A staged copy is newer than the ETag that asked for it.
StagedInv ==
    /\ ref.pc \in {"download", "staged", "candidate", "renamed", "rebuild", "rebuilt", "record"}
         => ref.feed \notin ref.todo
    /\ ref.pc \in {"staged", "candidate", "renamed"} => HasServed(ref.body)
    /\ ref.pc \in {"staged", "candidate"} /\ rows[ref.feed].etag # None =>
         /\ rows[ref.feed].url = ref.body[1]
         /\ ~rows[ref.feed].etag.stray => rows[ref.feed].etag.of[2] < ref.body[2]
    /\ ref.pc = "renamed" => files[ref.feed] = ref.body

\* The ETag in hand is that of the copy the URL served, which is the one committed.
EtagOfBody == ~ref.etag.stray => /\ ref.etag.of = ref.body /\ HasServed(ref.body)
                              /\ files[ref.feed] = ref.body

\* How a feed ended.
OutcomeInv ==
    /\ ref.pc \in {"claimed", "waiting", "pick"} => ref.res = "none"
    /\ ref.pc \in {"rebuild", "rebuilt"} /\ ref.res = "304" =>
         ref.feed \in Feeds /\ ref.etag # None /\ EtagOfBody
    /\ ref.pc = "rebuilt" /\ ref.res = "304" => ref.etag.stray \/ ref.cand[ref.feed] = ref.body
    /\ ref.pc = "record" /\ ref.res = "confirmed" =>
         ref.etag # None /\ EtagOfBody /\ (ref.etag.stray \/ index[ref.feed] = ref.body)
    /\ ref.pc = "record" /\ ref.res = "committed" /\ ref.etag # None => EtagOfBody

EtagInv ==
    /\ RowsInv
    /\ SeenInv
    /\ StagedInv
    /\ OutcomeInv
    /\ ref.pc # "idle" => serving

-----------------------------------------------------------------------------
LEMMA VersionParts ==
    ASSUME NEW e \in Versions
    PROVE  e = <<e[1], e[2]>> /\ e[1] \in Urls /\ e[2] \in Nat
<1>1. PICK u \in Urls : \E v \in 1..MaxVersion[u] : e = <<u, v>>
  BY DEF Versions
<1>0. PICK v \in 1..MaxVersion[u] : e = <<u, v>>
  BY <1>1
<1>2. v \in Nat
  BY <1>1, FeedAssumption
<1> QED
  BY <1>0, <1>2

LEMMA EtagInit == Init => EtagInv
<1> SUFFICES ASSUME Init
             PROVE  EtagInv
  OBVIOUS
<1>1. \A f \in Feeds : rows[f].etag = None
  BY DEF Init
<1>2. RowsInv
  BY <1>1 DEF RowsInv, Sound
<1> QED
  BY <1>2 DEF Init, IdleRef, EtagInv, SeenInv, Ahead, StagedInv, OutcomeInv

\* A step that leaves the refresh and the files alone, and at most drops ETags.
LEMMA EtagFrame ==
    ASSUME FeedInv, EtagInv, UNCHANGED <<provider, files, ref>>,
           index' = index \/ ref.pc # "record", serving => serving',
           \A f \in Feeds : \/ rows'[f].etag = None /\ rows'[f].url \in Urls
                            \/ rows'[f].etag = rows[f].etag /\ rows'[f].url = rows[f].url
    PROVE  EtagInv'
<1>1. RowsInv /\ SeenInv /\ StagedInv /\ OutcomeInv
  BY DEF EtagInv
<1>2. RowsInv'
  BY <1>1 DEF RowsInv, Sound, HasServed
<1>3. Ahead' = Ahead /\ Ahead \subseteq Feeds
  BY DEF Ahead, FeedInv, RefInv, Refreshing
<1>4. SeenInv'
  BY <1>1, <1>3 DEF SeenInv, Sound, HasServed
<1>5. StagedInv'
  BY <1>1 DEF StagedInv, HasServed, FeedInv, RefInv
<1>6. OutcomeInv'
  BY <1>1 DEF OutcomeInv, EtagOfBody, HasServed
<1> QED
  BY <1>2, <1>4, <1>5, <1>6 DEF EtagInv

\* The version an ETag stands for.
LEMMA EtagParts ==
    ASSUME NEW e \in ETags, e # None
    PROVE  /\ e.of \in Versions /\ e.stray \in BOOLEAN
           /\ e.of = <<e.of[1], e.of[2]>> /\ e.of[1] \in Urls /\ e.of[2] \in Nat
<1>1. e \in [of : Versions, stray : BOOLEAN]
  BY DEF ETags
<1>2. e.of \in Versions /\ e.stray \in BOOLEAN
  BY <1>1
<1> QED
  BY <1>2, VersionParts

\* A new version makes no old ETag current.
LEMMA UploadEtag ==
    ASSUME FeedInv, EtagInv, NEW u \in Urls, Upload(u)
    PROVE  EtagInv'
<1>1. /\ RowsInv /\ SeenInv /\ StagedInv /\ OutcomeInv
      /\ rows \in [Feeds -> Row] /\ provider \in [Urls -> Nat]
      /\ ref \in Refreshing
  BY DEF EtagInv, FeedInv, DiskInv, RefInv
<1>2. /\ UNCHANGED <<rows, files, index, ref, serving>>
      /\ provider' = [provider EXCEPT ![u] = @ + 1]
  BY DEF Upload, life
<1>3. \A v \in Urls : provider'[v] \in Nat /\ provider[v] <= provider'[v]
  BY <1>1, <1>2
<1>4. ASSUME NEW c \in Versions, HasServed(c)
      PROVE  HasServed(c)'
  <2>1. c[1] \in Urls /\ c[2] \in Nat
    BY VersionParts
  <2>2. c[2] <= provider[c[1]] /\ provider[c[1]] \in Nat
    BY <1>1, <1>4, <2>1 DEF HasServed
  <2>3. c[2] <= provider'[c[1]]
    BY <1>3, <2>1, <2>2
  <2> QED
    BY <2>3 DEF HasServed
<1>5. ASSUME NEW e \in ETags, NEW v \in Urls, NEW f, Sound(e, v, f)
      PROVE  Sound(e, v, f)'
  <2> SUFFICES ASSUME e # None, ~e.stray
               PROVE  /\ HasServed(e.of)' /\ e.of[1] = v
                      /\ e.of[2] = provider'[v] => files'[f] = e.of
    BY DEF Sound
  <2>1. /\ HasServed(e.of) /\ e.of[1] = v /\ e.of \in Versions /\ e.of[2] \in Nat
        /\ e.of[2] = provider[v] => files[f] = e.of
    BY <1>5, EtagParts DEF Sound
  <2>2. e.of[2] <= provider[v]
    BY <2>1 DEF HasServed
  <2>3. e.of[2] = provider'[v] => e.of[2] = provider[v]
    BY <1>1, <1>3, <2>1, <2>2
  <2> QED
    BY <1>2, <1>4, <2>1, <2>3
<1>6. RowsInv'
  <2>1. \A f \in Feeds : rows[f].etag \in ETags /\ rows[f].url \in Urls
    BY <1>1 DEF Row
  <2> QED
    BY <1>1, <1>2, <1>5, <2>1 DEF RowsInv
<1>7. SeenInv'
  <2>1. \A f \in Ahead : f \in Feeds
    BY DEF Ahead, FeedInv, RefInv, Refreshing
  <2>2. \A f \in Ahead : ref.seen[f].etag \in ETags /\ ref.seen[f].url \in Urls
    BY <1>1, <2>1 DEF Refreshing, Row
  <2>3. Ahead' = Ahead
    BY <1>2 DEF Ahead
  <2> QED
    BY <1>1, <1>2, <1>5, <2>2, <2>3 DEF SeenInv
<1>8. StagedInv'
  <2>1. ref.pc \in {"staged", "candidate", "renamed"} => HasServed(ref.body)'
    BY <1>1, <1>2, <1>4 DEF StagedInv, FeedInv, RefInv, HasServed
  <2> QED
    BY <1>1, <1>2, <2>1 DEF StagedInv
<1>9. OutcomeInv'
  <2>1. ASSUME ref.etag # None, EtagOfBody
        PROVE  EtagOfBody'
    <3>1. ref.etag \in ETags
      BY <1>1 DEF Refreshing
    <3>2. ref.etag.of \in Versions
      BY <2>1, <3>1, EtagParts
    <3> QED
      BY <1>2, <1>4, <2>1, <3>2 DEF EtagOfBody
  <2> QED
    BY <1>1, <1>2, <2>1 DEF OutcomeInv
<1> QED
  BY <1>2, <1>6, <1>7, <1>8, <1>9 DEF EtagInv
-----------------------------------------------------------------------------
(* The steps of a refresh *)

LEMMA SeenFrame ==
    ASSUME SeenInv, UNCHANGED provider, Ahead' \subseteq Ahead,
           \A f \in Ahead' : /\ ref'.seen[f] = ref.seen[f] /\ files'[f] = files[f]
                             /\ rows'[f] = rows[f]
    PROVE  SeenInv'
BY DEF SeenInv, Sound, HasServed

LEMMA RowsFrame ==
    ASSUME RowsInv, UNCHANGED <<rows, provider, files>>
    PROVE  RowsInv'
BY DEF RowsInv, Sound, HasServed

\* What the end of a feed's download makes of its outcome.
LEMMA FinishOutcome ==
    ASSUME NEW r \in Refreshing, NEW res \in {"error", "304", "committed"}, NEW etag \in ETags
    PROVE  /\ FinishRefresh(r, res, etag) \in Refreshing
           /\ FinishRefresh(r, res, etag).pc \in {"rebuild", "record"}
           /\ res = "304" => FinishRefresh(r, res, etag).pc = "rebuild"
           /\ FinishRefresh(r, res, etag).res = res
           /\ FinishRefresh(r, res, etag).etag = etag
           /\ FinishRefresh(r, res, etag).feed = r.feed
           /\ FinishRefresh(r, res, etag).todo = r.todo
           /\ FinishRefresh(r, res, etag).seen = r.seen
           /\ FinishRefresh(r, res, etag).body = r.body
<1> DEFINE p == IF res = "304" \/ (res = "error" /\ ~warm) THEN "rebuild" ELSE "record"
<1>1. FinishRefresh(r, res, etag) = [r EXCEPT !.pc = p, !.res = res, !.etag = etag]
  BY DEF FinishRefresh
<1>2. p \in {"rebuild", "record"} /\ p \in RefPlaces /\ (res = "304" => p = "rebuild")
  BY DEF RefPlaces
<1> HIDE DEF p
<1> QED
  BY <1>1, <1>2 DEF Refreshing, Results

\* A feed's download that failed.
LEMMA FailEtag ==
    ASSUME EtagInv, NEW r \in Refreshing, ref' = Fail(r), ref.pc \in {"download", "staged", "candidate"},
           r.feed = ref.feed, r.todo = ref.todo, \A f \in ref.todo : r.seen[f] = ref.seen[f],
           UNCHANGED <<rows, provider, files, serving>>
    PROVE  EtagInv'
<1>1. RowsInv /\ SeenInv /\ StagedInv /\ OutcomeInv /\ serving
  BY DEF EtagInv
<1>2. /\ ref'.pc \in {"rebuild", "record"} /\ ref'.res = "error"
      /\ ref'.todo = r.todo /\ ref'.seen = r.seen /\ ref'.feed = r.feed
  BY FinishOutcome, NoneIsNoVersion DEF Fail
<1>3. RowsInv'
  BY <1>1, RowsFrame
<1>4. SeenInv'
  <2>1. Ahead' = ref.todo /\ Ahead' \subseteq Ahead
    BY <1>2 DEF Ahead
  <2> QED
    BY <1>1, <1>2, <2>1, SeenFrame
<1>5. StagedInv' /\ OutcomeInv'
  BY <1>1, <1>2 DEF StagedInv, OutcomeInv
<1> QED
  BY <1>1, <1>3, <1>4, <1>5 DEF EtagInv

LEMMA GateEtag ==
    ASSUME FeedInv, EtagInv,
           EnterGate \/ Return \/ BeginRefresh \/ \E f \in Feeds : BeginRefreshFeed(f)
    PROVE  EtagInv'
<1>1. RowsInv /\ SeenInv /\ StagedInv /\ OutcomeInv /\ ref \in Refreshing
  BY DEF EtagInv, FeedInv, RefInv
<1>2. UNCHANGED <<rows, provider, files, serving>>
  BY DEF EnterGate, Return, BeginRefresh, BeginRefreshFeed, disk, life
<1>3. /\ ref'.pc \in {"idle", "claimed", "waiting"} /\ ref'.res = "none"
      /\ Ahead' \subseteq Ahead /\ (ref'.pc # "idle" => serving')
      /\ \A f \in Ahead' : ref'.seen[f] = ref.seen[f]
  <2>1. CASE EnterGate
    <3>1. serving /\ ref.res = "none"
      BY <1>1, <2>1 DEF EnterGate, EtagInv, OutcomeInv
    <3>2. CASE ref' = IdleRef
      BY <1>2, <3>1, <3>2 DEF IdleRef, Ahead
    <3>3. CASE ref' = [ref EXCEPT !.pc = "waiting"]
      <4>1. ref'.pc = "waiting" /\ ref'.res = ref.res /\ ref'.todo = ref.todo /\ ref'.seen = ref.seen
        BY <1>1, <3>3 DEF Refreshing
      <4> QED
        BY <1>2, <3>1, <4>1 DEF Ahead
    <3> QED
      BY <2>1, <3>2, <3>3 DEF EnterGate
  <2>2. CASE Return
    BY <2>2 DEF Return, IdleRef, Ahead
  <2>3. CASE BeginRefresh
    <3>1. ref'.pc = "waiting" /\ ref'.res = "none" /\ ref'.todo = {} /\ serving
      BY <2>3 DEF BeginRefresh, IdleRef
    <3> QED
      BY <1>2, <3>1 DEF Ahead
  <2>4. CASE \E f \in Feeds : BeginRefreshFeed(f)
    <3>1. ref'.pc = "claimed" /\ ref'.res = "none" /\ ref'.todo = {} /\ serving
      BY <2>4 DEF BeginRefreshFeed, IdleRef
    <3> QED
      BY <1>2, <3>1 DEF Ahead
  <2> QED
    BY <2>1, <2>2, <2>3, <2>4
<1>4. RowsInv' /\ SeenInv'
  BY <1>1, <1>2, <1>3, RowsFrame, SeenFrame
<1>5. StagedInv' /\ OutcomeInv'
  BY <1>3 DEF StagedInv, OutcomeInv
<1> QED
  BY <1>3, <1>4, <1>5 DEF EtagInv

LEMMA LockAndListEtag ==
    ASSUME FeedInv, EtagInv, LockAndList
    PROVE  EtagInv'
<1>1. /\ RowsInv /\ SeenInv /\ StagedInv /\ OutcomeInv /\ ref \in Refreshing
      /\ ref.pc = "waiting" /\ ref.res = "none" /\ serving
      /\ UNCHANGED <<rows, provider, files, serving>>
  BY DEF EtagInv, FeedInv, RefInv, OutcomeInv, LockAndList, disk, life
<1>2. RowsInv'
  BY <1>1, RowsFrame
<1>3. CASE ref' = [ref EXCEPT !.pc = "return"]
  <2>1. ref'.pc = "return" /\ ref'.todo = ref.todo /\ ref'.seen = ref.seen
    BY <1>1, <1>3 DEF Refreshing
  <2>2. SeenInv'
    <3>1. Ahead' \subseteq Ahead
      BY <1>1, <2>1 DEF Ahead
    <3> QED
      BY <1>1, <2>1, <3>1, SeenFrame
  <2>3. StagedInv' /\ OutcomeInv'
    BY <2>1 DEF StagedInv, OutcomeInv
  <2> QED
    BY <1>1, <1>2, <2>2, <2>3 DEF EtagInv
<1>4. CASE \E todo \in {IF ref.all THEN {f \in Feeds : On(f)}
                        ELSE {f \in {ref.feed} : On(f)}} :
             ref' = [ref EXCEPT !.pc = IF todo = {} /\ ~ref.all THEN "return" ELSE "pick",
                                !.seen = rows, !.todo = todo]
  <2>1. PICK todo \in {IF ref.all THEN {f \in Feeds : On(f)}
                       ELSE {f \in {ref.feed} : On(f)}} :
          ref' = [ref EXCEPT !.pc = IF todo = {} /\ ~ref.all THEN "return" ELSE "pick",
                             !.seen = rows, !.todo = todo]
    BY <1>4
  <2>2. todo \subseteq Feeds
    BY <1>1 DEF FeedInv, RefInv
  <2>3. /\ ref'.pc \in {"return", "pick"} /\ ref'.seen = rows /\ ref'.todo = todo
        /\ ref'.res = "none"
    BY <1>1, <2>1 DEF Refreshing
  <2>4. SeenInv'
    BY <1>1, <1>2, <2>2, <2>3 DEF SeenInv, RowsInv, Ahead, Sound, HasServed
  <2>5. StagedInv' /\ OutcomeInv'
    BY <2>3 DEF StagedInv, OutcomeInv
  <2> QED
    BY <1>1, <1>2, <2>4, <2>5 DEF EtagInv
<1> QED
  BY <1>3, <1>4 DEF LockAndList

LEMMA PickEtag ==
    ASSUME FeedInv, EtagInv, Pick
    PROVE  EtagInv'
<1>1. /\ RowsInv /\ SeenInv /\ StagedInv /\ OutcomeInv /\ ref \in Refreshing
      /\ ref.pc = "pick" /\ ref.res = "none" /\ serving
      /\ UNCHANGED <<rows, provider, files, serving>>
  BY DEF EtagInv, FeedInv, RefInv, OutcomeInv, Pick, disk, life
<1>2. /\ ref'.pc \in {"download", "return", "rebuild"} /\ ref'.res = "none"
      /\ ref'.seen = ref.seen /\ Ahead' \subseteq Ahead
      /\ ref'.pc \in {"download", "rebuild"} => ref'.feed \notin ref'.todo
  <2>1. CASE \E f \in ref.todo :
               ref' = [ref EXCEPT !.pc = "download", !.feed = f, !.todo = @ \ {f}]
    <3>1. PICK f \in ref.todo :
            ref' = [ref EXCEPT !.pc = "download", !.feed = f, !.todo = @ \ {f}]
      BY <2>1
    <3>2. /\ ref'.pc = "download" /\ ref'.feed = f /\ ref'.todo = ref.todo \ {f}
          /\ ref'.res = ref.res /\ ref'.seen = ref.seen
      BY <1>1, <3>1 DEF Refreshing
    <3> QED
      BY <1>1, <3>2 DEF Ahead
  <2>2. CASE ref' = [ref EXCEPT !.pc = "return"]
    <3>1. ref'.pc = "return" /\ ref'.todo = ref.todo /\ ref'.res = ref.res /\ ref'.seen = ref.seen
      BY <1>1, <2>2 DEF Refreshing
    <3> QED
      BY <1>1, <3>1 DEF Ahead
  <2>3. CASE /\ ref.todo = {}
             /\ ref' = [ref EXCEPT !.feed = None,
                                   !.pc = IF ref.all /\ ~ref.failed /\ ~ref.committed
                                          THEN "rebuild" ELSE "return"]
    <3>1. /\ ref'.pc \in {"return", "rebuild"} /\ ref'.todo = ref.todo
          /\ ref'.res = ref.res /\ ref'.seen = ref.seen
      BY <1>1, <2>3 DEF Refreshing
    <3> QED
      BY <1>1, <2>3, <3>1 DEF Ahead
  <2> QED
    BY <2>1, <2>2, <2>3 DEF Pick
<1>3. RowsInv' /\ SeenInv'
  BY <1>1, <1>2, RowsFrame, SeenFrame
<1>4. StagedInv' /\ OutcomeInv'
  BY <1>2 DEF StagedInv, OutcomeInv
<1> QED
  BY <1>1, <1>3, <1>4 DEF EtagInv

LEMMA DownloadEtag ==
    ASSUME FeedInv, EtagInv, Download
    PROVE  EtagInv'
<1> DEFINE row == ref.seen[ref.feed]
           now == <<row.url, provider[row.url]>>
<1>1. /\ RowsInv /\ SeenInv /\ StagedInv /\ OutcomeInv /\ ref \in Refreshing
      /\ ref.pc = "download" /\ ref.feed \in Feeds /\ ref.feed \notin ref.todo /\ serving
      /\ UNCHANGED <<rows, provider, files, serving>> /\ ref.feed \in Ahead
      /\ rows \in [Feeds -> Row] /\ provider \in [Urls -> Nat]
  BY DEF EtagInv, FeedInv, RefInv, DiskInv, StagedInv, Ahead, Download, disk, life
<1>2. row \in Row /\ row.url \in Urls /\ row.etag \in ETags
  BY <1>1 DEF Refreshing, Row
<1>3. now \in Versions
  BY <1>2 DEF FeedInv, DiskInv, Versions
<1>4. /\ Sound(row.etag, row.url, ref.feed)
      /\ rows[ref.feed].etag # None => /\ rows[ref.feed].url = row.url
                                       /\ rows[ref.feed].etag = row.etag
  BY <1>1 DEF SeenInv
<1> DEFINE r == Forget(ref)
<1>5. /\ r \in Refreshing /\ r.feed = ref.feed /\ r.todo = ref.todo
      /\ \A f \in ref.todo : r.seen[f] = ref.seen[f]
  <2>1. NoRows[ref.feed] \in Row
    BY <1>1, NoneIsNoVersion, FeedAssumption DEF NoRows, Row
  <2> QED
    BY <1>1, <2>1 DEF Forget, Refreshing
<1> HIDE DEF r, row, now
<1>6. CASE ref' = Fail(r)
  BY <1>1, <1>5, <1>6, FailEtag
<1>7. now[1] = row.url /\ now[2] = provider[row.url] /\ provider[row.url] \in Nat
  BY <1>1, <1>2 DEF now
<1>8. HasServed(now)
  BY <1>7 DEF HasServed
<1>9. CASE Honoured(row.etag, now)
           /\ ref' = FinishRefresh([r EXCEPT !.body = now], "304", row.etag)
  <2> DEFINE q == [r EXCEPT !.body = now]
  <2>1. q \in Refreshing /\ q.body = now /\ q.feed = r.feed /\ q.todo = r.todo /\ q.seen = r.seen
    BY <1>3, <1>5, NoneIsNoVersion DEF Refreshing
  <2>0. ref' = FinishRefresh(q, "304", row.etag)
    BY <1>9
  <2> HIDE DEF q
  <2>2. /\ ref'.pc = "rebuild" /\ ref'.res = "304" /\ ref'.etag = row.etag
        /\ ref'.feed = ref.feed /\ ref'.todo = ref.todo /\ ref'.seen = r.seen
        /\ ref'.body = now
    BY <1>2, <1>5, <2>0, <2>1, FinishOutcome
  <2>3. SeenInv'
    <3>1. Ahead' \subseteq Ahead /\ \A f \in Ahead' : f \in ref.todo
      BY <2>2 DEF Ahead
    <3> QED
      BY <1>1, <1>5, <2>2, <3>1, SeenFrame
  <2>4. ~row.etag.stray => row.etag.of = now /\ files[ref.feed] = now
    <3> SUFFICES ASSUME ~row.etag.stray
                 PROVE  row.etag.of = now /\ files[ref.feed] = now
      OBVIOUS
    <3>1. /\ row.etag # None /\ row.etag.of[2] = provider[row.url]
      BY <1>7, <1>9 DEF Honoured
    <3>2. row.etag.of[1] = row.url /\ files[ref.feed] = row.etag.of
      BY <1>4, <3>1 DEF Sound
    <3>3. row.etag.of = <<row.etag.of[1], row.etag.of[2]>>
      BY <1>2, <3>1, EtagParts
    <3> QED
      BY <3>1, <3>2, <3>3 DEF now
  <2>5. EtagOfBody'
    BY <1>1, <1>8, <2>2, <2>4 DEF EtagOfBody, HasServed
  <2>6. StagedInv' /\ OutcomeInv'
    BY <1>1, <1>9, <2>2, <2>5 DEF StagedInv, OutcomeInv, Honoured
  <2> QED
    BY <1>1, <2>3, <2>6, RowsFrame DEF EtagInv
<1>10. CASE ~Honoured(row.etag, now) /\ ref' = [r EXCEPT !.pc = "staged", !.body = now]
  <2>1. /\ ref'.pc = "staged" /\ ref'.body = now /\ ref'.feed = ref.feed
        /\ ref'.todo = ref.todo /\ ref'.seen = r.seen
    BY <1>5, <1>10 DEF Refreshing
  <2>2. SeenInv'
    <3>1. Ahead' \subseteq Ahead /\ \A f \in Ahead' : f \in ref.todo
      BY <2>1 DEF Ahead
    <3> QED
      BY <1>1, <1>5, <2>1, <3>1, SeenFrame
  <2>3. ASSUME rows[ref.feed].etag # None
        PROVE  /\ rows[ref.feed].url = now[1]
               /\ ~rows[ref.feed].etag.stray => rows[ref.feed].etag.of[2] < now[2]
    <3>1. rows[ref.feed].etag = row.etag /\ rows[ref.feed].url = row.url /\ row.etag # None
      BY <1>4, <2>3
    <3>2. row.etag.of[2] \in Nat /\ row.etag.of[2] # now[2]
      BY <1>2, <1>10, <3>1, EtagParts DEF Honoured
    <3>3. ~row.etag.stray => row.etag.of[2] <= provider[row.url]
      BY <1>4, <3>1 DEF Sound, HasServed
    <3> QED
      BY <1>7, <3>1, <3>2, <3>3
  <2>4. StagedInv' /\ OutcomeInv'
    BY <1>1, <1>8, <2>1, <2>3 DEF StagedInv, OutcomeInv, HasServed
  <2> QED
    BY <1>1, <2>2, <2>4, RowsFrame DEF EtagInv
<1> QED
  BY <1>6, <1>9, <1>10 DEF Download, r, row, now

LEMMA StageEtag ==
    ASSUME FeedInv, EtagInv, Stage
    PROVE  EtagInv'
<1>1. /\ RowsInv /\ SeenInv /\ StagedInv /\ OutcomeInv /\ ref \in Refreshing
      /\ ref.pc = "staged" /\ serving /\ UNCHANGED <<rows, provider, files, serving>>
  BY DEF EtagInv, FeedInv, RefInv, Stage, disk, life
<1>2. CASE ref' = Fail(ref)
  BY <1>1, <1>2, FailEtag
<1>3. CASE ref' = [ref EXCEPT !.pc = "candidate", !.cand = Candidate(ref.feed, ref.body)]
  <2>1. /\ ref'.pc = "candidate" /\ ref'.body = ref.body /\ ref'.feed = ref.feed
        /\ ref'.todo = ref.todo /\ ref'.seen = ref.seen
    BY <1>1, <1>3 DEF Refreshing
  <2>2. SeenInv'
    <3>1. Ahead' \subseteq Ahead
      BY <1>1, <2>1 DEF Ahead
    <3> QED
      BY <1>1, <2>1, <3>1, SeenFrame
  <2>3. StagedInv' /\ OutcomeInv'
    BY <1>1, <2>1 DEF StagedInv, OutcomeInv, HasServed
  <2> QED
    BY <1>1, <2>2, <2>3, RowsFrame DEF EtagInv
<1> QED
  BY <1>2, <1>3 DEF Stage

\* The rename outdates the row's ETag: its URL would not confirm it any more.
LEMMA RenameEtag ==
    ASSUME FeedInv, EtagInv, Rename
    PROVE  EtagInv'
<1>1. /\ RowsInv /\ SeenInv /\ StagedInv /\ OutcomeInv /\ ref \in Refreshing
      /\ ref.pc = "candidate" /\ ref.feed \in Feeds /\ ref.feed \notin ref.todo
      /\ ref.body \in Versions /\ serving /\ UNCHANGED <<rows, provider, serving>>
      /\ rows \in [Feeds -> Row] /\ provider \in [Urls -> Nat] /\ files \in [Feeds -> Copies]
  BY DEF EtagInv, FeedInv, RefInv, DiskInv, StagedInv, Rename, disk, life
<1>2. CASE ref' = Fail(ref) /\ UNCHANGED <<files, lost>>
  BY <1>1, <1>2, FailEtag
<1>3. CASE /\ files' = [files EXCEPT ![ref.feed] = ref.body]
           /\ ref' = [ref EXCEPT !.pc = "renamed"]
  <2>1. /\ ref'.pc = "renamed" /\ ref'.body = ref.body /\ ref'.feed = ref.feed
        /\ ref'.todo = ref.todo /\ ref'.seen = ref.seen
    BY <1>1, <1>3 DEF Refreshing
  <2>2. /\ files'[ref.feed] = ref.body
        /\ \A f \in Feeds \ {ref.feed} : files'[f] = files[f]
    BY <1>1, <1>3
  <2>3. Sound(rows[ref.feed].etag, rows[ref.feed].url, ref.feed)'
    <3> DEFINE e == rows[ref.feed].etag
               u == rows[ref.feed].url
    <3> SUFFICES ASSUME e # None, ~e.stray
                 PROVE  HasServed(e.of) /\ e.of[1] = u /\ e.of[2] # provider[u]
      BY <1>1, <2>1 DEF Sound, HasServed
    <3>1. e \in ETags /\ u \in Urls /\ Sound(e, u, ref.feed)
      BY <1>1 DEF Row, RowsInv
    <3>2. e.of[2] \in Nat /\ HasServed(e.of) /\ e.of[1] = u
      BY <3>1, EtagParts DEF Sound
    <3>3. u = ref.body[1] /\ e.of[2] < ref.body[2]
      BY <1>1 DEF StagedInv
    <3>4. ref.body[2] <= provider[ref.body[1]]
      BY <1>1 DEF StagedInv, HasServed
    <3>5. ref.body[2] \in Nat /\ provider[ref.body[1]] \in Nat
      BY <1>1, VersionParts
    <3> QED
      BY <3>2, <3>3, <3>4, <3>5
  <2>4. RowsInv'
    BY <1>1, <2>1, <2>2, <2>3 DEF RowsInv, Sound, HasServed
  <2>5. SeenInv'
    <3>1. Ahead' \subseteq Ahead /\ \A f \in Ahead' : f \in Feeds \ {ref.feed}
      BY <1>1, <2>1 DEF Ahead, Refreshing
    <3> QED
      BY <1>1, <2>1, <2>2, <3>1, SeenFrame
  <2>6. StagedInv' /\ OutcomeInv'
    BY <1>1, <2>1, <2>2 DEF StagedInv, OutcomeInv, HasServed
  <2> QED
    BY <1>1, <2>4, <2>5, <2>6 DEF EtagInv
<1> QED
  BY <1>2, <1>3 DEF Rename

LEMMA StoreIndexEtag ==
    ASSUME FeedInv, EtagInv, StoreIndex
    PROVE  EtagInv'
<1>1. /\ RowsInv /\ SeenInv /\ StagedInv /\ OutcomeInv /\ ref \in Refreshing
      /\ ref.pc = "renamed" /\ serving /\ UNCHANGED <<rows, provider, files, serving>>
  BY DEF EtagInv, FeedInv, RefInv, StoreIndex, disk, life
<1>2. PICK etag \in {ETagOf(ref.body), None} : ref' = FinishRefresh(ref, "committed", etag)
  BY DEF StoreIndex
<1>3. etag \in ETags /\ (etag # None => etag.of = ref.body)
  BY <1>1, EtagOfCopy, NoneIsNoVersion DEF FeedInv, RefInv
<1>4. /\ ref'.pc \in {"rebuild", "record"} /\ ref'.res = "committed" /\ ref'.etag = etag
      /\ ref'.feed = ref.feed /\ ref'.todo = ref.todo /\ ref'.seen = ref.seen
      /\ ref'.body = ref.body
  BY <1>1, <1>2, <1>3, FinishOutcome
<1>5. SeenInv'
  <2>1. Ahead' \subseteq Ahead
    BY <1>1, <1>4 DEF Ahead
  <2> QED
    BY <1>1, <1>4, <2>1, SeenFrame
<1>6. StagedInv' /\ OutcomeInv'
  BY <1>1, <1>3, <1>4 DEF StagedInv, OutcomeInv, EtagOfBody, HasServed
<1> QED
  BY <1>1, <1>5, <1>6, RowsFrame DEF EtagInv

\* A rebuild that a 304 asked for ends with the confirmed copy or as an error.
LEMMA RebuildEtag ==
    ASSUME FeedInv, EtagInv, Rebuild \/ StoreRebuilt
    PROVE  EtagInv'
<1>1. /\ RowsInv /\ SeenInv /\ StagedInv /\ OutcomeInv /\ ref \in Refreshing
      /\ ref.pc \in {"rebuild", "rebuilt"} /\ serving
      /\ UNCHANGED <<rows, provider, files, serving>> /\ files \in [Feeds -> Copies]
  BY DEF EtagInv, FeedInv, RefInv, DiskInv, Rebuild, StoreRebuilt, disk, life
<1>2. ASSUME ref'.todo = ref.todo, ref'.seen = ref.seen, ref'.feed = ref.feed,
             ref'.pc \in {"rebuilt", "record", "return"}
      PROVE  RowsInv' /\ SeenInv' /\ StagedInv'
  <2>1. Ahead' \subseteq Ahead
    BY <1>1, <1>2 DEF Ahead
  <2>2. SeenInv'
    BY <1>1, <1>2, <2>1, SeenFrame
  <2> QED
    BY <1>1, <1>2, <2>2, RowsFrame DEF StagedInv
<1>3. CASE ref' = AfterRebuild(ref, FALSE)
  <2>1. /\ ref'.todo = ref.todo /\ ref'.seen = ref.seen /\ ref'.pc \in {"record", "return"}
        /\ ref'.feed = ref.feed
        /\ ref'.pc = "record" => ref'.res = "error"
    BY <1>1, <1>3 DEF AfterRebuild, Refreshing
  <2>2. OutcomeInv'
    BY <2>1 DEF OutcomeInv
  <2> QED
    BY <1>1, <1>2, <2>1, <2>2 DEF EtagInv
<1>4. CASE Rebuild /\ ref' # AfterRebuild(ref, FALSE)
  <2>1. /\ ref.feed # None => Candidate(None, None)[ref.feed] # None
        /\ ref' = [ref EXCEPT !.pc = "rebuilt", !.cand = Candidate(None, None)]
    BY <1>4 DEF Rebuild
  <2>2. /\ ref'.todo = ref.todo /\ ref'.seen = ref.seen /\ ref'.pc = "rebuilt"
        /\ ref'.cand = Candidate(None, None) /\ ref'.res = ref.res /\ ref'.etag = ref.etag
        /\ ref'.feed = ref.feed /\ ref'.body = ref.body
    BY <1>1, <2>1 DEF Refreshing
  <2>3. ref.res = "304" => /\ ref.feed \in Feeds /\ ref.etag # None /\ EtagOfBody
                           /\ ref.etag.stray \/ Candidate(None, None)[ref.feed] = ref.body
    BY <1>1, <2>1, CandidateOfCache, FeedAssumption DEF OutcomeInv, EtagOfBody, Latest
  <2>4. OutcomeInv'
    BY <1>1, <2>2, <2>3 DEF OutcomeInv, EtagOfBody, HasServed
  <2> QED
    BY <1>1, <1>2, <2>2, <2>4 DEF EtagInv
<1>5. CASE StoreRebuilt
  <2>1. ref' = AfterRebuild(ref, TRUE) /\ index' = ref.cand /\ ref.pc = "rebuilt"
    BY <1>5 DEF StoreRebuilt, Publish
  <2>2. /\ ref'.todo = ref.todo /\ ref'.seen = ref.seen /\ ref'.pc \in {"record", "return"}
        /\ ref'.feed = ref.feed
        /\ ref'.pc = "record" => \/ ref'.res = "error"
                                 \/ /\ ref.res = "304" /\ ref'.res = "confirmed"
                                    /\ ref'.etag = ref.etag /\ ref'.body = ref.body
    BY <1>1, <2>1 DEF AfterRebuild, Refreshing
  <2>3. OutcomeInv'
    BY <1>1, <2>1, <2>2 DEF OutcomeInv, EtagOfBody, HasServed
  <2> QED
    BY <1>1, <1>2, <2>2, <2>3 DEF EtagInv
<1> QED
  BY <1>3, <1>4, <1>5

\* The ETag recorded is that of the copy committed.
LEMMA RecordEtag ==
    ASSUME FeedInv, EtagInv, Record
    PROVE  EtagInv'
<1>1. /\ RowsInv /\ SeenInv /\ StagedInv /\ OutcomeInv /\ ref \in Refreshing
      /\ ref.pc = "record" /\ ref.feed \in Feeds /\ serving
      /\ UNCHANGED <<provider, files, serving>> /\ rows \in [Feeds -> Row]
  BY DEF EtagInv, FeedInv, RefInv, DiskInv, Record, life
<1>2. /\ ref'.pc = "pick" /\ ref'.res = "none" /\ ref'.todo = ref.todo /\ ref'.seen = ref.seen
      /\ ref'.feed = ref.feed
  BY <1>1 DEF Record, Refreshing
<1>3. Ahead' = ref.todo /\ Ahead = ref.todo
  BY <1>1, <1>2 DEF Ahead
<1>4. StagedInv' /\ OutcomeInv'
  BY <1>2 DEF StagedInv, OutcomeInv
<1>5. CASE UNCHANGED rows
  BY <1>1, <1>2, <1>3, <1>4, <1>5, RowsFrame, SeenFrame DEF EtagInv
<1>6. CASE /\ ref.res \in {"committed", "confirmed"}
           /\ rows' = [rows EXCEPT ![ref.feed].etag = Stored(ref.etag)]
  <2>1. /\ rows'[ref.feed].etag = Stored(ref.etag) /\ rows'[ref.feed].url = rows[ref.feed].url
        /\ \A f \in Feeds \ {ref.feed} : rows'[f] = rows[f]
    BY <1>1, <1>6 DEF Row
  <2>2. ref.etag # None => EtagOfBody
    BY <1>1, <1>6 DEF OutcomeInv
  <2>3. RowsInv'
    <3>1. ref.etag \in ETags
      BY <1>1 DEF Refreshing
    <3>2. ASSUME Stored(ref.etag) # None, ~Stored(ref.etag).stray
          PROVE  /\ Stored(ref.etag).of = ref.body /\ files[ref.feed] = ref.body
                 /\ rows[ref.feed].url = ref.body[1] /\ HasServed(ref.body)
      BY <2>2, <3>1, <3>2, StoredEtag DEF EtagOfBody
    <3>3. Sound(rows[ref.feed].etag, rows[ref.feed].url, ref.feed)'
      BY <1>1, <1>2, <2>1, <3>2 DEF Sound, HasServed
    <3> QED
      BY <1>1, <1>2, <2>1, <3>3 DEF RowsInv, Sound, HasServed
  <2>4. SeenInv'
    <3>1. ref.feed \notin ref.todo
      BY <1>1 DEF StagedInv
    <3>2. \A f \in Ahead' : f \in Feeds \ {ref.feed}
      BY <1>1, <1>3, <3>1 DEF Refreshing
    <3> QED
      BY <1>1, <1>2, <1>3, <2>1, <3>2, SeenFrame
  <2> QED
    BY <1>1, <1>4, <2>3, <2>4 DEF EtagInv
<1> QED
  BY <1>5, <1>6 DEF Record

LEMMA CrashEtag ==
    ASSUME FeedInv, EtagInv, Crash
    PROVE  EtagInv'
<1>1. RowsInv /\ UNCHANGED <<rows, provider, files>> /\ ref' = IdleRef
  BY DEF EtagInv, Crash, disk
<1>2. ref'.pc = "idle" /\ ref'.todo = {}
  BY <1>1 DEF IdleRef
<1>3. RowsInv'
  BY <1>1, RowsFrame
<1> QED
  BY <1>2, <1>3 DEF EtagInv, SeenInv, Ahead, StagedInv, OutcomeInv
-----------------------------------------------------------------------------
LEMMA EtagStep == FeedInv /\ EtagInv /\ [Next]_vars => EtagInv'
<1> SUFFICES ASSUME FeedInv, EtagInv, [Next]_vars
             PROVE  EtagInv'
  OBVIOUS
<1>1. rows \in [Feeds -> Row]
  BY DEF FeedInv, DiskInv
<1>2. \A f \in Feeds : rows[f].url \in Urls
  BY <1>1 DEF Row
<1>3. CASE Boot
  <2>1. UNCHANGED <<rows, provider, files, ref>> /\ ref.pc = "idle" /\ ~serving
    BY <1>3 DEF Boot, disk, EtagInv
  <2> QED
    BY <2>1, EtagFrame
<1>4. CASE BeginRefresh \/ \E f \in Feeds : BeginRefreshFeed(f)
  BY <1>4, GateEtag
<1>5. CASE RefreshStep
  BY <1>5, GateEtag, LockAndListEtag, PickEtag, DownloadEtag, StageEtag, RenameEtag,
     StoreIndexEtag, RebuildEtag, RecordEtag DEF RefreshStep
<1>6. ASSUME NEW l \in Loaders, LoadStep(l)
      PROVE  EtagInv'
  <2>1. UNCHANGED <<rows, provider, files, ref, serving>>
    BY <1>6 DEF LoadStep, EnterLoad, LoadCandidate, LoadStore, LoadDone, disk, life
  <2>2. index' = index \/ ref.pc # "record"
    <3>1. CASE LoadStore(l)
      BY <3>1, FeedAssumption DEF LoadStore, FeedInv, LockInv
    <3>2. CASE EnterLoad(l) \/ LoadCandidate(l) \/ LoadDone(l)
      BY <3>2 DEF EnterLoad, LoadCandidate, LoadDone
    <3> QED
      BY <1>6, <3>1, <3>2 DEF LoadStep
  <2> QED
    BY <2>1, <2>2, EtagFrame
<1>7. CASE \/ \E f \in Feeds : ReadSwitch(f)
           \/ AnswerSwitch
           \/ \E f \in Feeds : LoseCopy(f)
           \/ BeginClose \/ Close \/ Idle \/ UNCHANGED vars
  <2>1. UNCHANGED <<rows, provider, files, index, ref, serving>>
    BY <1>7 DEF ReadSwitch, AnswerSwitch, LoseCopy, BeginClose, Close, Idle, vars, disk, life
  <2> QED
    BY <2>1, EtagFrame
<1>8. CASE WriteSwitch
  <2>1. UNCHANGED <<provider, files, index, ref, serving>>
    BY <1>8 DEF WriteSwitch, life
  <2>2. \A f \in Feeds : rows'[f].etag = rows[f].etag /\ rows'[f].url = rows[f].url
    <3>1. CASE UNCHANGED rows
      BY <3>1
    <3>2. CASE rows' = [rows EXCEPT ![edit.feed].enabled = edit.want]
      BY <1>1, <3>2 DEF Row
    <3> QED
      BY <1>8, <3>1, <3>2 DEF WriteSwitch
  <2> QED
    BY <2>1, <2>2, EtagFrame
<1>9. ASSUME NEW f \in Feeds, NEW u \in Urls, ChangeUrl(f, u)
      PROVE  EtagInv'
  <2>1. /\ UNCHANGED <<provider, files, index, ref, serving>>
        /\ rows' = [rows EXCEPT ![f].url = u, ![f].etag = None]
    BY <1>9 DEF ChangeUrl, life
  <2>2. /\ rows'[f].etag = None /\ rows'[f].url = u
        /\ \A g \in Feeds \ {f} : rows'[g] = rows[g]
    BY <1>1, <2>1 DEF Row
  <2> QED
    BY <1>2, <2>1, <2>2, EtagFrame
<1>10. ASSUME NEW f \in Feeds, DeleteFeed(f)
       PROVE  EtagInv'
  <2>1. /\ UNCHANGED <<provider, files, index, ref, serving>>
        /\ rows' = [rows EXCEPT ![f].listed = FALSE]
    BY <1>10 DEF DeleteFeed, life
  <2>2. \A g \in Feeds : rows'[g].etag = rows[g].etag /\ rows'[g].url = rows[g].url
    BY <1>1, <2>1 DEF Row
  <2> QED
    BY <2>1, <2>2, EtagFrame
<1>11. ASSUME NEW u \in Urls, Upload(u)
       PROVE  EtagInv'
  BY <1>11, UploadEtag
<1>12. CASE Crash
  BY <1>12, CrashEtag
<1> QED
  BY <1>3, <1>4, <1>5, <1>6, <1>7, <1>8, <1>9, <1>10, <1>11, <1>12 DEF Next

\* A 304 that is reported as a success confirms the copy in force, across
\* changed URLs and crashes between the rename and the record.
THEOREM ConfirmationsAreSound == Spec => []NotModifiedIsSound
<1>1. FeedInv /\ EtagInv => NotModifiedIsSound
  BY DEF EtagInv, OutcomeInv, NotModifiedIsSound
<1> QED
  BY <1>1, FeedInvInit, FeedInvStep, EtagInit, EtagStep, PTL DEF Spec

-----------------------------------------------------------------------------
(* Switches *)

\* A rebuild that is still to read the rows.
Coming == \E l \in Loaders : load[l].pc \in {"spawned", "waiting"}

\* A feed's switch that is written and not yet answered, the feed having been so before.
Switching(f, before) ==
    edit.pc = "written" /\ edit.feed = f /\ edit.before = before

Attended(f, before) == reported \/ Coming \/ Switching(f, before)

Building == {"candidate", "renamed", "rebuilt"}

\* A feed that is off and not attended to is in no index being built, and out of
\* the one in force or on its way out of it.
OffInv ==
    \A f \in Feeds : rows[f].listed /\ ~rows[f].enabled =>
       \/ Attended(f, TRUE)
       \/ /\ ref.pc \in Building => ref.cand[f] = None
          /\ \A l \in Loaders : load[l].pc = "built" => load[l].cand[f] = None
          /\ index[f] = None \/ \E l \in Loaders : load[l].pc = "built"

\* A refresh is about to drop an enabled feed only if it was switched on since; so
\* were all enabled feeds that a Refresh without a single download did not list.
KeepInv ==
    /\ loaded = MadeFrom(index)
    /\ ref.pc \in Building => \A f \in Feeds :
          On(f) /\ index[f] # None /\ ref.cand[f] = None => Attended(f, FALSE)
    /\ ref.pc = "pick" /\ ref.all /\ ~ref.committed /\ ~ref.failed =>
          \A f \in Feeds \ ref.todo : On(f) => Attended(f, FALSE)
    /\ ref.pc = "rebuild" /\ ref.feed = None =>
          \A f \in Feeds : On(f) => Attended(f, FALSE)

\* While an edit is between its read and its write the feed is as it was read.
EditInv ==
    /\ edit.pc # "idle" => edit.feed \in Feeds
    /\ edit.pc = "read" /\ rows[edit.feed].listed => rows[edit.feed].enabled = edit.before
    /\ ~serving => /\ ref.pc = "idle"
                   /\ \A l \in Loaders : load[l].pc = "idle"
                   /\ edit.pc = "idle"

SwitchInv == OffInv /\ KeepInv /\ EditInv

-----------------------------------------------------------------------------
LEMMA AttendedStays ==
    ASSUME reported => reported',
           \A l \in Loaders : load[l].pc \in {"spawned", "waiting"} =>
              load'[l].pc \in {"spawned", "waiting"} \/ reported',
           edit.pc = "written" => edit' = edit
    PROVE  \A f, before : Attended(f, before) => Attended(f, before)'
BY DEF Attended, Coming, Switching

\* What a candidate leaves out.
LEMMA CandidateLeavesOut ==
    ASSUME NEW over, NEW body, NEW f \in Feeds
    PROVE  /\ ~On(f) => Candidate(over, body)[f] = None
           /\ On(f) /\ f = over => Candidate(over, body)[f] = body
           /\ On(f) /\ f # over /\ Readable(f) => Candidate(over, body)[f] # None
BY DEF Candidate, Readable

\* Who holds ingestMu shuts the others out.
LEMMA OneBuilder ==
    ASSUME FeedInv
    PROVE  /\ \A l \in Loaders : load[l].pc = "built" =>
                 /\ ref.pc \in {"idle", "claimed", "waiting"}
                 /\ \A m \in Loaders : load[m].pc = "built" => m = l
           /\ ingest = None =>
                 /\ ref.pc \in {"idle", "claimed", "waiting"}
                 /\ \A l \in Loaders : load[l].pc # "built"
BY FeedAssumption DEF FeedInv, LockInv

-----------------------------------------------------------------------------
\* Steps that leave the rebuilds, the edits and the index alone.
LEMMA OffFrame ==
    ASSUME OffInv, UNCHANGED <<index, load, edit, reported>>,
           \A f \in Feeds : rows'[f].listed => /\ rows[f].listed
                                               /\ rows'[f].enabled = rows[f].enabled,
           \/ ref'.pc \notin Building
           \/ ref.pc \in Building /\ ref'.cand = ref.cand
           \/ \A f \in Feeds : ~On(f) => ref'.cand[f] = None
    PROVE  OffInv'
<1> SUFFICES ASSUME NEW f \in Feeds, rows'[f].listed, ~rows'[f].enabled, ~Attended(f, TRUE)'
             PROVE  /\ ref'.pc \in Building => ref'.cand[f] = None
                    /\ \A l \in Loaders : load'[l].pc = "built" => load'[l].cand[f] = None
                    /\ index'[f] = None \/ \E l \in Loaders : load'[l].pc = "built"
  BY DEF OffInv, Building
<1>1. ~Attended(f, TRUE)
  BY AttendedStays
<1>2. rows[f].listed /\ ~rows[f].enabled /\ ~On(f)
  BY DEF On
<1> QED BY <1>1, <1>2 DEF OffInv

LEMMA EditFrame ==
    ASSUME EditInv, UNCHANGED <<load, edit, serving>>, serving \/ ref' = ref,
           \A f \in Feeds : rows'[f].listed => /\ rows[f].listed
                                               /\ rows'[f].enabled = rows[f].enabled
    PROVE  EditInv'
BY DEF EditInv

\* Steps of the refresh that publish nothing.
LEMMA KeepFrame ==
    ASSUME KeepInv, UNCHANGED <<index, loaded>>,
           ref'.pc \in Building => \A f \in Feeds :
              On(f)' /\ index[f] # None /\ ref'.cand[f] = None => Attended(f, FALSE)',
           ref'.pc = "pick" /\ ref'.all /\ ~ref'.committed /\ ~ref'.failed =>
              \A f \in Feeds \ ref'.todo : On(f)' => Attended(f, FALSE)',
           ref'.pc = "rebuild" /\ ref'.feed = None =>
              \A f \in Feeds : On(f)' => Attended(f, FALSE)'
    PROVE  KeepInv'
BY DEF KeepInv, MadeFrom, Building

\* Steps outside the refresh, the rebuilds and the switches.
LEMMA OutsideSwitch ==
    ASSUME SwitchInv, UNCHANGED <<index, loaded, ref, load, edit, reported, serving>>,
           \A f \in Feeds : rows'[f].listed => /\ rows[f].listed
                                               /\ rows'[f].enabled = rows[f].enabled
    PROVE  SwitchInv'
<1>1. OffInv /\ KeepInv /\ EditInv
  BY DEF SwitchInv
<1>2. OffInv'
  <2>1. ref'.pc \notin Building \/ (ref.pc \in Building /\ ref'.cand = ref.cand)
    OBVIOUS
  <2> QED BY <1>1, <2>1, OffFrame
<1>3. EditInv'
  BY <1>1, EditFrame
<1>4. \A f \in Feeds : On(f)' => On(f)
  BY DEF On
<1>5. \A f, before : Attended(f, before) => Attended(f, before)'
  BY AttendedStays
<1>6. KeepInv'
  BY <1>1, <1>4, <1>5, KeepFrame DEF KeepInv
<1> QED BY <1>2, <1>3, <1>6 DEF SwitchInv

\* Steps of a refresh that is under way, but for what they publish.
LEMMA RefSwitch ==
    ASSUME SwitchInv, UNCHANGED <<index, loaded, load, edit, reported, serving>>, serving,
           \A f \in Feeds : /\ rows'[f].listed = rows[f].listed
                            /\ rows'[f].enabled = rows[f].enabled,
           \/ ref'.pc \notin Building
           \/ ref.pc \in Building /\ ref'.cand = ref.cand
           \/ \A f \in Feeds : ~On(f) => ref'.cand[f] = None,
           ref'.pc \in Building => \A f \in Feeds :
              On(f) /\ index[f] # None /\ ref'.cand[f] = None => Attended(f, FALSE),
           ref'.pc = "pick" /\ ref'.all /\ ~ref'.committed /\ ~ref'.failed =>
              \A f \in Feeds \ ref'.todo : On(f) => Attended(f, FALSE),
           ref'.pc = "rebuild" /\ ref'.feed = None =>
              \A f \in Feeds : On(f) => Attended(f, FALSE)
    PROVE  SwitchInv'
<1>1. OffInv /\ KeepInv /\ EditInv
  BY DEF SwitchInv
<1>2. OffInv' /\ EditInv'
  BY <1>1, OffFrame, EditFrame
<1>3. \A f \in Feeds : On(f)' => On(f)
  BY DEF On
<1>4. \A f, before : Attended(f, before) => Attended(f, before)'
  BY AttendedStays
<1>5. KeepInv'
  BY <1>1, <1>3, <1>4, KeepFrame
<1> QED BY <1>2, <1>5 DEF SwitchInv

-----------------------------------------------------------------------------
(* The steps *)

LEMMA SwitchInitially == Init => SwitchInv
<1> SUFFICES ASSUME Init PROVE SwitchInv
  OBVIOUS
<1>1. ref.pc = "idle" /\ edit.pc = "idle" /\ \A l \in Loaders : load[l].pc = "idle"
  BY DEF Init, IdleRef, IdleLoad, IdleEdit
<1>2. OffInv /\ KeepInv
  BY <1>1 DEF Init, NoCopies, OffInv, KeepInv, MadeFrom, Building
<1>3. EditInv
  BY <1>1 DEF EditInv
<1> QED BY <1>2, <1>3 DEF SwitchInv

\* What is published leaves out what is off and not attended to.
LEMMA PublishSwitch ==
    ASSUME SwitchInv, UNCHANGED <<rows, edit, reported>>, loaded' = MadeFrom(index'),
           ref'.pc \notin Building, ref'.pc # "pick", ~(ref'.pc = "rebuild" /\ ref'.feed = None),
           \A l \in Loaders : load'[l] = load[l] \/ (load[l].pc = "built" /\ load'[l].pc = "done"),
           \A f \in Feeds : rows[f].listed /\ ~rows[f].enabled => index'[f] = None \/ Attended(f, TRUE),
           EditInv'
    PROVE  SwitchInv'
<1>1. OffInv /\ KeepInv /\ EditInv
  BY DEF SwitchInv
<1>2. \A f, before : Attended(f, before) => Attended(f, before)'
  BY AttendedStays
<1>4. OffInv'
  <2> SUFFICES ASSUME NEW f \in Feeds, rows[f].listed, ~rows[f].enabled, ~Attended(f, TRUE)'
               PROVE  /\ index'[f] = None
                      /\ \A l \in Loaders : load'[l].pc = "built" => load'[l].cand[f] = None
    BY DEF OffInv, Building
  <2>1. ~Attended(f, TRUE)
    BY <1>2
  <2> QED BY <1>1, <2>1 DEF OffInv
<1>5. KeepInv'
  BY DEF KeepInv, MadeFrom, Building
<1> QED BY <1>4, <1>5 DEF SwitchInv
\* Start-up happens with nothing under way.
LEMMA BootSwitch ==
    ASSUME SwitchInv, Boot
    PROVE  SwitchInv'
<1>1. /\ ref.pc = "idle" /\ (\A l \in Loaders : load[l].pc = "idle")
      /\ edit.pc = "idle"
  BY DEF Boot, SwitchInv, EditInv
<1>2. UNCHANGED <<rows, ref, load, edit, reported>> /\ serving'
  BY DEF Boot, disk
<1>3. EditInv'
  BY <1>1, <1>2 DEF EditInv
<1>4. CASE Publish(Candidate(None, None))
  <2>1. \A f \in Feeds : rows[f].listed /\ ~rows[f].enabled => index'[f] = None
    BY <1>4, CandidateLeavesOut DEF On, Publish
  <2>2. loaded' = MadeFrom(index')
    BY <1>4 DEF Publish
  <2>3. ref'.pc \notin Building /\ ref'.pc # "pick" /\ ~(ref'.pc = "rebuild" /\ ref'.feed = None)
    BY <1>1, <1>2 DEF Building
  <2>4. \A l \in Loaders : load'[l] = load[l] \/ (load[l].pc = "built" /\ load'[l].pc = "done")
    BY <1>2
  <2> QED BY <1>2, <1>3, <2>1, <2>2, <2>3, <2>4, PublishSwitch
<1>5. CASE UNCHANGED <<index, warm, loaded>>
  <2>1. OffInv'
    BY <1>1, <1>2, <1>5, OffFrame DEF SwitchInv, Building
  <2>2. KeepInv'
    BY <1>1, <1>2, <1>5, KeepFrame DEF SwitchInv, Building
  <2> QED BY <1>3, <2>1, <2>2 DEF SwitchInv
<1> QED BY <1>4, <1>5 DEF Boot

LEMMA BeginSwitch ==
    ASSUME SwitchInv, BeginRefresh \/ \E f \in Feeds : BeginRefreshFeed(f)
    PROVE  SwitchInv'
<1>1. ref' \in {[IdleRef EXCEPT !.pc = "waiting", !.all = TRUE]}
               \cup {[IdleRef EXCEPT !.pc = "claimed", !.feed = f] : f \in Feeds}
  BY DEF BeginRefresh, BeginRefreshFeed
<1>2. ref'.pc \in {"waiting", "claimed"}
  BY <1>1 DEF IdleRef
<1>3. UNCHANGED <<rows, index, loaded, load, edit, reported, serving>> /\ serving
  BY DEF BeginRefresh, BeginRefreshFeed, disk, life
<1> QED BY <1>2, <1>3, RefSwitch DEF Building

\* A refresh that is under way has a process to run in.
LEMMA RefreshServes ==
    ASSUME SwitchInv, RefreshStep
    PROVE  serving /\ ref.pc # "idle"
<1>1. ref.pc # "idle"
  BY DEF RefreshStep, EnterGate, LockAndList, Pick, Download, Stage, Rename, StoreIndex,
         Rebuild, StoreRebuilt, Record, Return
<1> QED BY <1>1 DEF SwitchInv, EditInv

LEMMA EntrySwitch ==
    ASSUME FeedInv, SwitchInv, EnterGate \/ Return
    PROVE  SwitchInv'
<1>1. /\ UNCHANGED <<rows, index, loaded, load, edit, reported, serving>> /\ serving
  BY RefreshServes DEF EnterGate, Return, disk, life, RefreshStep
<1>2. ref'.pc \in {"idle", "waiting"}
  BY IdleRefOK DEF EnterGate, Return, FeedInv, RefInv, Refreshing
<1> QED BY <1>1, <1>2, RefSwitch DEF Building

LEMMA LockAndListSwitch ==
    ASSUME FeedInv, SwitchInv, LockAndList
    PROVE  SwitchInv'
<1>1. /\ UNCHANGED <<rows, index, loaded, load, edit, reported, serving>> /\ serving
      /\ ref \in Refreshing
  BY RefreshServes DEF LockAndList, disk, life, RefreshStep, FeedInv, RefInv
<1>2. /\ ref'.pc \in {"return", "pick"}
      /\ ref'.pc = "pick" /\ ref'.all => \A f \in Feeds \ ref'.todo : ~On(f)
  <2>1. CASE ref' = [ref EXCEPT !.pc = "return"]
    BY <1>1, <2>1 DEF Refreshing
  <2>2. CASE \E todo \in {IF ref.all THEN {f \in Feeds : On(f)}
                          ELSE {f \in {ref.feed} : On(f)}} :
               ref' = [ref EXCEPT !.pc = IF todo = {} /\ ~ref.all THEN "return" ELSE "pick",
                                  !.seen = rows, !.todo = todo]
    <3>1. PICK todo : /\ ref.all => todo = {f \in Feeds : On(f)}
                      /\ ref' = [ref EXCEPT !.pc = IF todo = {} /\ ~ref.all THEN "return" ELSE "pick",
                                            !.seen = rows, !.todo = todo]
      BY <2>2
    <3>2. ref'.pc \in {"return", "pick"} /\ ref'.all = ref.all /\ ref'.todo = todo
      BY <1>1, <3>1 DEF Refreshing
    <3> QED BY <3>1, <3>2
  <2> QED BY <2>1, <2>2 DEF LockAndList
<1> QED BY <1>1, <1>2, RefSwitch DEF Building

LEMMA PickSwitch ==
    ASSUME FeedInv, SwitchInv, Pick
    PROVE  SwitchInv'
<1>1. /\ UNCHANGED <<rows, index, loaded, load, edit, reported, serving>> /\ serving
      /\ ref \in Refreshing /\ ref.pc = "pick"
  BY RefreshServes DEF Pick, disk, life, RefreshStep, FeedInv, RefInv
<1>2. /\ ref'.pc \in {"download", "return", "rebuild"}
      /\ ref'.pc = "rebuild" => ref.todo = {} /\ ref.all /\ ~ref.failed /\ ~ref.committed
  BY <1>1 DEF Pick, Refreshing
<1>3. ref'.pc = "rebuild" => \A f \in Feeds : On(f) => Attended(f, FALSE)
  BY <1>1, <1>2 DEF SwitchInv, KeepInv
<1> QED BY <1>1, <1>2, <1>3, RefSwitch DEF Building

\* A feed's step that ends it, or stages its copy.
LEMMA FeedSwitch ==
    ASSUME FeedInv, SwitchInv, Download
    PROVE  SwitchInv'
<1>1. /\ UNCHANGED <<rows, index, loaded, load, edit, reported, serving>> /\ serving
      /\ ref \in Refreshing /\ ref.feed \in Feeds
  BY RefreshServes DEF Download, disk, life, RefreshStep, FeedInv, RefInv
<1>2. /\ Forget(ref) \in Refreshing /\ Forget(ref).feed = ref.feed
      /\ ref.seen[ref.feed].etag \in ETags
  <2>1. NoRows[ref.feed] \in Row
    BY <1>1, NoneIsNoVersion, FeedAssumption DEF NoRows, Row
  <2> QED BY <1>1, <2>1 DEF Forget, Refreshing, Row
<1>3. ref'.pc \in {"rebuild", "record", "staged"} /\ ref'.feed \in Feeds
  <2>1. CASE ref' = Fail(Forget(ref))
    BY <1>1, <1>2, <2>1, FinishKeeps, NoneIsNoVersion DEF Fail, Results
  <2> DEFINE row == ref.seen[ref.feed]
             now == <<row.url, provider[row.url]>>
  <2>2. CASE ref' = FinishRefresh([Forget(ref) EXCEPT !.body = now], "304", row.etag)
    <3>1. now \in Versions
      BY <1>1 DEF FeedInv, DiskInv, Refreshing, Row, Versions
    <3> HIDE DEF now
    <3>2. /\ [Forget(ref) EXCEPT !.body = now] \in Refreshing
          /\ [Forget(ref) EXCEPT !.body = now].feed = ref.feed
      BY <1>2, <3>1, NoneIsNoVersion DEF Refreshing
    <3> QED
      BY <1>1, <1>2, <2>2, <3>2, FinishKeeps DEF Results
  <2>3. CASE ref' = [Forget(ref) EXCEPT !.pc = "staged", !.body = now]
    BY <1>1, <1>2, <2>3 DEF Refreshing
  <2> QED BY <2>1, <2>2, <2>3 DEF Download
<1> QED BY <1>1, <1>3, FeedAssumption, RefSwitch DEF Building

LEMMA StageSwitch ==
    ASSUME FeedInv, SwitchInv, Stage
    PROVE  SwitchInv'
<1>1. /\ UNCHANGED <<rows, index, loaded, load, edit, reported, serving>> /\ serving
      /\ ref \in Refreshing /\ ref.pc = "staged" /\ ref.feed \in Feeds /\ ref.body \in Versions
  BY RefreshServes DEF Stage, disk, life, RefreshStep, FeedInv, RefInv
<1>2. CASE ref' = Fail(ref)
  <2>1. ref'.feed \in Feeds /\ ref'.pc \in {"rebuild", "record"}
    BY <1>1, <1>2, FinishKeeps, NoneIsNoVersion DEF Fail, Results
  <2> QED BY <1>1, <2>1, FeedAssumption, RefSwitch DEF Building
<1>3. CASE /\ Retained(ref.feed, TRUE)
           /\ ref' = [ref EXCEPT !.pc = "candidate", !.cand = Candidate(ref.feed, ref.body)]
  <2>1. ref'.pc = "candidate" /\ ref'.cand = Candidate(ref.feed, ref.body)
    BY <1>1, <1>3 DEF Refreshing
  <2>2. \A f \in Feeds : ~On(f) => ref'.cand[f] = None
    BY <2>1, CandidateLeavesOut
  <2>3. ASSUME NEW f \in Feeds, On(f), index[f] # None PROVE ref'.cand[f] # None
    <3>1. f \in loaded
      BY <2>3 DEF SwitchInv, KeepInv, MadeFrom
    <3>2. f = ref.feed \/ Readable(f)
      BY <1>3, <2>3, <3>1 DEF Retained
    <3> QED BY <1>1, <2>1, <2>3, <3>2, CandidateLeavesOut, NoneIsNoVersion
  <2> QED BY <1>1, <2>1, <2>2, <2>3, RefSwitch DEF Building
<1> QED BY <1>2, <1>3 DEF Stage

LEMMA RenameSwitch ==
    ASSUME FeedInv, SwitchInv, Rename
    PROVE  SwitchInv'
<1>1. /\ UNCHANGED <<rows, index, loaded, load, edit, reported, serving>> /\ serving
      /\ ref \in Refreshing /\ ref.pc = "candidate" /\ ref.feed \in Feeds
  BY RefreshServes DEF Rename, life, RefreshStep, FeedInv, RefInv
<1>2. CASE ref' = Fail(ref)
  <2>1. ref'.feed \in Feeds /\ ref'.pc \in {"rebuild", "record"}
    BY <1>1, <1>2, FinishKeeps, NoneIsNoVersion DEF Fail, Results
  <2> QED BY <1>1, <2>1, FeedAssumption, RefSwitch DEF Building
<1>3. CASE ref' = [ref EXCEPT !.pc = "renamed"]
  <2>1. ref'.pc = "renamed" /\ ref'.cand = ref.cand
    BY <1>1, <1>3 DEF Refreshing
  <2>2. \A f \in Feeds : On(f) /\ index[f] # None /\ ref.cand[f] = None => Attended(f, FALSE)
    BY <1>1 DEF SwitchInv, KeepInv, Building
  <2> QED BY <1>1, <2>1, <2>2, RefSwitch DEF Building
<1> QED BY <1>2, <1>3 DEF Rename

\* The steps that publish an index a refresh has built.
LEMMA StoreSwitch ==
    ASSUME FeedInv, SwitchInv, StoreIndex \/ StoreRebuilt
    PROVE  SwitchInv'
<1>1. /\ UNCHANGED <<rows, load, edit, reported, serving>> /\ serving
      /\ ref \in Refreshing /\ ref.pc \in {"renamed", "rebuilt"} /\ Publish(ref.cand)
  BY RefreshServes DEF StoreIndex, StoreRebuilt, disk, life, RefreshStep, FeedInv, RefInv
<1>2. ref'.pc \in {"record", "return"}
  <2>1. CASE StoreIndex
    BY <1>1, <2>1 DEF StoreIndex, FinishRefresh, Refreshing
  <2>2. CASE StoreRebuilt
    BY <1>1, <2>2 DEF StoreRebuilt, AfterRebuild, Refreshing
  <2> QED BY <2>1, <2>2
<1>3. \A f \in Feeds : rows[f].listed /\ ~rows[f].enabled => index'[f] = None \/ Attended(f, TRUE)
  BY <1>1 DEF SwitchInv, OffInv, Building, Publish
<1>4. EditInv'
  BY <1>1, EditFrame DEF SwitchInv
<1>5. loaded' = MadeFrom(index')
  BY <1>1 DEF Publish
<1>6. ref'.pc \notin Building /\ ref'.pc # "pick" /\ ~(ref'.pc = "rebuild" /\ ref'.feed = None)
  BY <1>2 DEF Building
<1>7. \A l \in Loaders : load'[l] = load[l] \/ (load[l].pc = "built" /\ load'[l].pc = "done")
  BY <1>1
<1> QED BY <1>1, <1>3, <1>4, <1>5, <1>6, <1>7, PublishSwitch

LEMMA RebuildSwitch ==
    ASSUME FeedInv, SwitchInv, Rebuild
    PROVE  SwitchInv'
<1>1. /\ UNCHANGED <<rows, index, loaded, load, edit, reported, serving>> /\ serving
      /\ ref \in Refreshing /\ ref.pc = "rebuild"
  BY RefreshServes DEF Rebuild, disk, life, RefreshStep, FeedInv, RefInv
<1>2. CASE ref' = AfterRebuild(ref, FALSE)
  <2>1. ref'.pc \in {"record", "return"}
    BY <1>1, <1>2 DEF AfterRebuild, Refreshing
  <2> QED BY <1>1, <2>1, RefSwitch DEF Building
<1>3. CASE /\ Retained(None, ref.feed # None)
           /\ ref' = [ref EXCEPT !.pc = "rebuilt", !.cand = Candidate(None, None)]
  <2>1. ref'.pc = "rebuilt" /\ ref'.cand = Candidate(None, None)
    BY <1>1, <1>3 DEF Refreshing
  <2>2. \A f \in Feeds : ~On(f) => ref'.cand[f] = None
    BY <2>1, CandidateLeavesOut
  <2>3. ASSUME NEW f \in Feeds, On(f), index[f] # None, ref'.cand[f] = None
        PROVE  Attended(f, FALSE)
    <3>1. CASE ref.feed = None
      BY <1>1, <2>3, <3>1 DEF SwitchInv, KeepInv
    <3>2. CASE ref.feed # None
      <4>1. f \in loaded \ {None}
        BY <2>3, FeedAssumption DEF SwitchInv, KeepInv, MadeFrom
      <4>2. Readable(f)
        BY <1>3, <2>3, <3>2, <4>1 DEF Retained
      <4> QED BY <2>1, <2>3, <4>1, <4>2, CandidateLeavesOut
    <3> QED BY <3>1, <3>2
  <2> QED BY <1>1, <2>1, <2>2, <2>3, RefSwitch DEF Building
<1> QED BY <1>2, <1>3 DEF Rebuild

LEMMA RecordSwitch ==
    ASSUME FeedInv, SwitchInv, Record
    PROVE  SwitchInv'
<1>1. /\ UNCHANGED <<index, loaded, load, edit, reported, serving>> /\ serving
      /\ ref \in Refreshing /\ rows \in [Feeds -> Row]
  BY RefreshServes DEF Record, life, RefreshStep, FeedInv, RefInv, DiskInv
<1>2. ref'.pc = "pick" /\ (ref'.committed \/ ref'.failed)
  BY <1>1 DEF Record, Refreshing
<1>3. \A f \in Feeds : rows'[f].listed = rows[f].listed /\ rows'[f].enabled = rows[f].enabled
  <2>1. CASE UNCHANGED rows
    BY <2>1
  <2>2. CASE rows' = [rows EXCEPT ![ref.feed].etag = Stored(ref.etag)]
    BY <1>1, <2>2 DEF Row
  <2> QED BY <2>1, <2>2 DEF Record
<1> QED BY <1>1, <1>2, <1>3, RefSwitch DEF Building

LEMMA RefreshSwitch ==
    ASSUME FeedInv, SwitchInv, RefreshStep
    PROVE  SwitchInv'
BY EntrySwitch, LockAndListSwitch, PickSwitch, FeedSwitch, StageSwitch, RenameSwitch,
   StoreSwitch, RebuildSwitch, RecordSwitch DEF RefreshStep

-----------------------------------------------------------------------------
(* The rebuilds from the cache *)

LEMMA EnterLoadSwitch ==
    ASSUME FeedInv, SwitchInv, NEW l \in Loaders, EnterLoad(l)
    PROVE  SwitchInv'
<1>1. /\ OffInv /\ KeepInv /\ EditInv /\ load \in [Loaders -> Loading] /\ load[l].pc = "spawned"
      /\ UNCHANGED <<rows, index, loaded, ref, edit, serving>>
  BY DEF EnterLoad, SwitchInv, FeedInv, LoadInv, disk, life
<1>2. /\ \A m \in Loaders \ {l} : load'[m] = load[m]
      /\ \/ load'[l].pc = "waiting" /\ reported' = reported
         \/ load'[l].pc = "idle" /\ reported'
  BY <1>1 DEF EnterLoad, IdleLoad, Loading
<1>3. \A f, before : Attended(f, before) => Attended(f, before)'
  BY <1>1, <1>2, AttendedStays
<1>4. \A m \in Loaders : /\ load'[m].pc = "built" => load'[m] = load[m]
                         /\ load[m].pc = "built" => load'[m] = load[m]
  BY <1>1, <1>2
<1>5. OffInv'
  <2> SUFFICES ASSUME NEW f \in Feeds, rows[f].listed, ~rows[f].enabled, ~Attended(f, TRUE)'
               PROVE  /\ ref.pc \in Building => ref.cand[f] = None
                      /\ \A m \in Loaders : load'[m].pc = "built" => load'[m].cand[f] = None
                      /\ index[f] = None \/ \E m \in Loaders : load'[m].pc = "built"
    BY <1>1 DEF OffInv, Building
  <2>1. ~Attended(f, TRUE)
    BY <1>3
  <2> QED BY <1>1, <1>4, <2>1 DEF OffInv
<1>6. KeepInv'
  <2>1. \A f \in Feeds : On(f)' <=> On(f)
    BY <1>1 DEF On
  <2> QED BY <1>1, <1>3, <2>1, KeepFrame DEF KeepInv
<1>7. EditInv'
  BY <1>1 DEF EditInv
<1> QED BY <1>5, <1>6, <1>7 DEF SwitchInv

LEMMA LoadCandidateSwitch ==
    ASSUME FeedInv, SwitchInv, NEW l \in Loaders, LoadCandidate(l)
    PROVE  SwitchInv'
<1>1. /\ OffInv /\ KeepInv /\ EditInv /\ load \in [Loaders -> Loading] /\ load[l].pc = "waiting"
      /\ UNCHANGED <<rows, index, loaded, ref, edit, serving>>
      /\ files \in [Feeds -> Copies]
  BY DEF LoadCandidate, SwitchInv, FeedInv, LoadInv, DiskInv, disk, life
<1>2. /\ ref.pc \in {"idle", "claimed", "waiting"}
      /\ \A m \in Loaders : load[m].pc # "built"
  BY OneBuilder DEF LoadCandidate
<1>3. /\ \A m \in Loaders \ {l} : load'[m] = load[m]
      /\ \/ load'[l].pc = "done" /\ reported'
         \/ load'[l].pc = "built" /\ load'[l].cand = Candidate(None, None)
  <2>1. Candidate(None, None) \in [Feeds -> Copies]
    BY <1>1, CandidateOfCache
  <2> QED BY <1>1, <2>1 DEF LoadCandidate, Loading
<1>4. OffInv'
  <2> SUFFICES ASSUME NEW f \in Feeds, rows[f].listed, ~rows[f].enabled, ~Attended(f, TRUE)'
               PROVE  /\ \A m \in Loaders : load'[m].pc = "built" => load'[m].cand[f] = None
                      /\ \E m \in Loaders : load'[m].pc = "built"
    BY <1>1, <1>2 DEF OffInv, Building
  <2>1. load'[l].pc = "built" /\ load'[l].cand = Candidate(None, None)
    BY <1>3 DEF Attended
  <2>2. Candidate(None, None)[f] = None
    BY CandidateLeavesOut DEF On
  <2> QED BY <1>2, <1>3, <2>1, <2>2
<1>5. KeepInv'
  BY <1>1, <1>2 DEF KeepInv, MadeFrom, Building
<1>6. EditInv'
  BY <1>1, <1>2 DEF EditInv
<1> QED BY <1>4, <1>5, <1>6 DEF SwitchInv

LEMMA LoadStoreSwitch ==
    ASSUME FeedInv, SwitchInv, NEW l \in Loaders, LoadStore(l)
    PROVE  SwitchInv'
<1>1. /\ OffInv /\ KeepInv /\ EditInv /\ load \in [Loaders -> Loading] /\ load[l].pc = "built"
      /\ UNCHANGED <<rows, ref, edit, reported, serving>>
      /\ index' = load[l].cand /\ loaded' = MadeFrom(index')
  BY DEF LoadStore, SwitchInv, FeedInv, LoadInv, disk, life, Publish
<1>2. ref.pc \in {"idle", "claimed", "waiting"}
  BY <1>1, OneBuilder
<1>3. (\A m \in Loaders \ {l} : load'[m] = load[m]) /\ load'[l].pc = "done"
  BY <1>1 DEF LoadStore, Loading
<1>4. \A f \in Feeds : rows[f].listed /\ ~rows[f].enabled => index'[f] = None \/ Attended(f, TRUE)
  BY <1>1 DEF OffInv
<1>5. EditInv'
  BY <1>1, <1>3 DEF EditInv
<1>6. ref'.pc \notin Building /\ ref'.pc # "pick" /\ ~(ref'.pc = "rebuild" /\ ref'.feed = None)
  BY <1>1, <1>2 DEF Building
<1>7. \A m \in Loaders : load'[m] = load[m] \/ (load[m].pc = "built" /\ load'[m].pc = "done")
  BY <1>1, <1>3
<1> QED BY <1>1, <1>4, <1>5, <1>6, <1>7, PublishSwitch

LEMMA LoadDoneSwitch ==
    ASSUME FeedInv, SwitchInv, NEW l \in Loaders, LoadDone(l)
    PROVE  SwitchInv'
<1>1. /\ OffInv /\ KeepInv /\ EditInv /\ load \in [Loaders -> Loading] /\ load[l].pc = "done"
      /\ UNCHANGED <<rows, index, loaded, ref, edit, reported, serving>>
  BY DEF LoadDone, SwitchInv, FeedInv, LoadInv, disk, life
<1>2. (\A m \in Loaders \ {l} : load'[m] = load[m]) /\ load'[l].pc = "idle"
  BY <1>1 DEF LoadDone, IdleLoad
<1>3. \A f, before : Attended(f, before) => Attended(f, before)'
  BY <1>1, <1>2, AttendedStays
<1>4. OffInv'
  <2> SUFFICES ASSUME NEW f \in Feeds, rows[f].listed, ~rows[f].enabled, ~Attended(f, TRUE)'
               PROVE  /\ ref.pc \in Building => ref.cand[f] = None
                      /\ \A m \in Loaders : load'[m].pc = "built" => load'[m].cand[f] = None
                      /\ index[f] = None \/ \E m \in Loaders : load'[m].pc = "built"
    BY <1>1 DEF OffInv, Building
  <2>1. ~Attended(f, TRUE)
    BY <1>3
  <2> QED BY <1>1, <1>2, <2>1 DEF OffInv
<1>5. KeepInv'
  <2>1. \A f \in Feeds : On(f)' <=> On(f)
    BY <1>1 DEF On
  <2> QED BY <1>1, <1>3, <2>1, KeepFrame DEF KeepInv
<1>6. EditInv'
  BY <1>1, <1>2 DEF EditInv
<1> QED BY <1>4, <1>5, <1>6 DEF SwitchInv

-----------------------------------------------------------------------------
(* The administrators *)

LEMMA ReadSwitchKeeps ==
    ASSUME FeedInv, SwitchInv, NEW f \in Feeds, ReadSwitch(f)
    PROVE  SwitchInv'
<1>1. /\ OffInv /\ KeepInv /\ EditInv /\ edit \in Editing /\ rows \in [Feeds -> Row]
      /\ UNCHANGED <<rows, index, loaded, ref, load, reported, serving>> /\ serving
      /\ edit.pc = "idle"
  BY DEF ReadSwitch, Editable, SwitchInv, FeedInv, OtherInv, DiskInv, disk, life
<1>2. edit'.pc = "read" /\ edit'.feed = f /\ edit'.before = rows[f].enabled
  BY <1>1 DEF ReadSwitch
<1>3. \A g, before : Attended(g, before) => Attended(g, before)'
  BY <1>1, <1>2, AttendedStays
<1>4. OffInv'
  <2> SUFFICES ASSUME NEW g \in Feeds, rows[g].listed, ~rows[g].enabled, ~Attended(g, TRUE)'
               PROVE  /\ ref.pc \in Building => ref.cand[g] = None
                      /\ \A m \in Loaders : load[m].pc = "built" => load[m].cand[g] = None
                      /\ index[g] = None \/ \E m \in Loaders : load[m].pc = "built"
    BY <1>1 DEF OffInv, Building
  <2>1. ~Attended(g, TRUE)
    BY <1>3
  <2> QED BY <1>1, <2>1 DEF OffInv
<1>5. KeepInv'
  <2>1. \A g \in Feeds : On(g)' <=> On(g)
    BY <1>1 DEF On
  <2> QED BY <1>1, <1>3, <2>1, KeepFrame DEF KeepInv
<1>6. EditInv'
  BY <1>1, <1>2 DEF EditInv
<1> QED BY <1>4, <1>5, <1>6 DEF SwitchInv

LEMMA WriteSwitchKeeps ==
    ASSUME FeedInv, SwitchInv, WriteSwitch
    PROVE  SwitchInv'
<1>1. /\ OffInv /\ KeepInv /\ EditInv /\ edit \in Editing /\ rows \in [Feeds -> Row]
      /\ UNCHANGED <<index, loaded, ref, load, reported, serving>>
      /\ edit.pc = "read" /\ edit.feed \in Feeds
  BY DEF WriteSwitch, SwitchInv, FeedInv, OtherInv, DiskInv, EditInv, life
<1> DEFINE e == edit.feed
<1>2. CASE edit' = IdleEdit /\ UNCHANGED rows
  <2>1. edit'.pc = "idle"
    BY <1>1, <1>2 DEF IdleEdit
  <2>2. \A g, before : Attended(g, before) => Attended(g, before)'
    BY <1>1, <2>1, AttendedStays
  <2>3. OffInv'
    <3> SUFFICES ASSUME NEW g \in Feeds, rows[g].listed, ~rows[g].enabled, ~Attended(g, TRUE)'
                 PROVE  /\ ref.pc \in Building => ref.cand[g] = None
                        /\ \A m \in Loaders : load[m].pc = "built" => load[m].cand[g] = None
                        /\ index[g] = None \/ \E m \in Loaders : load[m].pc = "built"
      BY <1>1, <1>2 DEF OffInv, Building
    <3>1. ~Attended(g, TRUE)
      BY <2>2
    <3> QED BY <1>1, <3>1 DEF OffInv
  <2>4. KeepInv'
    <3>1. \A g \in Feeds : On(g)' <=> On(g)
      BY <1>2 DEF On
    <3> QED BY <1>1, <2>2, <3>1, KeepFrame DEF KeepInv
  <2>5. EditInv'
    BY <1>1, <1>2, <2>1 DEF EditInv
  <2> QED BY <2>3, <2>4, <2>5 DEF SwitchInv
<1>3. CASE /\ edit' = [edit EXCEPT !.pc = "written"]
           /\ rows' = [rows EXCEPT ![e].enabled = edit.want]
  <2>1. edit'.pc = "written" /\ edit'.feed = e /\ edit'.before = edit.before
    BY <1>1, <1>3 DEF Editing
  <2>2. /\ \A g \in Feeds : rows'[g].listed = rows[g].listed
        /\ \A g \in Feeds : rows'[g].listed /\ rows'[g].enabled # rows[g].enabled =>
              g = e /\ edit.before = rows[g].enabled
    <3>1. rows[e].listed => rows[e].enabled = edit.before
      BY <1>1 DEF EditInv
    <3> QED BY <1>1, <1>3, <3>1 DEF Row
  <2>3. \A g, before : Attended(g, before) => Attended(g, before)'
    BY <1>1, <2>1, AttendedStays
  <2>4. \A g \in Feeds, before \in BOOLEAN :
           rows'[g].listed /\ rows'[g].enabled # rows[g].enabled /\ before = rows[g].enabled =>
              Attended(g, before)'
    BY <2>1, <2>2 DEF Attended, Switching
  <2>5. OffInv'
    <3> SUFFICES ASSUME NEW g \in Feeds, rows'[g].listed, ~rows'[g].enabled, ~Attended(g, TRUE)'
                 PROVE  /\ ref.pc \in Building => ref.cand[g] = None
                        /\ \A m \in Loaders : load[m].pc = "built" => load[m].cand[g] = None
                        /\ index[g] = None \/ \E m \in Loaders : load[m].pc = "built"
      BY <1>1 DEF OffInv, Building
    <3>1. rows[g].listed /\ ~rows[g].enabled
      <4> SUFFICES ASSUME rows[g].enabled PROVE FALSE
        BY <2>2
      <4>1. rows[g].enabled = TRUE
        BY <1>1 DEF Row
      <4> QED BY <2>4, <4>1
    <3>2. ~Attended(g, TRUE)
      BY <2>3
    <3> QED BY <1>1, <3>1, <3>2 DEF OffInv
  <2>6. KeepInv'
    <3>1. \A g \in Feeds : On(g)' => On(g) \/ Attended(g, FALSE)'
      <4> SUFFICES ASSUME NEW g \in Feeds, On(g)', ~On(g) PROVE Attended(g, FALSE)'
        OBVIOUS
      <4>1. rows'[g].listed /\ rows'[g].enabled /\ rows[g].enabled = FALSE
        BY <1>1, <2>2 DEF On, Row
      <4> QED BY <2>4, <4>1
    <3> QED BY <1>1, <2>3, <3>1, KeepFrame DEF KeepInv
  <2>7. EditInv'
    BY <1>1, <2>1 DEF EditInv
  <2> QED BY <2>5, <2>6, <2>7 DEF SwitchInv
<1> QED BY <1>2, <1>3 DEF WriteSwitch

\* The answer either reports a failure or starts a rebuild, unless the switch is
\* as it was read: then no rebuild is owed.
LEMMA AnswerSwitchKeeps ==
    ASSUME FeedInv, SwitchInv, AnswerSwitch
    PROVE  SwitchInv'
<1>1. /\ OffInv /\ KeepInv /\ EditInv /\ edit \in Editing /\ rows \in [Feeds -> Row]
      /\ load \in [Loaders -> Loading]
      /\ UNCHANGED <<rows, index, loaded, ref, serving>>
      /\ edit.pc = "written" /\ edit.feed \in Feeds
  BY DEF AnswerSwitch, SwitchInv, FeedInv, OtherInv, DiskInv, LoadInv, EditInv, disk, life
<1>2. edit'.pc = "idle"
  BY DEF AnswerSwitch, IdleEdit
<1>3. /\ \A m \in Loaders : load'[m].pc = "built" => load'[m] = load[m]
      /\ \A m \in Loaders : load[m].pc = "built" => load'[m] = load[m]
      /\ \A m \in Loaders : load[m].pc \in {"spawned", "waiting"} =>
            load'[m].pc \in {"spawned", "waiting"}
      /\ reported => reported'
  <2>1. CASE UNCHANGED load /\ reported' = TRUE
    BY <2>1
  <2>2. CASE UNCHANGED <<load, reported>>
    BY <2>2
  <2>3. CASE reported' = reported /\ \E l \in Loaders : /\ load[l].pc = "idle"
                                                        /\ load' = [load EXCEPT ![l].pc = "spawned"]
    BY <1>1, <2>3 DEF Loading
  <2> QED BY <2>1, <2>2, <2>3 DEF AnswerSwitch, Spawn
\* Who was attended to by this switch and is no more is as the switch found it.
<1>4. \A g \in Feeds, before \in BOOLEAN :
         Attended(g, before) => \/ Attended(g, before)'
                                \/ rows[g].listed => rows[g].enabled = before
  <2> SUFFICES ASSUME NEW g \in Feeds, NEW before \in BOOLEAN, Attended(g, before),
                      ~Attended(g, before)', rows[g].listed
               PROVE  rows[g].enabled = before
    OBVIOUS
  <2>1. ~reported' /\ \A m \in Loaders : load'[m].pc \notin {"spawned", "waiting"}
    BY DEF Attended, Coming
  <2>2. edit.feed = g /\ edit.before = before
    BY <1>2, <1>3, <2>1 DEF Attended, Coming, Switching
  <2>3. ~\E l \in Loaders : Spawn(l)
    BY <1>1, <2>1 DEF Loading, Spawn
  <2> QED BY <2>1, <2>2, <2>3 DEF AnswerSwitch
<1>5. OffInv'
  <2> SUFFICES ASSUME NEW g \in Feeds, rows[g].listed, ~rows[g].enabled, ~Attended(g, TRUE)'
               PROVE  /\ ref.pc \in Building => ref.cand[g] = None
                      /\ \A m \in Loaders : load'[m].pc = "built" => load'[m].cand[g] = None
                      /\ index[g] = None \/ \E m \in Loaders : load'[m].pc = "built"
    BY <1>1 DEF OffInv, Building
  <2>1. ~Attended(g, TRUE)
    BY <1>4
  <2> QED BY <1>1, <1>3, <2>1 DEF OffInv
<1>6. KeepInv'
  <2>1. \A g \in Feeds : On(g)' => /\ On(g)
                                   /\ Attended(g, FALSE) => Attended(g, FALSE)'
    BY <1>1, <1>4 DEF On
  <2> QED BY <1>1, <2>1, KeepFrame DEF KeepInv
<1>7. EditInv'
  <2>1. serving
    BY <1>1 DEF EditInv
  <2> QED BY <1>1, <1>2, <2>1 DEF EditInv
<1> QED BY <1>5, <1>6, <1>7 DEF SwitchInv

LEMMA CrashSwitch ==
    ASSUME Crash
    PROVE  SwitchInv'
<1>1. /\ index' = NoCopies /\ loaded' = {} /\ ~serving' /\ ref'.pc = "idle"
      /\ \A l \in Loaders : load'[l].pc = "idle"
      /\ edit'.pc = "idle"
  BY DEF Crash, IdleRef, IdleLoad, IdleEdit
<1>2. OffInv' /\ KeepInv'
  BY <1>1 DEF NoCopies, OffInv, KeepInv, MadeFrom, Building
<1>3. EditInv'
  BY <1>1 DEF EditInv
<1> QED BY <1>2, <1>3 DEF SwitchInv

LEMMA OutsideSteps ==
    ASSUME FeedInv, SwitchInv,
           \/ \E f \in Feeds, u \in Urls : ChangeUrl(f, u)
           \/ \E f \in Feeds : DeleteFeed(f) \/ LoseCopy(f)
           \/ \E u \in Urls : Upload(u)
           \/ BeginClose \/ Close \/ UNCHANGED vars
    PROVE  SwitchInv'
<1>1. UNCHANGED <<index, loaded, ref, load, edit, reported, serving>>
  BY DEF ChangeUrl, DeleteFeed, LoseCopy, Upload, BeginClose, Close, disk, locks, life, vars
<1>2. rows \in [Feeds -> Row]
  BY DEF FeedInv, DiskInv
<1>3. \A f \in Feeds : rows'[f].listed => rows[f].listed /\ rows'[f].enabled = rows[f].enabled
  <2>1. CASE UNCHANGED rows
    BY <2>1
  <2>2. CASE \E f \in Feeds, u \in Urls : rows' = [rows EXCEPT ![f].url = u, ![f].etag = None]
    BY <1>2, <2>2 DEF Row
  <2>3. CASE \E f \in Feeds : rows' = [rows EXCEPT ![f].listed = FALSE]
    BY <1>2, <2>3 DEF Row
  <2> QED BY <2>1, <2>2, <2>3
          DEF ChangeUrl, DeleteFeed, LoseCopy, Upload, BeginClose, Close, disk, vars
<1> QED BY <1>1, <1>3, OutsideSwitch

LEMMA SwitchInvStep == FeedInv /\ SwitchInv /\ [Next]_vars => SwitchInv'
<1> SUFFICES ASSUME FeedInv, SwitchInv, [Next]_vars
             PROVE  SwitchInv'
  OBVIOUS
<1>1. CASE Boot
  BY <1>1, BootSwitch
<1>2. CASE BeginRefresh \/ \E f \in Feeds : BeginRefreshFeed(f)
  BY <1>2, BeginSwitch
<1>3. CASE RefreshStep
  BY <1>3, RefreshSwitch
<1>4. ASSUME NEW l \in Loaders, LoadStep(l)
      PROVE  SwitchInv'
  BY <1>4, EnterLoadSwitch, LoadCandidateSwitch, LoadStoreSwitch, LoadDoneSwitch DEF LoadStep
<1>5. CASE (\E f \in Feeds : ReadSwitch(f)) \/ WriteSwitch \/ AnswerSwitch
  BY <1>5, ReadSwitchKeeps, WriteSwitchKeeps, AnswerSwitchKeeps
<1>6. CASE Crash
  BY <1>6, CrashSwitch
<1>7. CASE \/ \E f \in Feeds, u \in Urls : ChangeUrl(f, u)
           \/ \E f \in Feeds : DeleteFeed(f) \/ LoseCopy(f)
           \/ \E u \in Urls : Upload(u)
           \/ BeginClose \/ Close \/ UNCHANGED vars
  BY <1>7, OutsideSteps
<1>8. CASE Idle
  BY <1>8, OutsideSteps DEF Idle
<1> QED BY <1>1, <1>2, <1>3, <1>4, <1>5, <1>6, <1>7, <1>8 DEF Next

\* A feed that was switched off is out of the index, or a rebuild is under way, or
\* its failure was reported.
THEOREM SwitchesOffAreFollowed == Spec => []SwitchedOffStopsBlocking
<1>1. SwitchInv => SwitchedOffStopsBlocking
  BY DEF SwitchInv, OffInv, Attended, Coming, Switching, SwitchedOffStopsBlocking
<1>2. SwitchInv /\ FeedInv /\ [Next]_vars => SwitchInv'
  BY SwitchInvStep
<1> QED
  BY <1>1, <1>2, SwitchInitially, FeedInvInit, FeedInvStep, PTL DEF Spec

\* A step of a refresh takes only feeds out of the index that are off, or owed a
\* rebuild.
LEMMA RefreshTakesNothing ==
    ASSUME FeedInv, SwitchInv, [Next]_vars, ref' # ref, serving',
           NEW f \in Feeds, index[f] # None, index'[f] = None
    PROVE  ~On(f) \/ Attended(f, FALSE)
<1>1. CASE StoreIndex \/ StoreRebuilt
  <2>1. index' = ref.cand /\ ref.pc \in Building
    BY <1>1 DEF StoreIndex, StoreRebuilt, Publish, Building
  <2> QED BY <2>1 DEF SwitchInv, KeepInv
<1>2. CASE UNCHANGED index
  BY <1>2
<1>3. CASE UNCHANGED ref
  BY <1>3
<1>4. CASE Crash
  BY <1>4 DEF Crash
<1>5. CASE RefreshStep \/ BeginRefresh \/ \E g \in Feeds : BeginRefreshFeed(g)
  BY <1>1, <1>2, <1>5 DEF RefreshStep, EnterGate, LockAndList, Pick, Download, Stage, Rename,
     Rebuild, Record, Return, BeginRefresh, BeginRefreshFeed
<1>6. CASE \/ Boot \/ \E l \in Loaders : LoadStep(l)
           \/ (\E g \in Feeds : ReadSwitch(g)) \/ WriteSwitch \/ AnswerSwitch
           \/ \E g \in Feeds, u \in Urls : ChangeUrl(g, u)
           \/ \E g \in Feeds : DeleteFeed(g) \/ LoseCopy(g)
           \/ \E u \in Urls : Upload(u)
           \/ BeginClose \/ Close \/ Idle \/ UNCHANGED vars
  BY <1>3, <1>6 DEF Boot, LoadStep, EnterLoad, LoadCandidate, LoadStore, LoadDone, ReadSwitch,
     WriteSwitch, AnswerSwitch, ChangeUrl, DeleteFeed, LoseCopy, Upload, BeginClose, Close,
     Idle, vars
<1> QED BY <1>4, <1>5, <1>6 DEF Next

\* No refresh takes a feed that is on out of force, unless a rebuild is under way or
\* failed and was reported.
THEOREM RefreshesKeepProtection == Spec => RefreshKeepsProtection
<1>1. FeedInv /\ SwitchInv /\ [Next]_vars =>
        [ref' # ref /\ serving' =>
           \A f \in Feeds :
              index[f] # None /\ index'[f] = None
              => ~On(f) \/ reported
                 \/ (\E l \in Loaders : load[l].pc # "idle")
                 \/ edit.pc # "idle"]_vars
  BY RefreshTakesNothing DEF Attended, Coming, Switching
<1>2. SwitchInv /\ FeedInv /\ [Next]_vars => SwitchInv'
  BY SwitchInvStep
<1> QED
  BY <1>1, <1>2, SwitchInitially, FeedInvInit, FeedInvStep, PTL
     DEF Spec, RefreshKeepsProtection


-----------------------------------------------------------------------------
(* Claims *)

\* The order of the naturals, and that a set of naturals has a least element.
LEMMA NatOrder ==
    \E R : IsWellFoundedOn(R, Nat) /\ \A m, n \in Nat : m < n => <<m, n>> \in R
<1>1. \A m, n \in Nat : m < n => <<m, n>> \in OpToRel(<, Nat)
  BY DEF OpToRel
<1> QED BY <1>1, NatLessThanWellFounded, Zenon

LEMMA LeastNat ==
    ASSUME NEW S \in SUBSET Nat, S # {}
    PROVE  \E n \in S : \A m \in S : n <= m
<1>1. PICK R : IsWellFoundedOn(R, Nat) /\ \A m, n \in Nat : m < n => <<m, n>> \in R
  BY NatOrder
<1>2. IsWellFoundedOn(R, Nat) /\ S \subseteq Nat
  BY <1>1, Zenon
<1>3. PICK n \in S : \A m \in S : ~ (<<m, n>> \in R)
  BY <1>2, WFMin, Zenon
<1>4. ASSUME NEW m \in S PROVE n <= m
  <2>1. ~ (m < n)
    BY <1>1, <1>3, Zenon
  <2> QED BY <2>1
<1> QED BY <1>4

-----------------------------------------------------------------------------
\* The claims; a claim that says e of n.
Claimed == [name : Names, category : Categories, feed : Sources]
Says(i, n, e) ==
    /\ i \in DOMAIN claims /\ claims[i].name = n
    /\ claims[i].category = e.category /\ claims[i].feed = e.feed

\* The first claim that puts its name in its category.
FirstClaim(i) ==
    \A j \in DOMAIN claims :
        claims[j].name = claims[i].name /\ claims[j].category = claims[i].category => i <= j

Backed(n, e) == \E i \in DOMAIN claims : Says(i, n, e) /\ FirstClaim(i)
Keeps(n, e) == domains[n] = e \/ \E x \in DOMAIN extra[n] : extra[n][x] = e
KeptIsFirst == \A n \in Names, e \in Entry : Keeps(n, e) => Backed(n, e)
EveryClaimIsKept ==
    \A i \in DOMAIN claims :
       LET n == claims[i].name IN
       /\ domains[n] # NoClaim
       /\ domains[n].category = claims[i].category \/ HasClaim(n, claims[i].category)
OnePerCategory ==
    \A n \in Names : \A x \in DOMAIN extra[n] :
       /\ extra[n][x].category # domains[n].category
       /\ \A y \in DOMAIN extra[n] : extra[n][y].category = extra[n][x].category => y = x

FiledUnderCategory(c) == {n \in Names : ClaimsOn(n, {c}) # {}}
CreditedTo(s) == {n \in Names : domains[n] # NoClaim /\ domains[n].feed = s}
Counted ==
    /\ \A c \in Categories : byCategory[c] = Cardinality(FiledUnderCategory(c))
    /\ \A s \in Sources : byFeed[s] = Cardinality(CreditedTo(s))

ClaimsInv == ClaimsTypeOK /\ KeptIsFirst /\ EveryClaimIsKept /\ OnePerCategory /\ Counted

LEMMA ClaimsInitially == ClaimsInit => ClaimsInv
<1> SUFFICES ASSUME ClaimsInit PROVE ClaimsInv
  OBVIOUS
<1> USE DEF ClaimsInit
<1>1. ClaimsTypeOK
  BY DEF ClaimsTypeOK, Entry
<1>2. KeptIsFirst /\ EveryClaimIsKept /\ OnePerCategory
  BY ClaimAssumption DEF KeptIsFirst, Keeps, Entry, EveryClaimIsKept, OnePerCategory
<1>3. Counted
  <2>1. ASSUME NEW c \in Categories PROVE FiledUnderCategory(c) = {}
    BY DEF FiledUnderCategory, ClaimsOn
  <2>2. ASSUME NEW s \in Sources PROVE CreditedTo(s) = {}
    BY DEF CreditedTo
  <2> QED BY <2>1, <2>2, FS_EmptySet DEF Counted
<1> QED BY <1>1, <1>2, <1>3 DEF ClaimsInv

\* What one more claim changes of the list of claims.
Grew(n, e) ==
    /\ DOMAIN claims' = 1..(Len(claims) + 1)
    /\ DOMAIN claims = 1..Len(claims) /\ Len(claims) \in Nat
    /\ \A i \in DOMAIN claims : claims'[i] = claims[i] /\ claims[i] \in Claimed
    /\ claims'[Len(claims) + 1] = [name |-> n, category |-> e.category, feed |-> e.feed]
    /\ claims' \in Seq(Claimed)

LEMMA OneEntryMore ==
    ASSUME ClaimsTypeOK, NEW n \in Names, NEW e \in Entry, Add(n, e)
    PROVE  Grew(n, e)
<1> DEFINE c == [name |-> n, category |-> e.category, feed |-> e.feed]
<1>1. claims \in Seq(Claimed)
  BY DEF ClaimsTypeOK, Claimed
<1>2. c \in Claimed
  BY DEF Entry, Claimed
<1>3. claims' = Append(claims, c)
  BY DEF Add
<1> HIDE DEF c
<1>4. /\ claims' \in Seq(Claimed)
      /\ Len(claims') = Len(claims) + 1
      /\ \A i \in 1..Len(claims) : claims'[i] = claims[i] /\ claims[i] \in Claimed
      /\ claims'[Len(claims) + 1] = c
  BY <1>1, <1>2, <1>3
<1>5. DOMAIN claims = 1..Len(claims) /\ Len(claims) \in Nat /\ DOMAIN claims' = 1..Len(claims')
  BY <1>1, <1>4
<1> QED BY <1>4, <1>5 DEF c, Grew

LEMMA FirstStaysFirst ==
    ASSUME ClaimsTypeOK, NEW n \in Names, NEW e \in Entry, Add(n, e)
    PROVE  /\ \A i, m, f : Says(i, m, f) => Says(i, m, f)'
           /\ \A i \in DOMAIN claims : FirstClaim(i) => FirstClaim(i)'
           /\ \A i : i = Len(claims) + 1 =>
                 /\ Says(i, n, e)'
                 /\ n \notin FiledUnderCategory(e.category) => FirstClaim(i)'
<1>0. Grew(n, e)
  BY OneEntryMore
<1>1. \A i, m, f : Says(i, m, f) => Says(i, m, f)'
  BY <1>0 DEF Says, Grew
<1>2. ASSUME NEW i \in DOMAIN claims, FirstClaim(i) PROVE FirstClaim(i)'
  BY <1>0, <1>2 DEF FirstClaim, Grew
<1>3. ASSUME NEW new, new = Len(claims) + 1 PROVE Says(new, n, e)'
  BY <1>0, <1>3 DEF Says, Grew
<1>4. ASSUME NEW new, new = Len(claims) + 1, n \notin FiledUnderCategory(e.category)
      PROVE  FirstClaim(new)'
  <2>1. \A j \in DOMAIN claims : ~ (claims[j].name = n /\ claims[j].category = e.category)
    BY <1>4 DEF FiledUnderCategory, ClaimsOn
  <2> QED BY <1>0, <1>4, <2>1 DEF FirstClaim, Grew
<1> QED BY <1>1, <1>2, <1>3, <1>4

LEMMA FiledGrows ==
    ASSUME ClaimsTypeOK, NEW n \in Names, NEW e \in Entry, Add(n, e), NEW c \in Categories
    PROVE  FiledUnderCategory(c)' = FiledUnderCategory(c) \cup (IF c = e.category THEN {n} ELSE {})
<1>0. Grew(n, e)
  BY OneEntryMore
<1>1. ASSUME NEW m \in Names
      PROVE  (ClaimsOn(m, {c}) # {})' <=> ClaimsOn(m, {c}) # {} \/ (m = n /\ c = e.category)
  <2>1. ClaimsOn(m, {c}) # {} <=> \E i \in DOMAIN claims : claims[i].name = m /\ claims[i].category = c
    BY DEF ClaimsOn
  <2>2. (ClaimsOn(m, {c}) # {})' <=> \E i \in DOMAIN claims' : claims'[i].name = m /\ claims'[i].category = c
    BY DEF ClaimsOn
  <2>3. DOMAIN claims' = DOMAIN claims \cup {Len(claims) + 1}
    BY <1>0 DEF Grew
  <2>4. claims'[Len(claims) + 1].name = n /\ claims'[Len(claims) + 1].category = e.category
    BY <1>0 DEF Grew
  <2>5. \A i \in DOMAIN claims : claims'[i] = claims[i]
    BY <1>0 DEF Grew
  <2> QED BY <2>1, <2>2, <2>3, <2>4, <2>5
<1> QED BY <1>1 DEF FiledUnderCategory

\* A name is filed under a category exactly when it keeps a claim of it.
LEMMA FiledMeansKept ==
    ASSUME ClaimsInv, NEW n \in Names, NEW c \in Categories
    PROVE  n \in FiledUnderCategory(c) <=>
              domains[n] # NoClaim /\ (domains[n].category = c \/ HasClaim(n, c))
<1>1. n \in FiledUnderCategory(c) <=> \E i \in DOMAIN claims : claims[i].name = n /\ claims[i].category = c
  BY DEF FiledUnderCategory, ClaimsOn
<1>0. ASSUME NEW f \in Entry, Keeps(n, f), f.category = c PROVE n \in FiledUnderCategory(c)
  BY <1>0, <1>1 DEF ClaimsInv, KeptIsFirst, Backed, Says
<1>2. domains[n] # NoClaim /\ domains[n].category = c => n \in FiledUnderCategory(c)
  BY <1>0 DEF ClaimsInv, ClaimsTypeOK, Keeps
<1>3. HasClaim(n, c) => n \in FiledUnderCategory(c)
  <2>1. \A x \in DOMAIN extra[n] : extra[n][x] \in Entry /\ Keeps(n, extra[n][x])
    BY DEF ClaimsInv, ClaimsTypeOK, Keeps
  <2> QED BY <1>0, <2>1 DEF HasClaim
<1>4. n \in FiledUnderCategory(c) => domains[n] # NoClaim /\ (domains[n].category = c \/ HasClaim(n, c))
  BY <1>1 DEF ClaimsInv, EveryClaimIsKept
<1> QED BY <1>2, <1>3, <1>4

LEMMA FiniteCounts ==
    /\ \A c \in Categories : IsFiniteSet(FiledUnderCategory(c))
    /\ \A s \in Sources : IsFiniteSet(CreditedTo(s))
BY ClaimAssumption, FS_Subset DEF FiledUnderCategory, CreditedTo

LEMMA ByCategoryCounts ==
    ASSUME ClaimsInv, NEW n \in Names, NEW e \in Entry, Add(n, e),
           byCategory' = IF n \in FiledUnderCategory(e.category) THEN byCategory
                         ELSE [byCategory EXCEPT ![e.category] = @ + 1]
    PROVE  \A c \in Categories : byCategory'[c] = Cardinality(FiledUnderCategory(c))'
<1> SUFFICES ASSUME NEW c \in Categories
             PROVE  byCategory'[c] = Cardinality(FiledUnderCategory(c)')
  OBVIOUS
<1>1. byCategory \in [Categories -> Nat] /\ byCategory[c] = Cardinality(FiledUnderCategory(c))
  BY DEF ClaimsInv, ClaimsTypeOK, Counted
<1>2. FiledUnderCategory(c)' = FiledUnderCategory(c) \cup (IF c = e.category THEN {n} ELSE {})
  BY FiledGrows DEF ClaimsInv
<1>3. CASE c = e.category /\ n \notin FiledUnderCategory(c)
  <2>1. Cardinality(FiledUnderCategory(c) \cup {n}) = Cardinality(FiledUnderCategory(c)) + 1
    BY <1>3, FiniteCounts, FS_AddElement
  <2> QED BY <1>1, <1>2, <1>3, <2>1
<1>4. CASE ~ (c = e.category /\ n \notin FiledUnderCategory(c))
  <2>1. FiledUnderCategory(c)' = FiledUnderCategory(c)
    BY <1>2, <1>4
  <2> QED BY <1>1, <1>4, <2>1
<1> QED BY <1>3, <1>4

\* What a first claim backs stays backed, and so is a claim that is new.
LEMMA StaysBacked ==
    ASSUME ClaimsInv, NEW n \in Names, NEW e \in Entry, Add(n, e)
    PROVE  /\ \A m, f : Backed(m, f) => Backed(m, f)'
           /\ n \notin FiledUnderCategory(e.category) => Backed(n, e)'
<1>0. ClaimsTypeOK
  BY DEF ClaimsInv
<1>1. ASSUME NEW m, NEW f, Backed(m, f) PROVE Backed(m, f)'
  <2>1. PICK i \in DOMAIN claims : Says(i, m, f) /\ FirstClaim(i)
    BY <1>1 DEF Backed
  <2>2. Says(i, m, f)' /\ FirstClaim(i)'
    BY <1>0, <2>1, FirstStaysFirst
  <2> QED BY <2>2 DEF Backed, Says
<1>2. ASSUME n \notin FiledUnderCategory(e.category) PROVE Backed(n, e)'
  <2>1. PICK i : i = Len(claims) + 1
    OBVIOUS
  <2>2. Says(i, n, e)' /\ FirstClaim(i)'
    BY <1>0, <1>2, <2>1, FirstStaysFirst
  <2> QED BY <2>2 DEF Backed, Says
<1> QED BY <1>1, <1>2

\* So what is kept is backed, when only the new claim is new to it.
LEMMA KeptStaysFirst ==
    ASSUME ClaimsInv, NEW n \in Names, NEW e \in Entry, Add(n, e),
           \A m \in Names, f \in Entry : Keeps(m, f)' =>
              Keeps(m, f) \/ (m = n /\ f = e /\ n \notin FiledUnderCategory(e.category))
    PROVE  KeptIsFirst'
<1> SUFFICES ASSUME NEW m \in Names, NEW f \in Entry, Keeps(m, f)' PROVE Backed(m, f)'
  BY DEF KeptIsFirst, Entry
<1>1. CASE Keeps(m, f)
  BY <1>1, StaysBacked DEF ClaimsInv, KeptIsFirst
<1>2. CASE m = n /\ f = e /\ n \notin FiledUnderCategory(e.category)
  BY <1>2, StaysBacked
<1> QED BY <1>1, <1>2

\* A new claim that is kept, and the others of its name still are.
LEMMA EveryClaimStaysKept ==
    ASSUME ClaimsInv, NEW n \in Names, NEW e \in Entry, Add(n, e),
           \A m \in Names, c \in Categories :
              (domains[m] # NoClaim /\ (domains[m].category = c \/ HasClaim(m, c)))
              \/ (m = n /\ c = e.category)
              => (domains[m] # NoClaim /\ (domains[m].category = c \/ HasClaim(m, c)))'
    PROVE  EveryClaimIsKept'
<1>1. Grew(n, e)
  BY OneEntryMore DEF ClaimsInv
<1>2. EveryClaimIsKept
  BY DEF ClaimsInv
<1> SUFFICES ASSUME NEW i \in DOMAIN claims', NEW m \in Names, m = claims'[i].name,
                    NEW c \in Categories, c = claims'[i].category
             PROVE  (domains[m] # NoClaim /\ (domains[m].category = c \/ HasClaim(m, c)))'
  <2>1. \A i \in DOMAIN claims' : claims'[i] \in Claimed
    BY <1>1 DEF Grew
  <2> QED BY <2>1 DEF EveryClaimIsKept, Claimed
<1>3. CASE i \in DOMAIN claims
  <2>1. domains[m] # NoClaim /\ (domains[m].category = c \/ HasClaim(m, c))
    BY <1>1, <1>2, <1>3 DEF EveryClaimIsKept, Grew
  <2> QED BY <2>1
<1>4. CASE i \notin DOMAIN claims
  <2>1. i = Len(claims) + 1
    BY <1>1, <1>4 DEF Grew
  <2>2. m = n /\ c = e.category
    BY <1>1, <2>1 DEF Grew
  <2> QED BY <2>2
<1> QED BY <1>3, <1>4

LEMMA ClaimsTypePreserved ==
    ASSUME ClaimsInv, NEW n \in Names, NEW e \in Entry, Add(n, e)
    PROVE  ClaimsTypeOK'
<1> USE DEF ClaimsInv, ClaimsTypeOK
<1>1. Grew(n, e)
  BY OneEntryMore
<1>2. claims' \in Seq([name : Names, category : Categories, feed : Sources])
  BY <1>1 DEF Grew, Claimed
<1>3. e.category \in Categories /\ e.feed \in Sources /\ e # NoClaim
  BY ClaimAssumption DEF Entry
<1>4. CASE AddFirst(n, e)
  <2>1. extra[n] = <<>>
    BY <1>4 DEF AddFirst
  <2>2. /\ domains' \in [Names -> Entry \cup {NoClaim}]
        /\ extra' \in [Names -> Seq(Entry)]
        /\ byCategory' \in [Categories -> Nat]
        /\ byFeed' \in [Sources -> Nat]
    BY <1>3, <1>4 DEF AddFirst
  <2>3. \A m \in Names : \A i \in DOMAIN extra'[m] :
          /\ domains'[m] # NoClaim
          /\ Severity[domains'[m].category] <= Severity[extra'[m][i].category]
    BY <1>4, <2>1 DEF AddFirst
  <2> QED BY <1>2, <2>2, <2>3
<1>5. CASE AddKnown(n, e)
  BY <1>2, <1>5 DEF AddKnown
<1>6. CASE AddFurther(n, e)
  <2>1. domains[n] \in Entry /\ domains[n].category \in Categories /\ domains[n].feed \in Sources
    BY <1>6 DEF AddFurther, Entry
  <2>2. byCategory' \in [Categories -> Nat]
    BY <1>3, <1>6 DEF AddFurther
  <2>3. CASE Severity[e.category] < Severity[domains[n].category]
    <3>1. /\ domains' = [domains EXCEPT ![n] = e]
          /\ extra' = [extra EXCEPT ![n] = Append(@, domains[n])]
      BY <1>6, <2>3 DEF AddFurther
    <3>2. extra' \in [Names -> Seq(Entry)] /\ domains' \in [Names -> Entry \cup {NoClaim}]
      BY <2>1, <3>1
    <3>3. byFeed' \in [Sources -> Nat]
      <4>1. ASSUME NEW s \in Sources, s = domains[n].feed PROVE byFeed[s] > 0
        <5>1. n \in CreditedTo(s) /\ IsFiniteSet(CreditedTo(s))
          BY <2>1, <4>1, FiniteCounts, <1>6 DEF CreditedTo, AddFurther
        <5>2. Cardinality(CreditedTo(s)) # 0 /\ Cardinality(CreditedTo(s)) \in Nat
          BY <5>1, FS_EmptySet, FS_CardinalityType
        <5> QED BY <5>2 DEF Counted
      <4>2. byFeed' = [s \in Sources |-> byFeed[s] - (IF s = domains[n].feed THEN 1 ELSE 0)
                                                    + (IF s = e.feed THEN 1 ELSE 0)]
        BY <1>6, <2>3 DEF AddFurther
      <4>3. ASSUME NEW s \in Sources
            PROVE  byFeed[s] - (IF s = domains[n].feed THEN 1 ELSE 0) + (IF s = e.feed THEN 1 ELSE 0) \in Nat
        <5>1. byFeed[s] \in Nat
          OBVIOUS
        <5> QED BY <4>1, <5>1
      <4> QED BY <4>2, <4>3
    <3>4. ASSUME NEW m \in Names, NEW i \in DOMAIN extra'[m]
          PROVE  /\ domains'[m] # NoClaim
                 /\ Severity[domains'[m].category] <= Severity[extra'[m][i].category]
      <4>1. CASE m = n
        <5>1. domains'[n] = e /\ extra'[n] = Append(extra[n], domains[n])
          BY <3>1
        <5>2. i \in DOMAIN extra[n] \/ i = Len(extra[n]) + 1
          BY <4>1, <5>1
        <5>3. CASE i \in DOMAIN extra[n]
          <6>1. extra'[n][i] = extra[n][i] /\ extra[n][i] \in Entry
            BY <5>1, <5>3
          <6>2. Severity[domains[n].category] <= Severity[extra[n][i].category]
            BY <5>3
          <6>3. {Severity[e.category], Severity[domains[n].category], Severity[extra[n][i].category]} \subseteq Nat
            BY ClaimAssumption, <1>3, <2>1, <6>1 DEF Entry
          <6> QED BY <1>3, <2>3, <4>1, <5>1, <6>1, <6>2, <6>3
        <5>4. CASE i = Len(extra[n]) + 1
          <6>1. extra'[n][i] = domains[n]
            BY <5>1, <5>4
          <6>2. {Severity[e.category], Severity[domains[n].category]} \subseteq Nat
            BY ClaimAssumption, <1>3, <2>1
          <6> QED BY <1>3, <2>3, <4>1, <5>1, <6>1, <6>2
        <5> QED BY <5>2, <5>3, <5>4
      <4>2. CASE m # n
        BY <3>1, <4>2
      <4> QED BY <4>1, <4>2
    <3> QED BY <1>2, <2>2, <3>2, <3>3, <3>4
  <2>4. CASE ~ (Severity[e.category] < Severity[domains[n].category])
    <3>1. /\ domains' = domains /\ byFeed' = byFeed
          /\ extra' = [extra EXCEPT ![n] = Append(@, e)]
      BY <1>6, <2>4 DEF AddFurther
    <3>2. extra' \in [Names -> Seq(Entry)]
      BY <3>1
    <3>3. ASSUME NEW m \in Names, NEW i \in DOMAIN extra'[m]
          PROVE  /\ domains[m] # NoClaim
                 /\ Severity[domains[m].category] <= Severity[extra'[m][i].category]
      <4>1. CASE m = n
        <5>1. extra'[n] = Append(extra[n], e)
          BY <3>1
        <5>2. \/ i \in DOMAIN extra[n] /\ extra'[n][i] = extra[n][i]
              \/ i = Len(extra[n]) + 1 /\ extra'[n][i] = e
          BY <4>1, <5>1
        <5>3. {Severity[e.category], Severity[domains[n].category]} \subseteq Nat
          BY ClaimAssumption, <1>3, <2>1
        <5>4. domains[n] # NoClaim
          BY <1>6 DEF AddFurther
        <5> QED BY <2>4, <4>1, <5>2, <5>3, <5>4
      <4>2. CASE m # n
        BY <3>1, <4>2
      <4> QED BY <4>1, <4>2
    <3> QED BY <1>2, <2>2, <3>1, <3>2, <3>3
  <2> QED BY <2>3, <2>4
<1> QED BY <1>4, <1>5, <1>6 DEF Add

LEMMA ClaimsFirst ==
    ASSUME ClaimsInv, NEW n \in Names, NEW e \in Entry, Add(n, e), AddFirst(n, e)
    PROVE  ClaimsInv'
<1> USE DEF AddFirst
<1>0. ClaimsTypeOK /\ KeptIsFirst /\ EveryClaimIsKept /\ OnePerCategory /\ Counted
  BY DEF ClaimsInv
<1>1. ClaimsTypeOK'
  BY ClaimsTypePreserved
<1>2. e.category \in Categories /\ e.feed \in Sources /\ e # NoClaim
  BY ClaimAssumption DEF Entry
<1>3. n \notin FiledUnderCategory(e.category)
  BY <1>2, FiledMeansKept
<1>4. domains' = [domains EXCEPT ![n] = e] /\ extra' = extra /\ domains \in [Names -> Entry \cup {NoClaim}]
      /\ extra[n] = <<>>
  BY <1>0 DEF ClaimsTypeOK
<1>5. KeptIsFirst'
  <2>1. \A m \in Names, f \in Entry : Keeps(m, f)' => Keeps(m, f) \/ (m = n /\ f = e)
    BY <1>4 DEF Keeps
  <2> QED BY <1>3, <2>1, KeptStaysFirst
<1>6. EveryClaimIsKept'
  <2>1. \A m \in Names, c \in Categories :
           (domains[m] # NoClaim /\ (domains[m].category = c \/ HasClaim(m, c)))
           \/ (m = n /\ c = e.category)
           => (domains[m] # NoClaim /\ (domains[m].category = c \/ HasClaim(m, c)))'
    BY <1>2, <1>4 DEF HasClaim
  <2> QED BY <2>1, EveryClaimStaysKept
<1>7. OnePerCategory'
  BY <1>0, <1>4 DEF OnePerCategory
<1>8. \A c \in Categories : byCategory'[c] = Cardinality(FiledUnderCategory(c))'
  BY <1>3, ByCategoryCounts
<1>9. \A s \in Sources : byFeed'[s] = Cardinality(CreditedTo(s))'
  <2> SUFFICES ASSUME NEW s \in Sources PROVE byFeed'[s] = Cardinality(CreditedTo(s)')
    OBVIOUS
  <2>1. byFeed[s] = Cardinality(CreditedTo(s)) /\ byFeed \in [Sources -> Nat]
    BY <1>0 DEF Counted, ClaimsTypeOK
  <2>2. CreditedTo(s)' = CreditedTo(s) \cup (IF s = e.feed THEN {n} ELSE {})
    BY <1>2, <1>4 DEF CreditedTo
  <2>3. n \notin CreditedTo(s) /\ IsFiniteSet(CreditedTo(s))
    BY FiniteCounts DEF CreditedTo
  <2>4. CASE s = e.feed
    <3>1. Cardinality(CreditedTo(s) \cup {n}) = Cardinality(CreditedTo(s)) + 1
      BY <2>3, FS_AddElement
    <3> QED BY <2>1, <2>2, <2>4, <3>1
  <2>5. CASE s # e.feed
    <3>1. CreditedTo(s)' = CreditedTo(s)
      BY <2>2, <2>5
    <3> QED BY <2>1, <2>5, <3>1
  <2> QED BY <2>4, <2>5
<1> QED BY <1>1, <1>5, <1>6, <1>7, <1>8, <1>9 DEF ClaimsInv, Counted

LEMMA ClaimsKnown ==
    ASSUME ClaimsInv, NEW n \in Names, NEW e \in Entry, Add(n, e), AddKnown(n, e)
    PROVE  ClaimsInv'
<1> USE DEF AddKnown
<1>0. ClaimsTypeOK /\ KeptIsFirst /\ EveryClaimIsKept /\ OnePerCategory /\ Counted
  BY DEF ClaimsInv
<1>1. ClaimsTypeOK'
  BY ClaimsTypePreserved
<1>2. e.category \in Categories
  BY DEF Entry
<1>3. n \in FiledUnderCategory(e.category)
  BY <1>2, FiledMeansKept
<1>4. domains' = domains /\ extra' = extra
  OBVIOUS
<1>5. KeptIsFirst'
  <2>1. \A m \in Names, f \in Entry : Keeps(m, f)' => Keeps(m, f)
    BY <1>4 DEF Keeps
  <2> QED BY <2>1, KeptStaysFirst
<1>6. EveryClaimIsKept'
  <2>1. \A m \in Names, c \in Categories :
           (domains[m] # NoClaim /\ (domains[m].category = c \/ HasClaim(m, c)))
           \/ (m = n /\ c = e.category)
           => (domains[m] # NoClaim /\ (domains[m].category = c \/ HasClaim(m, c)))'
    BY <1>4 DEF HasClaim
  <2> QED BY <2>1, EveryClaimStaysKept
<1>7. OnePerCategory'
  BY <1>0, <1>4 DEF OnePerCategory
<1>8. \A c \in Categories : byCategory'[c] = Cardinality(FiledUnderCategory(c))'
  BY <1>3, ByCategoryCounts
<1>9. \A s \in Sources : byFeed'[s] = Cardinality(CreditedTo(s))'
  BY <1>0, <1>4 DEF Counted, CreditedTo
<1> QED BY <1>1, <1>5, <1>6, <1>7, <1>8, <1>9 DEF ClaimsInv, Counted

LEMMA ClaimsFurther ==
    ASSUME ClaimsInv, NEW n \in Names, NEW e \in Entry, Add(n, e), AddFurther(n, e)
    PROVE  ClaimsInv'
<1>0. ClaimsTypeOK /\ KeptIsFirst /\ EveryClaimIsKept /\ OnePerCategory /\ Counted
  BY DEF ClaimsInv
<1>1. ClaimsTypeOK'
  BY ClaimsTypePreserved
<1>2. e.category \in Categories /\ e.feed \in Sources /\ e # NoClaim
  BY ClaimAssumption DEF Entry
<1>3. n \notin FiledUnderCategory(e.category)
  BY <1>2, FiledMeansKept DEF AddFurther
<1>4. domains \in [Names -> Entry \cup {NoClaim}] /\ extra \in [Names -> Seq(Entry)] /\ domains[n] \in Entry
  BY <1>0 DEF ClaimsTypeOK, AddFurther
<1>5. /\ domains[n].category # e.category
      /\ \A x \in DOMAIN extra[n] : extra[n][x].category # e.category
  BY DEF AddFurther, HasClaim
<1>6. \/ /\ domains' = [domains EXCEPT ![n] = e]
         /\ extra' = [extra EXCEPT ![n] = Append(@, domains[n])]
      \/ /\ domains' = domains
         /\ extra' = [extra EXCEPT ![n] = Append(@, e)]
  BY DEF AddFurther
<1>7. \A m \in Names \ {n} : domains'[m] = domains[m] /\ extra'[m] = extra[m]
  BY <1>4, <1>6
<1>8. PICK k \in {domains[n], e} : extra'[n] = Append(extra[n], k) /\ {k, domains'[n]} = {domains[n], e}
  BY <1>4, <1>6
<1>9. /\ DOMAIN extra'[n] = DOMAIN extra[n] \cup {Len(extra[n]) + 1}
      /\ Len(extra[n]) + 1 \notin DOMAIN extra[n]
      /\ \A x \in DOMAIN extra[n] : extra'[n][x] = extra[n][x]
      /\ extra'[n][Len(extra[n]) + 1] = k
  BY <1>4, <1>8
<1>10. KeptIsFirst'
  <2> SUFFICES ASSUME NEW m \in Names, NEW f \in Entry, Keeps(m, f)'
               PROVE  Keeps(m, f) \/ (m = n /\ f = e)
    BY <1>3, KeptStaysFirst
  <2>1. CASE m = n
    <3>1. f = domains'[n] \/ \E x \in DOMAIN extra'[n] : f = extra'[n][x]
      BY <2>1 DEF Keeps
    <3>2. f \in {domains[n], e} \/ \E x \in DOMAIN extra[n] : f = extra[n][x]
      BY <1>8, <1>9, <3>1
    <3> QED BY <2>1, <3>2 DEF Keeps
  <2>2. CASE m # n
    BY <1>7, <2>2 DEF Keeps
  <2> QED BY <2>1, <2>2
<1>11. EveryClaimIsKept'
  <2> SUFFICES ASSUME NEW m \in Names, NEW c \in Categories,
                      \/ domains[m] # NoClaim /\ (domains[m].category = c \/ HasClaim(m, c))
                      \/ m = n /\ c = e.category
               PROVE  (domains[m] # NoClaim /\ (domains[m].category = c \/ HasClaim(m, c)))'
    BY EveryClaimStaysKept
  <2>1. CASE m = n
    <3>1. domains'[n] # NoClaim
      BY <1>2, <1>8 DEF AddFurther
    <3>2. CASE \E x \in DOMAIN extra[n] : extra[n][x].category = c
      BY <1>9, <2>1, <3>1, <3>2 DEF HasClaim
    <3>3. CASE c \in {domains[n].category, e.category}
      <4>1. c = domains'[n].category \/ c = k.category
        BY <1>8, <3>3
      <4> QED BY <1>9, <2>1, <3>1, <4>1 DEF HasClaim
    <3> QED BY <2>1, <3>2, <3>3 DEF HasClaim
  <2>2. CASE m # n
    BY <1>7, <2>2 DEF HasClaim
  <2> QED BY <2>1, <2>2
<1>12. OnePerCategory'
  <2> SUFFICES ASSUME NEW m \in Names, NEW x \in DOMAIN extra'[m]
               PROVE  /\ extra'[m][x].category # domains'[m].category
                      /\ \A y \in DOMAIN extra'[m] : extra'[m][y].category = extra'[m][x].category => y = x
    BY DEF OnePerCategory
  <2>1. CASE m = n
    <3>1. \A y \in DOMAIN extra[n] :
             /\ extra[n][y].category \notin {domains[n].category, e.category}
             /\ \A z \in DOMAIN extra[n] : extra[n][z].category = extra[n][y].category => z = y
      BY <1>0, <1>5 DEF OnePerCategory
    <3>2. {k.category, domains'[n].category} = {domains[n].category, e.category} /\ k.category # domains'[n].category
      BY <1>5, <1>8
    <3> QED BY <1>9, <2>1, <3>1, <3>2
  <2>2. CASE m # n
    BY <1>0, <1>7, <2>2 DEF OnePerCategory
  <2> QED BY <2>1, <2>2
<1>13. \A c \in Categories : byCategory'[c] = Cardinality(FiledUnderCategory(c))'
  BY <1>3, ByCategoryCounts DEF AddFurther
<1>14. \A s \in Sources : byFeed'[s] = Cardinality(CreditedTo(s))'
  <2> SUFFICES ASSUME NEW s \in Sources PROVE byFeed'[s] = Cardinality(CreditedTo(s)')
    OBVIOUS
  <2>1. byFeed[s] = Cardinality(CreditedTo(s)) /\ byFeed \in [Sources -> Nat] /\ IsFiniteSet(CreditedTo(s))
    BY <1>0, FiniteCounts DEF Counted, ClaimsTypeOK
  <2>2. CASE domains' = domains
    <3>1. byFeed' = byFeed
      BY <1>4, <1>5, <2>2 DEF AddFurther
    <3>2. CreditedTo(s)' = CreditedTo(s)
      BY <2>2 DEF CreditedTo
    <3> QED BY <2>1, <3>1, <3>2
  <2>3. CASE domains' # domains
    <3>1. domains' = [domains EXCEPT ![n] = e]
          /\ byFeed' = [f \in Sources |-> byFeed[f] - (IF f = domains[n].feed THEN 1 ELSE 0)
                                                    + (IF f = e.feed THEN 1 ELSE 0)]
      BY <2>3 DEF AddFurther
    <3>2. /\ n \in CreditedTo(s) <=> s = domains[n].feed
          /\ n \in CreditedTo(s)' <=> s = e.feed
          /\ CreditedTo(s)' \ {n} = CreditedTo(s) \ {n}
      BY <1>2, <1>4, <3>1 DEF CreditedTo, AddFurther
    <3>3. byFeed'[s] = byFeed[s] - (IF s = domains[n].feed THEN 1 ELSE 0) + (IF s = e.feed THEN 1 ELSE 0)
      BY <3>1
    <3>4. /\ Cardinality(CreditedTo(s) \ {n}) = byFeed[s] - (IF s = domains[n].feed THEN 1 ELSE 0)
          /\ IsFiniteSet(CreditedTo(s) \ {n})
      <4>1. /\ Cardinality(CreditedTo(s) \ {n}) = IF n \in CreditedTo(s)
                                                   THEN Cardinality(CreditedTo(s)) - 1
                                                   ELSE Cardinality(CreditedTo(s))
            /\ IsFiniteSet(CreditedTo(s) \ {n})
        BY <2>1, FS_RemoveElement
      <4> QED BY <2>1, <3>2, <4>1
    <3>5. CASE s = e.feed
      <4>1. CreditedTo(s)' = (CreditedTo(s) \ {n}) \cup {n}
        BY <3>2, <3>5
      <4>2. Cardinality((CreditedTo(s) \ {n}) \cup {n}) = Cardinality(CreditedTo(s) \ {n}) + 1
        BY <3>4, FS_AddElement
      <4> QED BY <3>3, <3>4, <3>5, <4>1, <4>2
    <3>6. CASE s # e.feed
      <4>1. CreditedTo(s)' = CreditedTo(s) \ {n}
        BY <3>2, <3>6
      <4>2. byFeed'[s] = byFeed[s] - (IF s = domains[n].feed THEN 1 ELSE 0)
        BY <2>1, <3>3, <3>6
      <4> QED BY <3>4, <4>1, <4>2
    <3> QED BY <3>5, <3>6
  <2> QED BY <2>2, <2>3
<1> QED BY <1>1, <1>10, <1>11, <1>12, <1>13, <1>14 DEF ClaimsInv, Counted

LEMMA ClaimsInductive == ClaimsSpec => []ClaimsInv
<1>1. ClaimsInit => ClaimsInv
  BY ClaimsInitially
<1>2. ClaimsInv /\ [ClaimsNext]_claimVars => ClaimsInv'
  <2> SUFFICES ASSUME ClaimsInv, [ClaimsNext]_claimVars PROVE ClaimsInv'
    OBVIOUS
  <2>1. ASSUME NEW n \in Names, NEW e \in Entry, Add(n, e) PROVE ClaimsInv'
    BY <2>1, ClaimsFirst, ClaimsKnown, ClaimsFurther DEF Add
  <2>2. CASE UNCHANGED claimVars
    BY <2>2 DEF claimVars, ClaimsInv, ClaimsTypeOK, KeptIsFirst, Backed, Says, FirstClaim,
                Keeps, EveryClaimIsKept, HasClaim, OnePerCategory, Counted, FiledUnderCategory,
                ClaimsOn, CreditedTo
  <2> QED BY <2>1, <2>2 DEF ClaimsNext
<1> QED BY <1>1, <1>2, PTL DEF ClaimsSpec

\* Every claim added keeps the table of names, the further claims and the counters
\* of their types: a primary claim is the most severe of its name, and no counter
\* goes below zero.
THEOREM ClaimsTypeCorrect == ClaimsSpec => []ClaimsTypeOK
BY ClaimsInductive, PTL DEF ClaimsInv

-----------------------------------------------------------------------------
\* The claim ClaimOn answers with is kept, enabled, and as severe as any other.
LEMMA ClaimOnIsMostSevere ==
    ASSUME ClaimsInv, NEW m \in Names, NEW enabled \in SUBSET Categories,
           NEW g \in Entry, Keeps(m, g), g.category \in enabled
    PROVE  /\ ClaimOn(m, enabled) \in Entry /\ Keeps(m, ClaimOn(m, enabled))
           /\ ClaimOn(m, enabled).category \in enabled
           /\ \A f \in Entry : Keeps(m, f) /\ f.category \in enabled =>
                 Severity[ClaimOn(m, enabled).category] <= Severity[f.category]
<1> DEFINE x == extra[m]
           on == {i \in DOMAIN x : x[i].category \in enabled}
           best == {i \in on : \A j \in on :
                      \/ Severity[x[i].category] < Severity[x[j].category]
                      \/ Severity[x[i].category] = Severity[x[j].category] /\ i <= j}
<1>0. \A f \in Entry : f.category \in Categories /\ Severity[f.category] \in Nat
  BY ClaimAssumption DEF Entry
<1>1. /\ domains[m] \in Entry \cup {NoClaim} /\ x \in Seq(Entry)
      /\ DOMAIN x \subseteq Nat /\ \A i \in DOMAIN x : x[i] \in Entry
  BY DEF ClaimsInv, ClaimsTypeOK
<1>2. domains[m] \in Entry
  BY <1>1, ClaimAssumption DEF Keeps, ClaimsInv, ClaimsTypeOK, Entry
<1>3. CASE domains[m].category \in enabled
  <2>1. ClaimOn(m, enabled) = domains[m]
    BY <1>3 DEF ClaimOn
  <2>2. \A f \in Entry : Keeps(m, f) => Severity[domains[m].category] <= Severity[f.category]
    BY <1>0, <1>2 DEF Keeps, ClaimsInv, ClaimsTypeOK
  <2> QED BY <1>2, <1>3, <2>1, <2>2 DEF Keeps
<1>4. CASE domains[m].category \notin enabled
  <2> DEFINE ranks == {Severity[x[i].category] : i \in on}
  <2>1. on # {} /\ on \subseteq Nat
    BY <1>1, <1>4 DEF Keeps
  <2>2. ranks \in SUBSET Nat /\ ranks # {}
    BY <1>0, <1>1, <2>1
  <2>3. PICK r \in ranks : \A q \in ranks : r <= q
    BY <2>2, LeastNat
  <2>4. {i \in on : Severity[x[i].category] = r} # {} /\ {i \in on : Severity[x[i].category] = r} \in SUBSET Nat
    BY <2>1, <2>3
  <2>5. PICK b \in {i \in on : Severity[x[i].category] = r} :
           \A j \in {i \in on : Severity[x[i].category] = r} : b <= j
    BY <2>4, LeastNat
  <2>6. b \in best
    <3>1. ASSUME NEW j \in on
          PROVE  \/ Severity[x[b].category] < Severity[x[j].category]
                 \/ Severity[x[b].category] = Severity[x[j].category] /\ b <= j
      <4>1. r <= Severity[x[j].category] /\ Severity[x[j].category] \in Nat /\ r \in Nat
        BY <1>0, <1>1, <2>2, <2>3
      <4> QED BY <2>5, <4>1
    <3> QED BY <2>5, <3>1
  <2> DEFINE p == CHOOSE i \in best : TRUE
  <2>7. p \in best
    BY <2>6
  <2>8. ClaimOn(m, enabled) = x[p]
    BY <1>4, <2>1 DEF ClaimOn
  <2> HIDE DEF p
  <2>9. p \in DOMAIN x /\ x[p] \in Entry /\ x[p].category \in enabled
    BY <1>1, <2>7
  <2>10. ASSUME NEW f \in Entry, Keeps(m, f), f.category \in enabled
         PROVE  Severity[x[p].category] <= Severity[f.category]
    <3>1. PICK j \in on : x[j] = f
      BY <1>4, <2>10 DEF Keeps
    <3>2. Severity[x[p].category] \in Nat /\ Severity[x[j].category] \in Nat
      BY <1>0, <1>1, <2>9
    <3> QED BY <2>7, <3>1, <3>2
  <2> QED BY <2>8, <2>9, <2>10 DEF Keeps
<1> QED BY <1>3, <1>4

\* The claim of a name that a lookup is to find: most severe, then first.
Foremost(p, m, enabled) ==
    /\ p \in ClaimsOn(m, enabled)
    /\ \A j \in ClaimsOn(m, enabled) :
          /\ Severity[claims[p].category] <= Severity[claims[j].category]
          /\ claims[j].category = claims[p].category => p <= j
EntryOf(p) == [category |-> claims[p].category, feed |-> claims[p].feed]

\* What was claimed of a name is kept of it.
LEMMA ClaimedIsKept ==
    ASSUME ClaimsInv, NEW m, NEW enabled \in SUBSET Categories, NEW i \in ClaimsOn(m, enabled)
    PROVE  /\ m \in Names /\ domains[m] # NoClaim /\ i \in Nat
           /\ \E f \in Entry : Keeps(m, f) /\ f.category = claims[i].category /\ f.category \in enabled
<1>1. i \in DOMAIN claims /\ claims[i].name = m /\ claims[i].category \in enabled
  BY DEF ClaimsOn
<1>2. claims[i] \in Claimed /\ i \in Nat
  <2>1. claims \in Seq(Claimed)
    BY DEF ClaimsInv, ClaimsTypeOK, Claimed
  <2> HIDE DEF ClaimsInv
  <2> QED BY <1>1, <2>1
<1>3. domains[m] # NoClaim /\ (domains[m].category = claims[i].category \/ HasClaim(m, claims[i].category))
  BY <1>1 DEF ClaimsInv, EveryClaimIsKept
<1>4. m \in Names
  BY <1>1, <1>2 DEF Claimed
<1>5. domains[m] \in Entry /\ \A x \in DOMAIN extra[m] : extra[m][x] \in Entry
  BY <1>3, <1>4 DEF ClaimsInv, ClaimsTypeOK
<1> QED BY <1>1, <1>2, <1>3, <1>4, <1>5 DEF HasClaim, Keeps

LEMMA ClaimOnIsForemost ==
    ASSUME ClaimsInv, NEW m, NEW enabled \in SUBSET Categories, ClaimsOn(m, enabled) # {}
    PROVE  /\ m \in Names /\ domains[m] # NoClaim /\ ClaimOn(m, enabled) # NoClaim
           /\ \E p : Foremost(p, m, enabled)
           /\ \A p : Foremost(p, m, enabled) => ClaimOn(m, enabled) = EntryOf(p)
<1> DEFINE e == ClaimOn(m, enabled)
<1>1. PICK i : i \in ClaimsOn(m, enabled)
  OBVIOUS
<1>2. m \in Names /\ domains[m] # NoClaim
  BY <1>1, ClaimedIsKept
<1>3. PICK g \in Entry : Keeps(m, g) /\ g.category \in enabled
  BY <1>1, ClaimedIsKept
<1>4. /\ e \in Entry /\ Keeps(m, e) /\ e.category \in enabled
      /\ \A f \in Entry : Keeps(m, f) /\ f.category \in enabled => Severity[e.category] <= Severity[f.category]
  BY <1>2, <1>3, ClaimOnIsMostSevere
<1> HIDE DEF e
<1>5. PICK p : Says(p, m, e) /\ FirstClaim(p)
  BY <1>2, <1>4 DEF ClaimsInv, KeptIsFirst, Backed
<1>6. p \in ClaimsOn(m, enabled) /\ claims[p].category = e.category /\ claims[p].feed = e.feed
  BY <1>4, <1>5 DEF Says, ClaimsOn
<1>7. \A j \in ClaimsOn(m, enabled) : Severity[e.category] <= Severity[claims[j].category]
  BY <1>4, ClaimedIsKept
<1>8. \A j \in ClaimsOn(m, enabled) : claims[j].category = claims[p].category => p <= j
  BY <1>5, <1>6 DEF FirstClaim, ClaimsOn
<1>9. Foremost(p, m, enabled)
  BY <1>6, <1>7, <1>8 DEF Foremost
<1>10. e = EntryOf(p)
  BY <1>4, <1>6 DEF Entry, EntryOf
<1>11. ASSUME NEW q, Foremost(q, m, enabled) PROVE q = p
  <2>1. q \in ClaimsOn(m, enabled)
    BY <1>11 DEF Foremost
  <2>2. \A j \in ClaimsOn(m, enabled) : claims[j].category \in Categories /\ j \in Nat
    BY ClaimedIsKept DEF ClaimsOn
  <2>3. Severity[claims[p].category] = Severity[claims[q].category]
    BY <1>6, <1>9, <1>11, <2>1, <2>2, ClaimAssumption DEF Foremost
  <2>4. claims[p].category = claims[q].category
    BY <1>6, <2>1, <2>2, <2>3, ClaimAssumption
  <2> QED BY <1>6, <1>9, <1>11, <2>1, <2>2, <2>4 DEF Foremost
<1>12. e # NoClaim
  BY <1>4, ClaimAssumption DEF Entry
<1> QED BY <1>2, <1>9, <1>10, <1>11, <1>12 DEF e

\* A name LookupEnabled stops at is one that was claimed.
LEMMA StopsAtClaimed ==
    ASSUME ClaimsInv, NEW m, NEW enabled \in SUBSET Categories
    PROVE  Listed(m) /\ ClaimOn(m, enabled) # NoClaim <=> ClaimsOn(m, enabled) # {}
<1>1. ASSUME ClaimsOn(m, enabled) # {} PROVE Listed(m) /\ ClaimOn(m, enabled) # NoClaim
  BY <1>1, ClaimOnIsForemost DEF Listed
<1>2. ASSUME Listed(m), ClaimOn(m, enabled) # NoClaim PROVE ClaimsOn(m, enabled) # {}
  <2>1. m \in Names /\ domains[m] \in Entry /\ \A x \in DOMAIN extra[m] : extra[m][x] \in Entry
    BY <1>2 DEF Listed, ClaimsInv, ClaimsTypeOK
  <2>2. \E f \in Entry : Keeps(m, f) /\ f.category \in enabled
    BY <1>2, <2>1 DEF ClaimOn, Keeps
  <2>3. PICK f \in Entry : Backed(m, f) /\ f.category \in enabled
    BY <2>1, <2>2 DEF ClaimsInv, KeptIsFirst
  <2> QED BY <2>3 DEF Backed, Says, ClaimsOn
<1> QED BY <1>1, <1>2

LEMMA LookupFindsBlocking ==
    ASSUME ClaimsInv, NEW n \in Names, NEW enabled \in SUBSET Categories
    PROVE  /\ LookupEnabled(n, enabled) = NoClaim <=> Blocking(n, enabled) = {}
           /\ \A i \in Blocking(n, enabled) : LookupEnabled(n, enabled) = EntryOf(i)
<1> DEFINE hits == {i \in DOMAIN n : ClaimsOn(Suffix(n, i), enabled) # {}}
<1>1. hits = {i \in DOMAIN n : Listed(Suffix(n, i)) /\ ClaimOn(Suffix(n, i), enabled) # NoClaim}
  BY StopsAtClaimed
<1>2. DOMAIN n = 1..Len(n) /\ Len(n) \in Nat
  BY ClaimAssumption
<1>3. \A i : i \in Blocking(n, enabled) <=>
             \E k \in hits : Foremost(i, Suffix(n, k), enabled) /\ \A j \in 1..(k - 1) : j \notin hits
  <2>1. \A k \in DOMAIN n : \A j \in 1..(k - 1) : j \in DOMAIN n
    BY <1>2
  <2>2. ASSUME NEW i, i \in Blocking(n, enabled)
        PROVE  \E k \in hits : Foremost(i, Suffix(n, k), enabled) /\ \A j \in 1..(k - 1) : j \notin hits
    BY <2>2 DEF Blocking, Foremost
  <2>3. ASSUME NEW i, NEW k \in hits, Foremost(i, Suffix(n, k), enabled), \A j \in 1..(k - 1) : j \notin hits
        PROVE  i \in Blocking(n, enabled)
    <3>1. i \in DOMAIN claims
      BY <2>3 DEF Foremost, ClaimsOn
    <3> QED BY <2>1, <2>3, <3>1 DEF Blocking, Foremost
  <2> QED BY <2>2, <2>3
<1>4. CASE hits = {}
  <2>1. LookupEnabled(n, enabled) = NoClaim
    BY <1>1, <1>4 DEF LookupEnabled
  <2>2. Blocking(n, enabled) = {}
    BY <1>3, <1>4
  <2> QED BY <2>1, <2>2
<1>5. CASE hits # {}
  <2>1. hits \in SUBSET Nat
    BY <1>2
  <2> DEFINE k == CHOOSE i \in hits : \A j \in hits : i <= j
  <2>2. k \in hits /\ \A j \in hits : k <= j
    BY <1>5, <2>1, LeastNat
  <2>3. LookupEnabled(n, enabled) = ClaimOn(Suffix(n, k), enabled)
    BY <1>1, <1>5 DEF LookupEnabled
  <2> HIDE DEF k
  <2>4. /\ ClaimOn(Suffix(n, k), enabled) # NoClaim
        /\ \E p : Foremost(p, Suffix(n, k), enabled)
        /\ \A p : Foremost(p, Suffix(n, k), enabled) => ClaimOn(Suffix(n, k), enabled) = EntryOf(p)
    BY <2>2, ClaimOnIsForemost
  <2>5. \A j \in 1..(k - 1) : j \notin hits
    BY <2>1, <2>2
  <2>6. \A h \in hits : (\A j \in 1..(h - 1) : j \notin hits) => h = k
    <3> SUFFICES ASSUME NEW h \in hits, \A j \in 1..(h - 1) : j \notin hits PROVE h = k
      OBVIOUS
    <3>1. k <= h /\ k \in Nat /\ h \in Nat /\ k >= 1
      BY <1>2, <2>1, <2>2
    <3>2. k \notin 1..(h - 1)
      BY <2>2
    <3> QED BY <3>1, <3>2
  <2>7. \A i : i \in Blocking(n, enabled) <=> Foremost(i, Suffix(n, k), enabled)
    BY <1>3, <2>2, <2>5, <2>6
  <2> QED BY <2>3, <2>4, <2>7
<1> QED BY <1>4, <1>5

\* The name's own foremost claim is the one its primary claim came with.
LEMMA PrimaryIsCredited ==
    ASSUME ClaimsInv, NEW s \in Sources
    PROVE  CreditedTo(s) = {n \in Names : \E i \in Primary(n) : claims[i].feed = s}
<1> SUFFICES ASSUME NEW n \in Names
             PROVE  (domains[n] # NoClaim /\ domains[n].feed = s) <=> \E i \in Primary(n) : claims[i].feed = s
  BY DEF CreditedTo
<1>1. domains[n] # NoClaim => domains[n] \in Entry /\ ClaimOn(n, Categories) = domains[n]
  BY DEF ClaimsInv, ClaimsTypeOK, ClaimOn, Entry
<1>2. \A i : Foremost(i, n, Categories) => domains[n] # NoClaim /\ domains[n].feed = claims[i].feed
  BY <1>1, ClaimOnIsForemost DEF Foremost, EntryOf
<1>3. \A i \in Primary(n) : Foremost(i, n, Categories)
  <2> SUFFICES ASSUME NEW i \in Primary(n) PROVE Foremost(i, n, Categories)
    OBVIOUS
  <2>1. PICK k \in DOMAIN n : Foremost(i, Suffix(n, k), Categories)
    BY DEF Primary, Blocking, Foremost
  <2>2. Suffix(n, k) = n
    BY <2>1 DEF Primary, Foremost, ClaimsOn
  <2> QED BY <2>1, <2>2
<1>4. \A i : Foremost(i, n, Categories) => i \in Primary(n)
  <2> SUFFICES ASSUME NEW i, Foremost(i, n, Categories) PROVE i \in Primary(n)
    OBVIOUS
  <2>1. n \in Seq(STRING) /\ n # <<>>
    BY ClaimAssumption
  <2>2. 1 \in DOMAIN n /\ Suffix(n, 1) = n
    BY <2>1 DEF Suffix
  <2>3. i \in DOMAIN claims /\ i \in ClaimsOn(n, Categories)
    BY DEF Foremost, ClaimsOn
  <2> QED BY <2>2, <2>3 DEF Primary, Blocking, Foremost
<1>5. domains[n] # NoClaim => \E i : Foremost(i, n, Categories)
  <2> SUFFICES ASSUME domains[n] # NoClaim PROVE \E i : Foremost(i, n, Categories)
    OBVIOUS
  <2>1. PICK p \in DOMAIN claims : Says(p, n, domains[n])
    BY <1>1 DEF ClaimsInv, KeptIsFirst, Backed, Keeps
  <2>2. p \in ClaimsOn(n, Categories)
    BY <1>1, <2>1 DEF Says, ClaimsOn, Entry
  <2> QED BY <2>2, ClaimOnIsForemost
<1> QED BY <1>2, <1>3, <1>4, <1>5

\* A lookup finds a claim exactly when an enabled category claims the name or a
\* name above it, the nearest name's most severe and first; and the counters of
\* the dashboard count what is filed.
THEOREM BlockingExact == ClaimsSpec => []BlockingIsExact
<1>1. ClaimsInv => BlockingIsExact
  <2> SUFFICES ASSUME ClaimsInv PROVE BlockingIsExact
    OBVIOUS
  <2>1. \A n \in Names, enabled \in SUBSET Categories :
           /\ LookupEnabled(n, enabled) = NoClaim <=> Blocking(n, enabled) = {}
           /\ \A i \in Blocking(n, enabled) : LookupEnabled(n, enabled) = EntryOf(i)
    BY LookupFindsBlocking
  <2>2. \A c \in Categories : byCategory[c] = Cardinality({n \in Names : ClaimsOn(n, {c}) # {}})
    BY DEF ClaimsInv, Counted, FiledUnderCategory
  <2>3. \A s \in Sources :
           byFeed[s] = Cardinality({n \in Names : \E i \in Primary(n) : claims[i].feed = s})
    BY PrimaryIsCredited DEF ClaimsInv, Counted
  <2> QED BY <2>1, <2>2, <2>3 DEF BlockingIsExact, EntryOf
<1> QED BY <1>1, ClaimsInductive, PTL
=============================================================================
