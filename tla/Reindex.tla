------------------------------ MODULE Reindex ------------------------------
(***************************************************************************)
(* A reindex pass (reindex_channel), started by an operator, the CLI, a    *)
(* cron job or a deletion, and the deletion of one package.  A pass takes  *)
(* no lock: one action per awaited call, or per group of calls nothing     *)
(* else can tell apart.                                                    *)
(*                                                                         *)
(* 1. Rebuild the index from what is in storage: with rattler-index on the *)
(*    local and s3 backends, from metadata on the others.                  *)
(* 2. Sync the rows with the index just written.                           *)
(* 3. Repair the records that do not describe the stored bytes.            *)
(* All row changes of a pass are committed at its very end.                *)
(***************************************************************************)
EXTENDS ChannelState

CONSTANTS
    Passes,     \* reindex passes and deletions
    Noarch,     \* the subdir every channel has
    Age,        \* version_ranks: 0 for a package's newest version
    Same,       \* a row the pass does not touch
    Drifts      \* what uploads, imports and deletions that were cut off, and
                \* archives replaced behind the index, can leave of one file

ASSUME NoarchAssumption == Noarch \in Subdirs
ASSUME AgeAssumption == Age \in [Files -> Nat]
ASSUME SameAssumption ==
    Same \notin Record \cup {None} \cup Contents \cup {Unread}

\* The part of the channel's state that is about one file.
FileState == [object : Contents \cup {None}, repodata : Record \cup {None},
              zst : Record \cup {None}, shard : Record \cup {None},
              row : Record \cup {None}, about : Contents \cup {Unread}]

ASSUME DriftAssumption == Drifts \subseteq FileState

VARIABLES
    backend,    \* "rattler" (local, s3) or "metadata" (azure, gcs)
    rpc,        \* where each pass stands
    verify,     \* re-hash every archive, whatever its size
    victim,     \* the file a deletion removes
    view,       \* the rows of the last select
    rtodo,      \* archives left to open
    found,      \* the records collected so far
    merged,     \* found, merged into the repodata.json being repaired
    rsubs,      \* subdirs left to write
    rsection,   \* the subdir being written
    pending,    \* uncommitted row changes: their rows are locked
    capture,    \* rows whose about.json is to be read
    newAbout,   \* uncommitted about changes
    missed,     \* history: subdirs whose repodata.json the sync failed to
                \* read and took for absent
    alone       \* history: passes begun, during which nobody else has
                \* changed the channel so far

passVars == <<backend, rpc, verify, victim, view, rtodo, found, merged, rsubs,
              rsection, pending, capture, newAbout, missed>>
reindexVars == <<channelVars, passVars, alone>>

Deleting == {"deleteObject", "deleteRow", "deleteCommit", "deleteBoth"}
Running == {"begin", "list", "scan", "json", "zst", "shards", "select",
            "read", "sync", "about", "repair", "repairList", "fetch", "load",
            "fixJson", "fixZst", "fixShards", "flush", "commit"}
Ended == {"idle", "done", "failed", "missing"}

Nothing == [f \in Files |-> None]
Untouched == [f \in Files |-> Same]

\* A channel with a past.  Only rattler-index writes shard indexes.
DriftedChannel ==
    \E past \in [Files -> Drifts], sharded \in SUBSET Subdirs :
        /\ object = [f \in Files |-> past[f].object]
        /\ repodata = [f \in Files |-> past[f].repodata]
        /\ zst = [f \in Files |-> past[f].zst]
        /\ shard = [f \in Files |-> IF SubdirOf[f] \in sharded
                                   THEN past[f].shard ELSE Absent]
        /\ rows = [f \in Files |-> past[f].row]
        /\ Fits(rows)
        /\ packages = PackagesOf({f \in Files : past[f].row # None})
        /\ about = [f \in Files |-> past[f].about]

PassInit ==
    /\ backend \in {"rattler", "metadata"}
    /\ backend = "metadata" => \A f \in Files : shard[f] = Absent
    /\ rpc = [x \in Passes |-> "idle"]
    /\ verify = [x \in Passes |-> FALSE]
    /\ victim = [x \in Passes |-> None]
    /\ view = [x \in Passes |-> Nothing]
    /\ rtodo = [x \in Passes |-> {}]
    /\ found = [x \in Passes |-> Nothing]
    /\ merged = [x \in Passes |-> Nothing]
    /\ rsubs = [x \in Passes |-> {}]
    /\ rsection = [x \in Passes |-> None]
    /\ pending = [x \in Passes |-> Untouched]
    /\ capture = [x \in Passes |-> {}]
    /\ newAbout = [x \in Passes |-> Untouched]
    /\ missed = [x \in Passes |-> {}]
    /\ alone = {}

Continue(x, label) == rpc' = [rpc EXCEPT ![x] = label]

SubdirsOf(F) == {SubdirOf[f] : f \in F}

Listed(index) == {f \in Files : index[f] # None}

\* A writer of the rows of F waits for the transactions that have written and
\* not committed them, or have inserted a Package row it would insert too.
Unlocked(others, F) ==
    \A y \in others, f \in F :
        /\ pending[y][f] = Same
        /\ PackageOf[f] \in packages
           \/ ~ \E g \in Files : /\ PackageOf[g] = PackageOf[f]
                                 /\ pending[y][g] \notin {Same, None}

\* The rows as a pass's own transaction sees them.
RowsSeenBy(x) ==
    [f \in Files |-> IF pending[x][f] = Same THEN rows[f] ELSE pending[x][f]]

-----------------------------------------------------------------------------
\* delete_package.

\* The row is looked up; without one the answer is 404.
LookUpVictim(x, f) ==
    /\ rpc[x] = "idle"
    /\ victim' = [victim EXCEPT ![x] = f]
    /\ Continue(x, IF rows[f] = None THEN "missing" ELSE "deleteObject")
    /\ UNCHANGED <<channelVars, backend, verify, view, rtodo, found, merged,
                   rsubs, rsection, pending, capture, newAbout, missed>>

\* storage.delete, which forgives an object that is already gone.
DeleteObject(x) ==
    /\ rpc[x] = "deleteObject"
    /\ object' = [object EXCEPT ![victim[x]] = None]
    /\ Continue(x, "deleteRow")
    /\ UNCHANGED <<repodata, zst, shard, packages, rows, about, backend,
                   verify, victim, view, rtodo, found, merged, rsubs, rsection,
                   pending, capture, newAbout, missed>>

\* The row is deleted, and the package's remaining versions are looked for.
DeleteRow(x) ==
    /\ rpc[x] = "deleteRow"
    /\ Unlocked(Passes \ {x}, {victim[x]})
    /\ pending' = [pending EXCEPT ![x][victim[x]] = None]
    /\ LET remaining == Listed(rows) \ {victim[x]}
       IN  Continue(x, IF PackageOf[victim[x]] \in PackagesOf(remaining)
                       THEN "deleteCommit" ELSE "deleteBoth")
    /\ UNCHANGED <<channelVars, backend, verify, victim, view, rtodo, found,
                   merged, rsubs, rsection, capture, newAbout, missed>>

\* The commit, the answer, and a reindex in the background.  A package row
\* takes the rows inserted under it in the meantime along.
DeleteCommit(x) ==
    LET p == PackageOf[victim[x]]
        whole == rpc[x] = "deleteBoth"
        gone == {f \in Files : f = victim[x] \/ (whole /\ PackageOf[f] = p)}
    IN  /\ rpc[x] \in {"deleteCommit", "deleteBoth"}
        /\ Unlocked(Passes \ {x}, gone)
        /\ packages' = IF whole THEN packages \ {p} ELSE packages
        /\ rows' = [f \in Files |-> IF f \in gone THEN None ELSE rows[f]]
        /\ about' = [f \in Files |-> IF f \in gone THEN Unread ELSE about[f]]
        /\ pending' = [pending EXCEPT ![x] = Untouched]
        /\ Continue(x, "begin")
        /\ UNCHANGED <<object, repodata, zst, shard, backend, verify, victim,
                       view, rtodo, found, merged, rsubs, rsection, capture,
                       newAbout, missed>>

-----------------------------------------------------------------------------
\* 1. The index.

\* trigger_reindex, or the CLI.
Request(x) ==
    /\ rpc[x] = "idle"
    /\ \E v \in BOOLEAN : verify' = [verify EXCEPT ![x] = v]
    /\ Continue(x, "begin")
    /\ UNCHANGED <<channelVars, backend, victim, view, rtodo, found, merged,
                   rsubs, rsection, pending, capture, newAbout, missed>>

\* _known_entries: the records of the rows, which need no archive.
SelectKnown(x) ==
    /\ rpc[x] = "begin" /\ backend = "metadata"
    /\ view' = [view EXCEPT ![x] = rows]
    /\ Continue(x, "list")
    /\ UNCHANGED <<channelVars, backend, verify, victim, rtodo, found, merged,
                   rsubs, rsection, pending, capture, newAbout, missed>>

\* storage.list: a known record of the listed size is taken as it is, any
\* other archive has to be opened.
ListObjects(x) ==
    /\ rpc[x] = "list"
    /\ LET stored == Listed(object)
           taken == {f \in stored : /\ view[x][f] # None
                                    /\ view[x][f].size = SizeOf[object[f]]}
       IN  /\ found' = [found EXCEPT ![x] =
                  [f \in Files |-> IF f \in taken THEN view[x][f] ELSE None]]
           /\ rtodo' = [rtodo EXCEPT ![x] = stored \ taken]
    /\ Continue(x, "scan")
    /\ UNCHANGED <<channelVars, backend, verify, victim, view, merged, rsubs,
                   rsection, pending, capture, newAbout, missed>>

\* _entry_from_archive on the bytes that are there now.  An unreadable
\* archive is left out; one that cannot be fetched aborts the pass.
ScanArchive(x, f) ==
    /\ rpc[x] = "scan" /\ f \in rtodo[x] /\ object[f] # None
    /\ rtodo' = [rtodo EXCEPT ![x] = @ \ {f}]
    /\ found' = [found EXCEPT ![x][f] =
          IF object[f] = Junk THEN None ELSE RecordOf(object[f])]
    /\ UNCHANGED <<channelVars, backend, rpc, verify, victim, view, merged,
                   rsubs, rsection, pending, capture, newAbout, missed>>

\* Only the subdirs something was found in are written, and noarch.
ScanDone(x) ==
    /\ rpc[x] = "scan" /\ rtodo[x] = {}
    /\ rsubs' = [rsubs EXCEPT ![x] =
          {Noarch} \cup SubdirsOf(Listed(found[x]))]
    /\ Continue(x, "json")
    /\ UNCHANGED <<channelVars, backend, verify, victim, view, rtodo, found,
                   merged, rsection, pending, capture, newAbout, missed>>

\* rattler-index: a file that is listed already keeps its record, a new one
\* is opened, one that is gone is dropped; unreadable archives are skipped.
RattlerScan(x) ==
    /\ rpc[x] = "begin" /\ backend = "rattler"
    /\ found' = [found EXCEPT ![x] =
          [f \in Files |->
              IF object[f] = None THEN None
              ELSE IF repodata[f] # None THEN repodata[f]
              ELSE IF object[f] = Junk THEN None
              ELSE RecordOf(object[f])]]
    /\ rsubs' = [rsubs EXCEPT ![x] = Subdirs]
    /\ Continue(x, "json")
    /\ UNCHANGED <<channelVars, backend, verify, victim, view, rtodo, merged,
                   rsection, pending, capture, newAbout, missed>>

\* write_repodata of one subdir.
IndexJson(x, s) ==
    /\ rpc[x] = "json" /\ s \in rsubs[x]
    /\ PutJson(s, found[x])
    /\ rsection' = [rsection EXCEPT ![x] = s]
    /\ Continue(x, "zst")
    /\ UNCHANGED <<object, zst, shard, packages, rows, about, backend, verify,
                   victim, view, rtodo, found, merged, rsubs, pending,
                   capture, newAbout, missed>>

IndexZst(x) ==
    /\ rpc[x] = "zst"
    /\ PutZst(rsection[x], found[x])
    /\ IF backend = "rattler"
       THEN Continue(x, "shards") /\ UNCHANGED rsubs
       ELSE /\ Continue(x, "json")
            /\ rsubs' = [rsubs EXCEPT ![x] = @ \ {rsection[x]}]
    /\ UNCHANGED <<object, repodata, shard, packages, rows, about, backend,
                   verify, victim, view, rtodo, found, merged, rsection,
                   pending, capture, newAbout, missed>>

\* rattler-index also publishes the shard index.
IndexShards(x) ==
    /\ rpc[x] = "shards"
    /\ shard' = Splice(shard, rsection[x], found[x])
    /\ rsubs' = [rsubs EXCEPT ![x] = @ \ {rsection[x]}]
    /\ Continue(x, "json")
    /\ UNCHANGED <<object, repodata, zst, packages, rows, about, backend,
                   verify, victim, view, rtodo, found, merged, rsection,
                   pending, capture, newAbout, missed>>

IndexDone(x) ==
    /\ rpc[x] = "json" /\ rsubs[x] = {}
    /\ found' = [found EXCEPT ![x] = Nothing]
    /\ rsection' = [rsection EXCEPT ![x] = None]
    /\ Continue(x, "select")
    /\ UNCHANGED <<channelVars, backend, verify, victim, view, rtodo, merged,
                   rsubs, pending, capture, newAbout, missed>>

-----------------------------------------------------------------------------
\* 2. The rows (_sync_db_from_repodata).

SyncSelect(x) ==
    /\ rpc[x] = "select"
    /\ view' = [view EXCEPT ![x] = rows]
    /\ capture' = [capture EXCEPT ![x] =
          {f \in Listed(rows) : about[f] = Unread}]
    /\ Continue(x, "read")
    /\ UNCHANGED <<channelVars, backend, verify, victim, rtodo, found, merged,
                   rsubs, rsection, pending, newAbout, missed>>

\* Every repodata.json; one that cannot be read is skipped like one that
\* does not exist.
SyncRead(x) ==
    /\ rpc[x] = "read"
    /\ \E unreadable \in SUBSET Subdirs :
          /\ found' = [found EXCEPT ![x] =
                [f \in Files |->
                    IF SubdirOf[f] \in unreadable THEN None ELSE repodata[f]]]
          /\ missed' = [missed EXCEPT ![x] = unreadable]
    /\ Continue(x, "sync")
    /\ UNCHANGED <<channelVars, backend, verify, victim, view, rtodo, merged,
                   rsubs, rsection, pending, capture, newAbout>>

Added(x) == {f \in Listed(found[x]) : view[x][f] = None}
Updated(x) ==
    {f \in Listed(found[x]) : view[x][f] \notin {None, found[x][f]}}
Removed(x) == Listed(view[x]) \ Listed(found[x])

\* A mutation of Replaced: a missing hash is another one.
ReplacedByAny(x) ==
    {f \in Updated(x) :
        f \in capture[x] \/ view[x][f].sha # found[x][f].sha}

\* _should_recapture_about: never looked, or one hash became another.
Replaced(x) ==
    {f \in Updated(x) :
        f \in capture[x] \/ ( /\ view[x][f].sha # NoHash
                              /\ found[x][f].sha # NoHash
                              /\ view[x][f].sha # found[x][f].sha )}

\* The artifacts of each package's newest version: rank 0 of version_ranks.
NewestOf(table) ==
    {f \in Listed(table) :
        \A g \in Listed(table) :
            PackageOf[g] = PackageOf[f] => Age[f] <= Age[g]}

\* The flush of the rows that differ: it waits for rows others have locked,
\* and fails on a row inserted or deleted since the select and on rows that
\* break the unique constraint.  Then _capture_about picks the rows to read:
\* replaced or never read, of the newest version of a package that gained or
\* replaced an archive.
SyncFlush(x) ==
    LET changed == [f \in Files |->
                       IF f \in Added(x) \cup Updated(x) THEN found[x][f]
                       ELSE IF f \in Removed(x) THEN None ELSE Same]
        after == [f \in Files |->
                     IF changed[f] = Same THEN rows[f] ELSE changed[f]]
        touched == PackagesOf(Added(x) \cup Replaced(x))
        newest == {f \in NewestOf(after) : PackageOf[f] \in touched}
    IN  /\ rpc[x] = "sync"
        /\ Unlocked(Passes \ {x}, {f \in Files : changed[f] # Same})
        /\ \A f \in Added(x) : rows[f] = None
        /\ \A f \in Updated(x) : rows[f] # None
        /\ Fits(after)
        /\ pending' = [pending EXCEPT ![x] = changed]
        /\ newAbout' = [newAbout EXCEPT ![x] =
              [f \in Files |->
                  IF \/ f \in Added(x) \cup Removed(x)
                     \/ f \in Replaced(x) \cap newest
                  THEN Unread ELSE Same]]
        /\ capture' = [capture EXCEPT ![x] =
              {f \in newest : \/ f \in Added(x) \cup Replaced(x)
                              \/ about[f] = Unread}]
        /\ found' = [found EXCEPT ![x] = Nothing]
        /\ view' = [view EXCEPT ![x] = Nothing]
        /\ Continue(x, "about")
        /\ UNCHANGED <<channelVars, backend, verify, victim, rtodo, merged,
                       rsubs, rsection, missed>>

\* A mutation of CaptureAbout: an archive that is gone counts as read.
CaptureUnchecked(x, f) ==
    /\ rpc[x] = "about" /\ f \in capture[x]
    /\ newAbout' = [newAbout EXCEPT ![x][f] = object[f]]
    /\ capture' = [capture EXCEPT ![x] = @ \ {f}]
    /\ UNCHANGED <<channelVars, backend, rpc, verify, victim, view, rtodo,
                   found, merged, rsubs, rsection, pending, missed>>

\* capture_about of one archive: an archive that cannot be fetched leaves
\* the row unstamped.
CaptureAbout(x, f) ==
    /\ rpc[x] = "about" /\ f \in capture[x]
    /\ \E read \in {Unread} \cup ({object[f]} \ {None}) :
          newAbout' = [newAbout EXCEPT ![x][f] = read]
    /\ capture' = [capture EXCEPT ![x] = @ \ {f}]
    /\ UNCHANGED <<channelVars, backend, rpc, verify, victim, view, rtodo,
                   found, merged, rsubs, rsection, pending, missed>>

CaptureDone(x) ==
    /\ rpc[x] = "about" /\ capture[x] = {}
    /\ Continue(x, "repair")
    /\ UNCHANGED <<channelVars, backend, verify, victim, view, rtodo, found,
                   merged, rsubs, rsection, pending, capture, newAbout, missed>>

-----------------------------------------------------------------------------
\* 3. The repair (_repair_drifted_records).

RepairSelect(x) ==
    /\ rpc[x] = "repair"
    /\ view' = [view EXCEPT ![x] = RowsSeenBy(x)]
    /\ Continue(x, IF Listed(RowsSeenBy(x)) = {} THEN "commit"
                   ELSE "repairList")
    /\ UNCHANGED <<channelVars, backend, verify, victim, rtodo, found, merged,
                   rsubs, rsection, pending, capture, newAbout, missed>>

\* A mutation of RepairList: a row without a hash is not suspected.
ListBySize(x) ==
    /\ rpc[x] = "repairList"
    /\ rtodo' = [rtodo EXCEPT ![x] =
          {f \in Listed(view[x]) \cap Listed(object) :
              verify[x] \/ view[x][f].size # SizeOf[object[f]]}]
    /\ Continue(x, "fetch")
    /\ UNCHANGED <<channelVars, backend, verify, victim, view, found, merged,
                   rsubs, rsection, pending, capture, newAbout, missed>>

\* storage.list: the rows whose archive has to be opened.
RepairList(x) ==
    /\ rpc[x] = "repairList"
    /\ rtodo' = [rtodo EXCEPT ![x] =
          {f \in Listed(view[x]) \cap Listed(object) :
              \/ verify[x]
              \/ view[x][f].sha = NoHash
              \/ view[x][f].size # SizeOf[object[f]]}]
    /\ Continue(x, "fetch")
    /\ UNCHANGED <<channelVars, backend, verify, victim, view, found, merged,
                   rsubs, rsection, pending, capture, newAbout, missed>>

\* An unreadable archive is passed over, one that cannot be fetched aborts
\* the pass.
RepairFetch(x, f) ==
    /\ rpc[x] = "fetch" /\ f \in rtodo[x] /\ object[f] # None
    /\ rtodo' = [rtodo EXCEPT ![x] = @ \ {f}]
    /\ found' = [found EXCEPT ![x][f] =
          IF object[f] = Junk \/ RecordOf(object[f]) = view[x][f]
          THEN None ELSE RecordOf(object[f])]
    /\ UNCHANGED <<channelVars, backend, rpc, verify, victim, view, merged,
                   rsubs, rsection, pending, capture, newAbout, missed>>

RepairFetched(x) ==
    /\ rpc[x] = "fetch" /\ rtodo[x] = {}
    /\ rsubs' = [rsubs EXCEPT ![x] = SubdirsOf(Listed(found[x]))]
    /\ Continue(x, IF Listed(found[x]) = {} THEN "commit" ELSE "load")
    /\ UNCHANGED <<channelVars, backend, verify, victim, view, rtodo, found,
                   merged, rsection, pending, capture, newAbout, missed>>

\* A mutation of RepairLoad: the repaired records replace the index.
LoadNothing(x, s) ==
    /\ rpc[x] = "load" /\ s \in rsubs[x]
    /\ merged' = [merged EXCEPT ![x] =
          [f \in Files |-> IF SubdirOf[f] # s THEN None ELSE found[x][f]]]
    /\ rsection' = [rsection EXCEPT ![x] = s]
    /\ Continue(x, "fixJson")
    /\ UNCHANGED <<channelVars, backend, verify, victim, view, rtodo, found,
                   rsubs, pending, capture, newAbout, missed>>

\* load_repodata_entries of one subdir, and the merge.
RepairLoad(x, s) ==
    /\ rpc[x] = "load" /\ s \in rsubs[x]
    /\ merged' = [merged EXCEPT ![x] =
          [f \in Files |-> IF SubdirOf[f] # s THEN None
                           ELSE IF found[x][f] # None THEN found[x][f]
                           ELSE repodata[f]]]
    /\ rsection' = [rsection EXCEPT ![x] = s]
    /\ Continue(x, "fixJson")
    /\ UNCHANGED <<channelVars, backend, verify, victim, view, rtodo, found,
                   rsubs, pending, capture, newAbout, missed>>

FixJson(x) ==
    /\ rpc[x] = "fixJson"
    /\ PutJson(rsection[x], merged[x])
    /\ Continue(x, "fixZst")
    /\ UNCHANGED <<object, zst, shard, packages, rows, about, backend, verify,
                   victim, view, rtodo, found, merged, rsubs, rsection,
                   pending, capture, newAbout, missed>>

FixZst(x) ==
    /\ rpc[x] = "fixZst"
    /\ PutZst(rsection[x], merged[x])
    /\ Continue(x, "fixShards")
    /\ UNCHANGED <<object, repodata, shard, packages, rows, about, backend,
                   verify, victim, view, rtodo, found, merged, rsubs, rsection,
                   pending, capture, newAbout, missed>>

FixShards(x) ==
    /\ rpc[x] = "fixShards"
    /\ DropShards(rsection[x])
    /\ rsubs' = [rsubs EXCEPT ![x] = @ \ {rsection[x]}]
    /\ Continue(x, IF rsubs[x] = {rsection[x]} THEN "flush" ELSE "load")
    /\ UNCHANGED <<object, repodata, zst, packages, rows, about, backend,
                   verify, victim, view, rtodo, found, merged, rsection,
                   pending, capture, newAbout, missed>>

\* The rows of the repaired records; one that is gone fails the pass.
RepairFlush(x) ==
    LET fixed == Listed(found[x])
    IN  /\ rpc[x] = "flush"
        /\ Unlocked(Passes \ {x}, fixed)
        /\ \A f \in fixed : RowsSeenBy(x)[f] # None
        /\ pending' = [pending EXCEPT ![x] =
              [f \in Files |-> IF f \in fixed THEN found[x][f] ELSE @[f]]]
        /\ Continue(x, "commit")
        /\ UNCHANGED <<channelVars, backend, verify, victim, view, rtodo,
                       found, merged, rsubs, rsection, capture, newAbout,
                       missed>>

-----------------------------------------------------------------------------
\* The end of a pass.  Its session is closed either way.
Close(x, label) ==
    /\ Continue(x, label)
    /\ view' = [view EXCEPT ![x] = Nothing]
    /\ rtodo' = [rtodo EXCEPT ![x] = {}]
    /\ found' = [found EXCEPT ![x] = Nothing]
    /\ merged' = [merged EXCEPT ![x] = Nothing]
    /\ rsubs' = [rsubs EXCEPT ![x] = {}]
    /\ rsection' = [rsection EXCEPT ![x] = None]
    /\ pending' = [pending EXCEPT ![x] = Untouched]
    /\ capture' = [capture EXCEPT ![x] = {}]
    /\ newAbout' = [newAbout EXCEPT ![x] = Untouched]
    /\ UNCHANGED <<backend, verify, victim, missed>>

\* session.commit in _reindex_background, and Package rows for the names the
\* pass had not seen before.
CommitPass(x) ==
    LET new == {f \in Files : pending[x][f] \notin {Same, None}}
    IN  /\ rpc[x] = "commit"
        /\ packages' = packages \cup PackagesOf(new)
        /\ rows' = RowsSeenBy(x)
        /\ about' = [f \in Files |-> IF newAbout[x][f] = Same
                                     THEN about[f] ELSE newAbout[x][f]]
        /\ Close(x, "done")
        /\ UNCHANGED <<object, repodata, zst, shard>>

\* A call to storage or the database raised: an archive or a row the pass
\* had seen is gone, a unique constraint was violated, rows are locked
\* crosswise, the service failed or the process was killed.  The pass ends
\* and nothing of its transaction remains.
FailPass(x) ==
    /\ rpc[x] \in Running
    /\ Close(x, "failed")
    /\ UNCHANGED channelVars

\* The same for a deletion, which is answered 500.
FailDelete(x) ==
    /\ rpc[x] \in Deleting
    /\ Close(x, "failed")
    /\ UNCHANGED channelVars

DeleteStep(x) ==
    \/ \E f \in Files : LookUpVictim(x, f)
    \/ DeleteObject(x) \/ DeleteRow(x) \/ DeleteCommit(x) \/ FailDelete(x)

IndexStep(x) ==
    \/ SelectKnown(x) \/ ListObjects(x)
    \/ \E f \in Files : ScanArchive(x, f)
    \/ ScanDone(x) \/ RattlerScan(x)
    \/ \E s \in Subdirs : IndexJson(x, s)
    \/ IndexZst(x) \/ IndexShards(x) \/ IndexDone(x)

SyncStep(x) ==
    \/ SyncSelect(x) \/ SyncRead(x) \/ SyncFlush(x)
    \/ \E f \in Files : CaptureAbout(x, f)
    \/ CaptureDone(x)

RepairStep(x) ==
    \/ RepairSelect(x) \/ RepairList(x)
    \/ \E f \in Files : RepairFetch(x, f)
    \/ RepairFetched(x)
    \/ \E s \in Subdirs : RepairLoad(x, s)
    \/ FixJson(x) \/ FixZst(x) \/ FixShards(x) \/ RepairFlush(x)

PassStep(x) ==
    Request(x) \/ IndexStep(x) \/ SyncStep(x) \/ RepairStep(x) \/ CommitPass(x)
    \/ FailPass(x)

\* The passes nobody has interfered with after a step of x.
Undisturbed(x) ==
    LET begun == IF rpc'[x] = "begin" THEN {x} ELSE {}
    IN  IF channelVars' = channelVars THEN alone \cup begun
        ELSE (alone \cap {x}) \cup begun

ReindexNext ==
    \/ \E x \in Passes :
          /\ DeleteStep(x) \/ PassStep(x)
          /\ alone' = Undisturbed(x)
    \/ /\ \A x \in Passes : rpc[x] \in Ended \ {"idle"}
       /\ UNCHANGED reindexVars

ReindexInit == DriftedChannel /\ PassInit

ReindexSpec == ReindexInit /\ [][ReindexNext]_reindexVars

-----------------------------------------------------------------------------
ReindexTypeOK ==
    /\ ChannelTypeOK
    /\ backend \in {"rattler", "metadata"}
    /\ rpc \in [Passes -> Running \cup Deleting \cup Ended]
    /\ verify \in [Passes -> BOOLEAN]
    /\ victim \in [Passes -> Files \cup {None}]
    /\ view \in [Passes -> Index]
    /\ rtodo \in [Passes -> SUBSET Files]
    /\ found \in [Passes -> Index]
    /\ merged \in [Passes -> Index]
    /\ rsubs \in [Passes -> SUBSET Subdirs]
    /\ rsection \in [Passes -> Subdirs \cup {None}]
    /\ pending \in [Passes -> [Files -> Record \cup {None, Same}]]
    /\ capture \in [Passes -> SUBSET Files]
    /\ newAbout \in [Passes -> [Files -> Contents \cup {Unread, Same}]]
    /\ missed \in [Passes -> SUBSET Subdirs]
    /\ alone \subseteq Passes

\* A metadata pass leaves the index of a subdir alone in which it found
\* nothing, unless it is noarch.
LeftAlone(f) ==
    /\ backend = "metadata" /\ SubdirOf[f] # Noarch
    /\ \A g \in FilesIn(SubdirOf[f]) : object[g] \in {None, Junk}

\* "Reconcile the channel's index with what is actually in storage"
\* (trigger_reindex).  After a pass nobody interfered with, whatever state
\* the channel was in: every readable archive is listed, in all the indexes
\* and in its row alike, with a hash and with its size, and after "verify"
\* with its own hash; an archive that is gone is listed nowhere and has no
\* row.
PassReconciles ==
    \A x \in alone : rpc[x] = "done" => \A f \in Files :
        SubdirOf[f] \notin missed[x] =>
        /\ object[f] \in Builds =>
              /\ rows[f] \in Record /\ rows[f].sha # NoHash
              /\ rows[f].size = SizeOf[object[f]]
              /\ verify[x] => rows[f] = RecordOf(object[f])
              /\ repodata[f] = rows[f] /\ zst[f] = rows[f]
              /\ ClientRecord(f) = rows[f]
        /\ object[f] = None /\ ~LeftAlone(f) =>
              /\ repodata[f] = None /\ zst[f] = None
              /\ ClientRecord(f) = None /\ rows[f] = None

\* "A storage error says nothing about the package and must not be allowed to
\* quietly delist it" (_entry_from_archive): whether it succeeds or is cut off
\* anywhere, a pass nobody interferes with takes no readable archive out of
\* the repodata.json or the repodata.json.zst that lists it.  With
\* rattler-index it does not replace a record that describes the stored bytes
\* either; rebuilding from the rows does, when only the row is behind and the
\* sizes agree.
PassSpoilsNothing ==
    [][\A x \in alone \cap alone', f \in Files :
          object[f] \in Builds /\ rpc[x] \in Running =>
              /\ repodata[f] # None => repodata'[f] # None
              /\ zst[f] # None => zst'[f] # None
              /\ backend = "rattler" /\ repodata[f] = RecordOf(object[f])
                     => repodata'[f] = repodata[f]]_reindexVars

Steady(x) ==
    /\ \A f \in Files : Consistent(f)
    /\ rtodo[x] = {} /\ capture[x] = {}
    /\ pending[x] = Untouched /\ newAbout[x] = Untouched

\* The about of f is that of the stored archive, and no record contradicts it:
\* a hash that is there is the archive's.
AboutIsRead(f) ==
    /\ object[f] \in Builds /\ about[f] = object[f]
    /\ \A rec \in {rows[f], repodata[f]} :
           rec # None /\ rec.sha \in {NoHash, object[f]}

\* x neither reads nor forgets the about of f.
LeavesAbout(x, f) == f \notin capture[x] /\ newAbout[x][f] = Same

\* "A steady-state reindex of an unchanged channel opens exactly zero archives"
\* (_capture_about), and finds nothing to update (upsert_version): where
\* everything agrees, a routine pass nobody interferes with keeps it so to its
\* end, and has no archive to open and no row to change on its way.  And where
\* something is behind, also with "verify", it does not open an archive for
\* the about its row has already: not even one imported from upstream, which
\* "always looks changed" for want of a hash (_should_recapture_about).
SteadyStateIsFree ==
    [][\A x \in alone \cap alone' : missed'[x] = {} =>
          /\ ~verify[x] /\ Steady(x) => Steady(x)'
          /\ \A f \in Files :
                 AboutIsRead(f) /\ LeavesAbout(x, f) => LeavesAbout(x, f)'
      ]_reindexVars

\* "A background reindex regenerates repodata so clients stop seeing it"
\* (delete_package): once a deletion and its reindex are through, undisturbed,
\* no index lists the file and the row stays deleted.
DeletedIsDelisted ==
    \A x \in alone : rpc[x] = "done" /\ victim[x] # None =>
        LET f == victim[x]
        IN  /\ repodata[f] = None /\ zst[f] = None
            /\ ClientRecord(f) = None /\ rows[f] = None
=============================================================================
