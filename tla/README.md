# conda-server, specified

conda-server hosts conda channels: clients upload package archives into object
storage, the server keeps an index of them that `conda`, `pixi` and `rattler`
read, a database holds users, memberships and one row per package version, and
some channels are mirrors of upstream ones.  This directory holds TLA+
specifications of its protocols, TLC configurations that check them on small
instances, and TLAPS proofs.  Paths below are relative to
`src/src/conda_server/`.  `PROJECT.json` maps the definitions that stand for code to the lines they
model and lists runs, mutations, findings, hazards and theorems.

## The system

| part | state it keeps | operations | talks to |
|---|---|---|---|
| Synchronous publish: `api/channels.py` `upload_packages`, `api/prefix_compat.py` `prefix_upload` | one asyncio lock per channel *per process*; local variables of each request | store each archive, then under the lock load, merge and write the index of each subdir, then upsert the rows, then answer | storage, database |
| Index: `indexer.py` | `repodata.json`, `.zst`, shard index, `PackageVersion` rows and their `about` | reindex pass: rebuild, sync rows, capture about, repair drift, commit | storage, database, rattler-index |
| Deletion: `api/channels.py` `delete_package` | the same | delete object, row, empty package; reindex in the background | storage, database, reindex |
| Object storage: `storage.py` | the objects | put, put_stream, head, list, get, delete | everything above, the mirror |
| Membership and access: `auth.py`, `api/channels.py`, `cli.py` | `channels`, `channel_members` | add, update, remove member; console grant and revoke; create and delete channel | database |
| Mirror cache: `mirror.py`, `api/repodata.py` | cached objects and their `last_modified` | serve from cache, refresh, fall back to the stale copy | upstream channel, storage |
| Jobs: import, about backfill, retention (`api/channels.py`, `backfill.py`, `cleanup.py`, `app.py`) | `ImportJob` rows, an asyncio task each | start, run with bounded workers, sweep at startup, prune | storage, database, upstream |
| Index serving: `api/repodata.py` | none | pick the index file, ETag, signed redirects | storage |
| Channel lifecycle: `api/channels.py` `create_channel`, `delete_channel`, `storage.py` `delete_prefix` | `channels`, prefixes of one storage | create, delete, wipe the prefix in the background | database, storage, uploads on their way |
| About metadata: `package_about.py`, `storage.py` `get_range` | none | read it out of a `.conda` by byte ranges | storage |
| Version ordering: `versions.py`, `api/packages.py` | none | sort and rank the versions of a package, pick the one that speaks for it | rattler |
| Authentication: `api/auth.py`, `auth.py` | users, API tokens, cookie | OIDC login, promotion, token use | OIDC provider |
| Read-only API: search, upstream browsing, package pages, audit, health | none | queries | database |
| CLI, configuration, metrics, migrations, web client, deployment | none of protocol interest | | |

### What is hard about it

* **Interleaving.** Every `await` lets other requests run.  Uploads of one
  process exclude one another between loading and writing back an index, but
  store their archives and write their rows outside that lock; other processes
  have locks of their own; a reindex pass takes none.
* **Partial failure and crashes.** Publishing one package is an object write,
  two index writes, the removal of the shard index and a commit, and any of
  them may raise, or the process die between them.  `put_stream` closes its
  writer in a `finally` clause, so a failed upload leaves a truncated object.
* **Stale decisions.** A pass writes what it scanned earlier; the last-owner
  check counts before it removes; a mirror request falls back to a copy its
  own failed refresh may have replaced.
* **Time.** Mirrored indexes expire; downloads end late and out of order.
* **Reuse.** Prefixes are not unique: a channel may be created where the wipe of
  another still runs, or inside it, and uploads outlive their channel.
* **Guesses.** How far back the directory of an archive reaches is guessed, and
  the guess widened, without ever asking for bytes outside the object.

### What makes each part correct

* Publish: an answer of success means the package is listed, for every reader,
  and stays so; no request loses or reverts another's record; the index
  describes the stored bytes; every request ends and frees the lock.
* Reindex: a pass nobody disturbs reconciles storage, index and rows from any
  past; cut off anywhere, it delists nothing readable; in a steady state it
  does nothing.  A deletion is final.
* Membership: a channel keeps an owner; the three statements of the access rule
  agree.
* Mirror: a bound on the age of a served index; archives are kept; what is
  served is whole.
* Jobs: a completed import accounts for every item and is never changed again,
  and what it reports stored is there.  A backfill stamps a row only with what
  its bytes say, counts what it committed, says so when there may be more to do,
  and reaches every row it can read; no job stays pending for good.
* Lifecycle: a wipe takes all of a deleted channel's bytes and nobody else's.
* About metadata: ranges say what the whole archive says.
* Versions: one order of the rows for every request, ranks that agree with it, and
  the newest row with metadata speaks for the package.

## The modules

```
ChannelState --- Publish ---(implements)--- ChannelIndex
     |              |
     |           Channel --- ChannelProofs      Members --- MembersProofs
     |              |              |            Mirror --- MirrorProofs
     +---------- Reindex --- ReindexProofs      Lifecycle --- LifecycleProofs
                    |              |
                 Import --- ImportProofs        Backfill --- BackfillProofs

           RangedRead, Versions --- AboutProofs   (with Backfill: MCAbout)
```

Each `MC*` module gives the constants of one of them their values for TLC.

**ChannelState** is the persistent state of one channel: the objects, the three
index files, the package and version rows, and the storage operations of
`write_repodata` and `invalidate_sharded_index`.  A file is a
`<subdir>/<filename>` key.  Contents of archives are model values with a length
(two may have the same: the drift check compares lengths), one of which (`Junk`)
no reader accepts.  A record is a hash and a size, what a client verifies a
download with.  `ClientRecord` is the index the fastest clients act on: the
shard index if there is one, else the compressed repodata.

**Publish** is the upload path, one action per awaited call.  `Accept` takes the
request; `HeadKey`, `Put` and `PutFails` store its archives (`mode` says with
which endpoint and whether it may overwrite); `Acquire` is `_repodata_lock`;
`Load`, `WriteJson`, `WriteZst`, `Invalidate` publish one subdir; `Release`
frees the lock; `SelectRows`, `Commit` and `Conflict` are `upsert_version` with
its select, its insert or update and the unique constraints; `Fail` is any call
that raises; `Crash` the death of a process with all its requests and its lock.
The variables `published`, `cutOff` and `overlapped` are histories that only
properties read.

**ChannelIndex** is what publishing promises without saying how: the index
changes only by taking over, in one step, contents one request asked for, each
file at most once per request, and an answer names only files taken over.

**Reindex** is `reindex_channel` and `delete_package`.  A deletion looks its
victim up, removes the object, the row (and the package if it was the last) and
starts a pass.  A pass rebuilds the index, as one external step with
rattler-index (`RattlerScan`) and from metadata otherwise (`SelectKnown`,
`ListObjects`, `ScanArchive`, `ScanDone`, then `IndexJson`, `IndexZst`,
`IndexShards`); syncs the rows with the index it reads back (`SyncSelect`,
`SyncRead`, `SyncFlush`); reads about metadata (`CaptureAbout`); repairs records
whose size differs from the object's, or all of them under `verify`
(`RepairSelect` to `RepairFlush`); commits (`CommitPass`).  `FailPass` and
`FailDelete` are any call that raises.  Row changes are `pending` until the
commit and block other writers of the same rows (`Unlocked`).  The history
`alone` is the set of passes nobody else has changed the channel during;
`missed` the subdirs whose `repodata.json` the sync failed to read, which the
code takes for absent, deleting the rows.  `Drifts` is the set of states a file
may be left in by what happened before.

**Channel** puts Publish and Reindex on the same storage and rows.  Nothing
excludes a pass; the only meeting point is the database (`RowsFree`).  `raced`
is the set of uploads during which a pass or a deletion ran, `lost` the files of
each upload whose archive was deleted, or damaged by a cut-off upload, after it
stored them: `AckedStaysListed` speaks of the other files, whoever replaced their
archives since.

**Import** puts import jobs on top of Reindex.  `Enqueue` commits the job's row,
`Precreate` its package rows; the task sets the row to running (`Begin`),
starts a worker for each item, waits for them (`GatherDone`, `GatherRaises`),
runs the reindex pass of the job (`RunPass`) and writes the terminal status
(`Complete`, `Abort`).  A worker takes the semaphore (`Take`), looks whether the
object is there (`Look`), downloads it (`Fetch`), stores it (`Put`, `PutBreaks`),
inserts the row with its origin and about (`Insert`), and records the outcome
under `progress_lock` (`Note` reads the job's row, `Save` writes it).
`ItemFails` and `SaveFails` are calls that raise inside the worker's `try`, `Lose`
one outside the task's, after which nobody writes the row.  `Die` ends the
process of one job, `Sweep` is the start of any process, beside the ones that
run, and `Prune` deletes a terminal row.  A payload is a function from positions
to files, so that it may name a file twice.  The history `beside` is the set of
jobs during which another one ran.

**Members** is one channel's membership.  A request runs in a transaction at
READ COMMITTED: it may load a row, may count the owners, and writes; other
requests commit in between.  A write and its commit are one step, since a
conflicting write waits for the commit.  An UPDATE of a row that is gone
raises; a DELETE of one only warns.  The console's grant and revoke check
nothing.  `Abort` is any refusal, failure or crash before the write.

**Mirror** is one subdir of a mirror channel.  A request checks storage (`Head`),
and serves what is there if it is an archive or a fresh index; else it opens
the upstream file (`Open`), whose edition is fixed then, and stores it when the
download ends (`Download`) or what came of it when it breaks off (`BreakOff`);
`AfterFailure` is the stale fallback.  Between `Head` and `Serve` others may
overwrite the object.  The clock counts seconds; a download takes at most `Slow`
of them, the wait before it and before the answer is unbounded.  HEAD requests
write nothing and are left out.  The mirror columns of a channel are written
when it is created only, so the cache time is a constant.  The age of an object
counts from the end of its upload (a store that dates it earlier only expires it
sooner), by a clock the store and the server share.

**Backfill** is `backfill_about_batch` and its three callers: the job an owner
asks for (`Ask`, `Insert`, then `Begin`, `Report`, `Finish`, `Abort` of its task),
the sweep of each process's cleanup loop (`Wake`) and the console.  A pass selects
the first rows without a stamp (`Select`), reads their archives a chunk at a time,
by ranges (`Open`, `ReadRanges`) or whole (`Spool`), and commits each chunk
(`Commit`), which a row deleted meanwhile may spoil (`CommitRaises`).  Around it
archives are replaced (`Put`, then `Upsert`), packages deleted (`Remove`, `Erase`)
and added, the channel deleted, and processes die and start; a start fails the
rows of jobs others are running.  A `Mark` is what a pass holds of a row it has
not finished reading: `torn` is an archive that was replaced between the head and
the ranges.  The histories are `kept` (rows of committed chunks), `late` (inserted
since the selection), `outrun` (replaced while a pass had the archive, if the
pass still had the older edition when the upload committed the row: `Behind`) and `beside` (jobs started although another was on its way).  A row's stamp
(`about_fetched_at`) and its metadata are one value: what was read, `Blank` for
nothing, `Unread` for no stamp.

**RangedRead** is `read_conda_about_ranged`: `FetchTail`, `Locate` (a miss widens the
window, up to its limit), `FetchMember`, `Extract`, and `RangeFails` for a range
that does not come.  An archive is its layout, the lengths and offsets of its
parts; `FirstByteRead` says what `ZipFile` touches when it opens one (external).
A directory that points before the beginning of the object is left out.

**Versions** is a package page: `Compare` is `compare_versions`, `SortVersions` the
chain of stable sorts, `VersionRanks` and `AboutSource` as in the code, and `Show` a
request whose rows the database returns in any order.  rattler's order of the
versions it can parse is a constant.

**Lifecycle** is several channels over prefixes of one storage: `Create` checks the
name and not the prefix, `Delete` commits and leaves a background task that lists
the prefix (`List`, `ListPage`, `ListEnds`) and deletes what it found, key by key
(`DeleteKey`, `SkipKey` for one that fails).  A listing returns what was there all
along and may or may not return what came since.  An upload is three steps here,
a reindex one; how they interleave within a channel is the matter of Publish and
Channel.  `Inside` is what a prefix with its slash covers.  The histories are
`spared` (a call of the wipe failed), `outlived` (uploads on their way when their
channel was deleted) and `haunted`: channels that met another one under their
prefix, its wipe, a late upload to it or what it left.

## The runs

| run | module, cfg | shows |
|---|---|---|
| `publish` | MCPublish, Publish.cfg | `AckedIsListed`, `IndexDescribesBytes`, `OnePublisher`, `EveryRequestEnds`, and that Publish implements ChannelIndex |
| `reindex` | MCReindex, Reindex.cfg | `PassReconciles`, `PassSpoilsNothing`, `SteadyStateIsFree` |
| `reindex_delete` | MCReindex, ReindexDelete.cfg | *violation* of `DeletedIsDelisted` |
| `channel` | MCChannel, Channel.cfg | `PassReconciles`, `AckedStaysListed` with uploads in between |
| `channel_acked` | MCChannel, ChannelAcked.cfg | *violation* of `ReindexKeepsAcked` |
| `import` | MCImport, Import.cfg | `EveryItemCounted`, `ImportedIsKept`, `CompletedIsFinal` |
| `members` | MCMembers, Members.cfg | `NoLoneOrphaning`, `AccessRulesAgree` |
| `members_owner` | MCMembers, MembersOwner.cfg | *violation* of `LastOwnerKept` |
| `mirror` | MCMirror, Mirror.cfg | `StaleWithinBound`, `RefreshedIsCurrent`, `CachedForGood` |
| `mirror_usable` | MCMirror, MirrorUsable.cfg | *violation* of `UsableCopy` |
| `about` | MCAbout, About.cfg | Backfill: `AboutDescribesBytes`, `CountsAreKept`, `SilenceMeansDone`, `OneJobAtATime`, `EveryRowIsReached`, `EveryJobEnds`; RangedRead: `RangedAgrees`, `RequestsInside`, `EveryReadEnds`; Versions: `RanksMatchOrder`, `AboutFromNewest`, `PagesAgree` |
| `lifecycle` | MCLifecycle, Lifecycle.cfg | `OwnPrefixIsKept`, `WipeIsThorough`, `BytesGoInTheEnd` |

Modules with a protocol also have a type invariant.  All runs check deadlock; where
everything may have ended (all requests answered, all passes through) the
specification stutters explicitly.

### Bounds, and why they are enough

* `publish`: two requests, three files in two subdirs and two packages, two
  contents, an empty or full past with and without shard index, one process.
  Two requests give every pairwise race; two files of a subdir show one
  request dropping the other's record; two subdirs show a batch that fails
  between them.  The proofs cover any number of requests and files.
* `reindex`: one pass or one deletion with its pass, three files (two share a
  subdir, two a package), three contents of which two have one length, and
  every combination of eleven pasts per file on both kinds of backend.  The
  pasts are what uploads, imports and deletions cut off at each step leave.
* `channel`: an upload (a rebuild, or a batch of two), a pass or deletion, two
  files, one process.  One of each is the smallest race there is.
* `import`: on an empty channel of either kind of backend, one job of three items
  (a file twice) with two workers at a time (`Width`), or two jobs that want the
  same file from different upstreams and run one after the other or, with
  rattler, beside one another, though not both in their passes.  What the kind of
  backend tells apart is said of undisturbed jobs only.  Two workers are enough to lose an outcome, three items
  for one to wait; the pass of a job is checked by itself in `reindex`.
* `members`: two requests at a time, again and again, and three users, one an
  administrator.  Two owners are enough for both to go.
* `mirror`: two requests at a time, again and again, a cache time of two seconds
  and downloads of up to one, four seconds (`MaxTime`), one replacement
  upstream (`MaxEdition`).  Four seconds let a copy be written from an old edition,
  expire and be refreshed; the bound is exceeded with an off-by-one in the
  freshness test.

* `about`: one behaviour is of one of the three modules, the others rest.
  *Backfill*: three rows (one read by ranges, one whole, one oversized), chunks of
  two, and by the setting of the loop (`MCScope`) either jobs without a loop, two
  of them only on two rows of a channel whose archives stay; or the loop and a job
  or the console on two rows; or the loop alone with a limit of two.  One failing
  call, death or change around them, two for the loop alone.  A limit of one puts
  a row behind an unreadable one, two rows and a limit of two make
  `pending = limit`; a chunk of two is the smallest that is lost after one of its
  rows was counted.  *RangedRead*: windows of 1, 4 and 16 bytes and some 200
  layouts with the directory and the member before, at and behind each of them.
  *Versions*: up to five of seven rows with two spellings of one version, an older
  one and two that do not parse, in every order.
* `lifecycle`: a channel, and with it one created again under its prefix, one
  inside its prefix or one whose prefix only begins with the same letters, two
  files, an upload to each, pages of two keys, one failing call.  The neighbour is
  there from the start and stays, and the channel inside sees no late upload to
  the outer one (`MCScope`): both are in the proof.

Symmetry is used only for requests, and for users without a server role.

### Fairness

* `publish`: weak fairness of each request's steps after it was accepted, justified
  by the event loop, which resumes every task whose call has returned (a failure
  is a return, too).  It is enough for the lock as well: a request waits for it
  once, and each other one takes it once and leaves.
* `about`: weak fairness of what a job, a loop or a pass does next when nothing fails
  (`Proceed`), by the same argument; of the loop coming round, which is a sleep in a
  `while True`; of a dead process being started again, which is the deployment's
  restart policy; and of the steps of one ranged read.
* `lifecycle`: weak fairness of the steps of a wipe that was started, and of uploads.

Nothing is assumed of crashes and failing calls, nor of a lost task: a job whose
call outside its `try` raised, and a wipe whose process died, are resumed by nobody.

## Findings

Each is a violation run and quotes the sentence it contradicts in `PROJECT.json`.

1. `reindex_delete`: on backends indexed from metadata, a subdir whose last package
   was deleted keeps its old `repodata.json`, and the sync recreates the row.
2. `channel_acked`: a pass that scanned before an upload and writes after it takes
   an acknowledged package out of the index.
3. `members_owner`: two requests that each count two owners leave none.
4. `mirror_usable`: a transfer that breaks off replaces the cached index with its
   first part, which is then served as the fallback and as fresh.

Weaker observations, visible in the models without a run:

* Two uploads of one filename store outside the lock and publish inside it, so that
  bytes and record may come from different requests without any crash, although
  the upload path "does not create this state" (`src/ARCHITECTURE.md:106`).
  `overlapped` keeps these files out of `IndexDescribesBytes`.
* The sync takes an unreadable `repodata.json` for an absent one and deletes its
  rows (`missed`).
* On metadata backends a rebuild of the same length whose row lags has its right
  record reverted, hence the last clause of `PassSpoilsNothing` is about rattler
  backends.
* Concurrent first uploads of one package select, then insert; the second breaks
  the unique constraint and is answered 500 with its index written
  (`Publish!Conflict`).
* An import that breaks off while it stores an archive leaves a truncated object,
  which the retry counts as already present (`PutBreaks`, then `Look`).
* Two imports of one file from different upstreams may leave the bytes of one
  and the row and origin of the other; a file asked for twice in one payload may
  be overwritten after it was counted as stored.  `ImportedIsKept` leaves both
  out.
* The sweep of another pod fails a live job, whose runner may complete it later,
  so a client that stopped polling at "failed" misses its end: only `completed` is
  final.  A job whose task raises outside its `try` stays pending or running
  until the next start (`Lose`).
* An item whose row could not be committed is counted as failed although the
  `status` in its result still says stored (the entry is filled in before the
  commit); the model's outcome is the count.
* Backfill.  As many rows as a sweep selects, if their archives are gone for good,
  keep every row behind them from being reached (`Reachable` counts them), though
  the trickle is there "so a deployment can heal itself" (`cleanup.py:14`).  The job,
  the loop and the console can read the same rows at once: the stamp keeps them
  from repeating finished work, not from doing it twice (`cleanup.py:17`).
  `hit_limit` is set when the limit was just enough, too.  An archive that is
  replaced, and its row committed, while a pass has it open may keep older metadata
  under a current stamp (`outrun`).  A
  row deleted before the commit may fail the pass and lose its chunk.
* Lifecycle.  A wipe may take acknowledged packages of a channel created under the
  same prefix, or inside it, since the deletion; what uploads that outlived the old
  channel leave surfaces in the new one, through its reindex or the old index
  (`haunted`).  Nobody resumes a wipe whose process died.
* Versions.  Rows that differ in the spelling of their version only keep the order
  of the database, although the order is to be "stable across requests instead of
  following whatever the DB happened to return" (`versions.py:83`).

So these races are in the models and no property catches them, as the code has
them: two uploads of one file (`overlapped`), two jobs or items for one file
(`beside`, duplicates), a second replica (`OneReplica` is assumed), the answer to a
collision in the database, the overwritten status of a failed job.  Others are
caught in part: requests that both saw no backfill job, mirrored indexes whose older
edition ends last (their age is bounded), channels under or inside a wiped prefix,
archives replaced and committed under a reading pass.

## The proofs

| theorem | for every | states |
|---|---|---|
| `ChannelProofs!TypeCorrect`, `TypeSafe` | requests, processes, files | the types and the bookkeeping of a request |
| `ChannelProofs!LockHeld` | | a request in the section holds its process's lock |
| `ChannelProofs!MutualExclusion`, `AckedListed`, `BytesDescribed`, `Refinement` | requests, files, with one process | `OnePublisher`, `AckedIsListed`, `IndexDescribesBytes`, `ImplementsChannelIndex` |
| `ReindexProofs!ReindexTyped`, `PassesReconcile`, `PassesSpoilNothing`, `SteadyPassesAreFree` | passes, deletions, files, pasts, both backends | `ReindexTypeOK`, `PassReconciles`, `PassSpoilsNothing`, `SteadyStateIsFree` |
| `ChannelProofs!ChannelReconciles` | uploads, passes, processes, crashes | `PassReconciles`, with uploads in between |
| `ChannelProofs!AckedKept` | the same, with one process | `AckedStaysListed` |
| `ImportProofs!ImportTyped`, `ItemsCounted`, `CompletedFinal`, `ImportsAreKept` | jobs, items, workers, files | `ImportTypeOK`, `EveryItemCounted`, `CompletedIsFinal`, `ImportedIsKept` |
| `MembersProofs!MembersTyped`, `LastOwnerGuarded`, `AccessAgreed` | users, requests | `MembersTypeOK`, `NoLoneOrphaning`, `AccessRulesAgree` |
| `MirrorProofs!MirrorTyped`, `ServedWithinBound`, `ServedCurrent`, `ArchivesKept` | requests, archives, cache time, bound of a download | `MirrorTypeOK`, `StaleWithinBound`, `RefreshedIsCurrent`, `CachedForGood` |
| `BackfillProofs!BackfillTyped`, `StampsAreTrue`, `CountsCommitted`, `SilenceIsTrue`, `JobsOneByOne` | rows, jobs, processes, limits, chunks | `BackfillTypeOK`, `AboutDescribesBytes`, `CountsAreKept`, `SilenceMeansDone`, `OneJobAtATime` |
| `AboutProofs!RangesInside`, `RangesAgree` | archives, windows | `RequestsInside`, `RangedAgrees` |
| `AboutProofs!AboutIsNewest`, `OneRowOrder`, `RanksAreOrder` | rows, orders of versions | `AboutFromNewest`, `PagesAgree`, `RanksMatchOrder` |
| `LifecycleProofs!LifecycleTyped`, `WipedThoroughly`, `OwnPrefixKept` | channels, prefixes, uploads | `LifecycleTypeOK`, `WipeIsThorough`, `OwnPrefixIsKept` |

The assumptions are the named ASSUMEs of the modules, which TLC evaluates, and
`OneReplica` where the table says so: with two processes the two locks exclude
nobody, and those theorems are false.

*Publish.*  `AckedIsListed` is not inductive.  The invariant adds: the bookkeeping
of each request (it publishes only what it stored, and its published files are
those of the subdirs it is done with); `LockInv`, that the lock's owner and the
requests in the section are the same; `OnePublisher`; `Fresh`, that what the
request in the section has read is what `repodata.json` still holds, outside
its own files; and `Listed`, that published files are in all the indexes.
Mutual exclusion makes `Fresh` inductive, `Fresh` makes the write-back keep
`Listed`, and both make the step a `Publish` step of ChannelIndex.  `BytesDescribed`
adds `Settled`: of a file that was neither left half way nor stored by two requests
at once, at most one request is on its way with it, and as far as that one has
come (`Zipped`, `Dropped`) the indexes hold the record of the bytes it stored; once
nobody is, all of them do.

*Reindex.*  `PassReconciles` speaks of the last state of a pass; the invariant
`Course` follows each undisturbed pass there, a predicate for each of its phases
(`OnCourse`).  `Rebuilding`: what the scan has collected of a file is a record of
its archive (`Collected`), and the subdirs already written say it.  `Rebuilt`:
from then on `repodata.json` lists what is readable and nothing that is gone
(`Named`), and the other index files agree with it (`Agreed`) but in a subdir under
repair.  `Syncing`: the rows, as the pass's own transaction sees them
(`RowsSeenBy`), are what it read.  `Repairing`: a record not looked at yet is
still to be looked at, one that was is right (`Right`) or has its correction
waiting (`Want`).  Each of these is made of facts about the channel, so that they
hold only while nobody else changes it: this is `alone`.  One lemma per phase
takes a step of the pass through; `LeftOnCourse` is everybody else's step.
`PassSpoilsNothing` and `SteadyStateIsFree` are read off the same invariant: of a
step's four kinds of index writes each writes something that `OnCourse` says
lists the file, and the sync compares the rows with the index as both are
(`PassLeavesAbout`), so that a record without a hash, such as an import leaves,
makes no pass open the archive for an about the row has.

*Channel.*  The lemmas about one step of a request and one step of a pass are
cited again: `Sound` is the type invariant and the lock of uploads with the
`Course` of passes, and each side's steps keep the other's part since a change of
the channel empties `alone`.  `AckedStaysListed` needs to know what everybody
who may still write an index is about to write.  `Quiet` says that no pass runs
beside an upload that is not `raced`, so that every pass that runs after its
answer began after its archive was there; `Merging`, that a request has its own
files in what it writes back; `Kept`, that as far as a request has come each
index lists its files, every request about to write back a copy read it
afterwards (`InMerges`, by the lock), and every pass has the file in what it
collected, or has its archive still to open (`InPass`).

*Members.*  `StillSafe` says what a decision is worth when it is carried out: as
long as nobody overtook the request, there is an owner besides the one it
takes away, or none to lose.

*Mirror.*  The argument follows a copy: what a download writes was current at
most `Slow` ago (`Streams`), so a stored copy is no older than its
`last_modified` less `Slow` (`StoredAge`), and what is fresh enough to be taken
stays recent enough until it is served, since whatever replaces it comes from
a download too (`Serving`).  For `RefreshedIsCurrent`, `Sent` says that what a
request was sent is as recent as its beginning, and `Kept` that something as
recent stays stored, whatever downloads overlap and however they end, unless one of
an edition older than upstream's at the request's beginning ends (`crossed`).
`Fills`, that only a request that found
no copy downloads an archive, is all `CachedForGood` needs.

*Import.*  `EveryItemCounted` needs to know where the workers are: `JobInv` says,
for each job, that one worker at a time is between reading and writing the row
(`Serial`), that the task is past the gather only when all workers have returned
and that a completed row belongs to an ended task (`Phases`), and that exactly
the workers that returned are in the results, and what the lock's holder has
read is what the row still says (`Recording`).  The sweep and the prune change
the row under all of this: the sweep spares completed rows and keeps results,
and a pruned row makes the claim empty.  The actions of a pass are not opened
for this: they leave the rows of jobs alone (`RunPass`).

`ImportedIsKept` needs all of them.  `Held(f, b, V, I)` says that everything
the channel and its passes know of a file, the rows, the indexes and what each
pass has read and not written yet (`PassHolds`), is in `V` or `I`.  It is used
three times: with nothing, for a file that has no archive (`NoGhosts`), so that a
worker that found none stores where nothing is known; with the records of the
stored bytes, with the hash or without, from the commit of the item's row on
(`Items`); and with the hash only, once the job's own pass is done.  A pass keeps
any of the three, by one lemma for each of its phases.  The rest is about who
could spoil it: nobody else is about to store the file (`Stored`), jobs that run
at once are `beside` each other (`Apart`), and what a job, its workers and its pass
may do at the same time (`Stations`).  A failed read of an index breaks all this,
since the sync then deletes the rows of archives that stay, hence the condition on
`missed`.

*Backfill.* `BackfillInv` is the conjunction of seven parts, each with a lemma that
every step keeps it: the types; `WithinWidth`, that the semaphore bounds the open
archives; `Together`, that of two jobs at work, or one at work and one about to
insert its row, one is in `beside`; `Described`, that what a pass holds of a row
(`Known`) is what is stored, unless it was outrun; `Counted` and `Booked`, that a
job counts each row it selected once, that what it counts as read is committed or in
its chunk, and that its row says no more; and `Exhaustive`, that a selection that
did not fill the limit took every unstamped row, so that each one still unstamped is
ahead, failed or late.

*RangedRead.*  `Reading` says what a reading has gone through, by where it is: one that
goes on has not failed, one at the member has found it, and one that is over
without a failure says what the file says, or gave up on a directory farther back
than the largest window.

*Versions.*  `StableSortSorts`: counting for each element those that go before it gives
different places to different elements, hence (places and elements being equally
many) each place once; so a stable sort is a permutation, ordered by the new key,
and within it as before.  Three of them compose (`SortVersionsSorts`).
`OneRowOrder` compares two such orders of the same rows: if they differed in a
place, more rows would have to fit before it than there are.  `RanksAreOrder`
takes the loop over the rows apart: the recursive function has the values of the
loop's turns (`RanksAreTurns`), so the rank goes up by one where the version
differs from the one before (`RanksStep`).  Claims about every turn are proved
by a least counterexample, an element no smaller one of which fails, since
induction over a predicate is out of the provers' reach.

*Lifecycle.*  `InReach` follows the bytes of a deleted channel that no late upload
stored: they are due in the listing, or found.  `Alone` says that nobody's life,
wipe or late upload reaches an untouched channel, one that is live and not
haunted, so what a wipe holds or an upload puts is never under its prefix, and
`Underway` that what its own uploads did so far is still there.

Model-checked only: liveness (`EveryRequestEnds`, `EveryRowIsReached`,
`EveryJobEnds`, `EveryReadEnds`, `BytesGoInTheEnd`), which the prover's backends do
not handle.  Every invariant and every action property of a passing run is
proved.  The four violations are counterexamples and need no proof.

## Not modelled, and the plan

In order:

1. **Questions about existing models**: `force=false` between its head and its put; a
   sync that fails to read an index; a retried import over a truncated object.
2. **Pure modules**: the two upload caps, ETags and their granularity of a second.
3. **Sessions**: expiry and use of API tokens, promotion of the first administrator.
4. **Upstream views**: the mirror's package listing and the shards it caches in
   memory (`mirror_listing.py`, `api/upstream.py`).
5. **Proofs**: that a pass implements one abstract step of reconciliation where
   nobody interferes, and the properties of (1) and (2) as they come.

Left out for good: archive parsing, rattler's comparison and indexing (external,
modelled by what the code relies on), signing and client construction in
`storage.py`, OIDC, the read-only API, logging, metrics, migrations, the web
client and the deployment: I/O or queries without protocol state.
