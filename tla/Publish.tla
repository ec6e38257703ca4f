------------------------------ MODULE Publish ------------------------------
(***************************************************************************)
(* The synchronous upload path: POST /channels/{name}/packages and         *)
(* rattler-build's POST /upload/{name}, run by the server processes of a   *)
(* deployment, each with an asyncio lock of its own per channel.  One      *)
(* action per awaited call: other requests run while this one waits.       *)
(*                                                                         *)
(* A request stores its archives one by one, takes its process's lock,     *)
(* merges their records into repodata.json, its zstd sibling and the shard *)
(* index of each subdir, releases the lock, writes the rows and answers.   *)
(***************************************************************************)
EXTENDS ChannelState

CONSTANTS
    Uploads,    \* upload requests
    Replicas,   \* server processes (pods)
    ReplicaOf,  \* the process that serves each request
    Batches,    \* the contents a request may carry, file by file
    NoOne       \* the lock's owner when it is free

ASSUME ReplicaAssumption ==
    ReplicaOf \in [Uploads -> Replicas] /\ NoOne \notin Uploads
ASSUME BatchAssumption == Batches \subseteq [Files -> Builds \cup {None}]

VARIABLES
    pc,         \* where each request stands
    batch,      \* the contents it carries, None for a file it lacks
    mode,       \* the endpoint: "batch" (upload_packages), or "new" and
                \* "force" (prefix_upload with force=false and true)
    todo,       \* files not looked at yet
    current,    \* the file between storage.head and put_stream
    stored,     \* files whose archive reached storage
    subs,       \* subdirs whose index it has yet to publish
    section,    \* the subdir it is publishing
    entries,    \* that subdir's records as it read and merged them
    rowSeen,    \* files for which upsert_version's select found a row
    pkgSeen,    \* packages for which it found one
    lock,       \* owner of each process's _repodata_lock
    published,  \* history: files whose record each request wrote to
                \* repodata.json
    cutOff,     \* history: files whose request ended, or failed to store
                \* them, before it had published everything
    overlapped  \* history: files stored by two requests in flight at once

uploadVars == <<pc, batch, mode, todo, current, stored, subs, section,
                entries, rowSeen, pkgSeen, lock>>
vars == <<channelVars, uploadVars, published, cutOff, overlapped>>

Locked   == {"load", "json", "zst", "shard"}
InFlight == {"store", "put", "lock", "select", "commit"} \cup Locked
Finished == {"acked", "rejected", "failed", "conflict", "dead"}
Modes    == {"batch", "new", "force"}
Control  == {"idle"} \cup InFlight \cup Finished

NoBatch == [f \in Files |-> None]
NoEntries == [f \in Files |-> None]

FilesOf(b) == {f \in Files : b[f] # None}

Wanted(u) == FilesOf(batch[u])

\* Another request has stored f and has not finished with it.
StoredByOther(u, f) ==
    \E v \in Uploads \ {u} : f \in stored[v] /\ pc[v] \in InFlight

Init ==
    /\ ChannelInit
    /\ pc = [u \in Uploads |-> "idle"]
    /\ batch = [u \in Uploads |-> NoBatch]
    /\ mode = [u \in Uploads |-> "batch"]
    /\ todo = [u \in Uploads |-> {}]
    /\ current = [u \in Uploads |-> None]
    /\ stored = [u \in Uploads |-> {}]
    /\ subs = [u \in Uploads |-> {}]
    /\ section = [u \in Uploads |-> None]
    /\ entries = [u \in Uploads |-> NoEntries]
    /\ rowSeen = [u \in Uploads |-> {}]
    /\ pkgSeen = [u \in Uploads |-> {}]
    /\ lock = [r \in Replicas |-> NoOne]
    /\ published = [u \in Uploads |-> {}]
    /\ cutOff = {}
    /\ overlapped = {}

Goto(u, label) == pc' = [pc EXCEPT ![u] = label]

\* A mutation of Release: the lock is left behind.
KeepLock(u) == UNCHANGED lock

\* Leaving the "async with" block: nothing is awaited in between.
Release(u) ==
    lock' = [r \in Replicas |-> IF lock[r] = u THEN NoOne ELSE lock[r]]

-----------------------------------------------------------------------------
\* Storing the archives (_store_one_package).

\* A request passes the checks on its channel and its total size.  The
\* endpoint of rattler-build carries one file and overwrites only on demand.
Accept(u) ==
    /\ pc[u] = "idle"
    /\ \E b \in Batches, m \in Modes :
          /\ FilesOf(b) # {}
          /\ m = "batch" \/ (\E f \in Files : FilesOf(b) = {f})
          /\ batch' = [batch EXCEPT ![u] = b]
          /\ mode' = [mode EXCEPT ![u] = m]
          /\ todo' = [todo EXCEPT ![u] = FilesOf(b)]
    /\ Goto(u, "store")
    /\ UNCHANGED <<channelVars, current, stored, subs, section, entries,
                   rowSeen, pkgSeen, lock, published, cutOff, overlapped>>

\* The archive is refused before storage is touched: name, size caps,
\* declared digest, unreadable, unknown subdir.  A batch reports the error
\* for the file and goes on; the single-file endpoint answers 422.
Refuse(u, f) ==
    /\ pc[u] = "store" /\ f \in todo[u]
    /\ todo' = [todo EXCEPT ![u] = @ \ {f}]
    /\ Goto(u, IF mode[u] = "batch" THEN "store" ELSE "rejected")
    /\ UNCHANGED <<channelVars, batch, mode, current, stored, subs, section,
                   entries, rowSeen, pkgSeen, lock, published, cutOff,
                   overlapped>>

\* storage.head(key): an archive is there already and may not be replaced.
Exists(u, f) ==
    /\ pc[u] = "store" /\ f \in todo[u]
    /\ mode[u] = "new" /\ object[f] # None
    /\ Goto(u, "rejected")
    /\ UNCHANGED <<channelVars, batch, mode, todo, current, stored, subs,
                   section, entries, rowSeen, pkgSeen, lock, published, cutOff,
                   overlapped>>

\* storage.head(key): the way is free, or the archive is to be replaced.
HeadKey(u, f) ==
    /\ pc[u] = "store" /\ f \in todo[u]
    /\ mode[u] # "new" \/ object[f] = None
    /\ current' = [current EXCEPT ![u] = f]
    /\ Goto(u, "put")
    /\ UNCHANGED <<channelVars, batch, mode, todo, stored, subs, section,
                   entries, rowSeen, pkgSeen, lock, published, cutOff,
                   overlapped>>

\* put_stream stored every byte.
Put(u) ==
    /\ pc[u] = "put"
    /\ LET f == current[u] IN
          /\ object' = [object EXCEPT ![f] = batch[u][f]]
          /\ stored' = [stored EXCEPT ![u] = @ \cup {f}]
          /\ todo' = [todo EXCEPT ![u] = @ \ {f}]
          /\ overlapped' =
                IF StoredByOther(u, f) THEN overlapped \cup {f} ELSE overlapped
    /\ current' = [current EXCEPT ![u] = None]
    /\ Goto(u, "store")
    /\ UNCHANGED <<repodata, zst, shard, packages, rows, about, batch, mode,
                   subs, section, entries, rowSeen, pkgSeen, lock, published,
                   cutOff>>

\* put_stream raised, or stored fewer bytes than were spooled.  Its finally
\* clause closes the writer either way, so the object may be the old one,
\* a truncated one or even the whole new one.
PutFails(u) ==
    /\ pc[u] = "put"
    /\ LET f == current[u] IN
          /\ \E c \in {object[f], Junk, batch[u][f]} :
                object' = [object EXCEPT ![f] = c]
          /\ todo' = [todo EXCEPT ![u] = @ \ {f}]
          /\ cutOff' = cutOff \cup {f}
    /\ current' = [current EXCEPT ![u] = None]
    /\ Goto(u, IF mode[u] = "batch" THEN "store" ELSE "rejected")
    /\ UNCHANGED <<repodata, zst, shard, packages, rows, about, batch, mode,
                   stored, subs, section, entries, rowSeen, pkgSeen, lock,
                   published, overlapped>>

\* A mutation of StoreDone: the index is left to the next reindex.
StoreDoneUnlisted(u) ==
    /\ pc[u] = "store" /\ todo[u] = {}
    /\ Goto(u, IF stored[u] = {} THEN "acked" ELSE "select")
    /\ UNCHANGED <<channelVars, batch, mode, todo, current, stored, subs,
                   section, entries, rowSeen, pkgSeen, lock, published, cutOff,
                   overlapped>>

\* Every file has been dealt with.  A batch none of whose files was stored
\* is answered with the errors alone.
StoreDone(u) ==
    /\ pc[u] = "store" /\ todo[u] = {}
    /\ Goto(u, IF stored[u] = {} THEN "acked" ELSE "lock")
    /\ UNCHANGED <<channelVars, batch, mode, todo, current, stored, subs,
                   section, entries, rowSeen, pkgSeen, lock, published, cutOff,
                   overlapped>>

-----------------------------------------------------------------------------
\* Publishing them (_publish_uploads).

\* A mutation of Acquire: the lock is not waited for.
AcquireUnguarded(u) ==
    /\ pc[u] = "lock"
    /\ lock' = [lock EXCEPT ![ReplicaOf[u]] = u]
    /\ subs' = [subs EXCEPT ![u] = {SubdirOf[f] : f \in stored[u]}]
    /\ Goto(u, "load")
    /\ UNCHANGED <<channelVars, batch, mode, todo, current, stored, section,
                   entries, rowSeen, pkgSeen, published, cutOff, overlapped>>

Acquire(u) ==
    /\ pc[u] = "lock"
    /\ lock[ReplicaOf[u]] = NoOne
    /\ lock' = [lock EXCEPT ![ReplicaOf[u]] = u]
    /\ subs' = [subs EXCEPT ![u] = {SubdirOf[f] : f \in stored[u]}]
    /\ Goto(u, "load")
    /\ UNCHANGED <<channelVars, batch, mode, todo, current, stored, section,
                   entries, rowSeen, pkgSeen, published, cutOff, overlapped>>

\* A mutation of Load: a record that exists already is kept.
LoadKeepingOld(u, s) ==
    /\ pc[u] = "load" /\ s \in subs[u]
    /\ section' = [section EXCEPT ![u] = s]
    /\ entries' = [entries EXCEPT ![u] =
          [f \in Files |->
              IF SubdirOf[f] # s THEN None
              ELSE IF f \in stored[u] /\ repodata[f] = None
              THEN RecordOf(batch[u][f])
              ELSE repodata[f]]]
    /\ Goto(u, "json")
    /\ UNCHANGED <<channelVars, batch, mode, todo, current, stored, subs,
                   rowSeen, pkgSeen, lock, published, cutOff, overlapped>>

\* load_repodata_entries, then the merge into the loaded mapping.
Load(u, s) ==
    /\ pc[u] = "load" /\ s \in subs[u]
    /\ section' = [section EXCEPT ![u] = s]
    /\ entries' = [entries EXCEPT ![u] =
          [f \in Files |->
              IF SubdirOf[f] # s THEN None
              ELSE IF f \in stored[u] THEN RecordOf(batch[u][f])
              ELSE repodata[f]]]
    /\ Goto(u, "json")
    /\ UNCHANGED <<channelVars, batch, mode, todo, current, stored, subs,
                   rowSeen, pkgSeen, lock, published, cutOff, overlapped>>

WriteJson(u) ==
    /\ pc[u] = "json"
    /\ PutJson(section[u], entries[u])
    /\ published' = [published EXCEPT ![u] =
          @ \cup {f \in stored[u] : SubdirOf[f] = section[u]}]
    /\ Goto(u, "zst")
    /\ UNCHANGED <<object, zst, shard, packages, rows, about, batch, mode,
                   todo, current, stored, subs, section, entries, rowSeen,
                   pkgSeen, lock, cutOff, overlapped>>

WriteZst(u) ==
    /\ pc[u] = "zst"
    /\ PutZst(section[u], entries[u])
    /\ Goto(u, "shard")
    /\ UNCHANGED <<object, repodata, shard, packages, rows, about, batch, mode,
                   todo, current, stored, subs, section, entries, rowSeen,
                   pkgSeen, lock, published, cutOff, overlapped>>

\* invalidate_sharded_index; after the last subdir the lock is released.
Invalidate(u) ==
    /\ pc[u] = "shard"
    /\ DropShards(section[u])
    /\ subs' = [subs EXCEPT ![u] = @ \ {section[u]}]
    /\ IF subs[u] \subseteq {section[u]}
       THEN Goto(u, "select") /\ Release(u)
       ELSE Goto(u, "load") /\ UNCHANGED lock
    /\ UNCHANGED <<object, repodata, zst, packages, rows, about, batch, mode,
                   todo, current, stored, section, entries, rowSeen, pkgSeen,
                   published, cutOff, overlapped>>

\* The select of upsert_version, for every stored file.
SelectRows(u) ==
    /\ pc[u] = "select"
    /\ rowSeen' = [rowSeen EXCEPT ![u] = {f \in stored[u] : rows[f] # None}]
    /\ pkgSeen' = [pkgSeen EXCEPT ![u] = packages \cap PackagesOf(stored[u])]
    /\ Goto(u, "commit")
    /\ UNCHANGED <<channelVars, batch, mode, todo, current, stored, subs,
                   section, entries, lock, published, cutOff, overlapped>>

\* The rows as the transaction leaves them.
Upserted(u) ==
    [f \in Files |->
        IF f \in stored[u] THEN RecordOf(batch[u][f]) ELSE rows[f]]

\* No row of a stored file or of its package was inserted or deleted since
\* the select, and the rows respect the unique constraint.
Flushes(u) ==
    /\ \A f \in stored[u] : f \in rowSeen[u] <=> rows[f] # None
    /\ pkgSeen[u] = packages \cap PackagesOf(stored[u])
    /\ Fits(Upserted(u))

\* Insert or update every row with its about.json, commit, answer.
Commit(u) ==
    /\ pc[u] = "commit"
    /\ Flushes(u)
    /\ packages' = packages \cup PackagesOf(stored[u])
    /\ rows' = Upserted(u)
    /\ about' = [f \in Files |->
          IF f \in stored[u] THEN batch[u][f] ELSE about[f]]
    /\ Goto(u, "acked")
    /\ UNCHANGED <<object, repodata, zst, shard, batch, mode, todo, current,
                   stored, subs, section, entries, rowSeen, pkgSeen, lock,
                   published, cutOff, overlapped>>

\* An insert violates a unique constraint, or an update finds no row: the
\* transaction is rolled back and the request answers 500.
Conflict(u) ==
    /\ pc[u] = "commit"
    /\ ~Flushes(u)
    /\ cutOff' = cutOff \cup stored[u]
    /\ Goto(u, "conflict")
    /\ UNCHANGED <<channelVars, batch, mode, todo, current, stored, subs,
                   section, entries, rowSeen, pkgSeen, lock, published,
                   overlapped>>

\* A call to storage or to the database raised: the request answers 500.
Fail(u) ==
    /\ pc[u] \in Locked \cup {"select", "commit"}
    /\ cutOff' = cutOff \cup stored[u]
    /\ Release(u)
    /\ Goto(u, "failed")
    /\ UNCHANGED <<channelVars, batch, mode, todo, current, stored, subs,
                   section, entries, rowSeen, pkgSeen, published, overlapped>>

-----------------------------------------------------------------------------
\* Process r is killed and restarted: its requests get no answer.
Crash(r) ==
    LET lost == {u \in Uploads : ReplicaOf[u] = r /\ pc[u] \in InFlight}
    IN  /\ lost # {}
        /\ pc' = [u \in Uploads |-> IF u \in lost THEN "dead" ELSE pc[u]]
        /\ cutOff' = cutOff \cup UNION {stored[u] : u \in lost}
        /\ lock' = [lock EXCEPT ![r] = NoOne]
        /\ UNCHANGED <<channelVars, batch, mode, todo, current, stored, subs,
                   section, entries, rowSeen, pkgSeen, published, overlapped>>

Store(u) ==
    \/ \E f \in Files : Refuse(u, f) \/ Exists(u, f) \/ HeadKey(u, f)
    \/ Put(u) \/ PutFails(u) \/ StoreDone(u)

PublishRecords(u) ==
    \/ Acquire(u)
    \/ \E s \in Subdirs : Load(u, s)
    \/ WriteJson(u) \/ WriteZst(u) \/ Invalidate(u)
    \/ SelectRows(u) \/ Commit(u) \/ Conflict(u) \/ Fail(u)

UploadStep(u) == Accept(u) \/ Store(u) \/ PublishRecords(u)

\* Every request has been answered, or died with its process.
AllFinished ==
    /\ \A u \in Uploads : pc[u] \in Finished
    /\ UNCHANGED vars

Next ==
    \/ \E u \in Uploads : UploadStep(u)
    \/ \E r \in Replicas : Crash(r)
    \/ AllFinished

Spec == Init /\ [][Next]_vars

\* The event loop keeps running every request that can run; a request that
\* waits for the lock cannot until its holder, which can, has released it.
Fairness == \A u \in Uploads : WF_vars(Store(u) \/ PublishRecords(u))

FairSpec == Spec /\ Fairness

-----------------------------------------------------------------------------
TypeOK ==
    /\ ChannelTypeOK
    /\ pc \in [Uploads -> Control]
    /\ batch \in [Uploads -> [Files -> Builds \cup {None}]]
    /\ mode \in [Uploads -> Modes]
    /\ todo \in [Uploads -> SUBSET Files]
    /\ current \in [Uploads -> Files \cup {None}]
    /\ stored \in [Uploads -> SUBSET Files]
    /\ subs \in [Uploads -> SUBSET Subdirs]
    /\ section \in [Uploads -> Subdirs \cup {None}]
    /\ entries \in [Uploads -> Index]
    /\ rowSeen \in [Uploads -> SUBSET Files]
    /\ pkgSeen \in [Uploads -> SUBSET Packages]
    /\ lock \in [Replicas -> Uploads \cup {NoOne}]
    /\ published \in [Uploads -> SUBSET Files]
    /\ cutOff \subseteq Files
    /\ overlapped \subseteq Files

\* channels.py 528: "The response means the package is listed, not merely
\* received".  Whatever other requests and crashes happened meanwhile,
\* every file stored by a request that was answered with success is listed
\* in each index a client may read, and has its row.
AckedIsListed ==
    \A u \in Uploads : pc[u] = "acked" =>
        \A f \in stored[u] :
            /\ repodata[f] # None
            /\ zst[f] # None
            /\ ClientRecord(f) # None
            /\ rows[f] # None

\* Unless a request left f half-published or two requests stored it at the
\* same time, all the indexes and the row describe the bytes in storage as
\* soon as nobody is publishing f: a client can verify what it downloads.
IndexDescribesBytes ==
    \A f \in Files \ (cutOff \cup overlapped) :
        (\A u \in Uploads : f \in stored[u] => pc[u] \in Finished)
            => Consistent(f)

\* Two requests for one channel are never both between reading its index
\* and writing it back, and only a request in that section holds a lock.
OnePublisher ==
    /\ \A u, v \in Uploads :
          pc[u] \in Locked /\ pc[v] \in Locked => u = v
    /\ \A r \in Replicas, u \in Uploads : lock[r] = u => pc[u] \in Locked

\* Every accepted request is answered or dies with its process; a failing
\* or crashing holder never leaves the lock behind.
EveryRequestEnds ==
    \A u \in Uploads : pc[u] # "idle" ~> pc[u] \in Finished

\* The channel keeps its promise: repodata.json is the abstract index, and
\* a request answered with success was promised every file it stored.  So a
\* write drops, reverts or invents no record but those of its own request,
\* and an answer never runs ahead of the index.
Abstract == INSTANCE ChannelIndex WITH
    Requests <- Uploads,
    Initial <- Index,
    index <- repodata,
    asked <- batch,
    answered <- [u \in Uploads |-> IF pc[u] = "acked" THEN stored[u] ELSE {}]

ImplementsChannelIndex == Abstract!Spec
=============================================================================
