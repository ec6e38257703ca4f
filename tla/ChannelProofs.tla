--------------------------- MODULE ChannelProofs ---------------------------
(***************************************************************************)
(* Proofs about one channel, for any number of requests, passes and        *)
(* deletions, of files, subdirs and contents: first of the upload path by  *)
(* itself, then of uploads, passes and deletions together, where the       *)
(* lemmas about one step of a request and of a pass are cited again.       *)
(***************************************************************************)
EXTENDS Channel, ReindexProofs

(***************************************************************************)
(* Type correctness.                                                       *)
(***************************************************************************)

LEMMA InitType == Init => TypeOK
<1> SUFFICES ASSUME Init PROVE TypeOK
  OBVIOUS
<1>1. ChannelTypeOK
  <2>1. PICK seed \in Seeds, sharded \in SUBSET Subdirs :
          LET recs == [f \in Files |->
                         IF seed[f] = None THEN None ELSE RecordOf(seed[f])]
          IN  /\ object = seed
              /\ repodata = recs
              /\ zst = recs
              /\ packages = PackagesOf({g \in Files : recs[g] # None})
              /\ rows = recs
              /\ shard = [f \in Files |->
                            IF SubdirOf[f] \in sharded THEN recs[f]
                            ELSE Absent]
              /\ about = [f \in Files |->
                            IF seed[f] = None THEN Unread ELSE seed[f]]
    BY DEF Init, ChannelInit, PackagesOf
  <2>2. seed \in [Files -> Builds \cup {None}]
    BY SeedAssumption
  <2>3. [f \in Files |-> IF seed[f] = None THEN None ELSE RecordOf(seed[f])]
          \in Index
    BY <2>2, ArchiveRecord DEF Index
  <2>4. object \in [Files -> Contents \cup {None}]
    BY <2>1, <2>2 DEF Contents
  <2>5. /\ shard \in [Files -> Record \cup {None, Absent}]
        /\ about \in [Files -> Contents \cup {Unread}]
    BY <2>1, <2>2, <2>3, ArchiveRecord DEF Index, Contents
  <2>6. packages \subseteq Packages
    BY <2>1, FileAssumption DEF PackagesOf
  <2>7. QED
    BY <2>1, <2>3, <2>4, <2>5, <2>6 DEF ChannelTypeOK
<1>2. QED
  BY <1>1 DEF Init, TypeOK, Control, Modes, NoBatch, NoEntries, Index
\* What typing alone does not give a step: how the bookkeeping of one request
\* hangs together.  A request publishes only what it stored, stores only what
\* it was sent, and its published files are those of the subdirs it is done
\* with.
Bookkeeping(u) ==
    /\ pc[u] = "idle" => batch[u] = NoBatch /\ stored[u] = {}
    /\ todo[u] \cup stored[u] \subseteq Wanted(u)
    /\ pc[u] = "put" => current[u] \in Wanted(u)
    /\ pc[u] \in {"json", "zst", "shard"} => section[u] \in subs[u]
    /\ pc[u] \in {"idle", "store", "put", "lock"} => published[u] = {}
    /\ pc[u] \in Locked => published[u] =
          {f \in stored[u] :
              \/ SubdirOf[f] \notin subs[u]
              \/ pc[u] \in {"zst", "shard"} /\ SubdirOf[f] = section[u]}
    /\ pc[u] \in {"select", "commit", "acked"} => published[u] = stored[u]

TypeInv == TypeOK /\ \A u \in Uploads : Bookkeeping(u)

LEMMA InitTypeInv == Init => TypeInv
  BY InitType DEF Init, TypeInv, Bookkeeping, Wanted, FilesOf,
      Locked

\* A step of u leaves the bookkeeping of the other requests alone.
LEMMA OthersUntouched ==
  ASSUME TypeInv, NEW u \in Uploads, UploadStep(u),
         NEW v \in Uploads, v # u
  PROVE  Bookkeeping(v)'
  <1> USE DEF TypeInv, TypeOK, Goto
  <1>1. /\ pc'[v] = pc[v] /\ batch'[v] = batch[v] /\ todo'[v] = todo[v]
        /\ current'[v] = current[v] /\ stored'[v] = stored[v]
        /\ subs'[v] = subs[v] /\ section'[v] = section[v]
        /\ published'[v] = published[v]
    BY DEF UploadStep, Accept, Store, PublishRecords, Refuse, Exists, HeadKey,
           Put, PutFails, StoreDone, Acquire, Load, WriteJson, WriteZst,
           Invalidate, SelectRows, Commit, Conflict, Fail
  <1> QED
    BY <1>1 DEF Bookkeeping, Wanted, FilesOf,
      Locked

\* The type and the bookkeeping of u after each of its own steps.
LEMMA OwnStepTyped ==
  ASSUME TypeInv, NEW u \in Uploads, UploadStep(u)
  PROVE  TypeOK' /\ Bookkeeping(u)'
<1>0. Accept(u) => \E b \in Batches, m \in Modes :
          /\ batch' = [batch EXCEPT ![u] = b]
          /\ mode' = [mode EXCEPT ![u] = m]
          /\ todo' = [todo EXCEPT ![u] = FilesOf(b)]
  BY Zenon DEF Accept
<1> USE DEF TypeInv, TypeOK, ChannelTypeOK, Bookkeeping, Wanted, FilesOf, Goto,
            Modes, Control, InFlight, Locked, Finished
<1>1. CASE Accept(u)
  <2>1. PICK b \in Batches, m \in Modes :
          /\ batch' = [batch EXCEPT ![u] = b]
          /\ mode' = [mode EXCEPT ![u] = m]
          /\ todo' = [todo EXCEPT ![u] = FilesOf(b)]
    BY <1>0, <1>1, Zenon
  <2>2. b \in [Files -> Builds \cup {None}]
    BY BatchAssumption
  <2>3. TypeOK'
    <3>1. /\ batch' \in [Uploads -> [Files -> Builds \cup {None}]]
          /\ todo' \in [Uploads -> SUBSET Files]
          /\ mode' \in [Uploads -> {"batch", "new", "force"}]
          /\ pc' = [pc EXCEPT ![u] = "store"]
      BY <1>1, <2>1, <2>2 DEF Accept
    <3>2. QED
      BY <1>1, <3>1 DEF Accept, channelVars
  <2>4. /\ pc'[u] = "store"
        /\ Wanted(u)' = todo'[u]
        /\ stored'[u] = {} /\ published'[u] = {}
    BY <1>1, <2>1, <2>2 DEF Accept
  <2>5. Bookkeeping(u)'
    BY <2>4
  <2>6. QED
    BY <2>3, <2>5
<1>2. ASSUME NEW f \in Files, Refuse(u, f) \/ Exists(u, f) \/ HeadKey(u, f)
      PROVE  TypeOK' /\ Bookkeeping(u)'
  <2>1. TypeOK'
    <3>1. CASE Refuse(u, f)
      BY <3>1 DEF Refuse, channelVars
    <3>2. CASE Exists(u, f)
      BY <3>2 DEF Exists, channelVars
    <3>3. CASE HeadKey(u, f)
      BY <3>3 DEF HeadKey, channelVars
    <3>4. QED
      BY <1>2, <3>1, <3>2, <3>3
  <2>2. /\ pc[u] = "store"
        /\ UNCHANGED <<batch, stored, published>>
        /\ todo'[u] \subseteq todo[u]
        /\ \/ pc'[u] \in {"store", "rejected"}
           \/ pc'[u] = "put" /\ f \in todo[u] /\ current'[u] = f
    BY <1>2 DEF Refuse, Exists, HeadKey
  <2>3. Bookkeeping(u)'
    BY <2>2
  <2>4. QED
    BY <2>1, <2>3
<1>3. CASE Put(u)
  <2>1. current[u] \in Files /\ batch[u][current[u]] \in Builds
    BY <1>3 DEF Put
  <2>2. QED
    BY <1>3, <2>1 DEF Put, Contents
<1>4. CASE PutFails(u)
  <2>1. current[u] \in Files /\ batch[u][current[u]] \in Builds
    BY <1>4 DEF PutFails
  <2>2. QED
    BY <1>4, <2>1 DEF PutFails, Contents
<1>5. CASE StoreDone(u)
  BY <1>5 DEF StoreDone, channelVars
<1>6. CASE Acquire(u)
  <2>1. subs'[u] = {SubdirOf[f] : f \in stored[u]}
    BY <1>6 DEF Acquire
  <2>2. TypeOK'
    <3>1. subs' \in [Uploads -> SUBSET Subdirs]
      BY <1>6, <2>1, FileAssumption DEF Acquire
    <3>2. lock' \in [Replicas -> Uploads \cup {NoOne}]
      BY <1>6 DEF Acquire
    <3>3. QED
      BY <1>6, <3>1, <3>2 DEF Acquire, channelVars
  <2>3. /\ pc[u] = "lock" /\ pc'[u] = "load"
        /\ UNCHANGED <<batch, todo, stored, published>>
    BY <1>6 DEF Acquire
  <2>4. Bookkeeping(u)'
    BY <2>1, <2>3
  <2>5. QED
    BY <2>2, <2>4
<1>7. ASSUME NEW s \in Subdirs, Load(u, s)
      PROVE  TypeOK' /\ Bookkeeping(u)'
  <2>1. \A f \in stored[u] : RecordOf(batch[u][f]) \in Record
    BY ArchiveRecord
  <2>2. entries' \in [Uploads -> Index]
    BY <1>7, <2>1 DEF Load, Index
  <2>3. /\ pc[u] = "load" /\ pc' = [pc EXCEPT ![u] = "json"]
        /\ s \in subs[u] /\ section' = [section EXCEPT ![u] = s]
        /\ UNCHANGED <<channelVars, batch, mode, todo, current, stored, subs,
                       rowSeen, pkgSeen, lock, published, cutOff, overlapped>>
    BY <1>7 DEF Load
  <2>4. TypeOK'
    BY <2>2, <2>3 DEF channelVars
  <2>5. Bookkeeping(u)'
    BY <2>3
  <2>6. QED
    BY <2>4, <2>5
<1>8. CASE WriteJson(u)
  <2>1. repodata' \in Index
    BY <1>8, Spliced DEF WriteJson, PutJson
  <2>2. QED
    BY <1>8, <2>1 DEF WriteJson
<1>9. CASE WriteZst(u)
  <2>1. zst' \in Index
    BY <1>9, Spliced DEF WriteZst, PutZst
  <2>2. QED
    BY <1>9, <2>1 DEF WriteZst
<1>10. CASE Invalidate(u)
  <2>1. shard' \in [Files -> Record \cup {None, Absent}]
    BY <1>10 DEF Invalidate, DropShards
  <2>2. lock' \in [Replicas -> Uploads \cup {NoOne}]
    BY <1>10 DEF Invalidate, Release
  <2>3. \/ pc' = [pc EXCEPT ![u] = "select"]
        \/ pc' = [pc EXCEPT ![u] = "load"]
    BY <1>10 DEF Invalidate
  <2>4. pc' \in [Uploads -> Control]
    BY <2>3
  <2>5. /\ subs' \in [Uploads -> SUBSET Subdirs]
        /\ UNCHANGED <<object, repodata, zst, packages, rows, about, batch,
                       mode, todo, current, stored, section, entries,
                       rowSeen, pkgSeen, published, cutOff, overlapped>>
    BY <1>10 DEF Invalidate
  <2>6. TypeOK'
    BY <2>1, <2>2, <2>4, <2>5
  <2>7. /\ pc[u] = "shard"
        /\ subs'[u] = subs[u] \ {section[u]}
        /\ UNCHANGED <<batch, todo, stored, published>>
        /\ \/ pc'[u] = "select" /\ subs[u] \subseteq {section[u]}
           \/ pc'[u] = "load"
    BY <1>10 DEF Invalidate
  <2>8. published[u] = {f \in stored[u] : SubdirOf[f] \notin subs'[u]}
    BY <2>7
  <2>9. Bookkeeping(u)'
    BY <2>7, <2>8
  <2>10. QED
    BY <2>6, <2>9
<1>11. CASE SelectRows(u)
  BY <1>11 DEF SelectRows, channelVars
<1>12. CASE Commit(u)
  <2>1. \A f \in stored[u] : RecordOf(batch[u][f]) \in Record
    BY ArchiveRecord
  <2>2. rows' \in Index
    BY <1>12, <2>1 DEF Commit, Upserted, Index
  <2>3. packages' \subseteq Packages
    BY <1>12, FileAssumption DEF Commit, PackagesOf
  <2>4. about' \in [Files -> Contents \cup {Unread}]
    BY <1>12 DEF Commit, Contents
  <2>5. QED
    BY <1>12, <2>2, <2>3, <2>4 DEF Commit
<1>13. CASE Conflict(u)
  BY <1>13 DEF Conflict, channelVars
<1>14. CASE Fail(u)
  <2>1. lock' \in [Replicas -> Uploads \cup {NoOne}]
    BY <1>14 DEF Fail, Release
  <2>2. QED
    BY <1>14, <2>1 DEF Fail, channelVars
<1>15. QED
  BY <1>1, <1>2, <1>3, <1>4, <1>5, <1>6, <1>7, <1>8, <1>9, <1>10, <1>11,
     <1>12, <1>13, <1>14 DEF UploadStep, Store, PublishRecords

LEMMA CrashTyped ==
  ASSUME TypeInv, NEW r \in Replicas, Crash(r)
  PROVE  TypeInv'
<1> USE DEF TypeInv, TypeOK
<1>1. TypeOK'
  BY DEF Crash, channelVars, ChannelTypeOK, Control, Finished, InFlight
<1>2. ASSUME NEW u \in Uploads PROVE Bookkeeping(u)'
  BY DEF Crash, Bookkeeping, Wanted, FilesOf,
      Locked
<1>3. QED
  BY <1>1, <1>2

\* Every variable keeps its type, and every request its bookkeeping, through
\* every interleaving of requests, failures and crashes.
THEOREM TypeCorrect == Spec => []TypeInv
<1>1. TypeInv /\ [Next]_vars => TypeInv'
  <2> SUFFICES ASSUME TypeInv, [Next]_vars PROVE TypeInv'
    OBVIOUS
  <2>1. ASSUME NEW u \in Uploads, UploadStep(u) PROVE TypeInv'
    BY <2>1, OwnStepTyped, OthersUntouched DEF TypeInv
  <2>2. ASSUME NEW r \in Replicas, Crash(r) PROVE TypeInv'
    BY <2>2, CrashTyped
  <2>3. CASE UNCHANGED vars
    BY <2>3 DEF vars, channelVars, uploadVars, TypeInv, TypeOK, ChannelTypeOK,
                Bookkeeping, Wanted, FilesOf
  <2>4. QED
    BY <2>1, <2>2, <2>3 DEF Next, AllFinished
<1>2. QED
  BY <1>1, InitTypeInv, PTL DEF Spec

THEOREM TypeSafe == Spec => []TypeOK
<1>1. TypeInv => TypeOK
  BY DEF TypeInv
<1>2. QED
  BY <1>1, TypeCorrect, PTL

(***************************************************************************)
(* The lock.  Each process's lock serialises its own requests; that nobody *)
(* else writes the index needs a single process, which is what the code    *)
(* assumes of its deployments.                                             *)
(***************************************************************************)

OneReplica == \A u, v \in Uploads : ReplicaOf[u] = ReplicaOf[v]

LockInv ==
    /\ \A u \in Uploads : pc[u] \in Locked => lock[ReplicaOf[u]] = u
    /\ \A r \in Replicas, u \in Uploads :
          lock[r] = u => pc[u] \in Locked /\ ReplicaOf[u] = r

LEMMA LockStep ==
  ASSUME TypeInv, LockInv, [Next]_vars
  PROVE  LockInv'
<1> USE ReplicaAssumption DEF TypeInv, TypeOK, LockInv, Goto
<1>1. ASSUME NEW u \in Uploads, UploadStep(u) PROVE LockInv'
  <2>1. CASE Acquire(u)
    BY <2>1 DEF Acquire, Locked
  <2>2. ASSUME lock' = lock, pc[u] \in Locked <=> pc'[u] \in Locked,
               \A v \in Uploads \ {u} : pc'[v] = pc[v]
        PROVE  LockInv'
    BY <2>2
  <2>3. CASE Invalidate(u) \/ Fail(u)
    <3>1. \A v \in Uploads \ {u} : pc'[v] = pc[v]
      BY <2>3 DEF Invalidate, Fail
    <3>2. \/ lock' = lock /\ pc[u] \in Locked /\ pc'[u] \in Locked
          \/ Release(u) /\ pc'[u] \notin Locked
      BY <2>3 DEF Invalidate, Fail, Locked
    <3>3. ASSUME Release(u), pc'[u] \notin Locked PROVE LockInv'
      <4>1. \A r \in Replicas :
               lock'[r] = IF lock[r] = u THEN NoOne ELSE lock[r]
        BY <3>3 DEF Release
      <4>2. ASSUME NEW v \in Uploads, pc'[v] \in Locked
            PROVE  lock'[ReplicaOf[v]] = v
        <5>1. v # u /\ pc[v] \in Locked
          BY <3>1, <3>3, <4>2
        <5>2. lock[ReplicaOf[v]] = v /\ ReplicaOf[v] \in Replicas
          BY <5>1
        <5>3. QED
          BY <4>1, <5>1, <5>2
      <4>3. ASSUME NEW r \in Replicas, NEW v \in Uploads, lock'[r] = v
            PROVE  pc'[v] \in Locked /\ ReplicaOf[v] = r
        <5>1. lock[r] = v /\ v # u
          BY <4>1, <4>3
        <5>2. QED
          BY <3>1, <5>1
      <4>4. QED
        BY <4>2, <4>3 DEF LockInv
    <3>4. QED
      BY <2>2, <3>1, <3>2, <3>3
  <2>4. CASE Accept(u) \/ Store(u)
    <3>1. lock' = lock /\ pc[u] \notin Locked /\ pc'[u] \notin Locked
      BY <2>4 DEF Accept, Store, Refuse, Exists, HeadKey, Put, PutFails,
                  StoreDone, Locked
    <3>2. \A v \in Uploads \ {u} : pc'[v] = pc[v]
      BY <2>4 DEF Accept, Store, Refuse, Exists, HeadKey, Put, PutFails,
                  StoreDone
    <3>3. QED
      BY <2>2, <3>1, <3>2
  <2>5. ASSUME NEW s \in Subdirs, Load(u, s) PROVE LockInv'
    BY <2>2, <2>5 DEF Load, Locked
  <2>6. CASE WriteJson(u) \/ WriteZst(u)
    BY <2>2, <2>6 DEF WriteJson, WriteZst, Locked
  <2>7. CASE SelectRows(u) \/ Commit(u) \/ Conflict(u)
    BY <2>2, <2>7 DEF SelectRows, Commit, Conflict, Locked
  <2>8. QED
    BY <1>1, <2>1, <2>3, <2>4, <2>5, <2>6, <2>7 DEF UploadStep, PublishRecords
<1>2. ASSUME NEW r \in Replicas, Crash(r) PROVE LockInv'
  BY <1>2 DEF Crash, Locked, InFlight
<1>3. CASE UNCHANGED vars
  BY <1>3 DEF vars, uploadVars
<1>4. QED
  BY <1>1, <1>2, <1>3 DEF Next, AllFinished

\* A lock is held exactly while its owner is between reading an index and
\* the end of its publication, however that ends.
THEOREM LockHeld == Spec => []LockInv
<1>1. Init => LockInv
  BY ReplicaAssumption DEF Init, LockInv, Locked
<1>2. QED
  BY <1>1, TypeCorrect, LockStep, PTL DEF Spec

LEMMA LockExcludes ==
  ASSUME OneReplica, TypeInv, LockInv PROVE OnePublisher
  BY ReplicaAssumption DEF OneReplica, TypeInv, TypeOK, LockInv, OnePublisher

\* With one server process no two requests publish at the same time, and no
\* finished request still holds the lock.
THEOREM MutualExclusion == OneReplica => (Spec => []OnePublisher)
<1> SUFFICES ASSUME OneReplica PROVE Spec => []OnePublisher
  OBVIOUS
<1>1. TypeInv /\ LockInv => OnePublisher
  BY LockExcludes
<1>2. QED
  BY <1>1, TypeCorrect, LockHeld, PTL

(***************************************************************************)
(* No lost update.  What a request is about to write back is the current   *)
(* index of the subdir with its own records in it, because nobody else     *)
(* wrote since it read.                                                    *)
(***************************************************************************)

Fresh ==
    \A u \in Uploads, f \in Files : SubdirOf[f] = section[u] =>
        /\ pc[u] = "json" =>
              entries[u][f] = IF f \in stored[u] THEN RecordOf(batch[u][f])
                              ELSE repodata[f]
        /\ pc[u] = "zst" => entries[u][f] = repodata[f]

LEMMA FreshStep ==
  ASSUME TypeInv, OnePublisher, Fresh, [Next]_vars
  PROVE  Fresh'
<1> USE DEF TypeInv, TypeOK, Goto
<1>1. ASSUME NEW u \in Uploads, UploadStep(u), NEW v \in Uploads,
             pc'[v] \in {"json", "zst"}, NEW f \in Files,
             SubdirOf[f] = section'[v]
      PROVE  /\ pc'[v] = "json" =>
                  entries'[v][f] = IF f \in stored'[v]
                                   THEN RecordOf(batch'[v][f])
                                   ELSE repodata'[f]
             /\ pc'[v] = "zst" => entries'[v][f] = repodata'[f]
  <2>1. CASE v = u
    <3>1. ASSUME NEW s \in Subdirs, Load(u, s)
          PROVE  /\ pc'[u] = "json"
                 /\ entries'[u][f] = IF f \in stored'[u]
                                     THEN RecordOf(batch'[u][f])
                                     ELSE repodata'[f]
      BY <1>1, <2>1, <3>1 DEF Load, channelVars
    <3>2. CASE WriteJson(u)
      BY <1>1, <2>1, <3>2 DEF WriteJson, PutJson, Splice
    <3>3. QED
      BY <1>1, <2>1, <3>1, <3>2 DEF UploadStep, Store, PublishRecords, Accept,
         Refuse, Exists, HeadKey, Put, PutFails, StoreDone, Acquire, WriteZst,
         Invalidate, SelectRows, Commit, Conflict, Fail
  <2>2. CASE v # u
    <3>1. /\ pc'[v] = pc[v] /\ entries'[v] = entries[v]
          /\ section'[v] = section[v] /\ stored'[v] = stored[v]
          /\ batch'[v] = batch[v]
      BY <1>1, <2>2
         DEF UploadStep, Accept, Store, PublishRecords, Refuse, Exists, HeadKey,
             Put, PutFails, StoreDone, Acquire, Load, WriteJson, WriteZst,
             Invalidate, SelectRows, Commit, Conflict, Fail
    <3>2. ~WriteJson(u)
      BY <1>1, <2>2, <3>1 DEF OnePublisher, WriteJson, Locked
    <3>3. repodata' = repodata
      BY <1>1, <3>2
         DEF UploadStep, Accept, Store, PublishRecords, Refuse, Exists, HeadKey,
             Put, PutFails, StoreDone, Acquire, Load, WriteZst, Invalidate,
             SelectRows, Commit, Conflict, Fail, channelVars
    <3>4. QED
      BY <1>1, <3>1, <3>3 DEF Fresh
  <2>3. QED
    BY <2>1, <2>2
<1>2. ASSUME NEW r \in Replicas, Crash(r) PROVE Fresh'
  BY <1>2 DEF Crash, channelVars, Fresh
<1>3. CASE UNCHANGED vars
  BY <1>3 DEF vars, uploadVars, channelVars, Fresh
<1>4. QED
  BY <1>1, <1>2, <1>3 DEF Next, AllFinished, Fresh

(***************************************************************************)
(* Answers of success.                                                     *)
(***************************************************************************)

\* Through stored[u], what each index holds for a file its request is done
\* with, up to the one it is writing.
InIndexes ==
    \A u \in Uploads : \A f \in stored[u] :
        /\ f \in published[u] => repodata[f] # None
        /\ \/ pc[u] \in {"select", "commit", "acked"}
           \/ pc[u] \in Locked /\ SubdirOf[f] \notin subs[u]
           => zst[f] # None /\ shard[f] = Absent
        /\ pc[u] = "shard" /\ SubdirOf[f] = section[u] => zst[f] # None
        /\ pc[u] = "acked" => rows[f] # None

\* No step takes a listed file out of an index, or puts back a shard index.
LEMMA NothingDelisted ==
  ASSUME TypeInv, Fresh, [Next]_vars, NEW f \in Files
  PROVE  /\ repodata[f] # None => repodata'[f] # None
         /\ repodata[f] # None /\ zst[f] # None => zst'[f] # None
         /\ shard[f] = Absent => shard'[f] = Absent
         /\ rows[f] # None => rows'[f] # None
<1> USE DEF TypeInv, TypeOK, ChannelTypeOK, Index
<1>1. \A u \in Uploads : f \in stored[u] => RecordOf(batch[u][f]) # None
  BY ArchiveRecord DEF Bookkeeping, Wanted, FilesOf
<1>2. ASSUME NEW u \in Uploads, WriteJson(u)
      PROVE  repodata[f] # None => repodata'[f] # None
  BY <1>1, <1>2 DEF WriteJson, PutJson, Splice, Fresh
<1>3. ASSUME NEW u \in Uploads, WriteZst(u)
      PROVE  repodata[f] # None /\ zst[f] # None => zst'[f] # None
  BY <1>3 DEF WriteZst, PutZst, Splice, Fresh
<1>4. ASSUME NEW u \in Uploads, Invalidate(u)
      PROVE  shard[f] = Absent => shard'[f] = Absent
  BY <1>4 DEF Invalidate, DropShards
<1>5. ASSUME NEW u \in Uploads, Commit(u)
      PROVE  rows[f] # None => rows'[f] # None
  BY <1>1, <1>5 DEF Commit, Upserted
<1>6. ASSUME NEW u \in Uploads, UploadStep(u)
      PROVE  /\ WriteJson(u) \/ repodata' = repodata
             /\ WriteZst(u) \/ zst' = zst
             /\ Invalidate(u) \/ shard' = shard
             /\ Commit(u) \/ rows' = rows
  BY <1>6 DEF UploadStep, Accept, Store, PublishRecords, Refuse, Exists, HeadKey,
       Put, PutFails, StoreDone, Acquire, Load, WriteJson, WriteZst,
       Invalidate, SelectRows, Commit, Conflict, Fail, channelVars
<1>7. CASE \E u \in Uploads : UploadStep(u)
  BY <1>2, <1>3, <1>4, <1>5, <1>6, <1>7
<1>8. CASE UNCHANGED channelVars
  BY <1>8 DEF channelVars
<1>9. QED
  BY <1>7, <1>8 DEF Next, AllFinished, Crash, vars, channelVars

\* A finished publication has written repodata.json for every stored file.
LEMMA DoneIsPublished ==
  ASSUME TypeInv, NEW u \in Uploads, NEW f \in stored[u],
         \/ pc[u] \in {"select", "commit", "acked"}
         \/ pc[u] \in Locked /\ SubdirOf[f] \notin subs[u]
         \/ pc[u] \in {"zst", "shard"} /\ SubdirOf[f] = section[u]
  PROVE  f \in published[u]
  BY DEF TypeInv, Bookkeeping, Locked

LEMMA ListedStep ==
  ASSUME TypeInv, Fresh, InIndexes, [Next]_vars
  PROVE  InIndexes'
<1> USE DEF TypeInv, TypeOK, ChannelTypeOK, Index, Goto
<1>1. ASSUME NEW u \in Uploads, UploadStep(u),
             NEW v \in Uploads, v # u, NEW f \in stored'[v]
      PROVE  /\ f \in published'[v] => repodata'[f] # None
             /\ \/ pc'[v] \in {"select", "commit", "acked"}
                \/ pc'[v] \in Locked /\ SubdirOf[f] \notin subs'[v]
                => zst'[f] # None /\ shard'[f] = Absent
             /\ pc'[v] = "shard" /\ SubdirOf[f] = section'[v]
                => zst'[f] # None
             /\ pc'[v] = "acked" => rows'[f] # None
  <2>1. /\ pc'[v] = pc[v] /\ stored'[v] = stored[v] /\ subs'[v] = subs[v]
        /\ section'[v] = section[v] /\ published'[v] = published[v]
    BY <1>1
       DEF UploadStep, Accept, Store, PublishRecords, Refuse, Exists, HeadKey,
           Put, PutFails, StoreDone, Acquire, Load, WriteJson, WriteZst,
           Invalidate, SelectRows, Commit, Conflict, Fail
  <2>2. f \in Files
    BY <2>1
  <2>3. /\ repodata[f] # None => repodata'[f] # None
        /\ repodata[f] # None /\ zst[f] # None => zst'[f] # None
        /\ shard[f] = Absent => shard'[f] = Absent
        /\ rows[f] # None => rows'[f] # None
    BY <2>2, NothingDelisted
  <2>4. QED
    BY <2>1, <2>3, DoneIsPublished DEF InIndexes
<1>2. ASSUME NEW u \in Uploads, UploadStep(u), NEW f \in stored'[u]
      PROVE  /\ f \in published'[u] => repodata'[f] # None
             /\ \/ pc'[u] \in {"select", "commit", "acked"}
                \/ pc'[u] \in Locked /\ SubdirOf[f] \notin subs'[u]
                => zst'[f] # None /\ shard'[f] = Absent
             /\ pc'[u] = "shard" /\ SubdirOf[f] = section'[u]
                => zst'[f] # None
             /\ pc'[u] = "acked" => rows'[f] # None
  <2>1. CASE Accept(u) \/ Store(u) \/ Acquire(u)
    <3>1. published'[u] = {}
      BY <1>2, <2>1
         DEF Accept, Store, Refuse, Exists, HeadKey, Put, PutFails, StoreDone,
             Acquire, Bookkeeping
    <3>2. \/ pc'[u] \notin {"select", "commit", "acked"} \cup Locked
          \/ pc'[u] = "acked" /\ stored'[u] = {}
          \/ pc'[u] = "load" /\ SubdirOf[f] \in subs'[u]
      BY <1>2, <2>1
         DEF Accept, Store, Refuse, Exists, HeadKey, Put, PutFails, StoreDone,
             Acquire, Locked
    <3>3. QED
      BY <1>2, <3>1, <3>2 DEF Locked
  <2>3. ASSUME NEW s \in Subdirs, Load(u, s)
        PROVE  /\ UNCHANGED <<repodata, zst, shard, rows, stored, subs,
                              published>>
               /\ pc[u] = "load" /\ pc'[u] = "json"
    BY <2>3 DEF Load, channelVars
  <2>4. CASE WriteJson(u)
    <3>1. f \in Files /\ f \in stored[u] /\ RecordOf(batch[u][f]) # None
      BY <1>2, <2>4, ArchiveRecord
         DEF WriteJson, Bookkeeping, Wanted, FilesOf
    <3>2. SubdirOf[f] = section[u] => repodata'[f] # None
      BY <2>4, <3>1 DEF WriteJson, PutJson, Splice, Fresh
    <3>3. /\ UNCHANGED <<zst, shard, rows, stored, subs, section>>
          /\ pc[u] = "json" /\ pc'[u] = "zst"
          /\ f \in published'[u] =>
                f \in published[u] \/ SubdirOf[f] = section[u]
      BY <1>2, <2>4 DEF WriteJson
    <3>4. QED
      BY <3>1, <3>2, <3>3, NothingDelisted DEF InIndexes, Locked
  <2>5. CASE WriteZst(u)
    <3>1. f \in Files /\ f \in stored[u]
      BY <1>2, <2>5 DEF WriteZst
    <3>2. SubdirOf[f] = section[u] => f \in published[u]
      BY <2>5, <3>1, DoneIsPublished DEF WriteZst
    <3>3. SubdirOf[f] = section[u] => zst'[f] # None
      BY <2>5, <3>1, <3>2 DEF WriteZst, PutZst, Splice, Fresh, InIndexes
    <3>4. /\ UNCHANGED <<repodata, shard, rows, stored, subs, section,
                         published>>
          /\ pc[u] = "zst" /\ pc'[u] = "shard"
      BY <2>5 DEF WriteZst
    <3>5. QED
      BY <3>1, <3>3, <3>4, NothingDelisted, DoneIsPublished DEF InIndexes, Locked
  <2>6. CASE Invalidate(u)
    <3>1. f \in Files /\ f \in stored[u]
      BY <1>2, <2>6 DEF Invalidate
    <3>2. SubdirOf[f] = section[u] => shard'[f] = Absent
      BY <2>6, <3>1 DEF Invalidate, DropShards
    <3>3. /\ UNCHANGED <<repodata, zst, rows, stored, published>>
          /\ pc[u] = "shard" /\ pc'[u] \in {"load", "select"}
          /\ subs'[u] = subs[u] \ {section[u]}
          /\ pc'[u] = "select" => subs[u] \subseteq {section[u]}
      BY <2>6 DEF Invalidate
    <3>4. SubdirOf[f] \notin subs'[u] => zst'[f] # None /\ shard'[f] = Absent
      BY <2>6, <3>1, <3>2, <3>3, NothingDelisted DEF InIndexes, Locked
    <3>5. pc'[u] = "select" => SubdirOf[f] \notin subs'[u]
      BY <3>3
    <3>6. QED
      BY <3>1, <3>3, <3>4, <3>5 DEF InIndexes, Locked
  <2>7. CASE SelectRows(u)
    BY <1>2, <2>7 DEF SelectRows, channelVars, InIndexes, Locked
  <2>8. CASE Commit(u)
    <3>1. f \in Files /\ f \in stored[u] /\ RecordOf(batch[u][f]) # None
      BY <1>2, <2>8, ArchiveRecord
         DEF Commit, Bookkeeping, Wanted, FilesOf
    <3>2. rows'[f] # None
      BY <2>8, <3>1 DEF Commit, Upserted
    <3>3. QED
      BY <2>8, <3>1, <3>2 DEF Commit, InIndexes, Locked
  <2>9. CASE Conflict(u) \/ Fail(u)
    BY <1>2, <2>9 DEF Conflict, Fail, channelVars, InIndexes, Locked
  <2>10. ASSUME NEW s \in Subdirs, Load(u, s)
         PROVE  /\ f \in published'[u] => repodata'[f] # None
                /\ SubdirOf[f] \notin subs'[u]
                      => zst'[f] # None /\ shard'[f] = Absent
                /\ pc'[u] = "json"
    BY <1>2, <2>3, <2>10 DEF InIndexes, Locked
  <2>11. QED
    BY <1>2, <2>1, <2>4, <2>5, <2>6, <2>7, <2>8, <2>9, <2>10
       DEF UploadStep, PublishRecords, Locked
<1>3. ASSUME NEW r \in Replicas, Crash(r) PROVE InIndexes'
  BY <1>3 DEF Crash, channelVars, InIndexes, Locked, InFlight
<1>4. CASE UNCHANGED vars
  BY <1>4 DEF vars, uploadVars, channelVars, InIndexes
<1>5. CASE \E u \in Uploads : UploadStep(u)
  BY <1>1, <1>2, <1>5 DEF InIndexes
<1>6. QED
  BY <1>3, <1>4, <1>5 DEF Next, AllFinished

\* The inductive invariant of a deployment with one server process.
IndInv == TypeInv /\ LockInv /\ OnePublisher /\ Fresh /\ InIndexes

LEMMA IndInvHolds == OneReplica => (Spec => []IndInv)
<1> SUFFICES ASSUME OneReplica PROVE Spec => []IndInv
  OBVIOUS
<1>1. Init => Fresh /\ InIndexes
  BY DEF Init, Fresh, InIndexes
<1>2. TypeInv /\ OnePublisher /\ Fresh /\ InIndexes /\ [Next]_vars
        => Fresh' /\ InIndexes'
  BY FreshStep, ListedStep
<1>3. QED
  BY <1>1, <1>2, TypeCorrect, LockHeld, MutualExclusion, PTL DEF Spec, IndInv

\* A success answer means listed: no interleaving of requests, no failed call
\* and no crash of the one server process makes a file of a successful
\* request missing from an index or from the rows.
THEOREM AckedListed == OneReplica => (Spec => []AckedIsListed)
<1> SUFFICES ASSUME OneReplica PROVE Spec => []AckedIsListed
  OBVIOUS
<1>1. IndInv => AckedIsListed
  <2> SUFFICES ASSUME IndInv, NEW u \in Uploads, pc[u] = "acked",
                      NEW f \in stored[u]
               PROVE  /\ repodata[f] # None
                      /\ zst[f] # None
                      /\ ClientRecord(f) # None
                      /\ rows[f] # None
    BY DEF AckedIsListed
  <2>1. f \in published[u]
    BY DoneIsPublished DEF IndInv
  <2>2. QED
    BY <2>1 DEF IndInv, InIndexes, ClientRecord
<1>2. QED
  BY <1>1, IndInvHolds, PTL

(***************************************************************************)
(* The indexes describe the bytes.  A file that no request left half way   *)
(* and that no two requests stored at once has at most one request that is *)
(* on its way with it, which brings one record after the other into line   *)
(* with the bytes it stored; when it has gone, all of them are.            *)
(***************************************************************************)

\* A request for a single file has nothing left to do about one it stored.
OneFile(u) ==
    /\ todo[u] \cap stored[u] = {}
    /\ pc[u] = "put" => current[u] \in todo[u]
    /\ mode[u] # "batch" => \A f, g \in Wanted(u) : f = g

Holds(u, f) == pc[u] \in InFlight /\ f \in stored[u]

Dropped(u, f) ==
    \/ pc[u] \in {"select", "commit"}
    \/ pc[u] \in Locked /\ SubdirOf[f] \notin subs[u]
Zipped(u, f) == Dropped(u, f) \/ (pc[u] = "shard" /\ SubdirOf[f] = section[u])

Carried(u, f) ==
    /\ object[f] = batch[u][f]
    /\ f \in published[u] => repodata[f] = RecordOf(batch[u][f])
    /\ Zipped(u, f) => zst[f] = RecordOf(batch[u][f])
    /\ Dropped(u, f) => shard[f] = Absent

SettledAt(f) ==
    /\ (\A u \in Uploads : ~Holds(u, f)) => Consistent(f)
    /\ \A u \in Uploads : Holds(u, f) => Carried(u, f)
    /\ \A u, v \in Uploads : Holds(u, f) /\ Holds(v, f) => u = v

Settled ==
    /\ \A u \in Uploads : OneFile(u)
    /\ \A f \in Files \ (cutOff \cup overlapped) : SettledAt(f)

LEMMA InitSettled == Init => Settled
<1> SUFFICES ASSUME Init PROVE Settled
  OBVIOUS
<1>1. TypeOK
  BY InitType
<1>2. \A u \in Uploads : OneFile(u)
  BY DEF Init, OneFile
<1>3. ASSUME NEW f \in Files PROVE Consistent(f)
  <2>1. PICK seed \in Seeds, sharded \in SUBSET Subdirs :
          LET recs == [g \in Files |->
                         IF seed[g] = None THEN None ELSE RecordOf(seed[g])]
          IN  /\ object = seed
              /\ repodata = recs
              /\ zst = recs
              /\ rows = recs
              /\ shard = [g \in Files |->
                            IF SubdirOf[g] \in sharded THEN recs[g]
                            ELSE Absent]
              /\ about = [g \in Files |->
                            IF seed[g] = None THEN Unread ELSE seed[g]]
    BY DEF Init, ChannelInit
  <2> DEFINE rec == IF seed[f] = None THEN None ELSE RecordOf(seed[f])
  <2>2. /\ object[f] = seed[f] /\ repodata[f] = rec /\ zst[f] = rec
        /\ rows[f] = rec /\ shard[f] \in {rec, Absent}
        /\ about[f] = IF seed[f] = None THEN Unread ELSE seed[f]
    BY <2>1
  <2>3. QED
    BY <2>2 DEF Consistent, ClientRecord
<1>4. \A u \in Uploads, f \in Files : ~Holds(u, f)
  BY DEF Init, Holds
<1>5. QED
  BY <1>2, <1>3, <1>4 DEF Settled, SettledAt

LEMMA OneFileStep ==
  ASSUME TypeInv, \A u \in Uploads : OneFile(u), [Next]_vars,
         NEW u \in Uploads
  PROVE  OneFile(u)'
<1> USE DEF TypeInv, TypeOK, Goto
<1>1. ASSUME NEW v \in Uploads, UploadStep(v), v # u
      PROVE  UNCHANGED <<pc[u], batch[u], mode[u], todo[u], stored[u],
                         current[u]>>
  BY <1>1 DEF UploadStep, Accept, Store, PublishRecords, Refuse, Exists,
       HeadKey, Put, PutFails, StoreDone, Acquire, Load, WriteJson, WriteZst,
       Invalidate, SelectRows, Commit, Conflict, Fail
<1>2. CASE Accept(u)
  <2>1. PICK b \in Batches, m \in Modes :
          /\ m = "batch" \/ \E f \in Files : FilesOf(b) = {f}
          /\ batch' = [batch EXCEPT ![u] = b]
          /\ mode' = [mode EXCEPT ![u] = m]
          /\ pc' = [pc EXCEPT ![u] = "store"]
          /\ stored' = stored
    BY <1>2, Zenon DEF Accept
  <2>2. Wanted(u)' = FilesOf(b) /\ mode'[u] = m /\ stored'[u] = {}
        /\ pc'[u] = "store"
    BY <1>2, <2>1, BatchAssumption DEF Accept, Wanted, Bookkeeping, FilesOf
  <2>3. QED
    BY <2>1, <2>2 DEF OneFile
<1>3. ASSUME NEW f \in Files, Refuse(u, f) \/ Exists(u, f) \/ HeadKey(u, f)
      PROVE  OneFile(u)'
  BY <1>3 DEF Refuse, Exists, HeadKey, OneFile, Wanted, FilesOf
<1>4. CASE Put(u) \/ PutFails(u)
  <2>1. OneFile(u) /\ pc[u] = "put"
    BY <1>4 DEF Put, PutFails
  <2>2. /\ pc'[u] # "put" /\ mode' = mode /\ Wanted(u)' = Wanted(u)
        /\ todo'[u] = todo[u] \ {current[u]}
        /\ stored'[u] \subseteq stored[u] \cup {current[u]}
    BY <1>4 DEF Put, PutFails, Wanted, FilesOf
  <2>3. QED
    BY <2>1, <2>2 DEF OneFile
<1>5. ASSUME StoreDone(u) \/ PublishRecords(u)
      PROVE  UNCHANGED <<batch[u], mode[u], todo[u], stored[u]>>
             /\ pc'[u] # "put"
  BY <1>5 DEF StoreDone, PublishRecords, Acquire, Load, WriteJson, WriteZst,
       Invalidate, SelectRows, Commit, Conflict, Fail
<1>6. ASSUME NEW v \in Uploads, UploadStep(v)
      PROVE  OneFile(u)'
  <2>1. CASE v # u
    BY <1>1, <1>6, <2>1 DEF OneFile, Wanted, FilesOf
  <2>2. CASE StoreDone(u) \/ PublishRecords(u)
    BY <1>5, <2>2 DEF OneFile, Wanted, FilesOf
  <2>3. QED
    BY <1>2, <1>3, <1>4, <1>6, <2>1, <2>2 DEF UploadStep, Store
<1>7. ASSUME NEW r \in Replicas, Crash(r) PROVE OneFile(u)'
  BY <1>7 DEF Crash, OneFile, Wanted, FilesOf
<1>8. CASE UNCHANGED vars
  BY <1>8 DEF vars, uploadVars, OneFile, Wanted, FilesOf
<1>9. QED
  BY <1>6, <1>7, <1>8 DEF Next, AllFinished

\* A request writes back what it read of a file it has not stored.
LEMMA ForeignFile ==
  ASSUME TypeInv, Fresh, NEW u \in Uploads, UploadStep(u),
         NEW f \in Files, f \notin stored'[u], f \notin cutOff'
  PROVE  /\ f \notin stored[u]
         /\ object'[f] = object[f] /\ repodata'[f] = repodata[f]
         /\ zst'[f] \in {zst[f], repodata[f]}
         /\ shard'[f] \in {shard[f], Absent}
         /\ rows'[f] = rows[f] /\ about'[f] = about[f]
<1> USE DEF TypeInv, TypeOK, ChannelTypeOK, Index, Goto
<1> DEFINE Left == /\ f \notin stored[u]
                   /\ object'[f] = object[f] /\ repodata'[f] = repodata[f]
                   /\ zst'[f] = zst[f] /\ shard'[f] = shard[f]
                   /\ rows'[f] = rows[f] /\ about'[f] = about[f]
<1>1. CASE Accept(u)
  BY <1>1 DEF Accept, channelVars
<1>2. ASSUME NEW g \in Files, Refuse(u, g) \/ Exists(u, g) \/ HeadKey(u, g)
      PROVE  Left
  BY <1>2 DEF Refuse, Exists, HeadKey, channelVars
<1>3. CASE Put(u)
  BY <1>3 DEF Put
<1>4. CASE PutFails(u)
  BY <1>4 DEF PutFails
<1>5. CASE StoreDone(u) \/ Acquire(u) \/ SelectRows(u) \/ Conflict(u) \/ Fail(u)
  BY <1>5 DEF StoreDone, Acquire, SelectRows, Conflict, Fail, channelVars
<1>6. ASSUME NEW s \in Subdirs, Load(u, s) PROVE Left
  BY <1>6 DEF Load, channelVars
<1>7. CASE WriteJson(u)
  BY <1>7 DEF WriteJson, PutJson, Splice, Fresh
<1>8. CASE WriteZst(u)
  BY <1>8 DEF WriteZst, PutZst, Splice, Fresh
<1>9. CASE Invalidate(u)
  BY <1>9 DEF Invalidate, DropShards
<1>10. CASE Commit(u)
  BY <1>10 DEF Commit, Upserted
<1>11. QED
  BY <1>1, <1>2, <1>3, <1>4, <1>5, <1>6, <1>7, <1>8, <1>9, <1>10
     DEF UploadStep, Store, PublishRecords

\* What a step of another request leaves of u.
LEMMA OthersStay ==
  ASSUME TypeInv, NEW u \in Uploads, UploadStep(u),
         NEW v \in Uploads, v # u
  PROVE  UNCHANGED <<pc[v], batch[v], stored[v], subs[v], section[v],
                     published[v]>>
  BY DEF TypeInv, TypeOK, Goto, UploadStep, Accept, Store, PublishRecords,
       Refuse, Exists, HeadKey, Put, PutFails, StoreDone, Acquire, Load,
       WriteJson, WriteZst, Invalidate, SelectRows, Commit, Conflict, Fail

LEMMA ZippedIsPublished ==
  ASSUME TypeInv, NEW u \in Uploads, NEW f \in Files, Holds(u, f),
         Zipped(u, f)
  PROVE  f \in published[u]
  BY DoneIsPublished DEF Zipped, Dropped, Holds

\* A step of a request that has not stored f leaves f as it was, for itself
\* and for the request that has.
LEMMA ForeignSettled ==
  ASSUME TypeInv, Fresh, NEW u \in Uploads, UploadStep(u),
         NEW f \in Files, f \notin stored'[u], f \notin cutOff', SettledAt(f)
  PROVE  SettledAt(f)'
<1>1. /\ f \notin stored[u]
      /\ object'[f] = object[f] /\ repodata'[f] = repodata[f]
      /\ zst'[f] \in {zst[f], repodata[f]}
      /\ shard'[f] \in {shard[f], Absent}
      /\ rows'[f] = rows[f] /\ about'[f] = about[f]
  BY ForeignFile
<1>2. \A v \in Uploads : Holds(v, f)' <=> Holds(v, f)
  BY <1>1, OthersStay DEF Holds
<1>3. Consistent(f) => Consistent(f)'
  BY <1>1 DEF Consistent, ClientRecord
<1>4. ASSUME NEW v \in Uploads, Holds(v, f) PROVE Carried(v, f)'
  <2>1. v # u
    BY <1>1, <1>4 DEF Holds
  <2>2. UNCHANGED <<pc[v], batch[v], stored[v], subs[v], section[v],
                    published[v]>>
    BY <2>1, OthersStay
  <2>3. Carried(v, f)
    BY <1>4 DEF SettledAt
  <2>4. /\ Zipped(v, f)' <=> Zipped(v, f)
        /\ Dropped(v, f)' <=> Dropped(v, f)
    BY <2>2 DEF Zipped, Dropped
  <2>5. Zipped(v, f) => f \in published[v]
    BY <1>4, ZippedIsPublished
  <2>6. QED
    BY <1>1, <2>2, <2>3, <2>4, <2>5 DEF Carried
<1>5. QED
  BY <1>2, <1>3, <1>4 DEF SettledAt

\* One that puts f among its own, while nobody else has it.
LEMMA PutSettled ==
  ASSUME TypeInv, NEW u \in Uploads, Put(u), OneFile(u),
         NEW f \in Files, f \in stored'[u], f \notin stored[u],
         f \notin overlapped'
  PROVE  SettledAt(f)'
<1> USE DEF TypeInv, TypeOK, ChannelTypeOK, Goto
<1>1. /\ pc[u] = "put" /\ pc'[u] = "store"
      /\ f = current[u] /\ object'[f] = batch[u][f]
      /\ UNCHANGED <<batch, published>>
      /\ ~StoredByOther(u, f)
  BY DEF Put
<1>2. published[u] = {}
  BY <1>1 DEF Bookkeeping
<1>3. \A v \in Uploads : v # u => ~Holds(v, f)'
  BY <1>1, OthersStay DEF StoredByOther, Holds, UploadStep, Store
<1>4. Holds(u, f)'
  BY <1>1 DEF Holds, InFlight
<1>5. Carried(u, f)'
  BY <1>1, <1>2 DEF Carried, Zipped, Dropped, Locked
<1>6. QED
  BY <1>3, <1>4, <1>5 DEF SettledAt

\* One that has it.
LEMMA OwnSettled ==
  ASSUME TypeInv, Fresh, NEW u \in Uploads, UploadStep(u), OneFile(u),
         NEW f \in Files, f \in stored[u], f \notin cutOff', SettledAt(f)
  PROVE  SettledAt(f)'
<1> USE DEF TypeInv, TypeOK, ChannelTypeOK, Index, Goto
<1>1. Holds(u, f)
  BY DEF Bookkeeping, Holds, InFlight, UploadStep, Accept, Store,
       PublishRecords, Refuse, Exists, HeadKey, Put, PutFails, StoreDone,
       Acquire, Load, WriteJson, WriteZst, Invalidate, SelectRows, Commit,
       Conflict, Fail, Locked
<1>2. Carried(u, f) /\ \A v \in Uploads : Holds(v, f) => v = u
  BY <1>1 DEF SettledAt
<1>3. /\ batch[u] \in [Files -> Builds \cup {None}]
      /\ f \in Wanted(u) /\ f \notin todo[u]
  BY DEF OneFile, Bookkeeping
<1>4. \A v \in Uploads : v # u => ~Holds(v, f)'
  BY <1>2, OthersStay DEF Holds
<1>5. ASSUME Holds(u, f)', Carried(u, f)' PROVE SettledAt(f)'
  BY <1>4, <1>5 DEF SettledAt
<1>6. ASSUME NEW g \in todo[u] PROVE mode[u] = "batch"
  BY <1>3, <1>6 DEF OneFile, Bookkeeping
<1>7. ASSUME object'[f] = object[f], batch'[u] = batch[u],
             published'[u] = published[u], published[u] = {},
             stored[u] \subseteq stored'[u],
             \/ pc'[u] \in {"store", "put", "lock"}
             \/ pc'[u] = "load" /\ SubdirOf[f] \in subs'[u]
      PROVE  SettledAt(f)'
  BY <1>2, <1>5, <1>7
     DEF Holds, Carried, Zipped, Dropped, Locked, InFlight
<1>8. CASE Accept(u)
  BY <1>1, <1>8 DEF Accept, Holds, InFlight, Locked
<1>9. ASSUME NEW g \in Files, Refuse(u, g) \/ Exists(u, g) \/ HeadKey(u, g)
      PROVE  SettledAt(f)'
  <2>1. /\ UNCHANGED <<object, batch, published, stored>>
        /\ pc[u] = "store" /\ g \in todo[u]
        /\ Refuse(u, g) /\ mode[u] = "batch" => pc'[u] = "store"
        /\ Exists(u, g) => mode[u] # "batch"
        /\ HeadKey(u, g) => pc'[u] = "put"
    BY <1>9 DEF Refuse, Exists, HeadKey, channelVars
  <2>2. published[u] = {}
    BY <2>1 DEF Bookkeeping
  <2>3. QED
    BY <1>6, <1>7, <1>9, <2>1, <2>2
<1>10. CASE Put(u) \/ PutFails(u)
  <2>1. /\ current[u] \in todo[u] /\ pc[u] = "put"
    BY <1>10 DEF Put, PutFails, OneFile
  <2>2. /\ UNCHANGED <<batch, published>> /\ object'[f] = object[f]
        /\ stored[u] \subseteq stored'[u]
        /\ pc'[u] = "store"
    BY <1>3, <1>6, <1>10, <2>1 DEF Put, PutFails
  <2>3. QED
    BY <1>7, <2>1, <2>2 DEF Bookkeeping
<1>11. CASE StoreDone(u)
  BY <1>7, <1>11 DEF StoreDone, Bookkeeping, channelVars
<1>12. CASE Acquire(u)
  BY <1>7, <1>12 DEF Acquire, Bookkeeping, channelVars
<1>13. ASSUME NEW s \in Subdirs, Load(u, s) PROVE SettledAt(f)'
  <2>1. /\ UNCHANGED <<channelVars, batch, stored, subs, published>>
        /\ pc[u] = "load" /\ pc'[u] = "json"
    BY <1>13 DEF Load
  <2>2. QED
    BY <1>2, <1>5, <2>1
       DEF channelVars, Holds, Carried, Zipped, Dropped, Locked, InFlight
<1>14. CASE WriteJson(u)
  <2>1. /\ pc[u] = "json" /\ pc'[u] = "zst"
        /\ UNCHANGED <<object, zst, shard, batch, stored, subs, section>>
    BY <1>14 DEF WriteJson
  <2>2. repodata'[f] = IF SubdirOf[f] = section[u] THEN RecordOf(batch[u][f])
                       ELSE repodata[f]
    BY <1>14, <2>1 DEF WriteJson, PutJson, Splice, Fresh
  <2>3. f \in published'[u] => f \in published[u] \/ SubdirOf[f] = section[u]
    BY <1>14 DEF WriteJson
  <2>4. QED
    BY <1>2, <1>5, <2>1, <2>2, <2>3
       DEF Holds, Carried, Zipped, Dropped, Locked, InFlight
<1>15. CASE WriteZst(u)
  <2>1. /\ pc[u] = "zst" /\ pc'[u] = "shard"
        /\ UNCHANGED <<object, repodata, shard, batch, stored, subs, section,
                       published>>
    BY <1>15 DEF WriteZst
  <2>2. zst'[f] = IF SubdirOf[f] = section[u] THEN repodata[f] ELSE zst[f]
    BY <1>15, <2>1 DEF WriteZst, PutZst, Splice, Fresh
  <2>3. SubdirOf[f] = section[u] => f \in published[u]
    BY <2>1, DoneIsPublished
  <2>4. /\ Dropped(u, f)' <=> Dropped(u, f)
        /\ Zipped(u, f)' => Zipped(u, f) \/ SubdirOf[f] = section[u]
    BY <2>1 DEF Dropped, Zipped, Locked
  <2>5. QED
    BY <1>2, <1>5, <2>1, <2>2, <2>3, <2>4 DEF Holds, Carried, InFlight, Locked
<1>16. CASE Invalidate(u)
  <2>1. /\ pc[u] = "shard"
        /\ \/ pc'[u] = "select" /\ subs[u] \subseteq {section[u]}
           \/ pc'[u] = "load" /\ subs'[u] = subs[u] \ {section[u]}
        /\ UNCHANGED <<object, repodata, zst, batch, stored, section,
                       published>>
    BY <1>16 DEF Invalidate
  <2>2. shard'[f] = IF SubdirOf[f] = section[u] THEN Absent ELSE shard[f]
    BY <1>16 DEF Invalidate, DropShards
  <2>3. Zipped(u, f)' => Dropped(u, f)'
    BY <2>1 DEF Zipped
  <2>4. Dropped(u, f)' => Dropped(u, f) \/ SubdirOf[f] = section[u]
    BY <2>1 DEF Dropped, Locked
  <2>5. Dropped(u, f) \/ SubdirOf[f] = section[u] => Zipped(u, f)
    BY <2>1 DEF Zipped
  <2>6. QED
    BY <1>2, <1>5, <2>1, <2>2, <2>3, <2>4, <2>5
       DEF Holds, Carried, InFlight, Locked
<1>17. CASE SelectRows(u)
  BY <1>2, <1>5, <1>17
     DEF SelectRows, channelVars, Holds, Carried, Zipped, Dropped, InFlight,
         Locked
<1>18. CASE Commit(u)
  <2>1. /\ pc[u] = "commit" /\ pc'[u] = "acked"
        /\ UNCHANGED <<object, repodata, zst, shard, batch, stored, published>>
        /\ rows'[f] = RecordOf(batch[u][f]) /\ about'[f] = batch[u][f]
    BY <1>18 DEF Commit, Upserted
  <2>2. Zipped(u, f) /\ Dropped(u, f) /\ f \in published[u]
    BY <1>1, <2>1, ZippedIsPublished DEF Zipped, Dropped
  <2>3. object[f] # None
    BY <1>2, <1>3 DEF Carried, Wanted, FilesOf
  <2>4. Consistent(f)'
    BY <1>2, <2>1, <2>2, <2>3 DEF Carried, Consistent, ClientRecord
  <2>5. ~Holds(u, f)'
    BY <2>1 DEF Holds, InFlight, Locked
  <2>6. QED
    BY <1>4, <2>4, <2>5 DEF SettledAt
<1>19. CASE Conflict(u) \/ Fail(u)
  BY <1>19 DEF Conflict, Fail
<1>20. QED
  BY <1>8, <1>9, <1>10, <1>11, <1>12, <1>13, <1>14, <1>15, <1>16, <1>17,
     <1>18, <1>19 DEF UploadStep, Store, PublishRecords

LEMMA SettledStep ==
  ASSUME TypeInv, Fresh, Settled, [Next]_vars
  PROVE  Settled'
<1>1. \A u \in Uploads : OneFile(u)'
  BY OneFileStep DEF Settled
<1>2. ASSUME NEW u \in Uploads, UploadStep(u),
             NEW f \in Files, f \notin cutOff', f \notin overlapped'
      PROVE  SettledAt(f)'
  <2>1. f \notin cutOff /\ f \notin overlapped
    BY <1>2 DEF UploadStep, Accept, Store, PublishRecords, Refuse, Exists,
         HeadKey, Put, PutFails, StoreDone, Acquire, Load, WriteJson,
         WriteZst, Invalidate, SelectRows, Commit, Conflict, Fail
  <2>2. SettledAt(f) /\ OneFile(u)
    BY <2>1 DEF Settled
  <2>3. CASE f \notin stored'[u]
    BY <1>2, <2>2, <2>3, ForeignSettled
  <2>4. CASE f \in stored[u]
    BY <1>2, <2>2, <2>4, OwnSettled
  <2>5. CASE f \in stored'[u] /\ f \notin stored[u]
    <3>1. Put(u) \/ stored' = stored
      BY <1>2 DEF UploadStep, Accept, Store, PublishRecords, Refuse, Exists,
           HeadKey, PutFails, StoreDone, Acquire, Load, WriteJson,
           WriteZst, Invalidate, SelectRows, Commit, Conflict, Fail
    <3>2. QED
      BY <1>2, <2>2, <2>5, <3>1, PutSettled
  <2>6. QED
    BY <2>3, <2>4, <2>5
<1>3. ASSUME NEW r \in Replicas, Crash(r),
             NEW f \in Files, f \notin cutOff', f \notin overlapped'
      PROVE  SettledAt(f)'
  <2>1. /\ f \notin cutOff /\ f \notin overlapped
        /\ UNCHANGED <<channelVars, batch, stored, subs, section, published>>
        /\ \A u \in Uploads : Holds(u, f) => pc'[u] = pc[u]
    BY <1>3 DEF Crash, Holds
  <2>2. \A u \in Uploads : Holds(u, f)' <=> Holds(u, f)
    BY <1>3, <2>1 DEF Crash, Holds, TypeInv, TypeOK, InFlight, Locked
  <2>3. Consistent(f)' <=> Consistent(f)
    BY <2>1 DEF channelVars, Consistent, ClientRecord
  <2>4. \A u \in Uploads : Holds(u, f) => (Carried(u, f)' <=> Carried(u, f))
    BY <2>1 DEF channelVars, Carried, Zipped, Dropped
  <2>5. SettledAt(f)
    BY <2>1 DEF Settled
  <2>6. QED
    BY <2>2, <2>3, <2>4, <2>5 DEF SettledAt
<1>4. CASE UNCHANGED vars
  <2>1. \A u \in Uploads, f \in Files :
          /\ Holds(u, f)' <=> Holds(u, f)
          /\ Carried(u, f)' <=> Carried(u, f)
    BY <1>4 DEF vars, channelVars, uploadVars, Holds, Carried, Zipped, Dropped
  <2>2. \A f \in Files : Consistent(f)' <=> Consistent(f)
    BY <1>4 DEF vars, channelVars, Consistent, ClientRecord
  <2>3. cutOff' = cutOff /\ overlapped' = overlapped
    BY <1>4 DEF vars
  <2>4. QED
    BY <1>1, <2>1, <2>2, <2>3 DEF Settled, SettledAt
<1>5. CASE \E u \in Uploads : UploadStep(u)
  BY <1>1, <1>2, <1>5 DEF Settled
<1>6. CASE \E r \in Replicas : Crash(r)
  BY <1>1, <1>3, <1>6 DEF Settled
<1>7. QED
  BY <1>4, <1>5, <1>6 DEF Next, AllFinished

\* With one server process, the indexes and the row of a file describe the
\* bytes in storage as soon as nobody publishes it, unless a request left it
\* half way or two stored it at once.
THEOREM BytesDescribed == OneReplica => (Spec => []IndexDescribesBytes)
<1> SUFFICES ASSUME OneReplica PROVE Spec => []IndexDescribesBytes
  OBVIOUS
<1>1. IndInv /\ Settled /\ [Next]_vars => Settled'
  BY SettledStep DEF IndInv
<1>2. Settled => IndexDescribesBytes
  <2>1. ASSUME NEW u \in Uploads, NEW f \in stored[u], pc[u] \in Finished
        PROVE  ~Holds(u, f)
    BY <2>1 DEF Holds, Finished, InFlight, Locked
  <2>2. QED
    BY <2>1 DEF Settled, SettledAt, IndexDescribesBytes, Holds
<1>3. QED
  BY <1>1, <1>2, InitSettled, IndInvHolds, PTL DEF Spec

(***************************************************************************)
(* The upload path implements ChannelIndex.                                *)
(***************************************************************************)

Answered == [u \in Uploads |-> IF pc[u] = "acked" THEN stored[u] ELSE {}]

LEMMA InitAbstract == Init => Abstract!Init
<1> SUFFICES ASSUME Init PROVE Abstract!Init
  OBVIOUS
<1>1. repodata \in Index
  BY InitType DEF TypeOK, ChannelTypeOK
<1>2. QED
  BY <1>1 DEF Init, Abstract!Init, Abstract!Nothing, NoBatch

\* A step that changes neither repodata.json nor the history, and answers
\* nobody, is a stutter of the abstract channel.
LEMMA AbstractStutter ==
  ASSUME UNCHANGED <<repodata, batch, published>>, Answered' = Answered
  PROVE  UNCHANGED Abstract!vars
  BY DEF Abstract!vars, Answered

LEMMA StepAbstract ==
  ASSUME TypeInv, Fresh, [Next]_vars
  PROVE  [Abstract!Next]_(Abstract!vars)
<1> USE DEF TypeInv, TypeOK, ChannelTypeOK, Index, Goto
<1>1. ASSUME NEW u \in Uploads, Accept(u)
      PROVE  [Abstract!Next]_(Abstract!vars)
  <2>1. PICK b \in Batches : batch' = [batch EXCEPT ![u] = b]
    BY <1>1, Zenon DEF Accept
  <2>2. b \in [Files -> Builds \cup {None}]
    BY BatchAssumption
  <2>3. batch[u] = Abstract!Nothing
    BY <1>1 DEF Accept, Bookkeeping, NoBatch, Abstract!Nothing
  <2>4. Answered' = Answered /\ UNCHANGED <<repodata, published>>
    BY <1>1 DEF Accept, Answered, channelVars
  <2>5. Abstract!Ask(u)
    BY <2>1, <2>2, <2>3, <2>4 DEF Abstract!Ask, Answered
  <2>6. QED
    BY <2>5 DEF Abstract!Next
<1>2. ASSUME NEW u \in Uploads, WriteJson(u)
      PROVE  [Abstract!Next]_(Abstract!vars)
  <2> DEFINE F == {f \in stored[u] : SubdirOf[f] = section[u]}
  <2>1. \A f \in F : f \in Files /\ batch[u][f] # None /\ f \notin published[u]
    <3>1. /\ pc[u] = "json" /\ section[u] \in subs[u]
          /\ stored[u] \subseteq Wanted(u)
      BY <1>2 DEF WriteJson, Bookkeeping
    <3>2. published[u] = {f \in stored[u] : SubdirOf[f] \notin subs[u]}
      BY <3>1 DEF Bookkeeping, Locked
    <3>3. QED
      BY <3>1, <3>2 DEF Wanted, FilesOf
  <2>2. F \in SUBSET (Files \ published[u])
    BY <2>1
  <2>3. repodata' = [f \in Files |->
            IF f \in F THEN RecordOf(batch[u][f]) ELSE repodata[f]]
    BY <1>2 DEF WriteJson, PutJson, Splice, Fresh
  <2>4. published' = [published EXCEPT ![u] = @ \cup F]
    BY <1>2 DEF WriteJson
  <2>5. Answered' = Answered /\ UNCHANGED batch
    BY <1>2 DEF WriteJson, Answered
  <2>6. Abstract!Publish(u)
    BY <2>1, <2>2, <2>3, <2>4, <2>5 DEF Abstract!Publish, Answered
  <2>7. QED
    BY <2>6 DEF Abstract!Next
<1>3. ASSUME NEW u \in Uploads, Commit(u)
      PROVE  [Abstract!Next]_(Abstract!vars)
  <2>1. published[u] = stored[u]
    BY <1>3 DEF Commit, Bookkeeping
  <2>2. Answered' = [Answered EXCEPT ![u] = published[u]]
    BY <1>3, <2>1 DEF Commit, Answered
  <2>3. UNCHANGED <<repodata, batch, published>>
    BY <1>3 DEF Commit
  <2>4. Abstract!Answer(u)
    BY <2>2, <2>3 DEF Abstract!Answer, Answered
  <2>5. QED
    BY <2>4 DEF Abstract!Next
<1>4. ASSUME NEW u \in Uploads, StoreDone(u)
      PROVE  [Abstract!Next]_(Abstract!vars)
  <2>1. UNCHANGED <<repodata, batch, published>>
    BY <1>4 DEF StoreDone, channelVars
  <2>2. Answered' = Answered
    BY <1>4 DEF StoreDone, Answered
  <2>3. QED
    BY <2>1, <2>2, AbstractStutter
<1>5. ASSUME NEW u \in Uploads, UploadStep(u),
             ~Accept(u), ~WriteJson(u), ~Commit(u), ~StoreDone(u)
      PROVE  [Abstract!Next]_(Abstract!vars)
  <2>1. /\ UNCHANGED <<repodata, batch, published>>
        /\ pc[u] # "acked" /\ pc'[u] # "acked"
        /\ \A v \in Uploads \ {u} : pc'[v] = pc[v] /\ stored'[v] = stored[v]
    <3> DEFINE Quiet == /\ UNCHANGED <<repodata, batch, published>>
                        /\ pc[u] # "acked" /\ pc'[u] # "acked"
                        /\ \A v \in Uploads \ {u} :
                              pc'[v] = pc[v] /\ stored'[v] = stored[v]
    <3>1. ASSUME NEW f \in Files, Refuse(u, f) \/ Exists(u, f) \/ HeadKey(u, f)
          PROVE  Quiet
      BY <3>1 DEF Refuse, Exists, HeadKey, channelVars
    <3>2. CASE Put(u) \/ PutFails(u)
      BY <3>2 DEF Put, PutFails
    <3>3. CASE Acquire(u) \/ WriteZst(u) \/ Invalidate(u) \/ SelectRows(u)
      BY <3>3 DEF Acquire, WriteZst, Invalidate, SelectRows, channelVars
    <3>4. ASSUME NEW s \in Subdirs, Load(u, s) PROVE Quiet
      BY <3>4 DEF Load, channelVars
    <3>5. CASE Conflict(u) \/ Fail(u)
      BY <3>5 DEF Conflict, Fail, channelVars, Locked
    <3>6. QED
      BY <1>5, <3>1, <3>2, <3>3, <3>4, <3>5
         DEF UploadStep, Store, PublishRecords
  <2>2. Answered' = Answered
    BY <2>1 DEF Answered
  <2>3. QED
    BY <2>1, <2>2, AbstractStutter
<1>6. ASSUME NEW r \in Replicas, Crash(r)
      PROVE  [Abstract!Next]_(Abstract!vars)
  <2>1. UNCHANGED <<repodata, batch, published>>
    BY <1>6 DEF Crash, channelVars
  <2>2. Answered' = Answered
    BY <1>6 DEF Crash, Answered, InFlight, Locked
  <2>3. QED
    BY <2>1, <2>2, AbstractStutter
<1>7. CASE UNCHANGED vars
  BY <1>7, AbstractStutter DEF vars, uploadVars, channelVars, Answered
<1>8. QED
  BY <1>1, <1>2, <1>3, <1>4, <1>5, <1>6, <1>7 DEF Next, AllFinished

\* With one server process the upload path implements the abstract channel:
\* every index write takes over exactly one request's contents, and a success
\* answer names only files taken over.
THEOREM Refinement == OneReplica => (Spec => ImplementsChannelIndex)
<1> SUFFICES ASSUME OneReplica PROVE Spec => Abstract!Spec
  BY DEF ImplementsChannelIndex
<1>1. IndInv /\ [Next]_vars => [Abstract!Next]_(Abstract!vars)
  BY StepAbstract DEF IndInv
<1>2. QED
  BY <1>1, InitAbstract, IndInvHolds, PTL DEF Spec, Abstract!Spec

(***************************************************************************)
(* Uploads, passes and deletions together.  What was proved of one step of *)
(* a request and of one step of a pass still holds.                        *)
(***************************************************************************)

Sound == TypeInv /\ LockInv /\ Course

LEMMA InitSound == SystemInit => Sound
<1> SUFFICES ASSUME SystemInit PROVE Sound
  OBVIOUS
<1>1. TypeInv
  BY InitTypeInv DEF SystemInit
<1>2. LockInv
  BY ReplicaAssumption DEF SystemInit, Init, LockInv, Locked
<1>3. ReindexTypeOK
  <2>1. ChannelTypeOK
    BY <1>1 DEF TypeInv, TypeOK
  <2>2. /\ backend \in {"rattler", "metadata"}
        /\ rpc \in [Passes -> Running \cup Deleting \cup Ended]
    BY DEF SystemInit, PassInit, Ended
  <2> QED
    BY <2>1, <2>2, BlankTyped DEF SystemInit, PassInit, ReindexTypeOK
<1>4. ShardsFit /\ Sharding /\ alone = {}
  BY DEF SystemInit, PassInit, ShardsFit, Sharding
<1> QED
  BY <1>1, <1>2, <1>3, <1>4 DEF Sound, Course

\* An upload drops shard indexes and writes none.
LEMMA UploadShards ==
  ASSUME TypeInv, NEW u \in Uploads, UploadStep(u), NEW f \in Files
  PROVE  shard'[f] \in {shard[f], Absent}
<1>1. CASE Invalidate(u)
  BY <1>1 DEF Invalidate, DropShards
<1>2. ASSUME ~Invalidate(u) PROVE shard' = shard
  BY <1>2 DEF UploadStep, Accept, Store, PublishRecords, Refuse, Exists,
     HeadKey, Put, PutFails, StoreDone, Acquire, Load, WriteJson, WriteZst,
     SelectRows, Commit, Conflict, Fail, channelVars
<1> QED
  BY <1>1, <1>2

LEMMA SoundStep == Sound /\ [SystemNext]_systemVars => Sound'
<1> SUFFICES ASSUME Sound, [SystemNext]_systemVars PROVE Sound'
  OBVIOUS
<1> USE DEF Sound
<1>1. ASSUME NEW u \in Uploads, Upload(u) PROVE Sound'
  <2>1. TypeInv' /\ LockInv'
    <3>1. UploadStep(u)
      BY <1>1 DEF Upload
    <3>2. TypeInv'
      BY <3>1, OwnStepTyped, OthersUntouched DEF TypeInv
    <3> QED
      BY <3>1, <3>2, LockStep DEF Next
  <2>2. /\ UNCHANGED passVars
        /\ alone' = IF channelVars' = channelVars THEN alone ELSE {}
    BY <1>1 DEF Upload
  <2>3. ReindexTypeOK' /\ Sharding'
    BY <2>1, <2>2
    DEF TypeInv, TypeOK, Course, ReindexTypeOK, passVars, Sharding
  <2>4. ShardsFit'
    BY <1>1, <2>2, UploadShards DEF Upload, Course, ShardsFit, passVars
  <2>5. ASSUME NEW x \in alone'
        PROVE  rpc'[x] \in Running \cup {"done", "failed"} /\ OnCourse(x)'
    BY <2>2, <2>5, LeftOnCourse DEF Course, ReindexTypeOK, passVars
  <2> QED
    BY <2>1, <2>3, <2>4, <2>5 DEF Course
<1>2. ASSUME NEW x \in Passes, Maintain(x) PROVE Sound'
  <2>1. Course'
    BY <1>2, StepOnCourse DEF Maintain, ReindexNext
  <2>2. ChannelTypeOK' /\ UNCHANGED <<uploadVars, published, cutOff, overlapped>>
    BY <1>2, <2>1 DEF Maintain, Course, ReindexTypeOK
  <2>3. TypeInv' /\ LockInv'
    BY <2>2 DEF TypeInv, TypeOK, Bookkeeping, Wanted, FilesOf, LockInv,
       uploadVars
  <2> QED
    BY <2>1, <2>3
<1>3. ASSUME NEW r \in Replicas, Restart(r) PROVE Sound'
  <2>1. Crash(r) /\ UNCHANGED <<channelVars, passVars, alone>>
    BY <1>3 DEF Restart, Crash
  <2>2. TypeInv' /\ LockInv'
    BY <2>1, CrashTyped, LockStep DEF Next
  <2>3. Course'
    BY <2>1, StepOnCourse DEF reindexVars
  <2> QED
    BY <2>2, <2>3
<1>4. CASE UNCHANGED systemVars
  <2>1. UNCHANGED <<vars, reindexVars>>
    BY <1>4 DEF systemVars, vars, reindexVars
  <2>2. LockInv'
    BY <2>1, LockStep
  <2>3. Course'
    BY <2>1, StepOnCourse
  <2>4. TypeInv'
    BY <2>1 DEF vars, channelVars, uploadVars, TypeInv, TypeOK, ChannelTypeOK,
       Bookkeeping, Wanted, FilesOf
  <2> QED
    BY <2>2, <2>3, <2>4
<1> QED
  BY <1>1, <1>2, <1>3, <1>4 DEF SystemNext

LEMMA AlwaysSound == SystemSpec => []Sound
BY InitSound, SoundStep, PTL DEF SystemSpec

\* A pass nobody interferes with reconciles the channel, whatever uploads and
\* crashes came before it and left things half done.
THEOREM ChannelReconciles == SystemSpec => []PassReconciles
<1>1. Sound => PassReconciles
  <2> SUFFICES ASSUME Sound PROVE PassReconciles
    OBVIOUS
  <2>1. \A x \in alone : x \in Passes /\ OnCourse(x)
    BY DEF Sound, Course, ReindexTypeOK
  <2> QED
    BY <2>1, CourseReconciles DEF PassReconciles, Sound, Course
<1> QED
  BY <1>1, AlwaysSound, PTL

(***************************************************************************)
(* What was answered with success stays listed.  From the moment a request *)
(* has written a file to repodata.json, whoever is about to write back a   *)
(* copy of an index has the file in it: another request, because it read   *)
(* the index afterwards (the lock), a pass, because it began afterwards    *)
(* and found the archive.                                                  *)
(***************************************************************************)

\* No pass has run, so far, while u did.
Quiet == \A u \in Uploads \ raced : pc[u] \in InFlight => ~PassActive

\* A request has its own files in what it writes back.
Merging ==
    \A v \in Uploads : pc[v] \in {"json", "zst"} =>
        \A f \in stored[v] : SubdirOf[f] = section[v] => entries[v][f] # None

\* What requests are about to write back names f.
InMerges(f) ==
    \A v \in Uploads : pc[v] \in {"json", "zst"} /\ section[v] = SubdirOf[f] =>
        entries[v][f] # None

\* What pass x is about to write back names f, or it will open the archive.
InPass(x, f) ==
    /\ rpc[x] = "scan" => f \in rtodo[x] \/ found[x][f] # None
    /\ rpc[x] \in Indexing => found[x][f] # None
    /\ rpc[x] \in {"fixJson", "fixZst"} /\ rsection[x] = SubdirOf[f] =>
          merged[x][f] # None

KeptFor(u, f) ==
    /\ object[f] \in Builds
    /\ f \in published[u] => repodata[f] # None /\ InMerges(f)
    /\ Zipped(u, f) \/ pc[u] = "acked" => zst[f] # None
    /\ Dropped(u, f) \/ pc[u] = "acked" => shard[f] # None
    /\ pc[u] = "acked" => \A x \in Passes : InPass(x, f)

Kept ==
    \A u \in Uploads \ raced : pc[u] \in InFlight \cup {"acked"} =>
        \A f \in stored[u] \ lost[u] : KeptFor(u, f)

\* A step of a pass keeps a file whose archive is readable in the indexes.
LEMMA PassKeeps ==
  ASSUME ReindexTypeOK, NEW x \in Passes, PassStep(x), NEW f \in Files,
         object[f] \in Builds, repodata[f] # None, zst[f] # None,
         shard[f] # None, InPass(x, f)
  PROVE  /\ repodata'[f] # None /\ zst'[f] # None /\ shard'[f] # None
         /\ InPass(x, f)'
<1>0. /\ found[x] \in Index /\ merged[x] \in Index /\ repodata \in Index
      /\ zst \in Index /\ RecordOf(object[f]) # None /\ Absent # None
      /\ object[f] # Junk /\ object[f] # None
  BY ArchiveRecord, ValueAssumption
  DEF ReindexTypeOK, ChannelTypeOK, Contents
<1> DEFINE Here == /\ repodata'[f] # None /\ zst'[f] # None
                   /\ shard'[f] # None /\ InPass(x, f)'
<1>1. ASSUME UNCHANGED <<repodata, zst, shard>>,
             rpc'[x] \notin {"scan", "fixJson", "fixZst"} \cup Indexing
      PROVE  Here
  BY <1>1 DEF InPass
<1>2. CASE IndexStep(x)
  <2>1. CASE SelectKnown(x)
    BY <1>1, <2>1, Moved DEF SelectKnown, channelVars, Indexing
  <2>2. CASE ListObjects(x)
    <3>1. /\ rpc'[x] = "scan" /\ UNCHANGED channelVars
          /\ f \in rtodo'[x] \/ found'[x][f] # None
      BY <1>0, <2>2, Moved DEF ListObjects, Listed, ReindexTypeOK
    <3> QED
      BY <3>1 DEF InPass, Indexing, channelVars
  <2>3. ASSUME NEW g \in Files, ScanArchive(x, g) PROVE Here
    <3>1. /\ rpc[x] = "scan" /\ rpc'[x] = "scan" /\ UNCHANGED channelVars
          /\ f \in rtodo'[x] \/ found'[x][f] # None
      BY <1>0, <2>3 DEF ScanArchive, ReindexTypeOK, Index, InPass
    <3> QED
      BY <3>1 DEF InPass, Indexing, channelVars
  <2>4. CASE ScanDone(x)
    BY <2>4, Moved DEF ScanDone, channelVars, InPass, Indexing
  <2>5. CASE RattlerScan(x)
    <3>1. rpc'[x] = "json" /\ found'[x][f] # None /\ UNCHANGED channelVars
      BY <1>0, <2>5, Moved DEF RattlerScan, ReindexTypeOK
    <3> QED
      BY <3>1 DEF InPass, Indexing, channelVars
  <2>6. ASSUME NEW s \in Subdirs, IndexJson(x, s) PROVE Here
    <3>1. /\ rpc[x] = "json" /\ rpc'[x] = "zst"
          /\ UNCHANGED <<zst, shard, found>>
          /\ repodata'[f] \in {found[x][f], repodata[f]}
      BY <1>0, <2>6, Moved, Spliced DEF IndexJson, PutJson
    <3> QED
      BY <3>1 DEF InPass, Indexing
  <2>7. CASE IndexZst(x)
    <3>1. /\ rpc[x] = "zst" /\ UNCHANGED <<repodata, shard, found>>
          /\ zst'[f] \in {found[x][f], zst[f]}
      BY <1>0, <2>7, Spliced DEF IndexZst, PutZst
    <3>2. rpc'[x] \in {"json", "shards"}
      BY <2>7, Moved DEF IndexZst
    <3> QED
      BY <3>1, <3>2 DEF InPass, Indexing
  <2>8. CASE IndexShards(x)
    <3>1. /\ rpc[x] = "shards" /\ rpc'[x] = "json"
          /\ UNCHANGED <<repodata, zst, found>>
          /\ shard'[f] \in {found[x][f], shard[f]}
      BY <2>8, Moved DEF IndexShards, Splice
    <3> QED
      BY <3>1 DEF InPass, Indexing
  <2>9. CASE IndexDone(x)
    BY <1>1, <2>9, Moved DEF IndexDone, channelVars, Indexing
  <2> QED
    BY <1>2, <2>1, <2>2, <2>3, <2>4, <2>5, <2>6, <2>7, <2>8, <2>9
    DEF IndexStep
<1>3. CASE SyncStep(x)
  <2>1. CASE SyncSelect(x)
    BY <1>1, <2>1, Moved DEF SyncSelect, channelVars, Indexing
  <2>2. CASE SyncRead(x)
    BY <1>1, <2>2, Moved DEF SyncRead, channelVars, Indexing
  <2>3. CASE SyncFlush(x)
    BY <1>1, <2>3, Moved DEF SyncFlush, channelVars, Indexing
  <2>4. ASSUME NEW g \in Files, CaptureAbout(x, g) PROVE Here
    BY <1>1, <2>4 DEF CaptureAbout, channelVars, Indexing
  <2>5. CASE CaptureDone(x)
    BY <1>1, <2>5, Moved DEF CaptureDone, channelVars, Indexing
  <2> QED
    BY <1>3, <2>1, <2>2, <2>3, <2>4, <2>5 DEF SyncStep
<1>4. CASE RepairStep(x)
  <2>1. CASE RepairSelect(x)
    <3>1. rpc'[x] \in {"commit", "repairList"}
      BY <2>1, Moved DEF RepairSelect
    <3> QED
      BY <1>1, <2>1, <3>1 DEF RepairSelect, channelVars, Indexing
  <2>2. CASE RepairList(x)
    BY <1>1, <2>2, Moved DEF RepairList, channelVars, Indexing
  <2>3. ASSUME NEW g \in Files, RepairFetch(x, g) PROVE Here
    BY <1>1, <2>3 DEF RepairFetch, channelVars, Indexing
  <2>4. CASE RepairFetched(x)
    <3>1. rpc'[x] \in {"commit", "load"}
      BY <2>4, Moved DEF RepairFetched
    <3> QED
      BY <1>1, <2>4, <3>1 DEF RepairFetched, channelVars, Indexing
  <2>5. ASSUME NEW s \in Subdirs, RepairLoad(x, s) PROVE Here
    <3>1. /\ rpc'[x] = "fixJson" /\ UNCHANGED channelVars
          /\ rsection'[x] = SubdirOf[f] => merged'[x][f] # None
      BY <2>5, Moved DEF RepairLoad, ReindexTypeOK
    <3> QED
      BY <3>1 DEF InPass, Indexing, channelVars
  <2>6. CASE FixJson(x)
    <3>1. /\ rpc[x] = "fixJson" /\ rpc'[x] = "fixZst"
          /\ UNCHANGED <<zst, shard, merged, rsection>>
          /\ repodata'[f] = IF SubdirOf[f] = rsection[x] THEN merged[x][f]
                            ELSE repodata[f]
      BY <1>0, <2>6, Moved, Spliced DEF FixJson, PutJson
    <3> QED
      BY <3>1 DEF InPass, Indexing
  <2>7. CASE FixZst(x)
    <3>1. /\ rpc[x] = "fixZst" /\ rpc'[x] = "fixShards"
          /\ UNCHANGED <<repodata, shard>>
          /\ zst'[f] = IF SubdirOf[f] = rsection[x] THEN merged[x][f]
                       ELSE zst[f]
      BY <1>0, <2>7, Moved, Spliced DEF FixZst, PutZst
    <3> QED
      BY <3>1 DEF InPass, Indexing
  <2>8. CASE FixShards(x)
    <3>1. /\ rpc'[x] \in {"flush", "load"} /\ UNCHANGED <<repodata, zst>>
          /\ shard'[f] \in {shard[f], Absent}
      BY <2>8, Moved DEF FixShards, DropShards
    <3> QED
      BY <1>0, <3>1 DEF InPass, Indexing
  <2>9. CASE RepairFlush(x)
    BY <1>1, <2>9, Moved DEF RepairFlush, channelVars, Indexing
  <2> QED
    BY <1>4, <2>1, <2>2, <2>3, <2>4, <2>5, <2>6, <2>7, <2>8, <2>9
    DEF RepairStep
<1>5. CASE CommitPass(x)
  BY <1>1, <1>5, Moved DEF CommitPass, Close, Indexing
<1>6. CASE FailPass(x)
  BY <1>1, <1>6, Moved DEF FailPass, Close, channelVars, Indexing
<1>7. CASE Request(x)
  BY <1>1, <1>7, Moved DEF Request, channelVars, Indexing
<1> QED
  BY <1>2, <1>3, <1>4, <1>5, <1>6, <1>7 DEF PassStep

LEMMA MaintainKeeps ==
  ASSUME Sound, Quiet, Merging, Kept, NEW x \in Passes, Maintain(x)
  PROVE  Quiet' /\ Merging' /\ Kept'
<1>1. /\ DeleteStep(x) \/ PassStep(x)
      /\ UNCHANGED <<uploadVars, published>> /\ Track
  BY DEF Maintain
<1>2. Quiet' /\ Merging'
  BY <1>1 DEF Quiet, Track, Merging, uploadVars
<1>3. ASSUME NEW u \in Uploads \ raced', pc'[u] \in InFlight \cup {"acked"},
             NEW f \in stored'[u] \ lost'[u]
      PROVE  KeptFor(u, f)'
  <2>1. /\ u \notin raced /\ f \in stored[u] /\ f \notin lost[u]
        /\ f \in Files /\ KeptFor(u, f) /\ pc[u] \in InFlight \cup {"acked"}
    BY <1>1, <1>3 DEF Track, uploadVars, Kept, Sound, TypeInv, TypeOK
  <2>2. object'[f] \in Builds
    BY <1>1, <1>3, <2>1 DEF Track
  <2>3. /\ Zipped(u, f)' = Zipped(u, f) /\ Dropped(u, f)' = Dropped(u, f)
        /\ InMerges(f)' = InMerges(f) /\ UNCHANGED <<pc, published, stored>>
    BY <1>1 DEF uploadVars, Zipped, Dropped, InMerges
  <2>4. CASE pc[u] \in InFlight
    <3>1. ~PassActive /\ ~PassActive'
      BY <1>1, <1>3, <2>1, <2>4 DEF Track
    <3>2. UNCHANGED channelVars
      BY <1>1, <3>1, PassLeadsOn, DeletionLeadsOn
      DEF PassActive, Sound, Course, Running
    <3> QED
      BY <2>1, <2>3, <2>4, <3>2
      DEF KeptFor, channelVars, InFlight, Locked
  <2>5. CASE pc[u] = "acked"
    <3>1. /\ f \in published[u] /\ repodata[f] # None /\ InMerges(f)
          /\ zst[f] # None /\ shard[f] # None /\ object[f] \in Builds
          /\ \A y \in Passes : InPass(y, f)
      BY <2>1, <2>5 DEF KeptFor, Sound, TypeInv, Bookkeeping
    <3>2. ReindexTypeOK
      BY DEF Sound, Course
    <3>3. /\ repodata'[f] # None /\ zst'[f] # None /\ shard'[f] # None
          /\ InPass(x, f)'
      <4>1. CASE PassStep(x)
        BY <2>1, <3>1, <3>2, <4>1, PassKeeps
      <4>2. CASE DeleteStep(x)
        BY <3>1, <3>2, <4>2, DeletionLeadsOn DEF InPass, Indexing, Deleting
      <4> QED
        BY <1>1, <4>1, <4>2
    <3>4. ASSUME NEW y \in Passes, y # x PROVE InPass(y, f)'
      BY <1>1, <3>1, <3>2, <3>4, OthersUnmoved DEF Unmoved, InPass
    <3> QED
      BY <2>2, <2>3, <3>1, <3>3, <3>4 DEF KeptFor
  <2> QED
    BY <2>1, <2>4, <2>5
<1> QED
  BY <1>2, <1>3 DEF Kept

\* What each write of a request does to the indexes and to the copies of
\* them that requests are about to write back.
LEMMA UploadWrites ==
  ASSUME TypeInv, NEW w \in Uploads, UploadStep(w), NEW f \in Files
  PROVE  /\ repodata'[f] = repodata[f] \/
               /\ WriteJson(w) /\ SubdirOf[f] = section[w]
               /\ repodata'[f] = entries[w][f]
         /\ zst'[f] = zst[f] \/
               /\ WriteZst(w) /\ SubdirOf[f] = section[w]
               /\ zst'[f] = entries[w][f]
         /\ shard'[f] \in {shard[f], Absent}
         /\ published'[w] = published[w] \/ WriteJson(w)
         /\ stored'[w] = stored[w] \/ Put(w)
         /\ pc'[w] \in {"json", "zst"} =>
               \/ WriteJson(w)
               \/ pc[w] = "load" /\ UNCHANGED <<repodata, stored>> /\
                  (SubdirOf[f] = section'[w] =>
                      entries'[w][f] = IF f \in stored[w]
                                       THEN RecordOf(batch[w][f])
                                       ELSE repodata[f])
         /\ \A v \in Uploads \ {w} :
               UNCHANGED <<pc[v], batch[v], stored[v], subs[v], section[v],
                           published[v], entries[v]>>
<1> USE DEF TypeInv, TypeOK, ChannelTypeOK, Goto
<1>1. \A v \in Uploads \ {w} : UNCHANGED <<pc[v], batch[v], stored[v], subs[v],
                                         section[v], published[v]>>
  BY OthersStay
<1>2. \A v \in Uploads \ {w} : entries'[v] = entries[v]
  BY DEF UploadStep, Accept, Store, PublishRecords, Refuse, Exists, HeadKey,
     Put, PutFails, StoreDone, Acquire, Load, WriteJson, WriteZst, Invalidate,
     SelectRows, Commit, Conflict, Fail
<1>3. /\ repodata' = repodata \/ WriteJson(w)
      /\ zst' = zst \/ WriteZst(w)
      /\ published' = published \/ WriteJson(w)
      /\ stored' = stored \/ Put(w)
  BY DEF UploadStep, Accept, Store, PublishRecords, Refuse, Exists, HeadKey,
     Put, PutFails, StoreDone, Acquire, Load, WriteJson, WriteZst, Invalidate,
     SelectRows, Commit, Conflict, Fail, channelVars
<1>4. WriteJson(w) => repodata'[f] = IF SubdirOf[f] = section[w]
                                    THEN entries[w][f] ELSE repodata[f]
  BY Spliced DEF WriteJson, PutJson
<1>5. WriteZst(w) => zst'[f] = IF SubdirOf[f] = section[w]
                              THEN entries[w][f] ELSE zst[f]
  BY Spliced DEF WriteZst, PutZst
<1>6. ASSUME pc'[w] \in {"json", "zst"}, ~WriteJson(w)
      PROVE  /\ pc[w] = "load" /\ UNCHANGED <<repodata, stored>>
             /\ SubdirOf[f] = section'[w] =>
                  entries'[w][f] = IF f \in stored[w]
                                   THEN RecordOf(batch[w][f])
                                   ELSE repodata[f]
  <2>1. PICK s \in Subdirs : Load(w, s)
    BY <1>6 DEF UploadStep, Accept, Store, PublishRecords, Refuse, Exists,
       HeadKey, Put, PutFails, StoreDone, Acquire, WriteZst, Invalidate,
       SelectRows, Commit, Conflict, Fail
  <2> QED
    BY <2>1 DEF Load, channelVars
<1> QED
  BY <1>1, <1>2, <1>3, <1>4, <1>5, <1>6, UploadShards

LEMMA MergingStep ==
  ASSUME TypeInv, Merging, NEW w \in Uploads, UploadStep(w)
  PROVE  Merging'
<1> SUFFICES ASSUME NEW v \in Uploads, pc'[v] \in {"json", "zst"},
                    NEW f \in stored'[v], SubdirOf[f] = section'[v]
             PROVE  entries'[v][f] # None
  BY DEF Merging
<1>1. f \in Files
  BY OwnStepTyped DEF TypeOK
<1>2. CASE v # w
  <2>1. UNCHANGED <<pc[v], stored[v], section[v], entries[v]>>
    BY <1>1, <1>2, UploadWrites
  <2> QED
    BY <2>1 DEF Merging
<1>3. CASE v = w /\ WriteJson(w)
  BY <1>3 DEF WriteJson, Merging
<1>4. CASE v = w /\ ~WriteJson(w)
  <2>1. f \in stored[w] /\ entries'[w][f] = RecordOf(batch[w][f])
    BY <1>1, <1>4, UploadWrites
  <2> QED
    BY <1>4, <2>1, ArchiveRecord
    DEF TypeInv, TypeOK, Bookkeeping, Wanted, FilesOf
<1> QED
  BY <1>2, <1>3, <1>4

\* Which indexes a request is done with, before and after one of its steps.
LEMMA WritesProgress ==
  ASSUME TypeInv, NEW u \in Uploads, UploadStep(u),
         NEW f \in stored[u], f \in Files
  PROVE  /\ pc'[u] \in InFlight \cup {"acked"} => pc[u] \in InFlight
         /\ Zipped(u, f)' \/ pc'[u] = "acked" =>
               \/ Zipped(u, f)
               \/ WriteZst(u) /\ SubdirOf[f] = section[u]
         /\ Dropped(u, f)' \/ pc'[u] = "acked" =>
               \/ Dropped(u, f)
               \/ Invalidate(u) /\ SubdirOf[f] = section[u]
<1> USE DEF TypeInv, TypeOK, Goto, InFlight, Locked, Zipped, Dropped
<1>1. CASE Accept(u)
  BY <1>1 DEF Accept, Bookkeeping
<1>2. CASE Store(u)
  BY <1>2 DEF Store, Refuse, Exists, HeadKey, Put, PutFails, StoreDone
<1>3. CASE Acquire(u)
  BY <1>3 DEF Acquire
<1>4. ASSUME NEW s \in Subdirs, Load(u, s)
      PROVE  pc[u] = "load" /\ pc'[u] = "json" /\ UNCHANGED subs
  BY <1>4 DEF Load
<1>5. CASE WriteJson(u)
  BY <1>5 DEF WriteJson
<1>6. CASE WriteZst(u)
  BY <1>6 DEF WriteZst
<1>7. CASE Invalidate(u)
  BY <1>7 DEF Invalidate
<1>8. CASE SelectRows(u)
  BY <1>8 DEF SelectRows
<1>9. CASE Commit(u)
  BY <1>9 DEF Commit
<1>10. CASE Conflict(u) \/ Fail(u)
  BY <1>10 DEF Conflict, Fail
<1> QED
  BY <1>1, <1>2, <1>3, <1>4, <1>5, <1>6, <1>7, <1>8, <1>9, <1>10
  DEF UploadStep, PublishRecords

LEMMA UploadKeeps ==
  ASSUME OnePublisher, Sound, Quiet, Merging, Kept, NEW w \in Uploads, Upload(w)
  PROVE  Quiet' /\ Merging' /\ Kept'
<1>1. UploadStep(w) /\ UNCHANGED passVars /\ Track /\ TypeInv /\ Absent # None
  BY ValueAssumption DEF Upload, Sound
<1>2. Quiet'
  BY <1>1 DEF Quiet, Track
<1>3. Merging'
  BY <1>1, MergingStep
<1>4. ASSUME NEW u \in Uploads \ raced', pc'[u] \in InFlight \cup {"acked"},
             NEW f \in stored'[u] \ lost'[u], f \notin stored[u]
      PROVE  KeptFor(u, f)'
  <2>1. u = w /\ Put(w)
    BY <1>1, <1>4, OthersStay DEF UploadStep, Accept, Store, PublishRecords,
       Refuse, Exists, HeadKey, PutFails, StoreDone, Acquire, Load, WriteJson,
       WriteZst, Invalidate, SelectRows, Commit, Conflict, Fail
  <2>2. /\ pc'[u] = "store" /\ published'[u] = {}
        /\ f = current[u] /\ object'[f] = batch[u][f]
        /\ batch[u][f] \in Builds
    BY <1>1, <1>4, <2>1
    DEF Put, Goto, TypeInv, TypeOK, ChannelTypeOK, Bookkeeping, Wanted, FilesOf
  <2> QED
    BY <2>2 DEF KeptFor, Zipped, Dropped, Locked
<1>5. ASSUME NEW u \in Uploads \ raced', pc'[u] \in InFlight \cup {"acked"},
             NEW f \in stored'[u] \ lost'[u], f \in stored[u]
      PROVE  KeptFor(u, f)'
  <2>1. /\ u \notin raced /\ f \notin lost[u] /\ object'[f] \in Builds
        /\ f \in Files
    BY <1>1, <1>5 DEF Track, TypeInv, TypeOK
  <2>2. pc[u] \in InFlight \cup {"acked"} /\ KeptFor(u, f)
    <3>1. pc[u] \in InFlight \cup {"acked"}
      BY <1>1, <1>5, <2>1, WritesProgress, OthersStay
    <3> QED
      BY <1>5, <2>1, <3>1 DEF Kept
  <2>3. f \in published'[u] =>
            f \in published[u] \/ (u = w /\ WriteJson(w) /\ SubdirOf[f] = section[w])
    <3>1. CASE u = w
      BY <1>1, <2>1, <3>1, UploadWrites DEF WriteJson, TypeInv, TypeOK
    <3>2. CASE u # w
      BY <1>1, <3>2, OthersStay
    <3> QED
      BY <3>1, <3>2
  <2>4. ASSUME pc[w] \in {"json", "zst"}, SubdirOf[f] = section[w],
               f \in published[u] \/ u = w
        PROVE  entries[w][f] # None
    BY <1>5, <2>2, <2>4 DEF KeptFor, InMerges, Merging
  <2>5. ASSUME f \in published'[u] PROVE repodata'[f] # None
    <3>1. CASE WriteJson(w) /\ SubdirOf[f] = section[w]
      BY <1>1, <2>1, <2>3, <2>4, <2>5, <3>1, UploadWrites, Spliced
      DEF WriteJson, PutJson, TypeInv, TypeOK, ChannelTypeOK
    <3>2. CASE ~(WriteJson(w) /\ SubdirOf[f] = section[w])
      BY <1>1, <2>1, <2>2, <2>3, <2>5, <3>2, UploadWrites DEF KeptFor
    <3> QED
      BY <3>1, <3>2
  <2>6. ASSUME f \in published'[u], NEW v \in Uploads,
               pc'[v] \in {"json", "zst"}, section'[v] = SubdirOf[f]
        PROVE  entries'[v][f] # None
    <3>1. CASE v = w /\ WriteJson(w)
      <4>1. /\ pc[w] = "json" /\ UNCHANGED <<section, entries>>
            /\ f \in published[u] \/ u = w
        BY <2>3, <2>6, <3>1 DEF WriteJson
      <4> QED
        BY <2>4, <2>6, <3>1, <4>1
    <3>2. CASE v = w /\ ~WriteJson(w)
      <4>1. /\ f \in published[u]
            /\ entries'[w][f] = IF f \in stored[w] THEN RecordOf(batch[w][f])
                                ELSE repodata[f]
        BY <1>1, <2>1, <2>3, <2>6, <3>2, UploadWrites
      <4>2. f \in stored[w] => RecordOf(batch[w][f]) # None
        BY <1>1, <2>1, ArchiveRecord
        DEF TypeInv, TypeOK, Bookkeeping, Wanted, FilesOf
      <4> QED
        BY <2>2, <3>2, <4>1, <4>2 DEF KeptFor
    <3>3. CASE v # w
      <4>1. UNCHANGED <<pc[v], section[v], entries[v]>>
        BY <1>1, <2>1, <3>3, UploadWrites
      <4>2. f \in published[u]
        BY <2>3, <2>6, <3>3, <4>1 DEF OnePublisher, WriteJson, Locked
      <4> QED
        BY <2>2, <2>6, <4>1, <4>2 DEF KeptFor, InMerges
    <3> QED
      BY <3>1, <3>2, <3>3
  <2>7. ASSUME Zipped(u, f)' \/ pc'[u] = "acked" PROVE zst'[f] # None
    <3>1. \/ Zipped(u, f) \/ pc[u] = "acked"
          \/ u = w /\ WriteZst(w) /\ SubdirOf[f] = section[w]
      <4>1. CASE u = w
        BY <1>1, <1>5, <2>1, <2>7, <4>1, WritesProgress
      <4>2. CASE u # w
        BY <1>1, <2>7, <4>2, OthersStay DEF Zipped, Dropped
      <4> QED
        BY <4>1, <4>2
    <3>2. f \in published[u]
      BY <1>1, <1>5, <2>1, <3>1, DoneIsPublished
      DEF Zipped, Dropped, WriteZst, Locked
    <3>3. CASE WriteZst(w) /\ SubdirOf[f] = section[w]
      BY <1>1, <2>1, <2>4, <3>2, <3>3, Spliced
      DEF WriteZst, PutZst, TypeInv, TypeOK, ChannelTypeOK
    <3>4. CASE ~(WriteZst(w) /\ SubdirOf[f] = section[w])
      BY <1>1, <2>1, <2>2, <3>1, <3>4, UploadWrites DEF KeptFor
    <3> QED
      BY <3>3, <3>4
  <2>8. ASSUME Dropped(u, f)' \/ pc'[u] = "acked" PROVE shard'[f] # None
    <3>1. CASE u = w /\ Invalidate(w) /\ SubdirOf[f] = section[w]
      BY <1>1, <2>1, <3>1 DEF Invalidate, DropShards
    <3>2. CASE ~(u = w /\ Invalidate(w) /\ SubdirOf[f] = section[w])
      <4>1. Dropped(u, f) \/ pc[u] = "acked"
        <5>1. CASE u = w
          BY <1>1, <1>5, <2>1, <2>8, <3>2, <5>1, WritesProgress
        <5>2. CASE u # w
          BY <1>1, <2>8, <5>2, OthersStay DEF Dropped
        <5> QED
          BY <5>1, <5>2
      <4> QED
        BY <1>1, <2>1, <2>2, <4>1, UploadShards DEF KeptFor
    <3> QED
      BY <3>1, <3>2
  <2>9. ASSUME pc'[u] = "acked", NEW x \in Passes PROVE InPass(x, f)'
    <3>1. InPass(x, f)
      <4>1. CASE pc[u] = "acked"
        BY <2>2, <4>1 DEF KeptFor
      <4>2. CASE pc[u] # "acked"
        BY <2>1, <2>2, <4>2 DEF Quiet, PassActive, Running, InPass, Indexing
      <4> QED
        BY <4>1, <4>2
    <3> QED
      BY <1>1, <3>1 DEF passVars, InPass
  <2> QED
    BY <2>1, <2>5, <2>6, <2>7, <2>8, <2>9 DEF KeptFor, InMerges
<1> QED
  BY <1>2, <1>3, <1>4, <1>5 DEF Kept

LEMMA RestartKeeps ==
  ASSUME Sound, Quiet, Merging, Kept, NEW r \in Replicas, Restart(r)
  PROVE  Quiet' /\ Merging' /\ Kept'
<1>1. /\ UNCHANGED <<channelVars, batch, stored, subs, section, entries,
                     published, passVars, raced, lost>>
      /\ \A v \in Uploads : pc'[v] = pc[v] \/ pc'[v] = "dead"
      /\ TypeInv
  BY DEF Restart, Crash, Sound
<1>2. PassActive' = PassActive
  BY <1>1 DEF PassActive, passVars
<1>3. Quiet' /\ Merging'
  BY <1>1, <1>2 DEF Quiet, Merging, InFlight, Locked
<1>4. ASSUME NEW u \in Uploads \ raced', pc'[u] \in InFlight \cup {"acked"},
             NEW f \in stored'[u] \ lost'[u]
      PROVE  KeptFor(u, f)'
  <2>1. pc'[u] = pc[u] /\ KeptFor(u, f)
    BY <1>1, <1>4 DEF Kept, InFlight, Locked
  <2>2. /\ Zipped(u, f)' = Zipped(u, f) /\ Dropped(u, f)' = Dropped(u, f)
        /\ InMerges(f) => InMerges(f)'
        /\ \A x \in Passes : InPass(x, f) => InPass(x, f)'
    BY <1>1, <2>1 DEF Zipped, Dropped, InMerges, InPass, passVars
  <2> QED
    BY <1>1, <2>1, <2>2 DEF KeptFor, channelVars
<1> QED
  BY <1>3, <1>4 DEF Kept

\* With one server process, what was answered with success while no pass ran
\* stays listed for as long as a readable archive is there: no interleaving
\* of later uploads, passes, deletions, failures and crashes delists it.
THEOREM AckedKept == OneReplica => (SystemSpec => []AckedStaysListed)
<1> SUFFICES ASSUME OneReplica PROVE SystemSpec => []AckedStaysListed
  OBVIOUS
<1> DEFINE Keeping == Quiet /\ Merging /\ Kept
<1>1. SystemInit => Keeping
  BY DEF SystemInit, Init, Quiet, Merging, Kept, InFlight, Locked
<1>2. Sound /\ Keeping /\ [SystemNext]_systemVars => Keeping'
  <2> SUFFICES ASSUME Sound, Keeping, [SystemNext]_systemVars PROVE Keeping'
    OBVIOUS
  <2>1. OnePublisher
    BY LockExcludes DEF Sound
  <2>2. CASE UNCHANGED systemVars
    <3>1. UNCHANGED <<channelVars, pc, batch, stored, subs, section, entries,
                      published, passVars, raced, lost>>
      BY <2>2 DEF systemVars, vars, uploadVars
    <3>2. PassActive' = PassActive
      BY <3>1 DEF PassActive, passVars
    <3>3. \A u \in Uploads, f \in Files : KeptFor(u, f) => KeptFor(u, f)'
      BY <3>1
      DEF KeptFor, Zipped, Dropped, InMerges, InPass, passVars, channelVars
    <3> QED
      BY <3>1, <3>2, <3>3 DEF Quiet, Merging, Kept, Sound, TypeInv, TypeOK
  <2> QED
    BY <2>1, <2>2, UploadKeeps, MaintainKeeps, RestartKeeps DEF SystemNext
<1>3. Sound /\ Keeping => AckedStaysListed
  <2> SUFFICES ASSUME Sound, Kept, NEW u \in Uploads \ raced, pc[u] = "acked",
                      NEW f \in stored[u] \ lost[u]
               PROVE  repodata[f] # None /\ zst[f] # None /\ ClientRecord(f) # None
    BY DEF AckedStaysListed
  <2>1. KeptFor(u, f) /\ f \in published[u]
    BY DEF Kept, Sound, TypeInv, Bookkeeping
  <2> QED
    BY <2>1 DEF KeptFor, ClientRecord
<1> QED
  BY <1>1, <1>2, <1>3, AlwaysSound, PTL DEF SystemSpec
=============================================================================
