--------------------------- MODULE ChannelState ---------------------------
(***************************************************************************)
(* The persistent state of one channel, shared by every component that     *)
(* publishes to it: the archives in object storage, the three index files  *)
(* clients read (repodata.json, repodata.json.zst and the CEP-16 shard     *)
(* index) and the PackageVersion rows of the database.                     *)
(*                                                                         *)
(* An element of Files is a storage key relative to the channel's prefix,  *)
(* that is a <subdir>/<filename> pair.  The three per-subdir index files   *)
(* are functions on Files; the part of such a function on the files of one *)
(* subdir is that subdir's file.  An index file that does not exist reads  *)
(* as one that lists nothing, except for the shard index, whose absence    *)
(* sends a client to repodata.json.zst.                                    *)
(***************************************************************************)
EXTENDS Naturals, FiniteSets

CONSTANTS
    Files,      \* archive names: <subdir>/<filename>
    Subdirs,    \* linux-64, noarch, ...
    SubdirOf,   \* the subdir part of each file
    Packages,   \* package names
    PackageOf,  \* the package each file belongs to
    VersionOf,  \* the <package, version, build, subdir> of each file
    Builds,     \* contents of readable archives
    SizeOf,     \* length in bytes of each content
    Junk,       \* the content of an object no archive reader accepts
    None,       \* no object, no record, no row
    NoHash,     \* sha256 missing from a record
    Absent,     \* no shard index in the file's subdir
    Unread,     \* about_fetched_at is null
    Seeds       \* the archives an existing channel may hold

Contents == Builds \cup {Junk}

ASSUME FileAssumption ==
    /\ SubdirOf \in [Files -> Subdirs]
    /\ PackageOf \in [Files -> Packages]
ASSUME SizeAssumption == SizeOf \in [Contents -> Nat]
ASSUME ValueAssumption ==
    /\ None \notin Contents
    /\ Junk \notin Builds
    /\ NoHash \notin Contents
    /\ Unread \notin Contents
    /\ Absent # None

\* A repodata record, as far as clients use it to verify a download.
Record == [sha : Builds \cup {NoHash}, size : Nat]

ASSUME RecordAssumption ==
    \A v \in {None, Absent} : v \notin [sha : Contents \cup {NoHash}, size : Nat]

Index == [Files -> Record \cup {None}]

\* The unique constraint of package_versions does not mention the filename:
\* the .conda and the .tar.bz2 of one build cannot both have a row.
Fits(table) ==
    \A f, g \in Files :
        table[f] # None /\ table[g] # None /\ VersionOf[f] = VersionOf[g]
            => f = g

ASSUME SeedAssumption ==
    /\ Seeds \subseteq [Files -> Builds \cup {None}]
    /\ \A seed \in Seeds : Fits(seed)

VARIABLES
    object,     \* object storage: the content under each file's key
    repodata,   \* repodata.json of every subdir
    zst,        \* repodata.json.zst of every subdir
    shard,      \* repodata_shards.msgpack.zst of every subdir, or Absent
    packages,   \* the packages that have a Package row
    rows,       \* the PackageVersion rows (sha256 and size)
    about       \* whose about.json each row carries, or Unread

channelVars == <<object, repodata, zst, shard, packages, rows, about>>

FilesIn(s) == {f \in Files : SubdirOf[f] = s}

PackagesOf(F) == {PackageOf[f] : f \in F}

\* A mutation of RecordOf: the size is forgotten.
RecordWithoutSize(b) == [sha |-> b]

\* The record repodata_entry builds for an archive with content b.
RecordOf(b) == [sha |-> b, size |-> SizeOf[b]]

\* The index after the file of subdir s has been rewritten with entries.
Splice(index, s, entries) ==
    [f \in Files |-> IF SubdirOf[f] = s THEN entries[f] ELSE index[f]]

\* The record the quickest clients act on: the shard index is asked for
\* first, then the compressed repodata.
ClientRecord(f) == IF shard[f] # Absent THEN shard[f] ELSE zst[f]

\* Every index file and the row of f describe the bytes stored under f.
Consistent(f) ==
    LET rec == IF object[f] = None THEN None ELSE RecordOf(object[f])
    IN  /\ repodata[f] = rec
        /\ zst[f] = rec
        /\ ClientRecord(f) = rec
        /\ rows[f] = rec
        /\ about[f] = IF object[f] = None THEN Unread ELSE object[f]

ChannelTypeOK ==
    /\ object \in [Files -> Contents \cup {None}]
    /\ repodata \in Index
    /\ zst \in Index
    /\ shard \in [Files -> Record \cup {None, Absent}]
    /\ packages \subseteq Packages
    /\ rows \in Index
    /\ about \in [Files -> Contents \cup {Unread}]

\* A channel an operator may start from: some archives, indexed by a
\* reindex that left a shard index behind (local and s3 backends) or not.
ChannelInit ==
    \E stored \in Seeds, sharded \in SUBSET Subdirs :
        LET recs == [f \in Files |->
                        IF stored[f] = None THEN None ELSE RecordOf(stored[f])]
        IN  /\ object = stored
            /\ repodata = recs
            /\ zst = recs
            /\ packages = PackagesOf({f \in Files : recs[f] # None})
            /\ rows = recs
            /\ shard = [f \in Files |->
                           IF SubdirOf[f] \in sharded THEN recs[f] ELSE Absent]
            /\ about = [f \in Files |->
                           IF stored[f] = None THEN Unread ELSE stored[f]]

-----------------------------------------------------------------------------
\* The storage operations of indexer.py.

\* storage.put of the first half of write_repodata: repodata.json.
PutJson(s, entries) == repodata' = Splice(repodata, s, entries)

\* The second half: the compressed sibling.
PutZst(s, entries) == zst' = Splice(zst, s, entries)

\* Mutations of DropShards: the shard index stays, or is emptied.
KeepShards(s) == shard' = shard

EmptyShards(s) ==
    shard' = [f \in Files |-> IF SubdirOf[f] = s THEN None ELSE shard[f]]

\* invalidate_sharded_index: drop the subdir's shard index if there is one.
DropShards(s) ==
    shard' = [f \in Files |-> IF SubdirOf[f] = s THEN Absent ELSE shard[f]]
=============================================================================
