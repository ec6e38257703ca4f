--------------------------- MODULE ReindexProofs ---------------------------
(***************************************************************************)
(* What holds of reindex passes and deletions for any number of them, of   *)
(* files and of subdirs, and whatever past the channel has: its types, and *)
(* what a pass nobody interferes with brings about.                        *)
(*                                                                         *)
(* The lemmas are about one step of one pass, so that the components that  *)
(* run passes beside something else can cite them.                         *)
(***************************************************************************)
EXTENDS Reindex, TLAPS

-----------------------------------------------------------------------------
\* Types.

LEMMA ArchiveRecord ==
    ASSUME NEW b \in Builds
    PROVE  RecordOf(b) \in Record /\ RecordOf(b) # None
BY SizeAssumption, RecordAssumption DEF RecordOf, Record, Contents

LEMMA Spliced ==
    ASSUME NEW index \in Index, NEW new \in Index, NEW s
    PROVE  /\ Splice(index, s, new) \in Index
           /\ \A f \in Files : Splice(index, s, new)[f] =
                  IF SubdirOf[f] = s THEN new[f] ELSE index[f]
BY DEF Splice, Index

LEMMA LabelTyped ==
    ASSUME ReindexTypeOK, NEW x \in Passes,
           NEW label \in Running \cup Deleting \cup Ended, Continue(x, label)
    PROVE  rpc' \in [Passes -> Running \cup Deleting \cup Ended]
BY DEF ReindexTypeOK, Continue

LEMMA BlankTyped ==
    /\ Nothing \in Index
    /\ Untouched \in [Files -> Record \cup {None, Same}]
    /\ Untouched \in [Files -> Contents \cup {Unread, Same}]
BY DEF Nothing, Untouched, Index

LEMMA SeenTyped ==
    ASSUME ReindexTypeOK, NEW x \in Passes
    PROVE  RowsSeenBy(x) \in Index
<1>1. rows \in Index /\ pending[x] \in [Files -> Record \cup {None, Same}]
    BY DEF ReindexTypeOK, ChannelTypeOK
<1> QED
    BY <1>1 DEF RowsSeenBy, Index

LEMMA CloseTyped ==
    ASSUME ReindexTypeOK, NEW x \in Passes,
           NEW label \in Running \cup Deleting \cup Ended, Close(x, label),
           ChannelTypeOK', alone' \subseteq Passes
    PROVE  ReindexTypeOK'
<1>1. rpc' \in [Passes -> Running \cup Deleting \cup Ended]
    BY LabelTyped DEF Close
<1> QED
    BY <1>1, BlankTyped DEF Close, ReindexTypeOK

LEMMA InitTyped == ReindexInit => ReindexTypeOK
<1> SUFFICES ASSUME ReindexInit PROVE ReindexTypeOK
    OBVIOUS
<1>1. ChannelTypeOK
  <2>1. PICK past \in [Files -> Drifts], sharded \in SUBSET Subdirs :
            /\ object = [f \in Files |-> past[f].object]
            /\ repodata = [f \in Files |-> past[f].repodata]
            /\ zst = [f \in Files |-> past[f].zst]
            /\ shard = [f \in Files |-> IF SubdirOf[f] \in sharded
                                       THEN past[f].shard ELSE Absent]
            /\ rows = [f \in Files |-> past[f].row]
            /\ packages = PackagesOf({f \in Files : past[f].row # None})
            /\ about = [f \in Files |-> past[f].about]
      BY DEF ReindexInit, DriftedChannel
  <2>2. \A f \in Files : /\ past[f].object \in Contents \cup {None}
                         /\ past[f].repodata \in Record \cup {None}
                         /\ past[f].zst \in Record \cup {None}
                         /\ past[f].shard \in Record \cup {None}
                         /\ past[f].row \in Record \cup {None}
                         /\ past[f].about \in Contents \cup {Unread}
      BY DriftAssumption DEF FileState
  <2>3. packages \subseteq Packages
      BY <2>1, FileAssumption DEF PackagesOf
  <2> QED
      BY <2>1, <2>2, <2>3 DEF ChannelTypeOK, Index
<1>2. /\ backend \in {"rattler", "metadata"}
      /\ rpc \in [Passes -> Running \cup Deleting \cup Ended]
    BY DEF ReindexInit, PassInit, Ended
<1> QED
    BY <1>1, <1>2, BlankTyped DEF ReindexInit, PassInit, ReindexTypeOK

LEMMA DeleteStepTyped ==
    ASSUME ReindexTypeOK, NEW x \in Passes, DeleteStep(x),
           alone' \subseteq Passes
    PROVE  ReindexTypeOK'
<1> USE DEF ReindexTypeOK, ChannelTypeOK
<1>1. ASSUME NEW f \in Files, LookUpVictim(x, f) PROVE ReindexTypeOK'
  <2>1. rpc' \in [Passes -> Running \cup Deleting \cup Ended]
      BY <1>1 DEF LookUpVictim, Continue, Ended, Deleting
  <2> QED
      BY <1>1, <2>1 DEF LookUpVictim, channelVars
<1>2. CASE DeleteObject(x)
  <2>1. rpc' \in [Passes -> Running \cup Deleting \cup Ended]
      BY <1>2, LabelTyped DEF DeleteObject, Deleting
  <2> QED
      BY <1>2, <2>1 DEF DeleteObject
<1>3. CASE DeleteRow(x)
  <2>1. rpc' \in [Passes -> Running \cup Deleting \cup Ended]
      BY <1>3 DEF DeleteRow, Continue, Deleting
  <2>2. pending' \in [Passes -> [Files -> Record \cup {None, Same}]]
      BY <1>3 DEF DeleteRow
  <2> QED
      BY <1>3, <2>1, <2>2 DEF DeleteRow, channelVars
<1>4. CASE DeleteCommit(x)
  <2>1. rpc' \in [Passes -> Running \cup Deleting \cup Ended]
      BY <1>4, LabelTyped DEF DeleteCommit, Running
  <2>2. /\ rows' \in Index /\ about' \in [Files -> Contents \cup {Unread}]
        /\ packages' \subseteq Packages
      BY <1>4 DEF DeleteCommit, Index
  <2>3. pending' \in [Passes -> [Files -> Record \cup {None, Same}]]
      BY <1>4, BlankTyped DEF DeleteCommit
  <2> QED
      BY <1>4, <2>1, <2>2, <2>3 DEF DeleteCommit
<1>5. CASE FailDelete(x)
    BY <1>5, CloseTyped DEF FailDelete, Ended, channelVars
<1> QED
    BY <1>1, <1>2, <1>3, <1>4, <1>5 DEF DeleteStep

LEMMA IndexStepTyped ==
    ASSUME ReindexTypeOK, NEW x \in Passes, IndexStep(x),
           alone' \subseteq Passes
    PROVE  ReindexTypeOK'
<1> USE DEF ReindexTypeOK, ChannelTypeOK
<1>0. /\ found[x] \in Index /\ view[x] \in Index /\ rows \in Index
      /\ repodata \in Index /\ object \in [Files -> Contents \cup {None}]
    OBVIOUS
<1>1. CASE SelectKnown(x)
  <2>1. rpc' \in [Passes -> Running \cup Deleting \cup Ended]
      BY <1>1, LabelTyped DEF SelectKnown, Running
  <2> QED
      BY <1>1, <2>1 DEF SelectKnown, channelVars
<1>2. CASE ListObjects(x)
  <2>1. rpc' \in [Passes -> Running \cup Deleting \cup Ended]
      BY <1>2, LabelTyped DEF ListObjects, Running
  <2>2. found' \in [Passes -> Index] /\ rtodo' \in [Passes -> SUBSET Files]
      BY <1>0, <1>2 DEF ListObjects, Index, Listed
  <2> QED
      BY <1>2, <2>1, <2>2 DEF ListObjects, channelVars
<1>3. ASSUME NEW f \in Files, ScanArchive(x, f) PROVE ReindexTypeOK'
  <2>1. /\ object[f] # Junk => RecordOf(object[f]) \in Record
        /\ found' = [found EXCEPT ![x][f] =
               IF object[f] = Junk THEN None ELSE RecordOf(object[f])]
      BY <1>0, <1>3, ArchiveRecord DEF ScanArchive, Contents
  <2>2. found' \in [Passes -> Index]
      BY <2>1 DEF Index
  <2> QED
      BY <1>3, <2>2 DEF ScanArchive, channelVars
<1>4. CASE ScanDone(x)
  <2>1. rpc' \in [Passes -> Running \cup Deleting \cup Ended]
      BY <1>4, LabelTyped DEF ScanDone, Running
  <2>2. {Noarch} \cup SubdirsOf(Listed(found[x])) \in SUBSET Subdirs
      BY NoarchAssumption, FileAssumption DEF SubdirsOf, Listed
  <2> QED
      BY <1>4, <2>1, <2>2 DEF ScanDone, channelVars
<1>5. CASE RattlerScan(x)
  <2>1. rpc' \in [Passes -> Running \cup Deleting \cup Ended]
      BY <1>5, LabelTyped DEF RattlerScan, Running
  <2>2. \A f \in Files : object[f] # Junk /\ object[f] # None =>
            RecordOf(object[f]) \in Record
      BY <1>0, ArchiveRecord DEF Contents
  <2>3. found' \in [Passes -> Index]
      BY <1>0, <1>5, <2>2 DEF RattlerScan, Index
  <2> QED
      BY <1>5, <2>1, <2>3 DEF RattlerScan, channelVars
<1>6. ASSUME NEW s \in Subdirs, IndexJson(x, s) PROVE ReindexTypeOK'
  <2>1. rpc' \in [Passes -> Running \cup Deleting \cup Ended]
      BY <1>6, LabelTyped DEF IndexJson, Running
  <2>2. repodata' \in Index
      BY <1>0, <1>6, Spliced DEF IndexJson, PutJson
  <2> QED
      BY <1>6, <2>1, <2>2 DEF IndexJson
<1>7. CASE IndexZst(x)
  <2>1. PICK label \in {"shards", "json"} : Continue(x, label)
      BY <1>7 DEF IndexZst
  <2>2. zst' \in Index
      BY <1>0, <1>7, Spliced DEF IndexZst, PutZst
  <2>3. rsubs' \in [Passes -> SUBSET Subdirs]
    <3>1. CASE backend = "rattler"
        BY <1>7, <3>1 DEF IndexZst
    <3>2. CASE backend # "rattler"
      <4>1. rsubs' = [rsubs EXCEPT ![x] = rsubs[x] \ {rsection[x]}]
          BY <1>7, <3>2 DEF IndexZst
      <4> QED
          BY <4>1
    <3> QED
        BY <3>1, <3>2
  <2>4. rpc' \in [Passes -> Running \cup Deleting \cup Ended]
      BY <2>1, LabelTyped DEF Running
  <2> QED
      BY <1>7, <2>2, <2>3, <2>4 DEF IndexZst
<1>8. CASE IndexShards(x)
  <2>1. rpc' \in [Passes -> Running \cup Deleting \cup Ended]
      BY <1>8, LabelTyped DEF IndexShards, Running
  <2>2. shard' \in [Files -> Record \cup {None, Absent}]
      BY <1>0, <1>8 DEF IndexShards, Splice, Index
  <2> QED
      BY <1>8, <2>1, <2>2 DEF IndexShards
<1>9. CASE IndexDone(x)
  <2>1. rpc' \in [Passes -> Running \cup Deleting \cup Ended]
      BY <1>9, LabelTyped DEF IndexDone, Running
  <2> QED
      BY <1>9, <2>1, BlankTyped DEF IndexDone, channelVars
<1> QED
    BY <1>1, <1>2, <1>3, <1>4, <1>5, <1>6, <1>7, <1>8, <1>9 DEF IndexStep

LEMMA SyncStepTyped ==
    ASSUME ReindexTypeOK, NEW x \in Passes, SyncStep(x),
           alone' \subseteq Passes
    PROVE  ReindexTypeOK'
<1> USE DEF ReindexTypeOK, ChannelTypeOK
<1>0. /\ found[x] \in Index /\ view[x] \in Index /\ rows \in Index
      /\ repodata \in Index /\ object \in [Files -> Contents \cup {None}]
    OBVIOUS
<1>1. CASE SyncSelect(x)
  <2>1. rpc' \in [Passes -> Running \cup Deleting \cup Ended]
      BY <1>1, LabelTyped DEF SyncSelect, Running
  <2> QED
      BY <1>1, <2>1 DEF SyncSelect, channelVars, Listed
<1>2. CASE SyncRead(x)
  <2>1. rpc' \in [Passes -> Running \cup Deleting \cup Ended]
      BY <1>2, LabelTyped DEF SyncRead, Running
  <2>2. PICK unreadable \in SUBSET Subdirs :
            /\ found' = [found EXCEPT ![x] =
                  [f \in Files |->
                     IF SubdirOf[f] \in unreadable THEN None ELSE repodata[f]]]
            /\ missed' = [missed EXCEPT ![x] = unreadable]
      BY <1>2 DEF SyncRead
  <2>3. found' \in [Passes -> Index] /\ missed' \in [Passes -> SUBSET Subdirs]
      BY <1>0, <2>2 DEF Index
  <2> QED
      BY <1>2, <2>1, <2>3 DEF SyncRead, channelVars
<1>3. CASE SyncFlush(x)
  <2>1. rpc' \in [Passes -> Running \cup Deleting \cup Ended]
      BY <1>3, LabelTyped DEF SyncFlush, Running
  <2>2. pending' \in [Passes -> [Files -> Record \cup {None, Same}]]
      BY <1>0, <1>3 DEF SyncFlush, Index
  <2>3. newAbout' \in [Passes -> [Files -> Contents \cup {Unread, Same}]]
      BY <1>3 DEF SyncFlush
  <2>4. capture' \in [Passes -> SUBSET Files]
      BY <1>3 DEF SyncFlush, NewestOf, Listed
  <2>5. found' \in [Passes -> Index] /\ view' \in [Passes -> Index]
      BY <1>3, BlankTyped DEF SyncFlush
  <2> QED
      BY <1>3, <2>1, <2>2, <2>3, <2>4, <2>5 DEF SyncFlush, channelVars
<1>4. ASSUME NEW f \in Files, CaptureAbout(x, f) PROVE ReindexTypeOK'
  <2>1. PICK read \in {Unread} \cup ({object[f]} \ {None}) :
            newAbout' = [newAbout EXCEPT ![x][f] = read]
      BY <1>4 DEF CaptureAbout
  <2>2. newAbout' \in [Passes -> [Files -> Contents \cup {Unread, Same}]]
      BY <1>0, <2>1
  <2> QED
      BY <1>4, <2>2 DEF CaptureAbout, channelVars
<1>5. CASE CaptureDone(x)
  <2>1. rpc' \in [Passes -> Running \cup Deleting \cup Ended]
      BY <1>5, LabelTyped DEF CaptureDone, Running
  <2> QED
      BY <1>5, <2>1 DEF CaptureDone, channelVars
<1> QED
    BY <1>1, <1>2, <1>3, <1>4, <1>5 DEF SyncStep

LEMMA RepairStepTyped ==
    ASSUME ReindexTypeOK, NEW x \in Passes, RepairStep(x),
           alone' \subseteq Passes
    PROVE  ReindexTypeOK'
<1> USE DEF ReindexTypeOK, ChannelTypeOK
<1>0. /\ found[x] \in Index /\ view[x] \in Index /\ merged[x] \in Index
      /\ repodata \in Index /\ zst \in Index
      /\ object \in [Files -> Contents \cup {None}]
    OBVIOUS
<1>1. CASE RepairSelect(x)
  <2>1. rpc' \in [Passes -> Running \cup Deleting \cup Ended]
      BY <1>1 DEF RepairSelect, Continue, Running
  <2> QED
      BY <1>1, <2>1, SeenTyped DEF RepairSelect, channelVars
<1>2. CASE RepairList(x)
  <2>1. rpc' \in [Passes -> Running \cup Deleting \cup Ended]
      BY <1>2, LabelTyped DEF RepairList, Running
  <2> QED
      BY <1>2, <2>1 DEF RepairList, channelVars, Listed
<1>3. ASSUME NEW f \in Files, RepairFetch(x, f) PROVE ReindexTypeOK'
  <2>1. PICK rec \in Record \cup {None} : found' = [found EXCEPT ![x][f] = rec]
      BY <1>0, <1>3, ArchiveRecord DEF RepairFetch, Contents
  <2>2. found' \in [Passes -> Index]
      BY <2>1 DEF Index
  <2> QED
      BY <1>3, <2>2 DEF RepairFetch, channelVars
<1>4. CASE RepairFetched(x)
  <2>1. rpc' \in [Passes -> Running \cup Deleting \cup Ended]
      BY <1>4 DEF RepairFetched, Continue, Running
  <2>2. SubdirsOf(Listed(found[x])) \in SUBSET Subdirs
      BY FileAssumption DEF SubdirsOf, Listed
  <2> QED
      BY <1>4, <2>1, <2>2 DEF RepairFetched, channelVars
<1>5. ASSUME NEW s \in Subdirs, RepairLoad(x, s) PROVE ReindexTypeOK'
  <2>1. rpc' \in [Passes -> Running \cup Deleting \cup Ended]
      BY <1>5, LabelTyped DEF RepairLoad, Running
  <2>2. merged' \in [Passes -> Index]
      BY <1>0, <1>5 DEF RepairLoad, Index
  <2> QED
      BY <1>5, <2>1, <2>2 DEF RepairLoad, channelVars
<1>6. CASE FixJson(x)
  <2>1. rpc' \in [Passes -> Running \cup Deleting \cup Ended]
      BY <1>6, LabelTyped DEF FixJson, Running
  <2>2. repodata' \in Index
      BY <1>0, <1>6, Spliced DEF FixJson, PutJson
  <2> QED
      BY <1>6, <2>1, <2>2 DEF FixJson
<1>7. CASE FixZst(x)
  <2>1. rpc' \in [Passes -> Running \cup Deleting \cup Ended]
      BY <1>7, LabelTyped DEF FixZst, Running
  <2>2. zst' \in Index
      BY <1>0, <1>7, Spliced DEF FixZst, PutZst
  <2> QED
      BY <1>7, <2>1, <2>2 DEF FixZst
<1>8. CASE FixShards(x)
  <2>1. rpc' \in [Passes -> Running \cup Deleting \cup Ended]
      BY <1>8 DEF FixShards, Continue, Running
  <2>2. shard' \in [Files -> Record \cup {None, Absent}]
      BY <1>8 DEF FixShards, DropShards
  <2> QED
      BY <1>8, <2>1, <2>2 DEF FixShards
<1>9. CASE RepairFlush(x)
  <2>1. rpc' \in [Passes -> Running \cup Deleting \cup Ended]
      BY <1>9, LabelTyped DEF RepairFlush, Running
  <2>2. pending' \in [Passes -> [Files -> Record \cup {None, Same}]]
      BY <1>0, <1>9 DEF RepairFlush, Index, Listed
  <2> QED
      BY <1>9, <2>1, <2>2 DEF RepairFlush, channelVars
<1> QED
    BY <1>1, <1>2, <1>3, <1>4, <1>5, <1>6, <1>7, <1>8, <1>9 DEF RepairStep

LEMMA PassStepTyped ==
    ASSUME ReindexTypeOK, NEW x \in Passes, PassStep(x),
           alone' \subseteq Passes
    PROVE  ReindexTypeOK'
<1>1. CASE Request(x)
  <2>1. rpc' \in [Passes -> Running \cup Deleting \cup Ended]
      BY <1>1, LabelTyped DEF Request, Running
  <2> QED
      BY <1>1, <2>1 DEF Request, channelVars, ReindexTypeOK, ChannelTypeOK
<1>2. CASE CommitPass(x)
  <2>1. rows' \in Index /\ packages' \subseteq Packages
      BY <1>2, SeenTyped, FileAssumption
      DEF CommitPass, PackagesOf, ReindexTypeOK, ChannelTypeOK
  <2>2. about' \in [Files -> Contents \cup {Unread}]
      BY <1>2 DEF CommitPass, ReindexTypeOK, ChannelTypeOK
  <2>3. ChannelTypeOK'
      BY <1>2, <2>1, <2>2 DEF CommitPass, ReindexTypeOK, ChannelTypeOK
  <2> QED
      BY <1>2, <2>3, CloseTyped DEF CommitPass, Ended
<1>3. CASE FailPass(x)
    BY <1>3, CloseTyped
    DEF FailPass, Ended, channelVars, ReindexTypeOK, ChannelTypeOK
<1> QED
    BY <1>1, <1>2, <1>3, IndexStepTyped, SyncStepTyped, RepairStepTyped
    DEF PassStep

LEMMA StepTyped == ReindexTypeOK /\ [ReindexNext]_reindexVars => ReindexTypeOK'
<1> SUFFICES ASSUME ReindexTypeOK, [ReindexNext]_reindexVars
             PROVE  ReindexTypeOK'
    OBVIOUS
<1>1. ASSUME NEW x \in Passes, DeleteStep(x) \/ PassStep(x),
             alone' = Undisturbed(x)
      PROVE  ReindexTypeOK'
  <2>1. alone' \subseteq Passes
      BY <1>1 DEF Undisturbed, ReindexTypeOK
  <2> QED
      BY <1>1, <2>1, DeleteStepTyped, PassStepTyped
<1>2. CASE UNCHANGED reindexVars
    BY <1>2 DEF reindexVars, channelVars, passVars, ReindexTypeOK,
       ChannelTypeOK
<1> QED
    BY <1>1, <1>2 DEF ReindexNext

\* Every variable of the passes keeps its type, for any number of passes.
THEOREM ReindexTyped == ReindexSpec => []ReindexTypeOK
BY InitTyped, StepTyped, PTL DEF ReindexSpec
-----------------------------------------------------------------------------
\* What a pass brings about that nobody interferes with, phase by phase.

Indexing == {"json", "zst", "shards"}
Fixing == {"load", "fixJson", "fixZst", "fixShards"}
Indexed == {"select", "read", "sync", "about", "repair", "repairList",
            "fetch", "flush", "commit", "done"}

\* The subdirs the rebuild writes.
Written(x) ==
    IF backend = "rattler" THEN Subdirs
    ELSE {Noarch} \cup SubdirsOf(Listed(found[x]))

\* A readable archive is found, with the record of its row, its old record or
\* its own; one that is gone is not.
Collected(x, f) ==
    /\ object[f] \in Builds =>
          found[x][f] \in {rows[f], repodata[f], RecordOf(object[f])} \ {None}
    /\ object[f] = None => found[x][f] = None

\* 1. While the index is rebuilt, what is written is what was found.
Rebuilding(x) ==
    /\ rpc[x] \in {"list", "scan"} => backend = "metadata"
    /\ rpc[x] = "list" => view[x] = rows
    /\ rpc[x] = "scan" =>
          \A f \in Files : /\ f \notin rtodo[x] => Collected(x, f)
                           /\ object[f] = None => f \notin rtodo[x]
    /\ rpc[x] \in Indexing =>
          \A f \in Files :
              /\ Collected(x, f)
              /\ backend = "rattler" /\ object[f] \in Builds =>
                    repodata[f] \in {None, found[x][f]}
              /\ SubdirOf[f] \in Written(x) \ rsubs[x] =>
                    /\ repodata[f] = found[x][f] /\ zst[f] = found[x][f]
                    /\ ClientRecord(f) = found[x][f]
    /\ rpc[x] \in {"zst", "shards"} =>
          /\ rsection[x] \in rsubs[x]
          /\ \A f \in FilesIn(rsection[x]) : repodata[f] = found[x][f]
    /\ rpc[x] = "shards" =>
          /\ backend = "rattler"
          /\ \A f \in FilesIn(rsection[x]) : zst[f] = found[x][f]

\* repodata.json lists what is readable and not what is gone.
Named(f) ==
    /\ object[f] \in Builds => repodata[f] # None
    /\ object[f] = None /\ ~LeftAlone(f) => repodata[f] = None

\* The other indexes say what repodata.json says.
Agreed(f) ==
    object[f] \in Builds \/ (object[f] = None /\ ~LeftAlone(f)) =>
        zst[f] = repodata[f] /\ ClientRecord(f) = repodata[f]

\* 2. From then on that is so, but for the subdirs under repair.
Rebuilt(x) ==
    /\ rpc[x] \in Indexed \cup Fixing =>
          \A f \in Files : /\ Named(f)
                           /\ SubdirOf[f] \notin rsubs[x] => Agreed(f)
    /\ rpc[x] \in Indexed => rsubs[x] = {}

\* What the sync has read of a file.
Read(x, f) == IF SubdirOf[f] \in missed[x] THEN None ELSE repodata[f]

\* 3. The sync makes the rows, as the pass sees them, say what it has read.
Syncing(x) ==
    /\ rpc[x] \in {"read", "sync"} => view[x] = rows
    /\ rpc[x] = "sync" => \A f \in Files : found[x][f] = Read(x, f)
    /\ rpc[x] \in {"about", "repair", "repairList", "fetch"} =>
          \A f \in Files : RowsSeenBy(x)[f] = Read(x, f)
    /\ rpc[x] \in {"about", "repair", "repairList"} => found[x] = Nothing
    /\ rpc[x] \in {"repairList", "fetch", "flush"} \cup Fixing =>
          view[x] = RowsSeenBy(x)

\* The record the repair leaves: the archive's own, if the row's was wrong.
Want(x, f) == IF found[x][f] # None THEN found[x][f] ELSE RowsSeenBy(x)[f]

Right(x, f, rec) ==
    /\ rec.sha # NoHash /\ rec.size = SizeOf[object[f]]
    /\ verify[x] => rec = RecordOf(object[f])

Corrected(x, f) ==
    found[x][f] # None =>
        /\ object[f] \in Builds /\ found[x][f] = RecordOf(object[f])
        /\ view[x][f] \notin {None, found[x][f]}
        /\ SubdirOf[f] \notin missed[x]

\* 4. The repair makes the records right, in repodata.json, in its siblings
\* and in the rows.
Repairing(x) ==
    /\ rpc[x] = "fetch" =>
          /\ rtodo[x] \subseteq Listed(view[x])
          /\ \A f \in Files :
                /\ Corrected(x, f)
                /\ object[f] \in Builds /\ view[x][f] # None
                       /\ f \notin rtodo[x] => Right(x, f, Want(x, f))
    /\ rpc[x] \in Fixing \cup {"flush"} =>
          /\ Listed(found[x]) # {}
          /\ rsubs[x] \subseteq SubdirsOf(Listed(found[x]))
          /\ \A f \in Files :
                /\ Corrected(x, f)
                /\ SubdirOf[f] \notin missed[x] =>
                    /\ object[f] \in Builds => Right(x, f, Want(x, f))
                    /\ repodata[f] \in {RowsSeenBy(x)[f], Want(x, f)}
                    /\ SubdirOf[f] \notin rsubs[x] => repodata[f] = Want(x, f)
    /\ rpc[x] \in Fixing \ {"load"} =>
          /\ rsection[x] \in rsubs[x]
          /\ \A f \in FilesIn(rsection[x]) : merged[x][f] = Want(x, f)
    /\ rpc[x] \in {"fixZst", "fixShards"} =>
          \A f \in FilesIn(rsection[x]) : repodata[f] = Want(x, f)
    /\ rpc[x] = "fixShards" =>
          \A f \in FilesIn(rsection[x]) : zst[f] = Want(x, f)
    /\ rpc[x] = "commit" =>
          \A f \in Files : SubdirOf[f] \notin missed[x] =>
              /\ RowsSeenBy(x)[f] = repodata[f]
              /\ object[f] \in Builds => Right(x, f, repodata[f])
    /\ rpc[x] = "done" =>
          \A f \in Files : SubdirOf[f] \notin missed[x] =>
              /\ rows[f] = repodata[f]
              /\ object[f] \in Builds => Right(x, f, repodata[f])

OnCourse(x) == Rebuilding(x) /\ Rebuilt(x) /\ Syncing(x) /\ Repairing(x)

\* Only rattler-index writes shard indexes.
ShardsFit == backend = "metadata" => \A f \in Files : shard[f] = Absent

-----------------------------------------------------------------------------
\* Nothing is known of a pass that has not begun or has failed.
LEMMA NothingYet ==
    ASSUME NEW x \in Passes, rpc'[x] \in {"begin", "failed"}
    PROVE  OnCourse(x)'
BY DEF OnCourse, Rebuilding, Rebuilt, Syncing, Repairing, Indexing, Indexed,
   Fixing

LEMMA NotIndexed ==
    ASSUME NEW x \in Passes, rpc'[x] \in {"list", "scan"} \cup Indexing
    PROVE  Rebuilt(x)' /\ Syncing(x)' /\ Repairing(x)'
BY DEF Rebuilt, Syncing, Repairing, Indexing, Indexed, Fixing

LEMMA NotIndexing ==
    ASSUME NEW x \in Passes, rpc'[x] \in Indexed \cup Fixing
    PROVE  Rebuilding(x)'
BY DEF Rebuilding, Indexing, Indexed, Fixing

\* What a pass that stays where it is relies on.
LEMMA LeftOnCourse ==
    ASSUME NEW x \in Passes, OnCourse(x), UNCHANGED <<channelVars, backend>>,
           rpc'[x] = rpc[x], verify'[x] = verify[x], view'[x] = view[x],
           rtodo'[x] = rtodo[x], found'[x] = found[x], merged'[x] = merged[x],
           rsubs'[x] = rsubs[x], rsection'[x] = rsection[x],
           pending'[x] = pending[x], missed'[x] = missed[x]
    PROVE  OnCourse(x)'
<1> USE DEF channelVars
<1>1. \A f \in Files : /\ Collected(x, f) => Collected(x, f)'
                       /\ ClientRecord(f)' = ClientRecord(f)
                       /\ Read(x, f)' = Read(x, f)
    BY DEF Collected, ClientRecord, Read
<1>2. /\ RowsSeenBy(x)' = RowsSeenBy(x)
      /\ \A f \in Files : Want(x, f)' = Want(x, f)
    BY DEF RowsSeenBy, Want
<1>3. /\ Written(x)' = Written(x)
      /\ \A f \in Files : /\ Named(f) => Named(f)'
                          /\ Agreed(f) => Agreed(f)'
                          /\ Corrected(x, f) => Corrected(x, f)'
                          /\ \A rec : Right(x, f, rec) => Right(x, f, rec)'
    BY DEF Named, Agreed, LeftAlone, Corrected, Right, Written, ClientRecord
<1>4. Rebuilding(x)'
    BY <1>1, <1>3 DEF OnCourse, Rebuilding, FilesIn
<1>5. Rebuilt(x)'
    BY <1>3 DEF OnCourse, Rebuilt
<1>6. Syncing(x)'
    BY <1>1, <1>2 DEF OnCourse, Syncing
<1>7. Repairing(x)'
    BY <1>2, <1>3 DEF OnCourse, Repairing, FilesIn
<1> QED
    BY <1>4, <1>5, <1>6, <1>7 DEF OnCourse
-----------------------------------------------------------------------------
\* Each step of a pass keeps it on its course.

\* Where a step leads, and what it changes of a pass's own.
LEMMA Moved ==
    ASSUME ReindexTypeOK, NEW x \in Passes, NEW label, Continue(x, label)
    PROVE  rpc'[x] = label
BY DEF ReindexTypeOK, Continue

LEMMA IndexOnCourse ==
    ASSUME ReindexTypeOK, ShardsFit, NEW x \in Passes, OnCourse(x),
           IndexStep(x)
    PROVE  OnCourse(x)'
<1>0. /\ Rebuilding(x) /\ found[x] \in Index /\ rows \in Index
      /\ repodata \in Index /\ object \in [Files -> Contents \cup {None}]
      /\ rsection[x] \in Subdirs \cup {None} /\ rsubs[x] \subseteq Subdirs
    BY DEF OnCourse, ReindexTypeOK, ChannelTypeOK
<1>1. CASE SelectKnown(x)
  <2>1. rpc'[x] = "list" /\ view'[x] = rows' /\ backend' = "metadata"
      BY <1>1, Moved DEF SelectKnown, ReindexTypeOK, channelVars
  <2>2. Rebuilding(x)'
      BY <2>1 DEF Rebuilding, Indexing
  <2> QED
      BY <2>1, <2>2, NotIndexed DEF OnCourse
<1>2. CASE ListObjects(x)
  <2>1. /\ rpc'[x] = "scan" /\ backend = "metadata"
        /\ view[x] = rows /\ UNCHANGED <<channelVars, backend>>
      BY <1>0, <1>2, Moved DEF ListObjects, Rebuilding
  <2> DEFINE stored == Listed(object)
             taken == {f \in stored : /\ rows[f] # None
                                      /\ rows[f].size = SizeOf[object[f]]}
  <2>2. /\ found'[x] = [f \in Files |-> IF f \in taken THEN rows[f] ELSE None]
        /\ rtodo'[x] = stored \ taken
      BY <1>2, <2>1 DEF ListObjects, ReindexTypeOK
  <2>3. ASSUME NEW f \in Files
        PROVE  /\ f \notin rtodo'[x] => Collected(x, f)'
               /\ object'[f] = None => f \notin rtodo'[x]
      BY <1>0, <2>1, <2>2, ValueAssumption DEF Collected, Listed, channelVars,
         Contents
  <2>4. Rebuilding(x)'
      BY <2>1, <2>3 DEF Rebuilding, Indexing
  <2> QED
      BY <2>1, <2>4, NotIndexed DEF OnCourse
<1>3. ASSUME NEW f \in Files, ScanArchive(x, f) PROVE OnCourse(x)'
  <2>1. /\ rpc[x] = "scan" /\ rpc'[x] = "scan" /\ backend = "metadata"
        /\ object[f] # None /\ UNCHANGED <<channelVars, backend>>
        /\ rtodo'[x] = rtodo[x] \ {f}
        /\ found'[x][f] = IF object[f] = Junk THEN None
                          ELSE RecordOf(object[f])
        /\ \A g \in Files \ {f} : found'[x][g] = found[x][g]
      BY <1>0, <1>3 DEF ScanArchive, Rebuilding, ReindexTypeOK, Index
  <2>2. object[f] \in Builds => object[f] # Junk /\ RecordOf(object[f]) # None
      BY ArchiveRecord, ValueAssumption
  <2>3. Collected(x, f)'
      BY <2>1, <2>2 DEF Collected, channelVars
  <2>4. ASSUME NEW g \in Files
        PROVE  /\ g \notin rtodo'[x] => Collected(x, g)'
               /\ object'[g] = None => g \notin rtodo'[x]
      BY <1>0, <2>1, <2>3 DEF Rebuilding, Collected, channelVars
  <2>5. Rebuilding(x)'
      BY <2>1, <2>4 DEF Rebuilding, Indexing
  <2> QED
      BY <2>1, <2>5, NotIndexed DEF OnCourse
<1>4. CASE ScanDone(x)
  <2>1. /\ rpc[x] = "scan" /\ rpc'[x] = "json" /\ backend = "metadata"
        /\ rtodo[x] = {} /\ UNCHANGED <<channelVars, backend, found>>
        /\ rsubs'[x] = Written(x)
      BY <1>0, <1>4, Moved DEF ScanDone, Rebuilding, ReindexTypeOK, Written
  <2>2. /\ Written(x)' = Written(x)
        /\ \A f \in Files : Collected(x, f)'
      BY <1>0, <2>1 DEF Rebuilding, Collected, Written, channelVars
  <2>3. Rebuilding(x)'
      BY <2>1, <2>2 DEF Rebuilding, Indexing
  <2> QED
      BY <2>1, <2>3, NotIndexed DEF OnCourse, Indexing
<1>5. CASE RattlerScan(x)
  <2>1. /\ rpc'[x] = "json" /\ backend = "rattler"
        /\ rsubs'[x] = Subdirs /\ UNCHANGED <<channelVars, backend>>
        /\ found'[x] = [f \in Files |-> IF object[f] = None THEN None
                ELSE IF repodata[f] # None THEN repodata[f]
                ELSE IF object[f] = Junk THEN None ELSE RecordOf(object[f])]
      BY <1>5, Moved DEF RattlerScan, ReindexTypeOK
  <2>2. ASSUME NEW f \in Files
        PROVE  /\ Collected(x, f)'
               /\ object[f] \in Builds => repodata[f] \in {None, found'[x][f]}
    <3>1. object[f] \in Builds => /\ object[f] \notin {None, Junk}
                                  /\ RecordOf(object[f]) # None
        BY ArchiveRecord, ValueAssumption DEF Contents
    <3> QED
        BY <2>1, <3>1 DEF Collected, channelVars
  <2>3. Written(x)' = Subdirs
      BY <2>1 DEF Written
  <2>4. Rebuilding(x)'
      BY <2>1, <2>2, <2>3 DEF Rebuilding, Indexing, channelVars
  <2> QED
      BY <2>1, <2>4, NotIndexed DEF OnCourse, Indexing
<1>6. ASSUME NEW s \in Subdirs, IndexJson(x, s) PROVE OnCourse(x)'
  <2>1. /\ rpc[x] = "json" /\ rpc'[x] = "zst" /\ s \in rsubs[x]
        /\ UNCHANGED <<object, rows, zst, shard, backend, found, rsubs>>
        /\ rsection'[x] = s
        /\ \A f \in Files : repodata'[f] = IF SubdirOf[f] = s THEN found[x][f]
                                           ELSE repodata[f]
      BY <1>0, <1>6, Moved, Spliced DEF IndexJson, PutJson, ReindexTypeOK
  <2>2. Written(x)' = Written(x)
      BY <2>1 DEF Written
  <2>3. \A f \in Files : Collected(x, f)'
      BY <1>0, <2>1 DEF Rebuilding, Indexing, Collected
  <2>4. Rebuilding(x)'
      BY <1>0, <2>1, <2>2, <2>3 DEF Rebuilding, Indexing, FilesIn, ClientRecord
  <2> QED
      BY <2>1, <2>4, NotIndexed DEF OnCourse, Indexing
<1>7. CASE IndexZst(x)
  <2>1. /\ rpc[x] = "zst" /\ rsection[x] \in rsubs[x]
        /\ UNCHANGED <<object, rows, repodata, shard, backend, found, rsection>>
        /\ \A f \in Files : zst'[f] = IF SubdirOf[f] = rsection[x]
                                      THEN found[x][f] ELSE zst[f]
    <3>1. zst \in Index
        BY DEF ReindexTypeOK, ChannelTypeOK
    <3> QED
        BY <1>0, <1>7, <3>1, Spliced DEF IndexZst, PutZst, Rebuilding
  <2>2. Written(x)' = Written(x)
      BY <2>1 DEF Written
  <2>3. \A f \in Files : /\ Collected(x, f)'
                         /\ backend = "rattler" /\ object[f] \in Builds =>
                                repodata'[f] \in {None, found'[x][f]}
      BY <1>0, <2>1 DEF Rebuilding, Indexing, Collected
  <2>4. CASE backend = "rattler"
    <3>1. rpc'[x] = "shards" /\ rsubs' = rsubs
        BY <1>7, <2>4, Moved DEF IndexZst
    <3>2. Rebuilding(x)'
        BY <1>0, <2>1, <2>2, <2>3, <2>4, <3>1
        DEF Rebuilding, Indexing, FilesIn, ClientRecord
    <3> QED
        BY <3>1, <3>2, NotIndexed DEF OnCourse, Indexing
  <2>5. CASE backend # "rattler"
    <3>1. rpc'[x] = "json" /\ rsubs'[x] = rsubs[x] \ {rsection[x]}
        BY <1>7, <2>5, Moved DEF IndexZst, ReindexTypeOK
    <3>2. \A f \in Files : ClientRecord(f)' = zst'[f]
        BY <2>1, <2>5 DEF ReindexTypeOK, ShardsFit, ClientRecord
    <3>3. Rebuilding(x)'
        BY <1>0, <2>1, <2>2, <2>3, <3>1, <3>2
        DEF Rebuilding, Indexing, FilesIn, ClientRecord
    <3> QED
        BY <3>1, <3>3, NotIndexed DEF OnCourse, Indexing
  <2> QED
      BY <2>4, <2>5
<1>8. CASE IndexShards(x)
  <2>1. /\ rpc[x] = "shards" /\ rpc'[x] = "json" /\ backend = "rattler"
        /\ rsection[x] \in rsubs[x]
        /\ UNCHANGED <<object, rows, repodata, zst, backend, found>>
        /\ \A f \in Files : shard'[f] = IF SubdirOf[f] = rsection[x]
                                        THEN found[x][f] ELSE shard[f]
        /\ rsubs'[x] = rsubs[x] \ {rsection[x]}
      BY <1>0, <1>8, Moved DEF IndexShards, Splice, Rebuilding, ReindexTypeOK
  <2>2. Written(x)' = Written(x)
      BY <2>1 DEF Written
  <2>3. \A f \in Files : /\ Collected(x, f)'
                         /\ backend = "rattler" /\ object[f] \in Builds =>
                                repodata'[f] \in {None, found'[x][f]}
      BY <1>0, <2>1 DEF Rebuilding, Indexing, Collected
  <2>4. \A f \in Files : found[x][f] # Absent
      BY <1>0, RecordAssumption, ValueAssumption DEF Index, Record, Contents
  <2>5. \A f \in Files : ClientRecord(f)' =
                         IF SubdirOf[f] = rsection[x] THEN found[x][f]
                         ELSE ClientRecord(f)
      BY <2>1, <2>4 DEF ClientRecord
  <2>6. Rebuilding(x)'
      BY <1>0, <2>1, <2>2, <2>3, <2>5 DEF Rebuilding, Indexing, FilesIn
  <2> QED
      BY <2>1, <2>6, NotIndexed DEF OnCourse, Indexing
<1>9. CASE IndexDone(x)
  <2>1. /\ rpc[x] = "json" /\ rpc'[x] = "select" /\ rsubs[x] = {}
        /\ rsubs'[x] = {} /\ UNCHANGED <<channelVars, backend>>
      BY <1>9, Moved DEF IndexDone
  <2>2. \A f \in Files :
            SubdirOf[f] \in Written(x) =>
                /\ repodata[f] = found[x][f] /\ zst[f] = found[x][f]
                /\ ClientRecord(f) = found[x][f]
      BY <1>0, <2>1 DEF Rebuilding, Indexing
  <2>3. \A f \in Files : Collected(x, f)
      BY <1>0, <2>1 DEF Rebuilding, Indexing
  <2>4. ASSUME NEW f \in Files, object[f] \in Builds
        PROVE  SubdirOf[f] \in Written(x) /\ found[x][f] # None
    <3>1. found[x][f] # None
        BY <2>3, <2>4 DEF Collected
    <3> QED
        BY <3>1, FileAssumption DEF Written, SubdirsOf, Listed
  <2>5. ASSUME NEW f \in Files, object[f] = None, ~LeftAlone(f)
        PROVE  SubdirOf[f] \in Written(x) /\ found[x][f] = None
    <3>1. found[x][f] = None
        BY <2>3, <2>5 DEF Collected
    <3>2. CASE backend = "rattler" \/ SubdirOf[f] = Noarch
        BY <3>1, <3>2, FileAssumption DEF Written
    <3>3. CASE backend # "rattler" /\ SubdirOf[f] # Noarch
      <4>1. PICK g \in FilesIn(SubdirOf[f]) : object[g] \notin {None, Junk}
          BY <2>5, <3>3 DEF LeftAlone, ReindexTypeOK
      <4>2. g \in Files /\ SubdirOf[g] = SubdirOf[f] /\ object[g] \in Builds
          BY <1>0, <4>1 DEF FilesIn, Contents
      <4> QED
          BY <2>4, <3>1, <4>2
    <3> QED
        BY <3>2, <3>3
  <2>6. \A f \in Files : Named(f) /\ Agreed(f)
      BY <2>2, <2>4, <2>5 DEF Named, Agreed
  <2>7. \A f \in Files : Named(f)' /\ Agreed(f)'
      BY <2>1, <2>6 DEF Named, Agreed, LeftAlone, ClientRecord, channelVars
  <2>8. Rebuilt(x)'
      BY <2>1, <2>7 DEF Rebuilt
  <2>9. Syncing(x)' /\ Repairing(x)'
      BY <2>1 DEF Syncing, Repairing, Fixing
  <2> QED
      BY <2>1, <2>8, <2>9, NotIndexing DEF OnCourse, Indexed
<1> QED
    BY <1>1, <1>2, <1>3, <1>4, <1>5, <1>6, <1>7, <1>8, <1>9 DEF IndexStep

LEMMA SyncOnCourse ==
    ASSUME ReindexTypeOK, NEW x \in Passes, OnCourse(x), SyncStep(x)
    PROVE  OnCourse(x)'
<1>0. /\ Rebuilt(x) /\ Syncing(x)
      /\ found[x] \in Index /\ view[x] \in Index /\ rows \in Index
      /\ repodata \in Index
    BY DEF OnCourse, ReindexTypeOK, ChannelTypeOK
<1>1. ASSUME rpc[x] \in Indexed, rpc'[x] \in Indexed \ {"fetch", "commit", "done", "flush"},
             UNCHANGED <<channelVars, backend, rsubs>>
      PROVE  Rebuilding(x)' /\ Rebuilt(x)' /\ Repairing(x)'
  <2>1. \A f \in Files : Named(f)' /\ (SubdirOf[f] \notin rsubs'[x] => Agreed(f)')
      BY <1>0, <1>1
      DEF Rebuilt, Named, Agreed, LeftAlone, ClientRecord, channelVars
  <2>2. Rebuilt(x)'
      BY <1>0, <1>1, <2>1 DEF Rebuilt
  <2>3. Repairing(x)'
      BY <1>1 DEF Repairing, Indexed, Fixing
  <2> QED
      BY <1>1, <2>2, <2>3, NotIndexing
<1>2. CASE SyncSelect(x)
  <2>1. /\ rpc[x] = "select" /\ rpc'[x] = "read" /\ view'[x] = rows'
        /\ UNCHANGED <<channelVars, backend, rsubs>>
      BY <1>2, Moved DEF SyncSelect, ReindexTypeOK, channelVars
  <2>2. Syncing(x)'
      BY <2>1 DEF Syncing, Fixing
  <2> QED
      BY <1>1, <2>1, <2>2 DEF OnCourse, Indexed
<1>3. CASE SyncRead(x)
  <2>1. /\ rpc[x] = "read" /\ rpc'[x] = "sync"
        /\ UNCHANGED <<channelVars, backend, rsubs, view>>
        /\ \A f \in Files : found'[x][f] = IF SubdirOf[f] \in missed'[x]
                                           THEN None ELSE repodata[f]
      BY <1>3, Moved DEF SyncRead, ReindexTypeOK
  <2>2. Syncing(x)'
      BY <1>0, <2>1 DEF Syncing, Fixing, Read, channelVars
  <2> QED
      BY <1>1, <2>1, <2>2 DEF OnCourse, Indexed
<1>4. CASE SyncFlush(x)
  <2> DEFINE changed == [f \in Files |->
                  IF f \in Added(x) \cup Updated(x) THEN found[x][f]
                  ELSE IF f \in Removed(x) THEN None ELSE Same]
  <2>1. /\ rpc[x] = "sync" /\ rpc'[x] = "about" /\ found'[x] = Nothing
        /\ UNCHANGED <<channelVars, backend, rsubs, missed>>
        /\ pending'[x] = changed
      BY <1>4, Moved DEF SyncFlush, ReindexTypeOK
  <2>2. view[x] = rows /\ \A f \in Files : found[x][f] = Read(x, f)
      BY <1>0, <2>1 DEF Syncing
  <2>3. ASSUME NEW f \in Files
        PROVE  RowsSeenBy(x)'[f] = Read(x, f)'
    <3>1. RowsSeenBy(x)'[f] = IF changed[f] = Same THEN rows[f] ELSE changed[f]
        BY <2>1 DEF RowsSeenBy, channelVars
    <3>2. Read(x, f)' = found[x][f]
        BY <2>1, <2>2 DEF Read, channelVars
    <3>3. found[x][f] # Same /\ None # Same
        BY <1>0, SameAssumption DEF Index
    <3>4. /\ f \in Added(x) \cup Updated(x) <=>
                found[x][f] # None /\ rows[f] # found[x][f]
          /\ f \in Removed(x) <=> rows[f] # None /\ found[x][f] = None
        BY <2>2 DEF Added, Updated, Removed, Listed
    <3> QED
        BY <3>1, <3>2, <3>3, <3>4
  <2>4. Syncing(x)'
      BY <2>1, <2>3 DEF Syncing, Fixing
  <2> QED
      BY <1>1, <2>1, <2>4 DEF OnCourse, Indexed
<1>5. ASSUME rpc[x] = "about", rpc'[x] \in {"about", "repair"},
             UNCHANGED <<channelVars, backend, rsubs, found, pending, missed>>
      PROVE  OnCourse(x)'
  <2>1. RowsSeenBy(x)' = RowsSeenBy(x) /\ \A f \in Files : Read(x, f)' = Read(x, f)
      BY <1>5 DEF RowsSeenBy, Read, channelVars
  <2>2. Syncing(x)'
      BY <1>0, <1>5, <2>1 DEF Syncing, Fixing
  <2> QED
      BY <1>1, <1>5, <2>2 DEF OnCourse, Indexed
<1>6. ASSUME NEW f \in Files, CaptureAbout(x, f) PROVE OnCourse(x)'
    BY <1>5, <1>6 DEF CaptureAbout
<1>7. CASE CaptureDone(x)
    BY <1>5, <1>7, Moved DEF CaptureDone
<1> QED
    BY <1>2, <1>3, <1>4, <1>6, <1>7 DEF SyncStep

\* A repaired file is in a subdir the sync has read, and so are its siblings.
LEMMA RepairedWasRead ==
    ASSUME NEW x \in Passes, rsubs[x] \subseteq SubdirsOf(Listed(found[x])),
           \A f \in Files : Corrected(x, f), NEW s \in rsubs[x]
    PROVE  s \notin missed[x]
BY DEF SubdirsOf, Listed, Corrected

LEMMA RepairOnCourse ==
    ASSUME ReindexTypeOK, NEW x \in Passes, OnCourse(x), RepairStep(x)
    PROVE  OnCourse(x)'
<1>0. /\ Rebuilt(x) /\ Syncing(x) /\ Repairing(x)
      /\ found[x] \in Index /\ view[x] \in Index /\ RowsSeenBy(x) \in Index
      /\ repodata \in Index /\ merged[x] \in Index /\ rsubs[x] \subseteq Subdirs
      /\ object \in [Files -> Contents \cup {None}]
    BY SeenTyped DEF OnCourse, ReindexTypeOK, ChannelTypeOK
<1>1. ASSUME rpc[x] \in Indexed \cup Fixing, rpc'[x] \in Indexed \cup Fixing,
             rpc'[x] \in Indexed => rsubs'[x] = {},
             UNCHANGED <<object, repodata, zst, shard, backend>>,
             \A s \in rsubs[x] : s \in rsubs'[x]
      PROVE  Rebuilding(x)' /\ Rebuilt(x)'
  <2>1. \A f \in Files :
            Named(f)' /\ (SubdirOf[f] \notin rsubs'[x] => Agreed(f)')
      BY <1>0, <1>1 DEF Rebuilt, Named, Agreed, LeftAlone, ClientRecord
  <2> QED
      BY <1>1, <2>1, NotIndexing DEF Rebuilt
<1>2. CASE RepairSelect(x)
  <2>1. /\ rpc[x] = "repair"
        /\ rpc'[x] = IF Listed(RowsSeenBy(x)) = {} THEN "commit"
                     ELSE "repairList"
        /\ view'[x] = RowsSeenBy(x)
        /\ UNCHANGED <<channelVars, backend, rsubs, found, pending, missed>>
      BY <1>2, Moved DEF RepairSelect, ReindexTypeOK
  <2>2. RowsSeenBy(x)' = RowsSeenBy(x) /\ \A f \in Files : Read(x, f)' = Read(x, f)
      BY <2>1 DEF RowsSeenBy, Read, channelVars
  <2>3. Rebuilding(x)' /\ Rebuilt(x)'
      BY <1>0, <1>1, <2>1 DEF Indexed, channelVars, Rebuilt
  <2>4. Syncing(x)'
      BY <1>0, <2>1, <2>2 DEF Syncing, Fixing
  <2>5. ASSUME NEW f \in Files, rpc'[x] = "commit", SubdirOf[f] \notin missed'[x]
        PROVE  /\ RowsSeenBy(x)'[f] = repodata'[f]
               /\ object'[f] \notin Builds
    <3>1. RowsSeenBy(x)'[f] = repodata[f] /\ RowsSeenBy(x)[f] = None
        BY <1>0, <2>1, <2>2, <2>5 DEF Syncing, Read, Listed
    <3> QED
        BY <1>0, <2>1, <2>2, <3>1 DEF Rebuilt, Indexed, Named, channelVars
  <2>6. Repairing(x)'
      BY <2>1, <2>5 DEF Repairing, Fixing
  <2> QED
      BY <2>3, <2>4, <2>6 DEF OnCourse
<1>3. CASE RepairList(x)
  <2>1. /\ rpc[x] = "repairList" /\ rpc'[x] = "fetch"
        /\ rtodo'[x] = {f \in Listed(view[x]) \cap Listed(object) :
              \/ verify[x]
              \/ view[x][f].sha = NoHash
              \/ view[x][f].size # SizeOf[object[f]]}
        /\ UNCHANGED <<channelVars, backend, rsubs, found, pending, missed,
                       view, verify>>
      BY <1>3, Moved DEF RepairList, ReindexTypeOK
  <2>2. RowsSeenBy(x)' = RowsSeenBy(x) /\ \A f \in Files : Read(x, f)' = Read(x, f)
      BY <2>1 DEF RowsSeenBy, Read, channelVars
  <2>3. Rebuilding(x)' /\ Rebuilt(x)'
      BY <1>0, <1>1, <2>1 DEF Indexed, channelVars, Rebuilt
  <2>4. Syncing(x)'
      BY <1>0, <2>1, <2>2 DEF Syncing, Fixing
  <2>5. found[x] = Nothing /\ view[x] = RowsSeenBy(x)
      BY <1>0, <2>1 DEF Syncing
  <2>6. ASSUME NEW f \in Files
        PROVE  /\ Corrected(x, f)'
               /\ object'[f] \in Builds /\ view'[x][f] # None
                     /\ f \notin rtodo'[x] => Right(x, f, Want(x, f))'
    <3>1. Corrected(x, f)' /\ Want(x, f)' = view[x][f]
        BY <2>1, <2>2, <2>5 DEF Corrected, Want, Nothing
    <3> QED
        BY <2>1, <3>1, ValueAssumption DEF Right, Listed, channelVars, Contents
  <2>7. Repairing(x)'
      BY <2>1, <2>6 DEF Repairing, Fixing
  <2> QED
      BY <2>3, <2>4, <2>7 DEF OnCourse
<1>4. ASSUME NEW f \in Files, RepairFetch(x, f) PROVE OnCourse(x)'
  <2>1. /\ rpc[x] = "fetch" /\ rpc'[x] = "fetch" /\ f \in rtodo[x]
        /\ object[f] # None /\ rtodo'[x] = rtodo[x] \ {f}
        /\ found'[x][f] =
              IF object[f] = Junk \/ RecordOf(object[f]) = view[x][f]
              THEN None ELSE RecordOf(object[f])
        /\ \A g \in Files \ {f} : found'[x][g] = found[x][g]
        /\ UNCHANGED <<channelVars, backend, rsubs, pending, missed, view,
                       verify>>
      BY <1>0, <1>4 DEF RepairFetch, ReindexTypeOK, Index
  <2>2. RowsSeenBy(x)' = RowsSeenBy(x) /\ \A g \in Files : Read(x, g)' = Read(x, g)
      BY <2>1 DEF RowsSeenBy, Read, channelVars
  <2>3. Rebuilding(x)' /\ Rebuilt(x)'
      BY <1>0, <1>1, <2>1 DEF Indexed, channelVars, Rebuilt
  <2>4. Syncing(x)'
      BY <1>0, <2>1, <2>2 DEF Syncing, Fixing
  <2>5. view[x][f] # None /\ SubdirOf[f] \notin missed[x]
    <3>1. view[x][f] # None
        BY <1>0, <2>1 DEF Repairing, Listed
    <3> QED
        BY <1>0, <2>1, <3>1 DEF Syncing, Read
  <2>6. object[f] # Junk => object[f] \in Builds /\ RecordOf(object[f]) # None
      BY <1>0, <2>1, ArchiveRecord DEF Contents
  <2>7. Corrected(x, f)'
      BY <2>1, <2>5, <2>6 DEF Corrected, channelVars
  <2>8. ASSUME object[f] \in Builds PROVE Right(x, f, Want(x, f))'
    <3>1. Want(x, f)' = RecordOf(object[f])
        BY <1>0, <2>1, <2>2, <2>6, <2>8, ValueAssumption, ArchiveRecord
        DEF Want, Syncing
    <3>2. object[f] # NoHash /\ object'[f] = object[f]
        BY <2>1, <2>8, ValueAssumption DEF Contents, channelVars
    <3> QED
        BY <3>1, <3>2 DEF Right, RecordOf
  <2>9. ASSUME NEW g \in Files
        PROVE  /\ Corrected(x, g)'
               /\ object'[g] \in Builds /\ view'[x][g] # None
                     /\ g \notin rtodo'[x] => Right(x, g, Want(x, g))'
    <3>1. CASE g = f
        BY <2>1, <2>7, <2>8, <3>1 DEF channelVars
    <3>2. CASE g # f
      <4>1. Corrected(x, g)' /\ Want(x, g)' = Want(x, g)
          BY <1>0, <2>1, <2>2, <3>2 DEF Repairing, Corrected, Want, channelVars
      <4>2. \A rec : Right(x, g, rec) => Right(x, g, rec)'
          BY <2>1 DEF Right, channelVars
      <4> QED
          BY <1>0, <2>1, <3>2, <4>1, <4>2 DEF Repairing, channelVars
    <3> QED
        BY <3>1, <3>2
  <2>10. Repairing(x)'
      BY <1>0, <2>1, <2>9 DEF Repairing, Fixing
  <2> QED
      BY <2>3, <2>4, <2>10 DEF OnCourse
<1>5. CASE RepairFetched(x)
  <2>1. /\ rpc[x] = "fetch" /\ rtodo[x] = {}
        /\ rpc'[x] = IF Listed(found[x]) = {} THEN "commit" ELSE "load"
        /\ rsubs'[x] = SubdirsOf(Listed(found[x]))
        /\ UNCHANGED <<channelVars, backend, found, pending, missed, view,
                       verify>>
      BY <1>5, Moved DEF RepairFetched, ReindexTypeOK
  <2>2. /\ RowsSeenBy(x)' = RowsSeenBy(x)
        /\ \A f \in Files : Want(x, f)' = Want(x, f)
      BY <2>1 DEF RowsSeenBy, Want, channelVars
  <2>3. Rebuilding(x)' /\ Rebuilt(x)'
    <3>1. rpc'[x] \in Indexed => rsubs'[x] = {}
        BY <2>1 DEF SubdirsOf, Indexed
    <3>2. rsubs[x] = {}
        BY <1>0, <2>1 DEF Rebuilt, Indexed
    <3> QED
        BY <1>1, <2>1, <3>1, <3>2 DEF Indexed, Fixing, channelVars
  <2>4. Syncing(x)'
      BY <1>0, <2>1, <2>2 DEF Syncing, Fixing
  <2>5. ASSUME NEW f \in Files
        PROVE  /\ Corrected(x, f)'
               /\ SubdirOf[f] \notin missed'[x] =>
                      /\ object'[f] \in Builds => Right(x, f, Want(x, f))'
                      /\ repodata'[f] = RowsSeenBy(x)'[f]
               /\ SubdirOf[f] \notin rsubs'[x] => found[x][f] = None
    <3>1. Corrected(x, f)'
        BY <1>0, <2>1 DEF Repairing, Corrected, channelVars
    <3>2. SubdirOf[f] \notin rsubs'[x] => found[x][f] = None
        BY <2>1 DEF SubdirsOf, Listed
    <3>3. SubdirOf[f] \notin missed[x] => RowsSeenBy(x)[f] = repodata[f]
        BY <1>0, <2>1 DEF Syncing, Read
    <3>4. ASSUME SubdirOf[f] \notin missed[x], object[f] \in Builds
          PROVE  Right(x, f, Want(x, f))
      <4>1. view[x][f] = repodata[f]
          BY <1>0, <2>1, <3>3, <3>4 DEF Syncing
      <4> QED
          BY <1>0, <2>1, <3>4, <4>1 DEF Rebuilt, Indexed, Named, Repairing
    <3>5. \A rec : Right(x, f, rec) => Right(x, f, rec)'
        BY <2>1 DEF Right, channelVars
    <3> QED
        BY <2>1, <2>2, <3>1, <3>2, <3>3, <3>4, <3>5 DEF channelVars
  <2>6. CASE rpc'[x] = "commit"
    <3>1. \A f \in Files : Want(x, f)' = RowsSeenBy(x)'[f]
        BY <2>1, <2>6 DEF Want, Listed
    <3>2. Repairing(x)'
        BY <2>5, <2>6, <3>1 DEF Repairing, Fixing
    <3> QED
        BY <2>3, <2>4, <3>2 DEF OnCourse
  <2>7. CASE rpc'[x] = "load"
    <3>1. Listed(found'[x]) # {} /\ rsubs'[x] = SubdirsOf(Listed(found'[x]))
        BY <2>1, <2>7
    <3>2. \A f \in Files : SubdirOf[f] \notin rsubs'[x] =>
                               Want(x, f)' = RowsSeenBy(x)'[f]
        BY <2>1, <2>5 DEF Want
    <3>3. Repairing(x)'
        BY <2>5, <2>7, <3>1, <3>2 DEF Repairing, Fixing
    <3> QED
        BY <2>3, <2>4, <3>3 DEF OnCourse
  <2> QED
      BY <2>1, <2>6, <2>7
<1>6. ASSUME rpc[x] \in Fixing
      PROVE  /\ Listed(found[x]) # {}
             /\ rsubs[x] \subseteq SubdirsOf(Listed(found[x]))
             /\ \A s \in rsubs[x] : s \notin missed[x]
             /\ \A f \in Files : Corrected(x, f)
             /\ \A f \in Files : SubdirOf[f] \notin missed[x] =>
                    /\ object[f] \in Builds => Right(x, f, Want(x, f))
                    /\ repodata[f] \in {RowsSeenBy(x)[f], Want(x, f)}
                    /\ SubdirOf[f] \notin rsubs[x] => repodata[f] = Want(x, f)
  <2>1. /\ rsubs[x] \subseteq SubdirsOf(Listed(found[x]))
        /\ \A f \in Files : Corrected(x, f)
      BY <1>0, <1>6 DEF Repairing
  <2> QED
      BY <1>0, <1>6, <2>1, RepairedWasRead DEF Repairing
<1>7. ASSUME NEW s \in Subdirs, RepairLoad(x, s) PROVE OnCourse(x)'
  <2>1. /\ rpc[x] = "load" /\ rpc'[x] = "fixJson" /\ s \in rsubs[x]
        /\ \A f \in FilesIn(s) : merged'[x][f] =
               IF found[x][f] # None THEN found[x][f] ELSE repodata[f]
        /\ rsection'[x] = s
        /\ UNCHANGED <<channelVars, backend, found, rsubs, pending, missed,
                       view, verify>>
      BY <1>7, Moved DEF RepairLoad, ReindexTypeOK, FilesIn
  <2>2. /\ RowsSeenBy(x)' = RowsSeenBy(x)
        /\ \A f \in Files : /\ Want(x, f)' = Want(x, f)
                            /\ Corrected(x, f) => Corrected(x, f)'
                            /\ \A rec : Right(x, f, rec) => Right(x, f, rec)'
      BY <2>1 DEF RowsSeenBy, Want, Corrected, Right, channelVars
  <2>3. Rebuilding(x)' /\ Rebuilt(x)'
      BY <1>0, <1>1, <2>1 DEF Indexed, Fixing, channelVars
  <2>4. Syncing(x)'
      BY <1>0, <2>1, <2>2 DEF Syncing, Fixing
  <2>5. \A f \in FilesIn(s) : merged'[x][f] = Want(x, f)'
      BY <1>6, <2>1, <2>2 DEF Want, FilesIn, Fixing
  <2>6. Repairing(x)'
      BY <1>6, <2>1, <2>2, <2>5 DEF Repairing, Fixing, channelVars
  <2> QED
      BY <2>3, <2>4, <2>6 DEF OnCourse
<1>8. CASE FixJson(x)
  <2>1. /\ rpc[x] = "fixJson" /\ rpc'[x] = "fixZst"
        /\ rsection[x] \in rsubs[x]
        /\ \A f \in Files : repodata'[f] = IF SubdirOf[f] = rsection[x]
                                           THEN Want(x, f) ELSE repodata[f]
        /\ UNCHANGED <<object, zst, shard, rows, backend, found, rsubs,
                       rsection, pending, missed, view, verify>>
    <3>1. /\ rpc[x] = "fixJson" /\ rpc'[x] = "fixZst"
          /\ repodata' = Splice(repodata, rsection[x], merged[x])
        BY <1>8, Moved DEF FixJson, PutJson
    <3>2. /\ rsection[x] \in rsubs[x]
          /\ \A f \in FilesIn(rsection[x]) : merged[x][f] = Want(x, f)
        BY <1>0, <3>1 DEF Repairing, Fixing
    <3> QED
        BY <1>0, <1>8, <3>1, <3>2, Spliced DEF FixJson, FilesIn
  <2>2. /\ RowsSeenBy(x)' = RowsSeenBy(x)
        /\ \A f \in Files : /\ Want(x, f)' = Want(x, f)
                            /\ Corrected(x, f) => Corrected(x, f)'
                            /\ \A rec : Right(x, f, rec) => Right(x, f, rec)'
      BY <2>1 DEF RowsSeenBy, Want, Corrected, Right
  <2>3. ASSUME NEW f \in Files
        PROVE  Named(f)' /\ (SubdirOf[f] \notin rsubs'[x] => Agreed(f)')
    <3>1. Named(f) /\ (SubdirOf[f] \notin rsubs[x] => Agreed(f))
        BY <1>0, <2>1 DEF Rebuilt, Fixing
    <3>2. SubdirOf[f] \notin rsubs'[x] => Agreed(f)'
        BY <2>1, <3>1 DEF Agreed, LeftAlone, ClientRecord
    <3>3. CASE SubdirOf[f] = rsection[x]
      <4>1. /\ repodata'[f] = Want(x, f)
            /\ found[x][f] = None => repodata'[f] = repodata[f]
            /\ found[x][f] # None => object[f] \in Builds
          BY <1>6, <2>1, <3>3 DEF Fixing, Want, Corrected
      <4> QED
          BY <2>1, <3>1, <3>2, <4>1, ValueAssumption
          DEF Named, LeftAlone, Want, Contents
    <3>4. CASE SubdirOf[f] # rsection[x]
        BY <2>1, <3>1, <3>2, <3>4 DEF Named, LeftAlone
    <3> QED
        BY <3>3, <3>4
  <2>4. Rebuilding(x)' /\ Rebuilt(x)'
      BY <2>1, <2>3, NotIndexing DEF Rebuilt, Indexed, Fixing
  <2>5. Syncing(x)'
      BY <1>0, <2>1, <2>2 DEF Syncing, Fixing
  <2>6. \A f \in Files : SubdirOf[f] \notin missed[x] =>
            /\ repodata'[f] \in {RowsSeenBy(x)[f], Want(x, f)}
            /\ SubdirOf[f] \notin rsubs[x] => repodata'[f] = Want(x, f)
      BY <1>6, <2>1 DEF Fixing
  <2>7. \A f \in FilesIn(rsection[x]) : merged'[x][f] = Want(x, f)
      BY <1>0, <1>8, <2>1 DEF Repairing, Fixing, FixJson
  <2>8. \A f \in FilesIn(rsection[x]) : repodata'[f] = Want(x, f)
      BY <2>1 DEF FilesIn
  <2>9. Repairing(x)'
      BY <1>6, <2>1, <2>2, <2>6, <2>7, <2>8 DEF Repairing, Fixing, FilesIn
  <2> QED
      BY <2>4, <2>5, <2>9 DEF OnCourse
<1>9. CASE FixZst(x)
  <2>1. /\ rpc[x] = "fixZst" /\ rpc'[x] = "fixShards"
        /\ rsection[x] \in rsubs[x]
        /\ \A f \in Files : zst'[f] = IF SubdirOf[f] = rsection[x]
                                      THEN Want(x, f) ELSE zst[f]
        /\ UNCHANGED <<object, repodata, shard, rows, backend, found, merged,
                       rsubs, rsection, pending, missed, view, verify>>
    <3>1. /\ rpc[x] = "fixZst" /\ rpc'[x] = "fixShards"
          /\ zst' = Splice(zst, rsection[x], merged[x])
        BY <1>9, Moved DEF FixZst, PutZst
    <3>2. /\ rsection[x] \in rsubs[x]
          /\ \A f \in FilesIn(rsection[x]) : merged[x][f] = Want(x, f)
        BY <1>0, <3>1 DEF Repairing, Fixing
    <3>3. zst \in Index
        BY DEF ReindexTypeOK, ChannelTypeOK
    <3> QED
        BY <1>0, <1>9, <3>1, <3>2, <3>3, Spliced DEF FixZst, FilesIn
  <2>2. /\ RowsSeenBy(x)' = RowsSeenBy(x)
        /\ \A f \in Files : /\ Want(x, f)' = Want(x, f)
                            /\ Corrected(x, f) => Corrected(x, f)'
                            /\ \A rec : Right(x, f, rec) => Right(x, f, rec)'
      BY <2>1 DEF RowsSeenBy, Want, Corrected, Right
  <2>3. \A f \in Files : /\ Named(f)'
                         /\ SubdirOf[f] \notin rsubs'[x] => Agreed(f)'
      BY <1>0, <2>1
      DEF Rebuilt, Fixing, Named, Agreed, LeftAlone, ClientRecord
  <2>4. Rebuilding(x)' /\ Rebuilt(x)'
      BY <2>1, <2>3, NotIndexing DEF Rebuilt, Indexed, Fixing
  <2>5. Syncing(x)'
      BY <1>0, <2>1, <2>2 DEF Syncing, Fixing
  <2>6. \A f \in FilesIn(rsection[x]) :
            /\ merged[x][f] = Want(x, f) /\ repodata[f] = Want(x, f)
            /\ zst'[f] = Want(x, f)
      BY <1>0, <2>1 DEF Repairing, Fixing, FilesIn
  <2>7. Repairing(x)'
      BY <1>6, <2>1, <2>2, <2>6 DEF Repairing, Fixing, FilesIn
  <2> QED
      BY <2>4, <2>5, <2>7 DEF OnCourse
<1>10. CASE FixShards(x)
  <2>1. /\ rpc[x] = "fixShards" /\ rsection[x] \in rsubs[x]
        /\ rpc'[x] = IF rsubs[x] = {rsection[x]} THEN "flush" ELSE "load"
        /\ rsubs'[x] = rsubs[x] \ {rsection[x]}
        /\ \A f \in Files : shard'[f] = IF SubdirOf[f] = rsection[x]
                                        THEN Absent ELSE shard[f]
        /\ \A f \in FilesIn(rsection[x]) :
               repodata[f] = Want(x, f) /\ zst[f] = Want(x, f)
        /\ UNCHANGED <<object, repodata, zst, rows, backend, found, pending,
                       missed, view, verify>>
      BY <1>0, <1>10, Moved
      DEF FixShards, DropShards, Repairing, Fixing, ReindexTypeOK
  <2>2. /\ RowsSeenBy(x)' = RowsSeenBy(x)
        /\ \A f \in Files : /\ Want(x, f)' = Want(x, f)
                            /\ Corrected(x, f) => Corrected(x, f)'
                            /\ \A rec : Right(x, f, rec) => Right(x, f, rec)'
      BY <2>1 DEF RowsSeenBy, Want, Corrected, Right
  <2>3. ASSUME NEW f \in Files
        PROVE  Named(f)' /\ (SubdirOf[f] \notin rsubs'[x] => Agreed(f)')
    <3>1. Named(f) /\ (SubdirOf[f] \notin rsubs[x] => Agreed(f))
        BY <1>0, <2>1 DEF Rebuilt, Fixing
    <3>2. CASE SubdirOf[f] = rsection[x]
        BY <2>1, <3>1, <3>2
        DEF Named, Agreed, LeftAlone, ClientRecord, FilesIn
    <3>3. CASE SubdirOf[f] # rsection[x]
        BY <2>1, <3>1, <3>3 DEF Named, Agreed, LeftAlone, ClientRecord
    <3> QED
        BY <3>2, <3>3
  <2>4. Rebuilding(x)' /\ Rebuilt(x)'
    <3>1. rpc'[x] \in Indexed => rsubs'[x] = {}
        BY <2>1 DEF Indexed
    <3> QED
        BY <2>1, <2>3, <3>1, NotIndexing DEF Rebuilt, Indexed, Fixing
  <2>5. Syncing(x)'
      BY <1>0, <2>1, <2>2 DEF Syncing, Fixing
  <2>6. \A f \in Files :
            SubdirOf[f] \notin missed[x] /\ SubdirOf[f] \notin rsubs'[x] =>
                repodata[f] = Want(x, f)
      BY <1>6, <2>1 DEF Fixing, FilesIn
  <2>7. Repairing(x)'
      BY <1>6, <2>1, <2>2, <2>6 DEF Repairing, Fixing
  <2> QED
      BY <2>4, <2>5, <2>7 DEF OnCourse
<1>11. CASE RepairFlush(x)
  <2>1. /\ rpc[x] = "flush" /\ rpc'[x] = "commit"
        /\ UNCHANGED <<channelVars, backend, rsubs, missed, verify>>
        /\ pending'[x] = [f \in Files |-> IF found[x][f] # None
                                          THEN found[x][f] ELSE pending[x][f]]
      BY <1>11, Moved DEF RepairFlush, ReindexTypeOK, Listed
  <2>2. \A f \in Files : RowsSeenBy(x)'[f] = Want(x, f)
      BY <1>0, <2>1, SameAssumption DEF RowsSeenBy, Want, Index, channelVars
  <2>3. Rebuilding(x)' /\ Rebuilt(x)'
      BY <1>0, <1>1, <2>1 DEF Indexed, Rebuilt, channelVars
  <2>4. Syncing(x)'
      BY <2>1 DEF Syncing, Fixing
  <2>5. rsubs[x] = {}
      BY <1>0, <2>1 DEF Rebuilt, Indexed
  <2>6. \A f \in Files : SubdirOf[f] \notin missed[x] =>
            /\ RowsSeenBy(x)'[f] = repodata[f]
            /\ object[f] \in Builds => Right(x, f, repodata[f])
      BY <1>0, <2>1, <2>2, <2>5 DEF Repairing
  <2>7. Repairing(x)'
      BY <2>1, <2>6 DEF Repairing, Fixing, Right, channelVars
  <2> QED
      BY <2>3, <2>4, <2>7 DEF OnCourse
<1> QED
    BY <1>2, <1>3, <1>4, <1>5, <1>7, <1>8, <1>9, <1>10, <1>11 DEF RepairStep

LEMMA PassOnCourse ==
    ASSUME ReindexTypeOK, ShardsFit, NEW x \in Passes, OnCourse(x),
           PassStep(x)
    PROVE  OnCourse(x)'
<1>1. CASE Request(x)
    BY <1>1, Moved, NothingYet DEF Request
<1>2. CASE CommitPass(x)
  <2>1. /\ rpc[x] = "commit" /\ rpc'[x] = "done" /\ rows' = RowsSeenBy(x)
        /\ UNCHANGED <<object, repodata, zst, shard, backend, verify, missed>>
        /\ rsubs'[x] = {}
      BY <1>2, Moved DEF CommitPass, Close, ReindexTypeOK
  <2>2. \A f \in Files : Named(f)' /\ Agreed(f)'
    <3>1. \A f \in Files : Named(f) /\ Agreed(f)
        BY <2>1 DEF OnCourse, Rebuilt, Indexed
    <3> QED
        BY <2>1, <3>1 DEF Named, Agreed, LeftAlone, ClientRecord
  <2>3. Rebuilt(x)' /\ Rebuilding(x)'
      BY <2>1, <2>2, NotIndexing DEF Rebuilt, Indexed
  <2>4. Syncing(x)'
      BY <2>1 DEF Syncing, Fixing
  <2>5. Repairing(x)'
      BY <2>1 DEF OnCourse, Repairing, Fixing, Right
  <2> QED
      BY <2>3, <2>4, <2>5 DEF OnCourse
<1>3. CASE FailPass(x)
    BY <1>3, Moved, NothingYet DEF FailPass, Close
<1> QED
    BY <1>1, <1>2, <1>3, IndexOnCourse, SyncOnCourse, RepairOnCourse
    DEF PassStep

-----------------------------------------------------------------------------
\* A pass and the others.

Unmoved(y) ==
    /\ rpc'[y] = rpc[y] /\ verify'[y] = verify[y] /\ view'[y] = view[y]
    /\ rtodo'[y] = rtodo[y] /\ found'[y] = found[y]
    /\ merged'[y] = merged[y] /\ rsubs'[y] = rsubs[y]
    /\ rsection'[y] = rsection[y] /\ pending'[y] = pending[y]
    /\ capture'[y] = capture[y] /\ newAbout'[y] = newAbout[y]
    /\ missed'[y] = missed[y]

LEMMA CloseUnmoved ==
    ASSUME ReindexTypeOK, NEW x \in Passes, NEW label, Close(x, label),
           NEW y \in Passes \ {x}
    PROVE  Unmoved(y) /\ backend' = backend
BY DEF Close, Continue, Unmoved, ReindexTypeOK

LEMMA OthersUnmoved ==
    ASSUME ReindexTypeOK, NEW x \in Passes, NEW y \in Passes \ {x},
           DeleteStep(x) \/ PassStep(x)
    PROVE  Unmoved(y) /\ backend' = backend
<1> USE DEF Continue, Unmoved, ReindexTypeOK
<1>1. CASE DeleteStep(x)
  <2>1. ASSUME NEW f \in Files, LookUpVictim(x, f)
        PROVE  Unmoved(y) /\ backend' = backend
      BY <2>1 DEF LookUpVictim
  <2>2. CASE DeleteObject(x)
      BY <2>2 DEF DeleteObject
  <2>3. CASE DeleteRow(x)
      BY <2>3 DEF DeleteRow
  <2>4. CASE DeleteCommit(x)
      BY <2>4 DEF DeleteCommit
  <2>5. CASE FailDelete(x)
      BY <2>5, CloseUnmoved DEF FailDelete
  <2> QED
      BY <1>1, <2>1, <2>2, <2>3, <2>4, <2>5 DEF DeleteStep
<1>2. CASE Request(x)
    BY <1>2 DEF Request
<1>3. CASE IndexStep(x)
  <2>1. CASE SelectKnown(x)
      BY <2>1 DEF SelectKnown
  <2>2. CASE ListObjects(x)
      BY <2>2 DEF ListObjects
  <2>3. ASSUME NEW f \in Files, ScanArchive(x, f)
        PROVE  Unmoved(y) /\ backend' = backend
      BY <2>3 DEF ScanArchive
  <2>4. CASE ScanDone(x)
      BY <2>4 DEF ScanDone
  <2>5. CASE RattlerScan(x)
      BY <2>5 DEF RattlerScan
  <2>6. ASSUME NEW s \in Subdirs, IndexJson(x, s)
        PROVE  Unmoved(y) /\ backend' = backend
      BY <2>6 DEF IndexJson
  <2>7. CASE IndexZst(x)
      BY <2>7 DEF IndexZst
  <2>8. CASE IndexShards(x)
      BY <2>8 DEF IndexShards
  <2>9. CASE IndexDone(x)
      BY <2>9 DEF IndexDone
  <2> QED
      BY <1>3, <2>1, <2>2, <2>3, <2>4, <2>5, <2>6, <2>7, <2>8, <2>9
      DEF IndexStep
<1>4. CASE SyncStep(x)
  <2>1. CASE SyncSelect(x)
      BY <2>1 DEF SyncSelect
  <2>2. CASE SyncRead(x)
      BY <2>2 DEF SyncRead
  <2>3. CASE SyncFlush(x)
      BY <2>3 DEF SyncFlush
  <2>4. ASSUME NEW f \in Files, CaptureAbout(x, f)
        PROVE  Unmoved(y) /\ backend' = backend
      BY <2>4 DEF CaptureAbout
  <2>5. CASE CaptureDone(x)
      BY <2>5 DEF CaptureDone
  <2> QED
      BY <1>4, <2>1, <2>2, <2>3, <2>4, <2>5 DEF SyncStep
<1>5. CASE RepairStep(x)
  <2>1. CASE RepairSelect(x)
      BY <2>1 DEF RepairSelect
  <2>2. CASE RepairList(x)
      BY <2>2 DEF RepairList
  <2>3. ASSUME NEW f \in Files, RepairFetch(x, f)
        PROVE  Unmoved(y) /\ backend' = backend
      BY <2>3 DEF RepairFetch
  <2>4. CASE RepairFetched(x)
      BY <2>4 DEF RepairFetched
  <2>5. ASSUME NEW s \in Subdirs, RepairLoad(x, s)
        PROVE  Unmoved(y) /\ backend' = backend
      BY <2>5 DEF RepairLoad
  <2>6. CASE FixJson(x)
      BY <2>6 DEF FixJson
  <2>7. CASE FixZst(x)
      BY <2>7 DEF FixZst
  <2>8. CASE FixShards(x)
      BY <2>8 DEF FixShards
  <2>9. CASE RepairFlush(x)
      BY <2>9 DEF RepairFlush
  <2> QED
      BY <1>5, <2>1, <2>2, <2>3, <2>4, <2>5, <2>6, <2>7, <2>8, <2>9
      DEF RepairStep
<1>6. CASE CommitPass(x)
    BY <1>6, CloseUnmoved DEF CommitPass
<1>7. CASE FailPass(x)
    BY <1>7, CloseUnmoved DEF FailPass
<1> QED
    BY <1>1, <1>2, <1>3, <1>4, <1>5, <1>6, <1>7 DEF PassStep

\* Where the steps of a pass lead, and what they do to the shard indexes.
LEMMA PassLeadsOn ==
    ASSUME ReindexTypeOK, NEW x \in Passes, PassStep(x)
    PROVE  /\ rpc[x] \in Running \cup {"idle"}
           /\ rpc'[x] \in Running \cup {"done", "failed"}
           /\ rpc[x] = "idle" => rpc'[x] = "begin"
           /\ rpc'[x] = "shards" => backend = "rattler"
           /\ backend' = backend
           /\ \A f \in Files :
                  shard'[f] \in {shard[f], Absent} \/ rpc[x] = "shards"
<1> USE DEF Running
<1>1. CASE Request(x)
    BY <1>1, Moved DEF Request, channelVars
<1>2. CASE IndexStep(x)
  <2>1. CASE SelectKnown(x)
      BY <2>1, Moved DEF SelectKnown, channelVars
  <2>2. CASE ListObjects(x)
      BY <2>2, Moved DEF ListObjects, channelVars
  <2>3. ASSUME NEW f \in Files, ScanArchive(x, f)
        PROVE  rpc[x] = "scan" /\ UNCHANGED <<rpc, backend, shard>>
      BY <2>3 DEF ScanArchive, channelVars
  <2>4. CASE ScanDone(x)
      BY <2>4, Moved DEF ScanDone, channelVars
  <2>5. CASE RattlerScan(x)
      BY <2>5, Moved DEF RattlerScan, channelVars
  <2>6. ASSUME NEW s \in Subdirs, IndexJson(x, s)
        PROVE  rpc[x] = "json" /\ rpc'[x] = "zst" /\ UNCHANGED <<backend, shard>>
      BY <2>6, Moved DEF IndexJson
  <2>7. CASE IndexZst(x)
    <3>1. rpc'[x] = IF backend = "rattler" THEN "shards" ELSE "json"
        BY <2>7, Moved DEF IndexZst
    <3> QED
        BY <2>7, <3>1 DEF IndexZst
  <2>8. CASE IndexShards(x)
      BY <2>8, Moved DEF IndexShards
  <2>9. CASE IndexDone(x)
      BY <2>9, Moved DEF IndexDone, channelVars
  <2> QED
      BY <1>2, <2>1, <2>2, <2>3, <2>4, <2>5, <2>6, <2>7, <2>8, <2>9
      DEF IndexStep
<1>3. CASE SyncStep(x)
  <2>1. CASE SyncSelect(x)
      BY <2>1, Moved DEF SyncSelect, channelVars
  <2>2. CASE SyncRead(x)
      BY <2>2, Moved DEF SyncRead, channelVars
  <2>3. CASE SyncFlush(x)
      BY <2>3, Moved DEF SyncFlush, channelVars
  <2>4. ASSUME NEW f \in Files, CaptureAbout(x, f)
        PROVE  rpc[x] = "about" /\ UNCHANGED <<rpc, backend, shard>>
      BY <2>4 DEF CaptureAbout, channelVars
  <2>5. CASE CaptureDone(x)
      BY <2>5, Moved DEF CaptureDone, channelVars
  <2> QED
      BY <1>3, <2>1, <2>2, <2>3, <2>4, <2>5 DEF SyncStep
<1>4. CASE RepairStep(x)
  <2>1. CASE RepairSelect(x)
      BY <2>1, Moved DEF RepairSelect, channelVars
  <2>2. CASE RepairList(x)
      BY <2>2, Moved DEF RepairList, channelVars
  <2>3. ASSUME NEW f \in Files, RepairFetch(x, f)
        PROVE  rpc[x] = "fetch" /\ UNCHANGED <<rpc, backend, shard>>
      BY <2>3 DEF RepairFetch, channelVars
  <2>4. CASE RepairFetched(x)
      BY <2>4, Moved DEF RepairFetched, channelVars
  <2>5. ASSUME NEW s \in Subdirs, RepairLoad(x, s)
        PROVE  rpc[x] = "load" /\ rpc'[x] = "fixJson" /\ UNCHANGED <<backend, shard>>
      BY <2>5, Moved DEF RepairLoad, channelVars
  <2>6. CASE FixJson(x)
      BY <2>6, Moved DEF FixJson
  <2>7. CASE FixZst(x)
      BY <2>7, Moved DEF FixZst
  <2>8. CASE FixShards(x)
    <3>1. /\ rpc'[x] \in {"flush", "load"} /\ rpc[x] = "fixShards"
          /\ backend' = backend
        BY <2>8, Moved DEF FixShards
    <3> QED
        BY <2>8, <3>1 DEF FixShards, DropShards
  <2>9. CASE RepairFlush(x)
      BY <2>9, Moved DEF RepairFlush, channelVars
  <2> QED
      BY <1>4, <2>1, <2>2, <2>3, <2>4, <2>5, <2>6, <2>7, <2>8, <2>9
      DEF RepairStep
<1>5. CASE CommitPass(x)
    BY <1>5, Moved DEF CommitPass, Close
<1>6. CASE FailPass(x)
    BY <1>6, Moved DEF FailPass, Close, channelVars
<1> QED
    BY <1>1, <1>2, <1>3, <1>4, <1>5, <1>6 DEF PassStep

LEMMA DeletionLeadsOn ==
    ASSUME ReindexTypeOK, NEW x \in Passes, DeleteStep(x)
    PROVE  /\ rpc[x] \in Deleting \cup {"idle"}
           /\ rpc'[x] \in Deleting \cup {"missing", "begin", "failed"}
           /\ rpc[x] = "idle" => UNCHANGED channelVars
           /\ UNCHANGED <<backend, repodata, zst, shard>>
<1> USE DEF Deleting
<1>1. ASSUME NEW f \in Files, LookUpVictim(x, f)
      PROVE  /\ rpc[x] = "idle" /\ rpc'[x] \in {"missing", "deleteObject"}
             /\ UNCHANGED <<channelVars, backend>>
    BY <1>1, Moved DEF LookUpVictim
<1>2. CASE DeleteObject(x)
    BY <1>2, Moved DEF DeleteObject
<1>3. CASE DeleteRow(x)
  <2>1. rpc'[x] \in {"deleteCommit", "deleteBoth"}
      BY <1>3, Moved DEF DeleteRow
  <2> QED
      BY <1>3, <2>1 DEF DeleteRow, channelVars
<1>4. CASE DeleteCommit(x)
    BY <1>4, Moved DEF DeleteCommit
<1>5. CASE FailDelete(x)
    BY <1>5, Moved DEF FailDelete, Close, channelVars
<1> QED
    BY <1>1, <1>2, <1>3, <1>4, <1>5 DEF DeleteStep, channelVars

Sharding == \A x \in Passes : rpc[x] = "shards" => backend = "rattler"

\* The shard indexes are left to rattler-index.
LEMMA ShardsKept ==
    ASSUME ReindexTypeOK, ShardsFit, Sharding, NEW x \in Passes,
           DeleteStep(x) \/ PassStep(x)
    PROVE  ShardsFit' /\ Sharding'
<1>1. \A y \in Passes \ {x} : rpc'[y] = rpc[y]
    BY OthersUnmoved DEF Unmoved
<1>2. CASE PassStep(x)
    BY <1>1, <1>2, PassLeadsOn DEF ShardsFit, Sharding
<1>3. CASE DeleteStep(x)
    BY <1>1, <1>3, DeletionLeadsOn DEF ShardsFit, Sharding, Deleting
<1> QED
    BY <1>2, <1>3

\* The inductive invariant.
Course ==
    /\ ReindexTypeOK /\ ShardsFit /\ Sharding
    /\ \A x \in alone : rpc[x] \in Running \cup {"done", "failed"} /\ OnCourse(x)

LEMMA InitOnCourse == ReindexInit => Course
<1> SUFFICES ASSUME ReindexInit PROVE Course
    OBVIOUS
<1>1. Sharding
    BY DEF ReindexInit, PassInit, Sharding
<1> QED
    BY <1>1, InitTyped DEF ReindexInit, PassInit, Course, ShardsFit

LEMMA StepOnCourse == Course /\ [ReindexNext]_reindexVars => Course'
<1> SUFFICES ASSUME Course, [ReindexNext]_reindexVars PROVE Course'
    OBVIOUS
<1>1. ReindexTypeOK'
    BY StepTyped DEF Course
<1>2. ASSUME NEW x \in Passes, DeleteStep(x) \/ PassStep(x),
             alone' = Undisturbed(x)
      PROVE  Course'
  <2>1. ShardsFit' /\ Sharding'
      BY <1>2, ShardsKept DEF Course
  <2>2. ASSUME NEW y \in alone'
        PROVE  rpc'[y] \in Running \cup {"done", "failed"} /\ OnCourse(y)'
    <3>1. y \in Passes
        BY <1>1 DEF ReindexTypeOK
    <3>2. CASE y = x /\ rpc'[x] = "begin"
        BY <3>1, <3>2, NothingYet DEF Running
    <3>3. CASE y = x /\ rpc'[x] # "begin"
      <4>1. x \in alone
          BY <1>2, <2>2, <3>3 DEF Undisturbed
      <4>2. PassStep(x)
          BY <1>2, <4>1, DeletionLeadsOn DEF Course, Running, Deleting
      <4> QED
          BY <3>3, <4>1, <4>2, PassLeadsOn, PassOnCourse DEF Course
    <3>4. CASE y # x
      <4>1. y \in alone /\ channelVars' = channelVars
          BY <1>2, <2>2, <3>4 DEF Undisturbed
      <4>2. Unmoved(y) /\ backend' = backend
          BY <1>2, <3>1, <3>4, OthersUnmoved DEF Course
      <4> QED
          BY <3>1, <4>1, <4>2, LeftOnCourse DEF Course, Unmoved
    <3> QED
        BY <3>2, <3>3, <3>4
  <2> QED
      BY <1>1, <2>1, <2>2 DEF Course
<1>3. CASE UNCHANGED reindexVars
  <2>1. ASSUME NEW y \in alone
        PROVE  rpc'[y] \in Running \cup {"done", "failed"} /\ OnCourse(y)'
      BY <1>3, LeftOnCourse DEF Course, ReindexTypeOK, reindexVars, passVars
  <2> QED
      BY <1>1, <1>3, <2>1
      DEF Course, ShardsFit, Sharding, reindexVars, passVars, channelVars
<1> QED
    BY <1>2, <1>3 DEF ReindexNext

LEMMA AlwaysOnCourse == ReindexSpec => []Course
BY InitOnCourse, StepOnCourse, PTL DEF ReindexSpec

\* What a pass on its course has done when it is done.
LEMMA CourseReconciles ==
    ASSUME ReindexTypeOK, NEW x \in Passes, OnCourse(x), rpc[x] = "done",
           NEW f \in Files, SubdirOf[f] \notin missed[x]
    PROVE  /\ object[f] \in Builds =>
                 /\ rows[f] \in Record /\ rows[f].sha # NoHash
                 /\ rows[f].size = SizeOf[object[f]]
                 /\ verify[x] => rows[f] = RecordOf(object[f])
                 /\ repodata[f] = rows[f] /\ zst[f] = rows[f]
                 /\ ClientRecord(f) = rows[f]
           /\ object[f] = None /\ ~LeftAlone(f) =>
                 /\ repodata[f] = None /\ zst[f] = None
                 /\ ClientRecord(f) = None /\ rows[f] = None
<1>1. Named(f) /\ Agreed(f)
    BY DEF OnCourse, Rebuilt, Indexed
<1>2. /\ rows[f] = repodata[f]
      /\ object[f] \in Builds => Right(x, f, repodata[f])
    BY DEF OnCourse, Repairing
<1>3. rows[f] \in Record \cup {None}
    BY DEF ReindexTypeOK, ChannelTypeOK, Index
<1> QED
    BY <1>1, <1>2, <1>3 DEF Named, Agreed, Right

\* "Reconcile the channel's index with what is actually in storage"
\* (trigger_reindex): for any number of passes and deletions running at once
\* and any drift they start from, a pass nobody interfered with leaves every
\* readable archive listed rightly and every archive that is gone unlisted.
THEOREM PassesReconcile == ReindexSpec => []PassReconciles
<1>1. Course => PassReconciles
  <2> SUFFICES ASSUME Course PROVE PassReconciles
      OBVIOUS
  <2>1. \A x \in alone : x \in Passes /\ OnCourse(x)
      BY DEF Course, ReindexTypeOK
  <2> QED
      BY <2>1, CourseReconciles DEF PassReconciles, Course
<1> QED
    BY <1>1, AlwaysOnCourse, PTL

-----------------------------------------------------------------------------
\* A pass cut off anywhere.

\* A pass touches no archive, and four of its steps rewrite an index file.
LEMMA PassWrites ==
    ASSUME NEW x \in Passes, PassStep(x)
    PROVE  /\ object' = object
           /\ \/ UNCHANGED <<repodata, zst>>
              \/ \E s \in Subdirs : IndexJson(x, s)
              \/ IndexZst(x) \/ FixJson(x) \/ FixZst(x)
<1>1. CASE IndexStep(x)
    BY <1>1 DEF IndexStep, channelVars, SelectKnown, ListObjects, ScanArchive,
       ScanDone, RattlerScan, IndexJson, IndexZst, IndexShards, IndexDone
<1>2. CASE SyncStep(x)
    BY <1>2 DEF SyncStep, channelVars, SyncSelect, SyncRead, SyncFlush,
       CaptureAbout, CaptureDone
<1>3. CASE RepairStep(x)
    BY <1>3 DEF RepairStep, channelVars, RepairSelect, RepairList, RepairFetch,
       RepairFetched, RepairLoad, FixJson, FixZst, FixShards, RepairFlush
<1>4. CASE Request(x) \/ CommitPass(x) \/ FailPass(x)
    BY <1>4 DEF channelVars, Request, CommitPass, FailPass
<1> QED
    BY <1>1, <1>2, <1>3, <1>4 DEF PassStep

\* What a pass that repairs a subdir writes there: the record of the archive
\* where the row's was wrong, the one it has read elsewhere.
LEMMA RepairMerges ==
    ASSUME NEW x \in Passes, OnCourse(x), rpc[x] = "fixJson",
           NEW f \in FilesIn(rsection[x])
    PROVE  \/ merged[x][f] = RecordOf(object[f]) /\ object[f] \in Builds
           \/ merged[x][f] = repodata[f]
<1>1. /\ \A g \in Files : Corrected(x, g)
      /\ rsubs[x] \subseteq SubdirsOf(Listed(found[x]))
      /\ rsection[x] \in rsubs[x] /\ merged[x][f] = Want(x, f)
    BY DEF OnCourse, Repairing, Fixing
<1>2. rsection[x] \notin missed[x]
    BY <1>1, RepairedWasRead
<1>3. f \in Files /\ repodata[f] \in {RowsSeenBy(x)[f], Want(x, f)}
    BY <1>2 DEF OnCourse, Repairing, Fixing, FilesIn
<1> QED
    BY <1>1, <1>3 DEF Want, Corrected

LEMMA PassSpares ==
    ASSUME ReindexTypeOK, NEW x \in Passes, OnCourse(x), PassStep(x),
           NEW f \in Files, object[f] \in Builds
    PROVE  /\ repodata[f] # None => repodata'[f] # None
           /\ zst[f] # None => zst'[f] # None
           /\ backend = "rattler" /\ repodata[f] = RecordOf(object[f])
                  => repodata'[f] = repodata[f]
<1>0. /\ found[x] \in Index /\ merged[x] \in Index /\ repodata \in Index
      /\ zst \in Index /\ RecordOf(object[f]) # None
    BY ArchiveRecord DEF ReindexTypeOK, ChannelTypeOK
<1>1. ASSUME NEW s \in Subdirs, IndexJson(x, s)
      PROVE  /\ repodata'[f] \in {repodata[f], found[x][f]} /\ zst' = zst
             /\ rpc[x] = "json"
    BY <1>0, <1>1, Spliced DEF IndexJson, PutJson
<1>2. CASE IndexZst(x)
  <2>1. /\ zst'[f] \in {zst[f], found[x][f]} /\ repodata' = repodata
        /\ rpc[x] = "zst"
      BY <1>0, <1>2, Spliced DEF IndexZst, PutZst
  <2> QED
      BY <2>1 DEF OnCourse, Rebuilding, Indexing, Collected
<1>3. CASE FixJson(x)
  <2>1. /\ repodata'[f] = IF SubdirOf[f] = rsection[x] THEN merged[x][f]
                          ELSE repodata[f]
        /\ zst' = zst /\ rpc[x] = "fixJson"
      BY <1>0, <1>3, Spliced DEF FixJson, PutJson
  <2>2. SubdirOf[f] = rsection[x] =>
            merged[x][f] \in {RecordOf(object[f]), repodata[f]}
      BY <2>1, RepairMerges DEF FilesIn
  <2> QED
      BY <1>0, <2>1, <2>2
<1>4. CASE FixZst(x)
  <2>1. /\ zst'[f] = IF SubdirOf[f] = rsection[x] THEN merged[x][f] ELSE zst[f]
        /\ repodata' = repodata /\ rpc[x] = "fixZst"
      BY <1>0, <1>4, Spliced DEF FixZst, PutZst
  <2>2. SubdirOf[f] = rsection[x] => merged[x][f] = repodata[f]
      BY <2>1 DEF OnCourse, Repairing, Fixing, FilesIn
  <2>3. repodata[f] # None
      BY <2>1 DEF OnCourse, Rebuilt, Fixing, Named
  <2> QED
      BY <2>1, <2>2, <2>3
<1>5. ASSUME NEW s \in Subdirs, IndexJson(x, s)
      PROVE  /\ repodata[f] # None => repodata'[f] # None
             /\ zst[f] # None => zst'[f] # None
             /\ backend = "rattler" /\ repodata[f] = RecordOf(object[f])
                    => repodata'[f] = repodata[f]
  <2>1. /\ found[x][f] # None
        /\ backend = "rattler" => repodata[f] \in {None, found[x][f]}
      BY <1>1, <1>5 DEF OnCourse, Rebuilding, Indexing, Collected
  <2> QED
      BY <1>0, <1>1, <1>5, <2>1
<1> QED
    BY <1>2, <1>3, <1>4, <1>5, PassWrites

\* "A storage error says nothing about the package and must not be allowed to
\* quietly delist it" (_entry_from_archive): for any number of passes and
\* deletions, no step of a pass nobody interferes with, the failing one
\* included, delists a readable archive, and with rattler-index none spoils a
\* record that was right.
THEOREM PassesSpoilNothing == ReindexSpec => PassSpoilsNothing
<1> DEFINE Spares ==
        \A x \in alone \cap alone', f \in Files :
            object[f] \in Builds /\ rpc[x] \in Running =>
                /\ repodata[f] # None => repodata'[f] # None
                /\ zst[f] # None => zst'[f] # None
                /\ backend = "rattler" /\ repodata[f] = RecordOf(object[f])
                       => repodata'[f] = repodata[f]
<1>1. Course /\ [ReindexNext]_reindexVars => [Spares]_reindexVars
  <2> SUFFICES ASSUME Course, ReindexNext, ~UNCHANGED reindexVars PROVE Spares
      BY DEF ReindexNext
  <2>1. PICK y \in Passes : /\ DeleteStep(y) \/ PassStep(y)
                            /\ alone' = Undisturbed(y)
      BY DEF ReindexNext
  <2>2. ASSUME NEW x \in alone \cap alone', NEW f \in Files,
               object[f] \in Builds, rpc[x] \in Running
        PROVE  /\ repodata[f] # None => repodata'[f] # None
               /\ zst[f] # None => zst'[f] # None
               /\ backend = "rattler" /\ repodata[f] = RecordOf(object[f])
                      => repodata'[f] = repodata[f]
    <3>1. CASE x # y
        BY <2>1, <2>2, <3>1 DEF Undisturbed, channelVars
    <3>2. CASE x = y
      <4>1. PassStep(x) /\ OnCourse(x) /\ ReindexTypeOK
          BY <2>1, <2>2, <3>2, DeletionLeadsOn DEF Course, Running, Deleting
      <4> QED
          BY <2>1, <2>2, <3>2, <4>1, PassSpares
    <3> QED
        BY <3>1, <3>2
  <2> QED
      BY <2>2
<1> QED
    BY <1>1, AlwaysOnCourse, PTL DEF ReindexSpec, PassSpoilsNothing

-----------------------------------------------------------------------------
\* A pass over a channel where everything agrees.

\* The record every index and the row of f carry.
Due(f) == IF object[f] = None THEN None ELSE RecordOf(object[f])

LEMMA SteadyFile ==
    ASSUME ReindexTypeOK, NEW f \in Files, Consistent(f)
    PROVE  /\ object[f] \in Builds \cup {None}
           /\ repodata[f] = Due(f) /\ zst[f] = Due(f)
           /\ ClientRecord(f) = Due(f) /\ rows[f] = Due(f)
           /\ about[f] = IF object[f] = None THEN Unread ELSE object[f]
           /\ object[f] # None =>
                 /\ rows[f].sha # NoHash /\ rows[f].size = SizeOf[object[f]]
                 /\ rows[f] # None /\ about[f] # Unread
<1>1. object[f] # Junk
  <2> SUFFICES ASSUME object[f] = Junk PROVE FALSE
      OBVIOUS
  <2>1. rows[f] = [sha |-> Junk, size |-> SizeOf[Junk]]
      BY ValueAssumption DEF Consistent, RecordOf, Contents
  <2>2. rows[f] \in [sha : Contents \cup {NoHash}, size : Nat]
      BY <2>1, SizeAssumption DEF Contents
  <2>3. rows[f] \in Record
      BY <2>2, RecordAssumption DEF ReindexTypeOK, ChannelTypeOK, Index
  <2>4. Junk \in Builds \cup {NoHash}
      BY <2>1, <2>3 DEF Record
  <2> QED
      BY <2>4, ValueAssumption DEF Contents
<1>2. object[f] \in Builds \cup {None}
    BY <1>1 DEF ReindexTypeOK, ChannelTypeOK, Contents
<1> QED
    BY <1>2, ArchiveRecord, ValueAssumption
    DEF Consistent, Due, RecordOf, Contents

\* What does not change a steady channel and picks no work leaves it steady.
LEMMA StillSteady ==
    ASSUME NEW x \in Passes, Steady(x),
           UNCHANGED <<object, rows, about>>,
           \A f \in Files : /\ repodata'[f] = repodata[f] /\ zst'[f] = zst[f]
                            /\ ClientRecord(f)' = ClientRecord(f),
           rtodo'[x] = {}, capture'[x] = {}, pending'[x] = Untouched,
           newAbout'[x] = Untouched
    PROVE  Steady(x)'
<1>1. \A f \in Files : Consistent(f)'
    BY DEF Steady, Consistent
<1> QED
    BY <1>1 DEF Steady, Untouched

\* Nothing is collected that is not listed already.
LEMMA SteadyIndex ==
    ASSUME ReindexTypeOK, NEW x \in Passes, OnCourse(x), Steady(x),
           rpc[x] \in Indexing, NEW f \in Files
    PROVE  /\ found[x][f] = repodata[f] /\ found[x][f] = zst[f]
           /\ found[x][f] = ClientRecord(f) /\ found[x][f] # Absent
<1>1. Collected(x, f)
    BY DEF OnCourse, Rebuilding
<1>2. found[x][f] = Due(f)
    BY <1>1, SteadyFile DEF Collected, Steady, Due
<1>3. found[x][f] # Absent
    BY RecordAssumption, ValueAssumption
    DEF ReindexTypeOK, Index, Record, Contents
<1> QED
    BY <1>2, <1>3, SteadyFile DEF Steady

\* No record is wrong.
LEMMA SteadyNeedsNoRepair ==
    ASSUME ReindexTypeOK, NEW x \in Passes, OnCourse(x), Steady(x)
    PROVE  rpc[x] \notin Fixing \cup {"flush"}
<1> SUFFICES ASSUME rpc[x] \in Fixing \cup {"flush"} PROVE FALSE
    OBVIOUS
<1>1. PICK f \in Files : found[x][f] # None
    BY DEF OnCourse, Repairing, Listed
<1>2. /\ object[f] \in Builds /\ found[x][f] = RecordOf(object[f])
      /\ view[x][f] # found[x][f] /\ view[x] = RowsSeenBy(x)
    BY <1>1 DEF OnCourse, Repairing, Corrected, Syncing
<1>3. view[x][f] = rows[f]
    BY <1>2 DEF Steady, RowsSeenBy, Untouched
<1> QED
    BY <1>2, <1>3, SteadyFile, ValueAssumption DEF Steady, Due, Contents

LEMMA PassStaysSteady ==
    ASSUME ReindexTypeOK, NEW x \in Passes, OnCourse(x), PassStep(x),
           Steady(x), ~verify[x], missed'[x] = {}
    PROVE  Steady(x)'
<1>0. /\ \A f \in Files : Consistent(f)
      /\ rtodo[x] = {} /\ capture[x] = {}
      /\ pending[x] = Untouched /\ newAbout[x] = Untouched
      /\ rpc[x] \notin Fixing \cup {"flush"}
      /\ rows \in Index /\ repodata \in Index /\ zst \in Index
      /\ found[x] \in Index
    BY SteadyNeedsNoRepair DEF Steady, ReindexTypeOK, ChannelTypeOK
<1>1. ASSUME UNCHANGED <<channelVars, rtodo, capture, pending, newAbout>>
      PROVE  Steady(x)'
    BY <1>0, <1>1, StillSteady DEF channelVars, ClientRecord
<1>2. CASE IndexStep(x)
  <2>1. CASE ListObjects(x)
    <3>1. /\ view[x] = rows
          /\ UNCHANGED <<channelVars, capture, pending, newAbout>>
          /\ rtodo'[x] = Listed(object) \ {f \in Listed(object) :
                /\ rows[f] # None /\ rows[f].size = SizeOf[object[f]]}
        BY <2>1 DEF ListObjects, OnCourse, Rebuilding, ReindexTypeOK
    <3>2. rtodo'[x] = {}
        BY <1>0, <3>1, SteadyFile DEF Listed
    <3> QED
        BY <1>0, <3>1, <3>2, StillSteady DEF channelVars, ClientRecord
  <2>2. ASSUME NEW f \in Files, ScanArchive(x, f) PROVE Steady(x)'
      BY <1>0, <2>2 DEF ScanArchive
  <2>3. ASSUME NEW s \in Subdirs, IndexJson(x, s) PROVE Steady(x)'
    <3>1. /\ rpc[x] \in Indexing
          /\ UNCHANGED <<object, zst, shard, rows, about, rtodo, capture,
                         pending, newAbout>>
          /\ \A f \in Files : repodata'[f] = IF SubdirOf[f] = s
                                  THEN found[x][f] ELSE repodata[f]
        BY <1>0, <2>3, Spliced DEF IndexJson, PutJson, Indexing
    <3>2. \A f \in Files : repodata'[f] = repodata[f]
        BY <3>1, SteadyIndex
    <3> QED
        BY <1>0, <3>1, <3>2, StillSteady DEF ClientRecord
  <2>4. CASE IndexZst(x)
    <3>1. /\ rpc[x] \in Indexing
          /\ UNCHANGED <<object, repodata, shard, rows, about, rtodo, capture,
                         pending, newAbout>>
          /\ \A f \in Files : zst'[f] = IF SubdirOf[f] = rsection[x]
                                        THEN found[x][f] ELSE zst[f]
        BY <1>0, <2>4, Spliced DEF IndexZst, PutZst, Indexing
    <3>2. \A f \in Files : zst'[f] = zst[f]
        BY <3>1, SteadyIndex
    <3> QED
        BY <1>0, <3>1, <3>2, StillSteady DEF ClientRecord
  <2>5. CASE IndexShards(x)
    <3>1. /\ rpc[x] \in Indexing
          /\ UNCHANGED <<object, repodata, zst, rows, about, rtodo, capture,
                         pending, newAbout>>
          /\ \A f \in Files : shard'[f] = IF SubdirOf[f] = rsection[x]
                                          THEN found[x][f] ELSE shard[f]
        BY <2>5 DEF IndexShards, Splice, Indexing
    <3>2. \A f \in Files : ClientRecord(f)' = ClientRecord(f)
        BY <3>1, SteadyIndex DEF ClientRecord
    <3> QED
        BY <1>0, <3>1, <3>2, StillSteady
  <2>6. CASE SelectKnown(x) \/ ScanDone(x) \/ RattlerScan(x) \/ IndexDone(x)
      BY <1>1, <2>6 DEF SelectKnown, ScanDone, RattlerScan, IndexDone
  <2> QED
      BY <1>2, <2>1, <2>2, <2>3, <2>4, <2>5, <2>6 DEF IndexStep
<1>3. CASE SyncStep(x)
  <2>1. CASE SyncSelect(x)
    <3>1. /\ UNCHANGED <<channelVars, rtodo, pending, newAbout>>
          /\ capture'[x] = {f \in Listed(rows) : about[f] = Unread}
        BY <2>1 DEF SyncSelect, ReindexTypeOK
    <3>2. capture'[x] = {}
      <4>1. ASSUME NEW f \in Files, rows[f] # None PROVE about[f] # Unread
          BY <1>0, <4>1, SteadyFile DEF Due
      <4> QED
          BY <3>1, <4>1 DEF Listed
    <3> QED
        BY <1>0, <3>1, <3>2, StillSteady DEF channelVars, ClientRecord
  <2>2. CASE SyncFlush(x)
    <3> DEFINE changed == [f \in Files |->
                  IF f \in Added(x) \cup Updated(x) THEN found[x][f]
                  ELSE IF f \in Removed(x) THEN None ELSE Same]
    <3>1. view[x] = rows /\ \A f \in Files : found[x][f] = repodata[f]
        BY <2>2 DEF SyncFlush, OnCourse, Syncing, Read
    <3>2. \A f \in Files : found[x][f] = view[x][f]
        BY <1>0, <3>1, SteadyFile
    <3>3. Added(x) = {} /\ Updated(x) = {} /\ Removed(x) = {}
        BY <3>2 DEF Added, Updated, Removed, Listed
    <3>4. Replaced(x) = {}
        BY <3>3 DEF Replaced
    <3>5. PackagesOf(Added(x) \cup Replaced(x)) = {}
        BY <3>3, <3>4 DEF PackagesOf
    <3>6. UNCHANGED <<channelVars, rtodo>>
        BY <2>2 DEF SyncFlush
    <3>7. pending'[x] = Untouched
        BY <2>2, <3>3 DEF SyncFlush, ReindexTypeOK, Untouched
    <3>8. newAbout'[x] = Untouched
        BY <2>2, <3>3, <3>4 DEF SyncFlush, ReindexTypeOK, Untouched
    <3>9. capture'[x] = {}
        BY <2>2, <3>5 DEF SyncFlush, ReindexTypeOK
    <3> QED
        BY <1>0, <3>6, <3>7, <3>8, <3>9, StillSteady
        DEF channelVars, ClientRecord
  <2>3. ASSUME NEW f \in Files, CaptureAbout(x, f) PROVE Steady(x)'
      BY <1>0, <2>3 DEF CaptureAbout
  <2>4. CASE SyncRead(x) \/ CaptureDone(x)
      BY <1>1, <2>4 DEF SyncRead, CaptureDone
  <2> QED
      BY <1>3, <2>1, <2>2, <2>3, <2>4 DEF SyncStep
<1>4. CASE RepairStep(x)
  <2>1. CASE RepairList(x)
    <3>1. /\ view[x] = RowsSeenBy(x)
          /\ UNCHANGED <<channelVars, capture, pending, newAbout>>
          /\ rtodo'[x] = {f \in Listed(view[x]) \cap Listed(object) :
                \/ verify[x] \/ view[x][f].sha = NoHash
                \/ view[x][f].size # SizeOf[object[f]]}
        BY <2>1 DEF RepairList, OnCourse, Syncing, ReindexTypeOK
    <3>2. \A f \in Files : view[x][f] = rows[f]
        BY <1>0, <3>1 DEF RowsSeenBy, Untouched
    <3>3. rtodo'[x] = {}
        BY <1>0, <3>1, <3>2, SteadyFile DEF Listed
    <3> QED
        BY <1>0, <3>1, <3>3, StillSteady DEF channelVars, ClientRecord
  <2>2. ASSUME NEW f \in Files, RepairFetch(x, f) PROVE Steady(x)'
      BY <1>0, <2>2 DEF RepairFetch
  <2>3. CASE RepairSelect(x) \/ RepairFetched(x)
      BY <1>1, <2>3 DEF RepairSelect, RepairFetched
  <2>4. ASSUME \/ \E s \in Subdirs : RepairLoad(x, s)
               \/ FixJson(x) \/ FixZst(x) \/ FixShards(x) \/ RepairFlush(x)
        PROVE  FALSE
      BY <1>0, <2>4
      DEF RepairLoad, FixJson, FixZst, FixShards, RepairFlush, Fixing
  <2> QED
      BY <1>4, <2>1, <2>2, <2>3, <2>4 DEF RepairStep
<1>5. CASE CommitPass(x)
  <2>1. rows' = rows /\ about' = about
      BY <1>0, <1>5
      DEF CommitPass, RowsSeenBy, Untouched, Index, ReindexTypeOK,
          ChannelTypeOK
  <2>2. /\ UNCHANGED <<object, repodata, zst, shard>>
        /\ rtodo'[x] = {} /\ capture'[x] = {} /\ pending'[x] = Untouched
        /\ newAbout'[x] = Untouched
      BY <1>5 DEF CommitPass, Close, ReindexTypeOK
  <2> QED
      BY <1>0, <2>1, <2>2, StillSteady DEF ClientRecord
<1>6. CASE FailPass(x)
  <2>1. /\ UNCHANGED channelVars
        /\ rtodo'[x] = {} /\ capture'[x] = {} /\ pending'[x] = Untouched
        /\ newAbout'[x] = Untouched
      BY <1>6 DEF FailPass, Close, ReindexTypeOK
  <2> QED
      BY <1>0, <2>1, StillSteady DEF channelVars, ClientRecord
<1>7. CASE Request(x)
    BY <1>1, <1>7 DEF Request
<1> QED
    BY <1>2, <1>3, <1>4, <1>5, <1>6, <1>7 DEF PassStep

LEMMA PassLeavesAbout ==
    ASSUME ReindexTypeOK, NEW x \in Passes, OnCourse(x), PassStep(x),
           missed'[x] = {}, NEW f \in Files, AboutIsRead(f), LeavesAbout(x, f)
    PROVE  LeavesAbout(x, f)'
<1>0. about[f] # Unread
    BY ValueAssumption DEF AboutIsRead, Contents
<1>1. ASSUME UNCHANGED <<capture, newAbout>> PROVE LeavesAbout(x, f)'
    BY <1>1 DEF LeavesAbout
<1>2. CASE SyncSelect(x)
    BY <1>0, <1>2 DEF SyncSelect, LeavesAbout, ReindexTypeOK
<1>3. CASE SyncFlush(x)
  <2>1. view[x] = rows /\ found[x][f] = repodata[f]
      BY <1>3 DEF SyncFlush, OnCourse, Syncing, Read
  <2>2. f \notin Added(x) /\ f \notin Removed(x) /\ f \notin Replaced(x)
      BY <2>1 DEF Added, Removed, Replaced, Listed, AboutIsRead, LeavesAbout
  <2>3. f \notin capture'[x]
      BY <1>0, <1>3, <2>2 DEF SyncFlush, ReindexTypeOK
  <2>4. newAbout'[x][f] = Same
      BY <1>3, <2>2 DEF SyncFlush, ReindexTypeOK
  <2> QED
      BY <2>3, <2>4 DEF LeavesAbout
<1>4. ASSUME NEW g \in Files, CaptureAbout(x, g) PROVE LeavesAbout(x, f)'
    BY <1>4 DEF CaptureAbout, LeavesAbout, ReindexTypeOK
<1>5. CASE CommitPass(x) \/ FailPass(x)
    BY <1>5 DEF CommitPass, FailPass, Close, LeavesAbout, Untouched,
                ReindexTypeOK
<1>6. CASE Request(x) \/ IndexStep(x) \/ RepairStep(x)
    BY <1>1, <1>6
    DEF Request, IndexStep, SelectKnown, ListObjects, ScanArchive, ScanDone,
        RattlerScan, IndexJson, IndexZst, IndexShards, IndexDone, RepairStep,
        RepairSelect, RepairList, RepairFetch, RepairFetched, RepairLoad,
        FixJson, FixZst, FixShards, RepairFlush
<1>7. CASE SyncRead(x) \/ CaptureDone(x)
    BY <1>1, <1>7 DEF SyncRead, CaptureDone
<1> QED
    BY <1>2, <1>3, <1>4, <1>5, <1>6, <1>7 DEF PassStep, SyncStep

\* "A steady-state reindex of an unchanged channel opens exactly zero
\* archives" (_capture_about): where everything agrees, a routine pass nobody
\* interferes with never has an archive to open, nor a row or an about.json
\* to change, whatever else runs or has run; and no pass reads the about of a
\* row that has it, with a hash or, as after an import, without.
THEOREM SteadyPassesAreFree == ReindexSpec => SteadyStateIsFree
<1> DEFINE Free ==
        \A x \in alone \cap alone' : missed'[x] = {} =>
            /\ ~verify[x] /\ Steady(x) => Steady(x)'
            /\ \A f \in Files :
                   AboutIsRead(f) /\ LeavesAbout(x, f) => LeavesAbout(x, f)'
<1>1. Course /\ [ReindexNext]_reindexVars => [Free]_reindexVars
  <2> SUFFICES ASSUME Course, ReindexNext, ~UNCHANGED reindexVars PROVE Free
      BY DEF ReindexNext
  <2>1. PICK y \in Passes : /\ DeleteStep(y) \/ PassStep(y)
                            /\ alone' = Undisturbed(y)
      BY DEF ReindexNext
  <2>2. ASSUME NEW x \in alone \cap alone', missed'[x] = {}
        PROVE  /\ ~verify[x] /\ Steady(x) => Steady(x)'
               /\ \A f \in Files :
                      AboutIsRead(f) /\ LeavesAbout(x, f) => LeavesAbout(x, f)'
    <3>0. x \in Passes /\ ReindexTypeOK
        BY DEF Course, ReindexTypeOK
    <3>1. CASE x # y
      <4>1. channelVars' = channelVars
          BY <2>1, <3>1 DEF Undisturbed
      <4>2. Unmoved(x)
          BY <2>1, <3>0, <3>1, OthersUnmoved
      <4>3. Steady(x) => Steady(x)'
          BY <3>0, <4>1, <4>2, StillSteady
          DEF Unmoved, Steady, channelVars, ClientRecord
      <4> QED
          BY <4>2, <4>3 DEF Unmoved, LeavesAbout
    <3>2. CASE x = y
      <4>1. PassStep(x) /\ OnCourse(x)
          BY <2>1, <2>2, <3>0, <3>2, DeletionLeadsOn
          DEF Course, Running, Deleting
      <4> QED
          BY <2>2, <3>0, <4>1, PassStaysSteady, PassLeavesAbout
    <3> QED
        BY <3>1, <3>2
  <2> QED
      BY <2>2
<1> QED
    BY <1>1, AlwaysOnCourse, PTL DEF ReindexSpec, SteadyStateIsFree

=============================================================================
