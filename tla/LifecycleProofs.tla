-------------------------- MODULE LifecycleProofs --------------------------
(***************************************************************************)
(* Proofs about Lifecycle, for any channels and any prefixes, shared,      *)
(* nested or apart: what a wipe removes (WipeIsThorough) and what it       *)
(* leaves alone (OwnPrefixIsKept).                                         *)
(*                                                                         *)
(* A channel's bytes stay in the reach of its wipe from the deletion to    *)
(* the end of the task: they are to be listed, or due in the listing, or   *)
(* found (InReach).  And a channel that met no other under its prefix is   *)
(* the only one whose uploads, wipe and reindexes touch it (Alone).        *)
(***************************************************************************)
EXTENDS Lifecycle, TLAPS

\* Where a channel's wipe and its uploads stand, by the life of its row.
Stages ==
    /\ \A c \in Channels :
           /\ life[c] = "deleted" <=> wipe[c] # "none"
           /\ wipe[c] # "list" => left[c] = {}
           /\ wipe[c] \notin {"list", "delete"} => found[c] = {}
           /\ left[c] \subseteq Under(PrefixOf[c])
           /\ found[c] \subseteq Under(PrefixOf[c])
           /\ life[c] = "unborn" => rows[c] = {}
    /\ \A u \in Uploads :
           life[ChannelOf[u]] = "unborn" => pc[u] = "none"
    /\ \A p \in Prefixes : p \notin indexed => listed[p] = {}

Outlives ==
    \A u \in Uploads :
        life[ChannelOf[u]] = "deleted" /\ Busy(u) => u \in outlived

\* Bytes of a deleted channel that no upload stored after its deletion.
InReach ==
    \A c \in Channels \ spared, f \in Files :
        wipe[c] # "none" /\ object[PrefixOf[c]][f] = c /\ ~Straggler(c, f) =>
            LET k == <<PrefixOf[c], f>> IN
            \/ wipe[c] = "due"
            \/ wipe[c] = "list" /\ k \in due[c] \cup found[c]
            \/ wipe[c] = "delete" /\ k \in found[c]

Untouched == {c \in Channels \ haunted : life[c] = "live"}

Alone == \A c \in Untouched, d \in Channels : ~Reaches(d, c)

\* What an upload to an untouched channel did so far is still there.
Underway ==
    \A u \in Uploads :
        LET p == PrefixOf[ChannelOf[u]] IN
        ChannelOf[u] \in Untouched =>
            /\ pc[u] \in {"publish", "commit"} => object[p][FileOf[u]] # None
            /\ pc[u] = "commit" => FileOf[u] \in listed[p]

TypeInv == LifecycleTypeOK /\ Stages
WipeInv == Outlives /\ InReach
KeepInv == Alone /\ Underway /\ OwnPrefixIsKept

-----------------------------------------------------------------------------
LEMMA Constants ==
    /\ \A c \in Channels : PrefixOf[c] \in Prefixes
    /\ \A u \in Uploads : ChannelOf[u] \in Channels /\ FileOf[u] \in Files
    /\ \A p \in Prefixes : p \in Inside[p] /\ Inside[p] \subseteq Prefixes
BY ChannelAssumption, UploadAssumption, PrefixAssumption

\* An object is a key that a listing of its prefix has to return.
LEMMA StoredKey ==
  ASSUME NEW p \in Prefixes, NEW f \in Files
  PROVE  /\ <<p, f>> \in Under(p)
         /\ <<p, f>> \in Stored <=> object[p][f] # None
BY Constants, ValueAssumption DEF Under, Stored, Keys

LEMMA InitTypeInv == Init => TypeInv
BY Constants, BoundAssumption
   DEF Init, TypeInv, LifecycleTypeOK, Stages

\* What is listed lies under the prefix and is returned once.
LEMMA WipeTypeInv ==
  ASSUME TypeInv, NEW c \in Channels,
         \/ List(c) \/ ListPage(c) \/ ListEnds(c) \/ WipeEnds(c) \/ Abandon(c)
         \/ \E k \in Keys : SkipKey(c, k)
  PROVE  TypeInv'
<1> USE DEF TypeInv, storeVars, wipeVars
<1>1. CASE List(c)
  <2>1. Under(PrefixOf[c]) \subseteq Keys
    BY DEF Under
  <2> QED BY <1>1, <2>1 DEF List, LifecycleTypeOK, Stages
<1>2. CASE ListPage(c)
  <2>1. PICK K \in SUBSET (left[c] \cap Stored) :
               /\ found' = [found EXCEPT ![c] = @ \cup K]
               /\ left' = [left EXCEPT ![c] = @ \ K]
               /\ due' = [due EXCEPT ![c] = @ \ K]
    BY <1>2 DEF ListPage
  <2>2. LifecycleTypeOK'
    <3>1. /\ due' \in [Channels -> SUBSET Keys]
          /\ left' \in [Channels -> SUBSET Keys]
          /\ found' \in [Channels -> SUBSET Keys]
      BY <2>1 DEF LifecycleTypeOK
    <3>2. \A d \in Channels : due'[d] \subseteq left'[d]
                              /\ found'[d] \cap left'[d] = {}
      BY <2>1 DEF LifecycleTypeOK
    <3> QED BY <1>2, <3>1, <3>2 DEF ListPage, LifecycleTypeOK
  <2>3. Stages'
    BY <1>2, <2>1 DEF ListPage, LifecycleTypeOK, Stages, Under, Keys
  <2> QED BY <2>2, <2>3
<1>3. CASE ListEnds(c)
  BY <1>3 DEF ListEnds, LifecycleTypeOK, Stages, Under, Keys
<1>4. CASE WipeEnds(c)
  BY <1>4 DEF WipeEnds, LifecycleTypeOK, Stages, Under, Keys
<1>5. CASE Abandon(c)
  BY <1>5, BoundAssumption
     DEF Abandon, Wiping, LifecycleTypeOK, Stages, Under, Keys
<1>6. CASE \E k \in Keys : SkipKey(c, k)
  BY <1>6, BoundAssumption
     DEF SkipKey, LifecycleTypeOK, Stages, Under, Keys
<1> QED BY <1>1, <1>2, <1>3, <1>4, <1>5, <1>6

LEMMA DeleteKeyTypeInv ==
  ASSUME TypeInv, NEW c \in Channels, NEW k \in Keys, DeleteKey(c, k)
  PROVE  TypeInv'
<1> USE DEF TypeInv, storeVars, wipeVars
<1>1. k[1] \in Prefixes /\ k[2] \in Files \cup {Index}
  BY DEF Keys
<1>2. /\ object' \in [Prefixes -> [Files -> Channels \cup {None}]]
      /\ indexed' \subseteq Prefixes
      /\ listed' \in [Prefixes -> SUBSET Files]
      /\ \A p \in Prefixes : p \notin indexed' => listed'[p] = {}
  <2>1. CASE k[2] = Index
    <3>1. /\ indexed' = indexed \ {k[1]}
          /\ listed' = [listed EXCEPT ![k[1]] = {}]
          /\ object' = object
      BY <2>1 DEF DeleteKey
    <3>2. /\ listed \in [Prefixes -> SUBSET Files]
          /\ indexed \subseteq Prefixes
          /\ object \in [Prefixes -> [Files -> Channels \cup {None}]]
          /\ \A p \in Prefixes : p \notin indexed => listed[p] = {}
      BY DEF LifecycleTypeOK, Stages
    <3>3. PICK q \in Prefixes : q = k[1]
      BY <1>1
    <3>4. listed' = [listed EXCEPT ![q] = {}] /\ indexed' = indexed \ {q}
      BY <3>1, <3>3
    <3>5. \A p \in Prefixes : listed'[p] = IF p = q THEN {} ELSE listed[p]
      BY <3>2, <3>4
    <3>6. listed' \in [Prefixes -> SUBSET Files]
      BY <3>2, <3>4
    <3>7. \A p \in Prefixes : p \notin indexed' => listed'[p] = {}
      BY <3>2, <3>4, <3>5
    <3> QED BY <3>1, <3>2, <3>6, <3>7
  <2>2. CASE k[2] # Index
    <3>1. /\ object' = [object EXCEPT ![k[1]][k[2]] = None]
          /\ indexed' = indexed /\ listed' = listed
      BY <2>2 DEF DeleteKey
    <3>2. object' \in [Prefixes -> [Files -> Channels \cup {None}]]
      BY <3>1, <1>1, <2>2 DEF LifecycleTypeOK
    <3> QED BY <3>1, <3>2 DEF LifecycleTypeOK, Stages
  <2> QED BY <2>1, <2>2
<1>3. /\ found' = [found EXCEPT ![c] = @ \ {k}]
      /\ UNCHANGED <<life, rows, pc, wipe, left, due, spared, failures,
                     outlived, haunted>>
      /\ wipe[c] = "delete"
  BY DEF DeleteKey
<1>4. LifecycleTypeOK'
  BY <1>2, <1>3 DEF LifecycleTypeOK
<1>5. Stages'
  BY <1>2, <1>3 DEF Stages, LifecycleTypeOK, Under, Keys
<1> QED BY <1>4, <1>5

LEMMA UploadTypeInv ==
  ASSUME TypeInv, NEW u \in Uploads, Accept(u) \/ Upload(u) \/ Fail(u)
  PROVE  TypeInv'
<1> USE Constants DEF TypeInv, storeVars, wipeVars
<1>1. CASE Accept(u)
  BY <1>1 DEF Accept, LifecycleTypeOK, Stages, Under, Keys
<1>2. CASE Put(u)
  <2>1. object' \in [Prefixes -> [Files -> Channels \cup {None}]]
    BY <1>2 DEF Put, LifecycleTypeOK
  <2> QED BY <1>2, <2>1 DEF Put, LifecycleTypeOK, Stages, Under, Keys
<1>3. CASE Publish(u)
  <2>1. /\ listed' \in [Prefixes -> SUBSET Files]
        /\ indexed' \subseteq Prefixes
        /\ \A p \in Prefixes : p \notin indexed' => listed'[p] = {}
    BY <1>3 DEF Publish, LifecycleTypeOK, Stages
  <2> QED BY <1>3, <2>1 DEF Publish, LifecycleTypeOK, Stages, Under, Keys
<1>4. CASE Commit(u)
  <2>1. /\ pc[u] = "commit"
        /\ \/ /\ life[ChannelOf[u]] = "live"
              /\ pc' = [pc EXCEPT ![u] = "done"]
              /\ rows' = [rows EXCEPT ![ChannelOf[u]] = @ \cup {FileOf[u]}]
           \/ pc' = [pc EXCEPT ![u] = "failed"] /\ rows' = rows
        /\ UNCHANGED <<life, storeVars, wipeVars, failures, outlived, haunted>>
    BY <1>4 DEF Commit
  <2>2. LifecycleTypeOK'
    <3>1. rows' \in [Channels -> SUBSET Files]
      BY <2>1 DEF LifecycleTypeOK
    <3>2. pc' \in [Uploads -> {"none", "put", "publish", "commit", "done",
                              "failed"}]
      BY <2>1 DEF LifecycleTypeOK
    <3> QED BY <2>1, <3>1, <3>2 DEF LifecycleTypeOK
  <2>3. \A c \in Channels : life'[c] = "unborn" => rows'[c] = {}
    <3>1. /\ rows \in [Channels -> SUBSET Files]
          /\ \A c \in Channels : life[c] = "unborn" => rows[c] = {}
      BY DEF LifecycleTypeOK, Stages
    <3>2. \A c \in Channels : life[c] = "unborn" => rows'[c] = rows[c]
      BY <2>1, <3>1
    <3> QED BY <2>1, <3>1, <3>2
  <2>4. \A v \in Uploads : life'[ChannelOf[v]] = "unborn" => pc'[v] = "none"
    BY <2>1 DEF LifecycleTypeOK, Stages
  <2> QED BY <2>1, <2>2, <2>3, <2>4 DEF Stages
<1>5. CASE Fail(u)
  BY <1>5, BoundAssumption
     DEF Fail, Busy, LifecycleTypeOK, Stages, Under, Keys
<1> QED BY <1>1, <1>2, <1>3, <1>4, <1>5 DEF Upload

LEMMA NextTypeInv == TypeInv /\ [Next]_vars => TypeInv'
<1> SUFFICES ASSUME TypeInv, [Next]_vars PROVE TypeInv'
  OBVIOUS
<1> USE DEF storeVars, wipeVars
<1>1. ASSUME NEW c \in Channels, Create(c) PROVE TypeInv'
  BY <1>1 DEF Create, TypeInv, LifecycleTypeOK, Stages, Under, Keys
<1>2. ASSUME NEW c \in Channels, Delete(c) PROVE TypeInv'
  BY <1>2 DEF Delete, TypeInv, LifecycleTypeOK, Stages, Under, Keys
<1>3. ASSUME NEW c \in Channels, Reindex(c) PROVE TypeInv'
  <2>1. /\ PrefixOf[c] \in Prefixes
        /\ FilesUnder(PrefixOf[c]) \subseteq Files
    BY Constants DEF FilesUnder
  <2> QED BY <1>3, <2>1
             DEF Reindex, TypeInv, LifecycleTypeOK, Stages, Under, Keys
<1>4. ASSUME UNCHANGED vars PROVE TypeInv'
  BY <1>4 DEF vars, TypeInv, LifecycleTypeOK, Stages,
              Under, Keys
<1> QED
  BY <1>1, <1>2, <1>3, <1>4, WipeTypeInv, DeleteKeyTypeInv, UploadTypeInv
     DEF Next, Wipe, Rest

-----------------------------------------------------------------------------
\* A wipe loses none of the bytes it is to remove.

LEMMA NextOutlives == TypeInv /\ Outlives /\ [Next]_vars => Outlives'
<1> SUFFICES ASSUME TypeInv, Outlives, [Next]_vars,
                    NEW u \in Uploads, life'[ChannelOf[u]] = "deleted", Busy(u)'
             PROVE  u \in outlived'
  BY DEF Outlives
<1> USE Constants DEF TypeInv, LifecycleTypeOK, Stages, Outlives, Busy,
                      storeVars, wipeVars
<1>1. CASE \E c \in Channels : Create(c)
  BY <1>1 DEF Create
<1>2. CASE \E c \in Channels : Delete(c)
  BY <1>2 DEF Delete
<1>3. CASE \E c \in Channels : Reindex(c) \/ Abandon(c)
  BY <1>3 DEF Reindex, Abandon
<1>4. CASE \E c \in Channels : List(c) \/ ListPage(c) \/ ListEnds(c) \/ WipeEnds(c)
  BY <1>4 DEF List, ListPage, ListEnds, WipeEnds
<1>5. CASE \E c \in Channels, k \in Keys : DeleteKey(c, k) \/ SkipKey(c, k)
  BY <1>5 DEF DeleteKey, SkipKey
<1>6. CASE \E v \in Uploads : Accept(v) \/ Put(v) \/ Publish(v)
  BY <1>6 DEF Accept, Put, Publish
<1>7. CASE \E v \in Uploads : Commit(v) \/ Fail(v)
  BY <1>7 DEF Commit, Fail
<1>8. CASE UNCHANGED vars
  BY <1>8 DEF vars
<1> QED
  BY <1>1, <1>2, <1>3, <1>4, <1>5, <1>6, <1>7, <1>8
     DEF Next, Wipe, Upload, Rest

\* Whatever leaves wipe, objects and history of a channel alone.
LEMMA StillInReach ==
  ASSUME InReach, NEW c \in Channels, NEW f \in Files,
         c \notin spared, object[PrefixOf[c]][f] = c, ~Straggler(c, f),
         wipe[c] # "none", wipe'[c] = wipe[c], due'[c] = due[c],
         found'[c] = found[c]
  PROVE  LET k == <<PrefixOf[c], f>> IN
            \/ wipe'[c] = "due"
            \/ wipe'[c] = "list" /\ k \in due'[c] \cup found'[c]
            \/ wipe'[c] = "delete" /\ k \in found'[c]
BY DEF InReach

LEMMA NextInReach ==
  TypeInv /\ Outlives /\ InReach /\ [Next]_vars => InReach'
<1> SUFFICES ASSUME TypeInv, Outlives, InReach, [Next]_vars,
                    NEW c \in Channels, c \notin spared', NEW f \in Files,
                    wipe'[c] # "none", object'[PrefixOf[c]][f] = c,
                    ~Straggler(c, f)'
             PROVE  LET k == <<PrefixOf[c], f>> IN
                    \/ wipe'[c] = "due"
                    \/ wipe'[c] = "list" /\ k \in due'[c] \cup found'[c]
                    \/ wipe'[c] = "delete" /\ k \in found'[c]
  BY DEF InReach
<1> DEFINE p == PrefixOf[c]
           k == <<p, f>>
           Same == /\ wipe'[c] = wipe[c] /\ due'[c] = due[c]
                   /\ found'[c] = found[c]
           Was == /\ c \notin spared /\ object[p][f] = c /\ ~Straggler(c, f)
<1>0. /\ LifecycleTypeOK /\ Stages /\ p \in Prefixes
      /\ c # None /\ f # Index
  BY Constants, ValueAssumption DEF TypeInv
<1> USE DEF storeVars, wipeVars
<1>1. ASSUME NEW d \in Channels, Create(d) \/ Reindex(d) PROVE Same /\ Was
  BY <1>1 DEF Create, Reindex, Straggler
<1>2. ASSUME NEW d \in Channels, Delete(d) PROVE (Same /\ Was) \/ wipe'[c] = "due"
  <2>1. Was /\ due' = due /\ found' = found
    BY <1>2 DEF Delete, Straggler
  <2>2. wipe'[c] = wipe[c] \/ wipe'[c] = "due"
    BY <1>0, <1>2 DEF Delete, LifecycleTypeOK
  <2> QED BY <2>1, <2>2
<1>3. ASSUME NEW d \in Channels, d # c,
             \/ List(d) \/ ListPage(d) \/ ListEnds(d) \/ WipeEnds(d)
             \/ Abandon(d) \/ \E j \in Keys : SkipKey(d, j)
      PROVE  Same /\ Was
  <2>1. object' = object /\ outlived' = outlived /\ spared \subseteq spared'
    BY <1>3 DEF List, ListPage, ListEnds, WipeEnds, Abandon, SkipKey
  <2>2. Same
    BY <1>0, <1>3
       DEF List, ListPage, ListEnds, WipeEnds, Abandon, SkipKey,
           LifecycleTypeOK
  <2> QED BY <2>1, <2>2 DEF Straggler
<1>4. ASSUME \/ List(c) \/ ListPage(c) \/ ListEnds(c) \/ WipeEnds(c)
             \/ Abandon(c) \/ \E j \in Keys : SkipKey(c, j)
      PROVE  \/ wipe'[c] = "list" /\ k \in due'[c] \cup found'[c]
             \/ wipe'[c] = "delete" /\ k \in found'[c]
  <2>1. Was /\ object' = object
    BY <1>4 DEF List, ListPage, ListEnds, WipeEnds, Abandon, SkipKey,
                Straggler
  <2>2. k \in Under(p) /\ k \in Stored
    BY <1>0, <2>1, StoredKey
  <2>3. wipe[c] # "none" =>
           \/ wipe[c] = "due"
           \/ wipe[c] = "list" /\ k \in due[c] \cup found[c]
           \/ wipe[c] = "delete" /\ k \in found[c]
    BY <2>1 DEF InReach
  <2>4. CASE List(c)
    BY <1>0, <2>2, <2>4 DEF List, LifecycleTypeOK
  <2>5. CASE ListPage(c)
    BY <1>0, <2>3, <2>5 DEF ListPage, LifecycleTypeOK
  <2>6. CASE ListEnds(c)
    BY <1>0, <2>2, <2>3, <2>6 DEF ListEnds, LifecycleTypeOK
  <2>7. CASE WipeEnds(c)
    BY <2>3, <2>7 DEF WipeEnds
  <2>8. CASE Abandon(c) \/ \E j \in Keys : SkipKey(c, j)
    BY <1>0, <2>8 DEF Abandon, SkipKey, LifecycleTypeOK
  <2> QED BY <1>4, <2>4, <2>5, <2>6, <2>7, <2>8
<1>5. ASSUME NEW d \in Channels, NEW j \in Keys, DeleteKey(d, j)
      PROVE  \/ Same /\ Was
             \/ wipe'[c] = "delete" /\ k \in found'[c]
  <2>1. /\ wipe' = wipe /\ due' = due /\ spared' = spared
        /\ outlived' = outlived /\ wipe[d] = "delete"
        /\ found' = [found EXCEPT ![d] = @ \ {j}]
    BY <1>5 DEF DeleteKey
  <2>2. object[p][f] = c /\ j # k
    <3>1. j[1] \in Prefixes /\ j[2] \in Files \cup {Index}
      BY DEF Keys
    <3>2. CASE j[2] = Index
      BY <1>0, <1>5, <3>2 DEF DeleteKey
    <3>3. CASE j[2] # Index
      <4>1. object' = [object EXCEPT ![j[1]][j[2]] = None]
        BY <1>5, <3>3 DEF DeleteKey
      <4>2. object \in [Prefixes -> [Files -> Channels \cup {None}]]
        BY <1>0 DEF LifecycleTypeOK
      <4> QED BY <1>0, <3>1, <3>3, <4>1, <4>2
    <3> QED BY <3>2, <3>3
  <2>3. Was
    BY <2>1, <2>2 DEF Straggler
  <2>4. CASE d = c
    <3>1. k \in found[c]
      BY <2>1, <2>3, <2>4 DEF InReach
    <3>2. found'[c] = found[c] \ {j}
      BY <1>0, <2>1, <2>4 DEF LifecycleTypeOK
    <3>3. k \in found'[c]
      BY <2>2, <3>1, <3>2
    <3> QED BY <2>1, <2>4, <3>3
  <2>5. CASE d # c
    <3>1. found'[c] = found[c]
      BY <1>0, <2>1, <2>5 DEF LifecycleTypeOK
    <3> QED BY <2>1, <2>3, <3>1
  <2> QED BY <2>4, <2>5
<1>6. ASSUME NEW u \in Uploads, Put(u) PROVE Same /\ Was
  <2>1. /\ object' = [object EXCEPT ![PrefixOf[ChannelOf[u]]][FileOf[u]] =
                           ChannelOf[u]]
        /\ UNCHANGED <<life, wipe, due, found, spared, outlived>>
        /\ pc[u] = "put"
    BY <1>6 DEF Put
  <2>2. ~(ChannelOf[u] = c /\ FileOf[u] = f)
    <3>1. life[c] = "deleted"
      BY <1>0, <2>1 DEF Stages
    <3> QED BY <2>1, <3>1 DEF Straggler, Outlives, Busy
  <2>3. object[p][f] = c
    <3>1. object \in [Prefixes -> [Files -> Channels \cup {None}]]
      BY <1>0 DEF LifecycleTypeOK
    <3> QED BY <1>0, <2>1, <2>2, <3>1, Constants
  <2> QED BY <2>1, <2>3 DEF Straggler
<1>7. ASSUME NEW u \in Uploads, Accept(u) \/ Publish(u) \/ Commit(u) \/ Fail(u)
      PROVE  Same /\ Was
  BY <1>7 DEF Accept, Publish, Commit, Fail, Straggler
<1>8. ASSUME UNCHANGED vars PROVE Same /\ Was
  BY <1>8 DEF vars, Straggler
<1>9. \/ Same /\ Was
      \/ wipe'[c] = "due"
      \/ wipe'[c] = "list" /\ k \in due'[c] \cup found'[c]
      \/ wipe'[c] = "delete" /\ k \in found'[c]
  <2> HIDE DEF Same, Was, k
  <2> QED
    BY <1>1, <1>2, <1>3, <1>4, <1>5, <1>6, <1>7, <1>8
       DEF Next, Wipe, Upload, Rest
<1> QED BY <1>9, StillInReach

-----------------------------------------------------------------------------
\* Nobody else writes under the prefix of a channel that met no other.

LEMMA NextAlone ==
  ASSUME TypeInv, Alone, [Next]_vars, NEW c \in Untouched'
  PROVE  \/ /\ c \in Untouched
            /\ \A d \in Channels : ~Reaches(d, c) /\ ~Reaches(d, c)'
         \/ Create(c) /\ \A d \in Channels : ~Reaches(d, c) /\ ~Reaches(d, c)'
<1> USE Constants DEF storeVars, wipeVars
<1>0. LifecycleTypeOK /\ Stages /\ c \in Channels
  BY DEF TypeInv, Untouched
<1>1. ASSUME NEW e \in Channels, Create(e), e # c
      PROVE  c \in Untouched /\ \A d \in Channels : ~Reaches(d, c)'
  <2>1. c \in Untouched /\ ~Over(e, c)
    BY <1>0, <1>1 DEF Create, Untouched, LifecycleTypeOK
  <2> QED
    BY <1>0, <1>1, <2>1
       DEF Create, Alone, Reaches, Over, Wiping, BusyIn, Busy, LifecycleTypeOK
<1>2. ASSUME Create(c) PROVE \A d \in Channels : ~Reaches(d, c) /\ ~Reaches(d, c)'
  BY <1>0, <1>2
     DEF Create, Untouched, Reaches, Over, Wiping, BusyIn, Busy,
         LifecycleTypeOK
<1>3. ASSUME NEW e \in Channels, Delete(e)
      PROVE  c \in Untouched /\ \A d \in Channels : ~Reaches(d, c)'
  <2>1. c \in Untouched
    BY <1>0, <1>3 DEF Delete, Untouched, LifecycleTypeOK
  <2>2. ~Over(e, c) \/ e = c
    BY <1>3, <2>1 DEF Delete, Alone, Reaches
  <2> QED
    BY <1>0, <1>3, <2>1, <2>2
       DEF Delete, Alone, Reaches, Over, Wiping, BusyIn, Busy, LifecycleTypeOK
<1>4. ASSUME NEW u \in Uploads, Accept(u)
      PROVE  c \in Untouched /\ \A d \in Channels : ~Reaches(d, c)'
  <2>1. c \in Untouched
    BY <1>4 DEF Accept, Untouched
  <2>2. ~Over(ChannelOf[u], c) \/ ChannelOf[u] = c
    BY <1>4, <2>1 DEF Accept, Alone, Reaches
  <2> QED
    BY <1>0, <1>4, <2>1, <2>2
       DEF Accept, Alone, Reaches, Over, Wiping, BusyIn, Busy, LifecycleTypeOK
<1>5. ASSUME \/ \E e \in Channels :
                    \/ Reindex(e) \/ List(e) \/ ListPage(e) \/ ListEnds(e)
                    \/ WipeEnds(e) \/ Abandon(e)
                    \/ \E k \in Keys : DeleteKey(e, k) \/ SkipKey(e, k)
             \/ \E u \in Uploads : Put(u) \/ Publish(u) \/ Commit(u) \/ Fail(u)
             \/ UNCHANGED vars
      PROVE  c \in Untouched /\ \A d \in Channels : ~Reaches(d, c)'
  <2>1. life' = life /\ haunted' = haunted
    BY <1>5 DEF Reindex, List, ListPage, ListEnds, WipeEnds, Abandon,
                DeleteKey, SkipKey, Put, Publish, Commit, Fail, vars
  <2>2. \A d \in Channels : Wiping(d)' => Wiping(d)
    <3>1. ASSUME NEW e \in Channels,
                 List(e) \/ ListPage(e) \/ ListEnds(e) \/ WipeEnds(e)
                 \/ Abandon(e)
          PROVE  \A d \in Channels : Wiping(d)' => Wiping(d)
      BY <1>0, <3>1 DEF List, ListPage, ListEnds, WipeEnds, Abandon, Wiping,
                        LifecycleTypeOK
    <3>2. ASSUME wipe' = wipe
          PROVE  \A d \in Channels : Wiping(d)' => Wiping(d)
      BY <3>2 DEF Wiping
    <3>3. ASSUME NEW e \in Channels, NEW k \in Keys,
                 Reindex(e) \/ DeleteKey(e, k) \/ SkipKey(e, k)
          PROVE  wipe' = wipe
      BY <3>3 DEF Reindex, DeleteKey, SkipKey
    <3>4. ASSUME NEW u \in Uploads, Put(u) \/ Publish(u) \/ Commit(u) \/ Fail(u)
          PROVE  wipe' = wipe
      BY <3>4 DEF Put, Publish, Commit, Fail
    <3>5. ASSUME UNCHANGED vars PROVE wipe' = wipe
      BY <3>5 DEF vars
    <3>6. ASSUME NEW e \in Channels, Reindex(e) PROVE wipe' = wipe
      BY <3>6 DEF Reindex
    <3> QED BY <1>5, <3>1, <3>2, <3>3, <3>4, <3>5, <3>6
  <2>3. \A d \in Channels : BusyIn(d)' => BusyIn(d)
    <3>1. ASSUME NEW u \in Uploads, Put(u) \/ Publish(u) \/ Commit(u) \/ Fail(u)
          PROVE  \A v \in Uploads : Busy(v)' => Busy(v)
      <4>1. Busy(u) /\ \A v \in Uploads : v # u => pc'[v] = pc[v]
        BY <1>0, <3>1 DEF Put, Publish, Commit, Fail, Busy, LifecycleTypeOK
      <4> QED BY <4>1 DEF Busy
    <3>2. ASSUME pc' = pc PROVE \A v \in Uploads : Busy(v)' => Busy(v)
      BY <3>2 DEF Busy
    <3>3. ASSUME NEW e \in Channels,
                 \/ Reindex(e) \/ List(e) \/ ListPage(e) \/ ListEnds(e)
                 \/ WipeEnds(e) \/ Abandon(e)
                 \/ \E k \in Keys : DeleteKey(e, k) \/ SkipKey(e, k)
          PROVE  pc' = pc
      BY <3>3 DEF Reindex, List, ListPage, ListEnds, WipeEnds, Abandon,
                  DeleteKey, SkipKey
    <3>4. ASSUME UNCHANGED vars PROVE pc' = pc
      BY <3>4 DEF vars
    <3>5. \A v \in Uploads : Busy(v)' => Busy(v)
      BY <1>5, <3>1, <3>2, <3>3, <3>4
    <3> QED BY <3>5 DEF BusyIn
  <2> QED BY <2>1, <2>2, <2>3 DEF Untouched, Alone, Reaches, Over
<1> QED
  BY <1>1, <1>2, <1>3, <1>4, <1>5
     DEF Next, Wipe, Upload, Rest, Alone

\* Every step of another channel leaves an untouched one's share alone.
LEMMA NextUnderway ==
  TypeInv /\ KeepInv /\ [Next]_vars => Underway' /\ OwnPrefixIsKept'
<1> SUFFICES ASSUME TypeInv, KeepInv, [Next]_vars,
                    NEW c \in Untouched'
             PROVE  /\ \A f \in Files : object'[PrefixOf[c]][f] \in {c, None}
                    /\ rows'[c] \subseteq listed'[PrefixOf[c]]
                    /\ listed'[PrefixOf[c]] \subseteq FilesUnder(PrefixOf[c])'
                    /\ \A u \in Uploads : ChannelOf[u] = c =>
                          /\ pc'[u] = "done" => FileOf[u] \in rows'[c]
                          /\ pc'[u] \in {"publish", "commit"} =>
                                 object'[PrefixOf[c]][FileOf[u]] # None
                          /\ pc'[u] = "commit" =>
                                 FileOf[u] \in listed'[PrefixOf[c]]
  BY DEF Underway, OwnPrefixIsKept, Untouched
<1> DEFINE p == PrefixOf[c]
           Share(o, r, l, s) ==
               /\ \A f \in Files : o[p][f] \in {c, None}
               /\ r[c] \subseteq l[p]
               /\ \A f \in l[p] : f \in Files /\ o[p][f] # None
               /\ \A u \in Uploads : ChannelOf[u] = c =>
                     /\ s[u] = "done" => FileOf[u] \in r[c]
                     /\ s[u] \in {"publish", "commit"} =>
                            o[p][FileOf[u]] # None
                     /\ s[u] = "commit" => FileOf[u] \in l[p]
<1> SUFFICES Share(object', rows', listed', pc')
  BY DEF FilesUnder
<1> USE Constants, ValueAssumption DEF storeVars, wipeVars
<1>0. /\ LifecycleTypeOK /\ Stages /\ c \in Channels /\ c # None
      /\ p \in Prefixes /\ p \in Inside[p]
  BY DEF TypeInv, Untouched
<1>1. CASE Create(c)
  <2>1. /\ ~Littered(p) /\ life[c] = "unborn"
        /\ UNCHANGED <<rows, object, indexed, listed, pc>>
    BY <1>0, <1>1 DEF Create, Untouched
  <2>2. /\ \A f \in Files : object[p][f] = None
        /\ listed[p] = {} /\ rows[c] = {}
        /\ \A u \in Uploads : ChannelOf[u] = c => pc[u] = "none"
    BY <1>0, <2>1 DEF Littered, FilesUnder, Stages
  <2> QED BY <2>1, <2>2
<1>2. ASSUME c \in Untouched,
             \A d \in Channels : ~Reaches(d, c) /\ ~Reaches(d, c)'
      PROVE  Share(object', rows', listed', pc')
  <2>0. Share(object, rows, listed, pc) /\ life[c] = "live"
    <3>1. Underway /\ OwnPrefixIsKept
      BY DEF KeepInv
    <3> QED BY <1>2, <3>1 DEF Untouched, Underway, OwnPrefixIsKept, FilesUnder
  <2>1. ASSUME NEW e \in Channels, PrefixOf[e] = p, e # c
        PROVE  life[e] # "live" /\ ~Wiping(e) /\ ~BusyIn(e)
    BY <1>0, <1>2, <2>1 DEF Reaches, Over
  <2>2. ASSUME NEW e \in Channels,
               \/ Create(e) \/ List(e) \/ ListPage(e) \/ ListEnds(e)
               \/ WipeEnds(e) \/ Abandon(e) \/ \E k \in Keys : SkipKey(e, k)
        PROVE  Share(object', rows', listed', pc')
    <3>1. UNCHANGED <<rows, object, listed, pc>>
      BY <2>2 DEF Create, List, ListPage, ListEnds, WipeEnds, Abandon, SkipKey
    <3> QED BY <2>0, <3>1
  <2>3. ASSUME NEW e \in Channels, Delete(e)
        PROVE  Share(object', rows', listed', pc')
    <3>1. UNCHANGED <<object, listed, pc>> /\ rows'[c] = rows[c]
      BY <1>0, <2>3 DEF Delete, Untouched, LifecycleTypeOK
    <3> QED BY <2>0, <3>1
  <2>4. ASSUME NEW e \in Channels, Reindex(e)
        PROVE  Share(object', rows', listed', pc')
    <3>1. /\ object' = object /\ pc' = pc
          /\ listed' = [listed EXCEPT ![PrefixOf[e]] = FilesUnder(PrefixOf[e])]
          /\ rows' = [rows EXCEPT ![e] = FilesUnder(PrefixOf[e])]
          /\ life[e] = "live"
      BY <2>4 DEF Reindex
    <3>2. CASE e = c
      <4>1. rows'[c] = FilesUnder(p) /\ listed'[p] = FilesUnder(p)
        BY <1>0, <3>1, <3>2 DEF LifecycleTypeOK
      <4> QED BY <2>0, <3>1, <4>1 DEF FilesUnder
    <3>3. CASE e # c
      <4>1. rows'[c] = rows[c] /\ listed'[p] = listed[p]
        BY <1>0, <2>1, <3>1, <3>3 DEF LifecycleTypeOK
      <4> QED BY <2>0, <3>1, <4>1
    <3> QED BY <3>2, <3>3
  <2>5. ASSUME NEW e \in Channels, NEW k \in Keys, DeleteKey(e, k)
        PROVE  Share(object', rows', listed', pc')
    <3>1. k[1] # p
      <4>1. k \in Under(PrefixOf[e]) /\ wipe[e] = "delete"
        BY <1>0, <2>5 DEF DeleteKey, Stages
      <4>2. e # c
        BY <1>0, <2>0, <4>1 DEF Stages
      <4> QED BY <1>2, <4>1, <4>2 DEF Under, Reaches, Over, Wiping
    <3>2. UNCHANGED <<rows, pc>> /\ object'[p] = object[p] /\ listed'[p] = listed[p]
      BY <1>0, <2>5, <3>1 DEF DeleteKey, LifecycleTypeOK
    <3> QED BY <2>0, <3>2
  <2>6. ASSUME NEW u \in Uploads, Accept(u) \/ Fail(u)
        PROVE  Share(object', rows', listed', pc')
    <3>1. UNCHANGED <<rows, object, listed>>
      BY <2>6 DEF Accept, Fail
    <3>2. \A v \in Uploads : pc'[v] = pc[v] \/ pc'[v] \in {"put", "failed"}
      BY <1>0, <2>6 DEF Accept, Fail, LifecycleTypeOK
    <3> QED BY <2>0, <3>1, <3>2
  <2>7. ASSUME NEW u \in Uploads, ChannelOf[u] # c,
               Put(u) \/ Publish(u) \/ Commit(u)
        PROVE  Share(object', rows', listed', pc')
    <3>1. Busy(u)
      BY <2>7 DEF Put, Publish, Commit, Busy
    <3>2. PrefixOf[ChannelOf[u]] # p
      BY <2>1, <2>7, <3>1 DEF BusyIn
    <3>3. object'[p] = object[p] /\ listed'[p] = listed[p] /\ rows'[c] = rows[c]
      BY <1>0, <2>7, <3>2 DEF Put, Publish, Commit, LifecycleTypeOK
    <3>4. \A v \in Uploads : ChannelOf[v] = c => pc'[v] = pc[v]
      BY <1>0, <2>7 DEF Put, Publish, Commit, LifecycleTypeOK
    <3> QED BY <2>0, <3>3, <3>4
  <2>8. ASSUME NEW u \in Uploads, ChannelOf[u] = c, Put(u)
        PROVE  Share(object', rows', listed', pc')
    <3>1. /\ object' = [object EXCEPT ![p][FileOf[u]] = c]
          /\ pc' = [pc EXCEPT ![u] = "publish"]
          /\ rows' = rows /\ listed' = listed
      BY <2>8 DEF Put
    <3>2. /\ \A f \in Files : object'[p][f] =
                 IF f = FileOf[u] THEN c ELSE object[p][f]
          /\ \A v \in Uploads : pc'[v] = IF v = u THEN "publish" ELSE pc[v]
      BY <1>0, <3>1 DEF LifecycleTypeOK
    <3> QED BY <1>0, <2>0, <2>8, <3>1, <3>2
  <2>9. ASSUME NEW u \in Uploads, ChannelOf[u] = c, Publish(u)
        PROVE  Share(object', rows', listed', pc')
    <3>1. /\ listed' = [listed EXCEPT ![p] = @ \cup {FileOf[u]}]
          /\ pc[u] = "publish" /\ pc' = [pc EXCEPT ![u] = "commit"]
          /\ rows' = rows /\ object' = object
      BY <2>9 DEF Publish
    <3>2. /\ listed'[p] = listed[p] \cup {FileOf[u]}
          /\ \A v \in Uploads : pc'[v] = IF v = u THEN "commit" ELSE pc[v]
      BY <1>0, <3>1 DEF LifecycleTypeOK
    <3> QED BY <1>0, <2>0, <2>9, <3>1, <3>2
  <2>10. ASSUME NEW u \in Uploads, ChannelOf[u] = c, Commit(u)
         PROVE  Share(object', rows', listed', pc')
    <3>1. /\ rows' = [rows EXCEPT ![c] = @ \cup {FileOf[u]}]
          /\ pc[u] = "commit" /\ pc' = [pc EXCEPT ![u] = "done"]
          /\ listed' = listed /\ object' = object
      BY <2>0, <2>10 DEF Commit
    <3>2. /\ rows'[c] = rows[c] \cup {FileOf[u]}
          /\ \A v \in Uploads : pc'[v] = IF v = u THEN "done" ELSE pc[v]
      BY <1>0, <3>1 DEF LifecycleTypeOK
    <3> QED BY <1>0, <2>0, <2>10, <3>1, <3>2
  <2>11. ASSUME UNCHANGED vars PROVE Share(object', rows', listed', pc')
    BY <2>0, <2>11 DEF vars
  <2> HIDE DEF Share
  <2> QED
    BY <2>2, <2>3, <2>4, <2>5, <2>6, <2>7, <2>8, <2>9, <2>10, <2>11
       DEF Next, Wipe, Upload, Rest
<1>3. Alone
  BY DEF KeepInv
<1> QED BY <1>1, <1>2, <1>3, NextAlone

LEMMA NextKeepInv == TypeInv /\ KeepInv /\ [Next]_vars => KeepInv'
<1> SUFFICES ASSUME TypeInv, KeepInv, [Next]_vars PROVE KeepInv'
  OBVIOUS
<1>1. Alone'
  BY NextAlone DEF KeepInv, Alone
<1> QED BY <1>1, NextUnderway DEF KeepInv

-----------------------------------------------------------------------------
LEMMA InitInv == Init => TypeInv /\ WipeInv /\ KeepInv
<1> SUFFICES ASSUME Init PROVE WipeInv /\ KeepInv
  BY InitTypeInv
<1>1. \A c \in Channels : life[c] = "unborn" /\ wipe[c] = "none"
  BY DEF Init
<1>2. Untouched = {}
  BY <1>1 DEF Untouched
<1> QED
  BY <1>1, <1>2, Constants
     DEF WipeInv, KeepInv, Outlives, InReach, Alone, Underway,
         OwnPrefixIsKept

LEMMA Inductive == Spec => [](TypeInv /\ WipeInv /\ KeepInv)
<1>1. TypeInv /\ WipeInv /\ KeepInv /\ [Next]_vars
          => (TypeInv /\ WipeInv /\ KeepInv)'
  BY NextTypeInv, NextOutlives, NextInReach, NextKeepInv DEF WipeInv
<1> QED BY <1>1, InitInv, PTL DEF Spec

\* Every variable keeps its type, and a listing returns no key twice.
THEOREM LifecycleTyped == Spec => []LifecycleTypeOK
BY Inductive, PTL DEF TypeInv

\* _wipe_channel_storage: whatever is uploaded, created, deleted and wiped
\* beside it, a wipe without a failing call leaves no byte of its channel but
\* those of uploads that outlived it.
THEOREM WipedThoroughly == Spec => []WipeIsThorough
<1>1. InReach => WipeIsThorough
  BY DEF InReach, WipeIsThorough
<1> QED BY <1>1, Inductive, PTL DEF WipeInv

\* A live channel that met no other under its prefix keeps all it answered
\* for, stored and listed, whatever happens under every other prefix.
THEOREM OwnPrefixKept == Spec => []OwnPrefixIsKept
BY Inductive, PTL DEF KeepInv
=============================================================================
