------------------------------ MODULE Lifecycle ------------------------------
(***************************************************************************)
(* Channels come and go over prefixes of one storage.  A deletion commits, *)
(* and a task of the process then lists the prefix, page by page, and      *)
(* deletes what it found, key by key (_wipe_channel_storage,               *)
(* Storage.delete_prefix), while uploads of the deleted channel may still  *)
(* be on their way and another channel may be created over the same        *)
(* prefix, which need not be unique.                                       *)
(*                                                                         *)
(* An upload stores, publishes and commits, and a reindex is one step: how *)
(* those interleave within a channel is the matter of Publish and Channel. *)
(***************************************************************************)
EXTENDS Naturals, FiniteSets

CONSTANTS
    Channels,     \* rows of the channels table, each created once
    Names,        \* what they are called
    Prefixes,     \* storage prefixes
    Files,        \* package files
    Uploads,      \* upload requests
    NameOf, PrefixOf,
    ChannelOf, FileOf,
    Inside,       \* the prefixes inside a prefix: it, and what continues it
                  \* after a slash
    Spelled,      \* those that begin with its text, slash or not
    PageSize,     \* how many keys a page of a listing holds
    MaxFailures,  \* bound: failing calls and dying processes
    Index,        \* the key of a prefix's index files
    None

ASSUME ChannelAssumption ==
    /\ NameOf \in [Channels -> Names] /\ PrefixOf \in [Channels -> Prefixes]
ASSUME UploadAssumption ==
    /\ ChannelOf \in [Uploads -> Channels] /\ FileOf \in [Uploads -> Files]
ASSUME PrefixAssumption ==
    /\ Inside \in [Prefixes -> SUBSET Prefixes]
    /\ Spelled \in [Prefixes -> SUBSET Prefixes]
    /\ \A p \in Prefixes : p \in Inside[p] /\ Inside[p] \subseteq Spelled[p]
ASSUME BoundAssumption == PageSize \in Nat \ {0} /\ MaxFailures \in Nat
ASSUME ValueAssumption ==
    /\ Index \notin Files /\ None \notin Channels

VARIABLES
    life,       \* of each channel's row
    rows,       \* the files of its version rows
    object,     \* which channel stored what is under a prefix
    indexed,    \* prefixes with index files
    listed,     \* what those list
    pc,         \* where each upload stands
    wipe,       \* where the wipe of each channel stands
    left,       \* keys its listing may still return
    due,        \* those it must return, if they stay
    found,      \* keys it returned that are not deleted yet
    failures,   \* how many calls failed
    spared,     \* history: channels whose wipe left something
    outlived,   \* history: uploads on their way when their channel was deleted
    haunted     \* history: channels that met another one under their prefix

storeVars == <<object, indexed, listed>>
wipeVars == <<wipe, left, due, found, spared>>
vars == <<life, rows, storeVars, pc, wipeVars, failures, outlived, haunted>>

Keys == Prefixes \X (Files \cup {Index})

\* A mutation of Under: the slash is missing, where a storage compares text.
UnderText(p) == {k \in Keys : k[1] \in Spelled[p]}

\* The keys under a prefix.
Under(p) == {k \in Keys : k[1] \in Inside[p]}

Stored == {k \in Keys : IF k[2] = Index THEN k[1] \in indexed
                        ELSE object[k[1]][k[2]] # None}

Busy(u) == pc[u] \in {"put", "publish", "commit"}
BusyIn(c) == \E u \in Uploads : ChannelOf[u] = c /\ Busy(u)
Wiping(c) == wipe[c] \in {"due", "list", "delete"}
FilesUnder(p) == {f \in Files : object[p][f] # None}

\* d's life reaches what is under c's prefix, or its bytes still lie there.
Over(d, c) == PrefixOf[c] \in Inside[PrefixOf[d]]
Reaches(d, c) ==
    /\ d # c /\ Over(d, c)
    /\ life[d] = "live" \/ Wiping(d) \/ BusyIn(d)
Littered(p) == FilesUnder(p) # {} \/ p \in indexed

Init ==
    /\ life = [c \in Channels |-> "unborn"]
    /\ rows = [c \in Channels |-> {}]
    /\ object = [p \in Prefixes |-> [f \in Files |-> None]]
    /\ indexed = {}
    /\ listed = [p \in Prefixes |-> {}]
    /\ pc = [u \in Uploads |-> "none"]
    /\ wipe = [c \in Channels |-> "none"]
    /\ left = [c \in Channels |-> {}]
    /\ due = [c \in Channels |-> {}]
    /\ found = [c \in Channels |-> {}]
    /\ failures = 0
    /\ spared = {}
    /\ outlived = {}
    /\ haunted = {}

-----------------------------------------------------------------------------
\* create_channel: the name must be free, the prefix need not.
Create(c) ==
    /\ life[c] = "unborn"
    /\ \A d \in Channels : life[d] = "live" => NameOf[d] # NameOf[c]
    /\ life' = [life EXCEPT ![c] = "live"]
    /\ haunted' = haunted
           \cup {e \in Channels : life[e] = "live" /\ Over(c, e)}
           \cup (IF Littered(PrefixOf[c]) \/ \E d \in Channels : Reaches(d, c)
                 THEN {c} ELSE {})
    /\ UNCHANGED <<rows, storeVars, pc, wipeVars, failures, outlived>>

\* A mutation of Delete: the task is not started.
DeleteOnly(c) ==
    /\ life[c] = "live"
    /\ life' = [life EXCEPT ![c] = "deleted"]
    /\ rows' = [rows EXCEPT ![c] = {}]
    /\ outlived' = outlived \cup {u \in Uploads : ChannelOf[u] = c /\ Busy(u)}
    /\ UNCHANGED <<storeVars, pc, wipeVars, failures, haunted>>

\* delete_channel, with the rows; the task follows the response.
Delete(c) ==
    /\ life[c] = "live"
    /\ life' = [life EXCEPT ![c] = "deleted"]
    /\ rows' = [rows EXCEPT ![c] = {}]
    /\ wipe' = [wipe EXCEPT ![c] = "due"]
    /\ outlived' = outlived \cup {u \in Uploads : ChannelOf[u] = c /\ Busy(u)}
    /\ UNCHANGED <<storeVars, pc, left, due, found, spared, failures, haunted>>

-----------------------------------------------------------------------------
\* upload_packages, which looks its channel up once.
Accept(u) ==
    /\ pc[u] = "none" /\ life[ChannelOf[u]] = "live"
    /\ pc' = [pc EXCEPT ![u] = "put"]
    /\ UNCHANGED <<life, rows, storeVars, wipeVars, failures, outlived,
                   haunted>>

\* _store_one_package.
Put(u) ==
    /\ pc[u] = "put"
    /\ object' = [object EXCEPT ![PrefixOf[ChannelOf[u]]][FileOf[u]] =
                     ChannelOf[u]]
    /\ pc' = [pc EXCEPT ![u] = "publish"]
    /\ UNCHANGED <<life, rows, indexed, listed, wipeVars, failures, outlived,
                   haunted>>

\* _publish_uploads: onto the index that is there.
Publish(u) ==
    LET p == PrefixOf[ChannelOf[u]]
    IN  /\ pc[u] = "publish"
        /\ listed' = [listed EXCEPT ![p] = @ \cup {FileOf[u]}]
        /\ indexed' = indexed \cup {p}
        /\ pc' = [pc EXCEPT ![u] = "commit"]
        /\ UNCHANGED <<life, rows, object, wipeVars, failures, outlived,
                       haunted>>

\* The version row, which needs its channel's.
Commit(u) ==
    LET c == ChannelOf[u]
    IN  /\ pc[u] = "commit"
        /\ IF life[c] = "live"
           THEN /\ rows' = [rows EXCEPT ![c] = @ \cup {FileOf[u]}]
                /\ pc' = [pc EXCEPT ![u] = "done"]
           ELSE pc' = [pc EXCEPT ![u] = "failed"] /\ UNCHANGED rows
        /\ UNCHANGED <<life, storeVars, wipeVars, failures, outlived, haunted>>

\* A call of an upload raises, or its process dies.
Fail(u) ==
    /\ Busy(u) /\ failures < MaxFailures
    /\ pc' = [pc EXCEPT ![u] = "failed"]
    /\ failures' = failures + 1
    /\ UNCHANGED <<life, rows, storeVars, wipeVars, outlived, haunted>>

\* reindex_channel: index and rows are what is under the prefix.
Reindex(c) ==
    LET p == PrefixOf[c]
    IN  /\ life[c] = "live"
        /\ listed' = [listed EXCEPT ![p] = FilesUnder(p)]
        /\ indexed' = indexed \cup {p}
        /\ rows' = [rows EXCEPT ![c] = FilesUnder(p)]
        /\ UNCHANGED <<life, object, pc, wipeVars, failures, outlived,
                       haunted>>

-----------------------------------------------------------------------------
\* _wipe_channel_storage.

\* delete_prefix: the listing begins.
List(c) ==
    /\ wipe[c] = "due"
    /\ wipe' = [wipe EXCEPT ![c] = "list"]
    /\ left' = [left EXCEPT ![c] = Under(PrefixOf[c])]
    /\ due' = [due EXCEPT ![c] = Under(PrefixOf[c]) \cap Stored]
    /\ UNCHANGED <<life, rows, storeVars, pc, found, spared, failures,
                   outlived, haunted>>

\* A mutation of ListPage: it may return a key a second time.
ListPageAgain(c) ==
    /\ wipe[c] = "list"
    /\ \E K \in SUBSET (left[c] \cap Stored) :
           /\ K # {} /\ Cardinality(K) <= PageSize
           /\ found' = [found EXCEPT ![c] = @ \cup K]
           /\ due' = [due EXCEPT ![c] = @ \ K]
    /\ UNCHANGED <<life, rows, storeVars, pc, wipe, left, spared, failures,
                   outlived, haunted>>

\* Some keys that are there, none of them a second time.
ListPage(c) ==
    /\ wipe[c] = "list"
    /\ \E K \in SUBSET (left[c] \cap Stored) :
           /\ K # {} /\ Cardinality(K) <= PageSize
           /\ found' = [found EXCEPT ![c] = @ \cup K]
           /\ left' = [left EXCEPT ![c] = @ \ K]
           /\ due' = [due EXCEPT ![c] = @ \ K]
    /\ UNCHANGED <<life, rows, storeVars, pc, wipe, spared, failures, outlived,
                   haunted>>

\* A mutation of ListEnds: the first page is taken for the whole.
ListEndsEarly(c) ==
    /\ wipe[c] = "list"
    /\ due[c] \cap Stored = {} \/ left[c] # Under(PrefixOf[c])
    /\ wipe' = [wipe EXCEPT ![c] = "delete"]
    /\ left' = [left EXCEPT ![c] = {}] /\ due' = [due EXCEPT ![c] = {}]
    /\ UNCHANGED <<life, rows, storeVars, pc, found, spared, failures,
                   outlived, haunted>>

\* What was there all along has been returned; what came since, maybe not.
\* Not before is anything deleted (ObstoreStorage.list collects the pages).
ListEnds(c) ==
    /\ wipe[c] = "list"
    /\ due[c] \cap Stored = {}
    /\ wipe' = [wipe EXCEPT ![c] = "delete"]
    /\ left' = [left EXCEPT ![c] = {}] /\ due' = [due EXCEPT ![c] = {}]
    /\ UNCHANGED <<life, rows, storeVars, pc, found, spared, failures,
                   outlived, haunted>>

\* One key, whatever is there by now.
DeleteKey(c, k) ==
    /\ wipe[c] = "delete" /\ k \in found[c]
    /\ IF k[2] = Index
       THEN /\ indexed' = indexed \ {k[1]}
            /\ listed' = [listed EXCEPT ![k[1]] = {}]
            /\ UNCHANGED object
       ELSE /\ object' = [object EXCEPT ![k[1]][k[2]] = None]
            /\ UNCHANGED <<indexed, listed>>
    /\ found' = [found EXCEPT ![c] = @ \ {k}]
    /\ UNCHANGED <<life, rows, pc, wipe, left, due, spared, failures, outlived,
                   haunted>>

\* A key that is not deleted is skipped.
SkipKey(c, k) ==
    /\ wipe[c] = "delete" /\ k \in found[c] /\ failures < MaxFailures
    /\ found' = [found EXCEPT ![c] = @ \ {k}]
    /\ spared' = spared \cup {c}
    /\ failures' = failures + 1
    /\ UNCHANGED <<life, rows, storeVars, pc, wipe, left, due, outlived,
                   haunted>>

\* Every key has been tried.
WipeEnds(c) ==
    /\ wipe[c] = "delete" /\ found[c] = {}
    /\ wipe' = [wipe EXCEPT ![c] = "ended"]
    /\ UNCHANGED <<life, rows, storeVars, pc, left, due, found, spared,
                   failures, outlived, haunted>>

\* The listing raises, or the process dies: nobody begins the wipe again.
Abandon(c) ==
    /\ Wiping(c) /\ failures < MaxFailures
    /\ wipe' = [wipe EXCEPT ![c] = "ended"]
    /\ found' = [found EXCEPT ![c] = {}]
    /\ left' = [left EXCEPT ![c] = {}] /\ due' = [due EXCEPT ![c] = {}]
    /\ spared' = spared \cup {c}
    /\ failures' = failures + 1
    /\ UNCHANGED <<life, rows, storeVars, pc, outlived, haunted>>

-----------------------------------------------------------------------------
Upload(u) == Put(u) \/ Publish(u) \/ Commit(u)
Wipe(c) ==
    \/ List(c) \/ ListPage(c) \/ ListEnds(c) \/ WipeEnds(c)
    \/ \E k \in Keys : DeleteKey(c, k)

\* Nothing is on its way, and nobody asks for anything.
Rest ==
    /\ \A c \in Channels : ~Wiping(c)
    /\ \A u \in Uploads : ~Busy(u)
    /\ UNCHANGED vars

Next ==
    \/ \E c \in Channels :
           \/ Create(c) \/ Delete(c) \/ Reindex(c) \/ Wipe(c) \/ Abandon(c)
           \/ \E k \in Keys : SkipKey(c, k)
    \/ \E u \in Uploads : Accept(u) \/ Upload(u) \/ Fail(u)
    \/ Rest

Spec == Init /\ [][Next]_vars

\* The task goes on as its calls return, and so do the requests.
Fairness ==
    /\ \A c \in Channels : WF_vars(Wipe(c))
    /\ \A u \in Uploads : WF_vars(Upload(u))

FairSpec == Spec /\ Fairness
-----------------------------------------------------------------------------
LifecycleTypeOK ==
    /\ life \in [Channels -> {"unborn", "live", "deleted"}]
    /\ rows \in [Channels -> SUBSET Files]
    /\ object \in [Prefixes -> [Files -> Channels \cup {None}]]
    /\ indexed \subseteq Prefixes
    /\ listed \in [Prefixes -> SUBSET Files]
    /\ pc \in [Uploads -> {"none", "put", "publish", "commit", "done",
                          "failed"}]
    /\ wipe \in [Channels -> {"none", "due", "list", "delete", "ended"}]
    /\ left \in [Channels -> SUBSET Keys]
    /\ due \in [Channels -> SUBSET Keys]
    /\ found \in [Channels -> SUBSET Keys]
    /\ \A c \in Channels :
           due[c] \subseteq left[c] /\ found[c] \cap left[c] = {}
    /\ failures \in 0 .. MaxFailures
    /\ spared \subseteq Channels /\ haunted \subseteq Channels
    /\ outlived \subseteq Uploads

\* channels.py 282: the wipe removes what is under `storage_prefix.strip("/")
\* + "/"`.  Whatever other channels are created, deleted and wiped: a live
\* channel that met none of them under its prefix, neither their wipe, nor an
\* upload that outlived them, nor what they left, has all it answered for
\* stored and listed, lists nothing that is not stored, and holds no bytes of
\* another.
OwnPrefixIsKept ==
    \A c \in Channels \ haunted : life[c] = "live" =>
        LET p == PrefixOf[c] IN
        /\ \A f \in Files : object[p][f] \in {c, None}
        /\ rows[c] \subseteq listed[p] /\ listed[p] \subseteq FilesUnder(p)
        /\ \A u \in Uploads : ChannelOf[u] = c /\ pc[u] = "done"
               => FileOf[u] \in rows[c]

\* channels.py 275: "Remove every object under a channel's storage prefix".
\* After a wipe of which no call failed, what is left of the channel's bytes
\* came from an upload that was on its way when the channel was deleted.
Straggler(c, f) ==
    \E u \in outlived : ChannelOf[u] = c /\ FileOf[u] = f
WipeIsThorough ==
    \A c \in Channels \ spared : wipe[c] = "ended" =>
        \A f \in Files : object[PrefixOf[c]][f] = c => Straggler(c, f)

\* channels.py 263: "orphan bytes in storage are a cleanable nuisance".  A
\* deleted channel leaves none in the end, unless a call of its wipe failed
\* or an upload outlived it.
BytesGoInTheEnd ==
    \A c \in Channels :
        life[c] = "deleted" ~>
            \/ c \in spared
            \/ \A f \in Files :
                   object[PrefixOf[c]][f] = c => Straggler(c, f)
=============================================================================
