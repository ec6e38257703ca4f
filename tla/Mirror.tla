------------------------------ MODULE Mirror -------------------------------
(***************************************************************************)
(* One subdir of a mirror channel: requests for its index and its archives *)
(* are answered from object storage, filled from the upstream channel.     *)
(* Archives are kept for good, the index for TTL seconds; if it cannot be  *)
(* refreshed, the old copy is served.  Requests share nothing but the      *)
(* storage: any number of them may download the same file at once.         *)
(*                                                                         *)
(* An edition of a file counts how often upstream has replaced it.         *)
(* Upstream replaces its index, never an archive.                          *)
(***************************************************************************)
EXTENDS Integers

CONSTANTS
    Requests,   \* slots for GET requests
    Index,      \* repodata.json, or another of REPODATA_FILES
    Archives,   \* packages and shards
    TTL,        \* mirror_cache_seconds
    Slow,       \* the longest download, in seconds
    None,       \* no object, no download
    MaxTime,    \* bound of the clock
    MaxEdition  \* bound of upstream's replacements

ASSUME KeyAssumption == Index \notin Archives
ASSUME TimeAssumption == {TTL, Slow, MaxTime, MaxEdition} \subseteq Nat

Keys == Archives \cup {Index}
Times == 0 .. MaxTime
Copy == [edition : Nat, whole : BOOLEAN, at : Nat]
Sending == [edition : Nat, at : Nat]
Mark == [edition : Nat, oldest : Nat]

ASSUME NoneAssumption == None \notin Copy \cup Sending \cup Mark \cup Keys

VARIABLES
    now,        \* the clock
    upstream,   \* the edition of upstream's index
    stored,     \* the objects of the subdir, with their last_modified
    pc,         \* where each request stands
    key,        \* the file it asks for
    had,        \* whether it found a copy in storage first
    opened,     \* the edition upstream began to send, and when
    served,     \* the copy it was answered with
    past,       \* history: upstream's index as each second began
    current,    \* history: upstream's index as each request began, and the
                \* oldest it may be served
    failed,     \* history: requests whose download failed
    crossed     \* history: requests during which a download ended of an
                \* edition older than upstream's when they began

vars == <<now, upstream, stored, pc, key, had, opened, served, past, current,
          failed, crossed>>
clock == <<now, upstream, past>>
history == <<failed, crossed>>

\* The edition of a file as upstream has it now.
EditionOf(k) == IF k = Index THEN upstream ELSE 0

\* The age a copy of the index may have: a fresh one was written less than TTL
\* seconds ago, by a download that took at most Slow.
MaxAge == Slow + (IF TTL > 0 THEN TTL - 1 ELSE 0)

AsOf(t) == past[IF t < 0 THEN 0 ELSE t]

\* ---------------------------------------------------------------- requests

Get(r) ==
    /\ pc[r] = "idle"
    /\ \E k \in Keys : key' = [key EXCEPT ![r] = k]
    /\ pc' = [pc EXCEPT ![r] = "head"]
    /\ UNCHANGED <<clock, stored, had, opened, served, current, history>>

\* A mutation of Fresh: a copy is good for the second it expires in.
FreshAtTTL(copy) == now - copy.at <= TTL

Fresh(copy) == now - copy.at < TTL

\* A mutation of Takes: archives expire too.
TakesFresh(copy, k) == copy # None /\ Fresh(copy)

\* fetch_repodata takes a copy that is fresh; _serve_package and _serve_shard
\* take any.
Takes(copy, k) == copy # None /\ (k = Index => Fresh(copy))

Head(r) ==
    /\ pc[r] = "head"
    /\ had' = [had EXCEPT ![r] = stored[key[r]] # None]
    /\ current' = [current EXCEPT ![r] = [edition |-> upstream,
                                          oldest |-> AsOf(now - MaxAge)]]
    /\ pc' = [pc EXCEPT ![r] = IF Takes(stored[key[r]], key[r])
                               THEN "serve" ELSE "open"]
    /\ UNCHANGED <<clock, stored, key, opened, served, history>>

\* _stream_upstream_to_storage
Open(r) ==
    /\ pc[r] = "open"
    /\ opened' = [opened EXCEPT ![r] = [edition |-> EditionOf(key[r]),
                                        at |-> now]]
    /\ pc' = [pc EXCEPT ![r] = "stream"]
    /\ UNCHANGED <<clock, stored, key, had, served, current, history>>

\* The requests r's download takes back behind what upstream had when they
\* began.
Cross(r) ==
    crossed' = crossed \cup
        {q \in Requests \ {r} : /\ key[q] = key[r] /\ current[q] # None
                              /\ opened[r].edition < current[q].edition}

\* A mutation of Write: put_stream does not replace an object.
WriteOnce(r, whole) ==
    stored' = [stored EXCEPT ![key[r]] = IF @ # None THEN @ ELSE
        [edition |-> opened[r].edition, whole |-> whole, at |-> now]]

\* A mutation of Write: the object has no last_modified.
WriteUndated(r, whole) ==
    stored' = [stored EXCEPT ![key[r]] =
        [edition |-> opened[r].edition, whole |-> whole, at |-> None]]

\* The writer is closed on what upstream has sent (put_stream).
Write(r, whole) ==
    stored' = [stored EXCEPT ![key[r]] =
        [edition |-> opened[r].edition, whole |-> whole, at |-> now]]

Download(r) ==
    /\ pc[r] = "stream"
    /\ Write(r, TRUE)
    /\ Cross(r)
    /\ pc' = [pc EXCEPT ![r] = "serve"]
    /\ UNCHANGED <<clock, key, had, opened, served, current, failed>>

\* Upstream refuses the request, or breaks the transfer off: put_stream closes
\* its writer in a finally clause, on the part that has come.  Of a failure
\* fetch_repodata makes the best: the copy there was.
AfterFailure(r) ==
    IF key[r] = Index /\ had[r] THEN "serve" ELSE "end"

Refused(r) ==
    /\ pc[r] = "open"
    /\ failed' = failed \cup {r}
    /\ pc' = [pc EXCEPT ![r] = AfterFailure(r)]
    /\ UNCHANGED <<clock, stored, key, had, opened, served, current, crossed>>

BreakOff(r) ==
    /\ pc[r] = "stream"
    /\ Write(r, FALSE)
    /\ Cross(r)
    /\ failed' = failed \cup {r}
    /\ pc' = [pc EXCEPT ![r] = AfterFailure(r)]
    /\ UNCHANGED <<clock, key, had, opened, served, current>>

\* The response streams the object, or the client follows a signed URL to it.
Serve(r) ==
    /\ pc[r] = "serve"
    /\ served' = [served EXCEPT ![r] = stored[key[r]]]
    /\ pc' = [pc EXCEPT ![r] = "end"]
    /\ UNCHANGED <<clock, stored, key, had, opened, current, history>>

\* The request is over, or its process dies: an unfinished upload leaves no
\* object.
End(r) ==
    /\ pc[r] # "idle"
    /\ pc' = [pc EXCEPT ![r] = "idle"]
    /\ key' = [key EXCEPT ![r] = None]
    /\ had' = [had EXCEPT ![r] = FALSE]
    /\ opened' = [opened EXCEPT ![r] = None]
    /\ served' = [served EXCEPT ![r] = None]
    /\ current' = [current EXCEPT ![r] = None]
    /\ failed' = failed \ {r}
    /\ crossed' = crossed \ {r}
    /\ UNCHANGED <<clock, stored>>

\* ------------------------------------------------------------- environment

Publish ==
    /\ upstream < MaxEdition
    /\ upstream' = upstream + 1
    /\ UNCHANGED <<now, past, stored, pc, key, had, opened, served, current,
                   history>>

Tick ==
    /\ now < MaxTime
    /\ \A r \in Requests : pc[r] = "stream" => now - opened[r].at < Slow
    /\ now' = now + 1
    /\ past' = [past EXCEPT ![now + 1] = upstream]
    /\ UNCHANGED <<upstream, stored, pc, key, had, opened, served, current,
                   history>>

Init ==
    /\ now = 0 /\ upstream = 0
    /\ past = [t \in Times |-> 0]
    /\ stored \in [Keys -> {None, [edition |-> 0, whole |-> TRUE, at |-> 0]}]
    /\ pc = [r \in Requests |-> "idle"]
    /\ key = [r \in Requests |-> None]
    /\ had = [r \in Requests |-> FALSE]
    /\ opened = [r \in Requests |-> None]
    /\ served = [r \in Requests |-> None]
    /\ current = [r \in Requests |-> None]
    /\ failed = {} /\ crossed = {}

Next ==
    \/ \E r \in Requests :
           \/ Get(r) \/ Head(r) \/ Open(r) \/ Download(r)
           \/ Refused(r) \/ BreakOff(r) \/ Serve(r) \/ End(r)
    \/ Publish
    \/ Tick

Spec == Init /\ [][Next]_vars

\* -------------------------------------------------------------- properties

\* Every variable has its type.
MirrorTypeOK ==
    /\ now \in Times /\ upstream \in 0 .. MaxEdition
    /\ past \in [Times -> 0 .. MaxEdition]
    /\ stored \in [Keys -> Copy \cup {None}]
    /\ pc \in [Requests -> {"idle", "head", "open", "stream", "serve", "end"}]
    /\ key \in [Requests -> Keys \cup {None}]
    /\ had \in [Requests -> BOOLEAN]
    /\ opened \in [Requests -> Sending \cup {None}]
    /\ served \in [Requests -> Copy \cup {None}]
    /\ current \in [Requests -> Mark \cup {None}]
    /\ failed \cup crossed \subseteq Requests

\* Unless its own refresh failed, a request is served an index no older than
\* the cache time and the longest download allow, whatever other requests,
\* slow, late or cut off, have written in between.
StaleWithinBound ==
    \A r \in Requests :
        key[r] = Index /\ served[r] # None /\ r \notin failed =>
            served[r].edition >= current[r].oldest

\* A request that refreshed the index is served one at least as recent as
\* upstream's when the request began, however many downloads of it overlap
\* and in whatever order they end: unless one that upstream began to send
\* before, and had replaced since, ended meanwhile.
RefreshedIsCurrent ==
    \A r \in Requests \ (failed \cup crossed) :
        key[r] = Index /\ served[r] # None /\ opened[r] # None =>
            served[r].edition >= current[r].edition

\* mirror.py 5: "Packages are cached forever".  An archive that is stored is
\* only ever replaced by a download that began before it was there.
CachedForGood ==
    [][\A a \in Archives : stored[a] # None /\ stored'[a] # stored[a] =>
           \E r \in Requests : key[r] = a /\ pc[r] = "stream" /\ ~had[r]
      ]_vars

\* fetch_repodata "returns True when a usable cached object is available after
\* the call": what an index request goes on to serve is all of an index.
UsableCopy ==
    \A r \in Requests : key[r] = Index /\ pc[r] = "serve" =>
        stored[Index] # None /\ stored[Index].whole
=============================================================================
