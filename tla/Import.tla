------------------------------- MODULE Import -------------------------------
(***************************************************************************)
(* Import jobs: the request that enqueues one (import_packages), the task  *)
(* that runs it (_run_import_job), its workers, one per item of the        *)
(* payload, and the reindex pass it ends with.  The passes of Reindex are  *)
(* the jobs' own: pass j is the one job j runs.                            *)
(*                                                                         *)
(* The task lives in a server process and its state in a row of the        *)
(* database, which other processes write too: one that starts fails every  *)
(* row that is not terminal, and a sweep deletes the old terminal ones.    *)
(***************************************************************************)
EXTENDS Reindex

CONSTANTS
    Slots,      \* positions in a payload
    Payloads,   \* the files each job's request may ask for, by position
    Upstream,   \* what the upstream of each job serves under each name
    Width       \* _IMPORT_CONCURRENCY

ASSUME PayloadAssumption ==
    Payloads \in [Passes -> SUBSET [Slots -> Files \cup {None}]]
ASSUME UpstreamAssumption ==
    Upstream \in [Passes -> [Files -> Contents \cup {None}]]
ASSUME WidthAssumption == Width \in Nat \ {0}

VARIABLES
    job,        \* the ImportJob rows: status, and the items with an outcome
    jpc,        \* where each job's request or task stands
    payload,    \* the files of each job
    work,       \* where each worker stands
    good,       \* workers whose item is stored and whose row is committed
    progress,   \* the results a worker read under progress_lock
    origin,     \* imported_from of each row: the job, for its upstream
    beside      \* history: jobs during which another one ran

importVars == <<job, jpc, payload, work, good, progress, origin, beside>>
jobVars == <<reindexVars, importVars>>

\* All that a worker leaves alone as it goes from one call to the next.
itemVars ==
    <<channelVars, passVars, job, jpc, payload, good, progress, origin>>

\* An entry of results, by what it was counted as (completed_count,
\* failed_count), which its own "status" does not always say.
Outcome == Slots \X {"stored", "failed"}
JobRow == [status : {"pending", "running", "completed", "failed"},
           results : SUBSET Outcome]

ASSUME JobAssumption == None \notin JobRow

Live == {"precreate", "begin", "gather", "index", "abort"}
Working == {"look", "fetch", "put", "insert", "note", "save"}

\* A new channel, or one with packages in it, and no jobs.
ImportInit ==
    /\ ChannelInit
    /\ PassInit
    /\ job = [j \in Passes |-> None]
    /\ jpc = [j \in Passes |-> "idle"]
    /\ payload = [j \in Passes |-> [s \in Slots |-> None]]
    /\ work = [j \in Passes |-> [s \in Slots |-> "none"]]
    /\ good = [j \in Passes |-> {}]
    /\ progress = [j \in Passes |-> {}]
    /\ origin = [f \in Files |-> None]
    /\ beside = {}

JobTo(j, label) == jpc' = [jpc EXCEPT ![j] = label]
WorkerTo(j, s, label) == work' = [work EXCEPT ![j][s] = label]

\* The workers that hold the semaphore.
Holding(j) == {s \in Slots : work[j][s] \in Working}

\* No running pass has inserted a Package row these files would insert too.
PackagesFree(F) ==
    \A y \in Passes, g \in Files :
        PackageOf[g] \in PackagesOf(F) \ packages =>
            pending[y][g] \in {Same, None}

\* What dies with the process of job j.
Active(j) ==
    jpc[j] \in Live \/ \E s \in Slots : work[j][s] \in Working \cup {"wait"}

SetStatus(j, status) ==
    job' = [job EXCEPT ![j] = IF @ = None THEN None
                              ELSE [@ EXCEPT !.status = status]]

-----------------------------------------------------------------------------
\* import_packages.

\* The row is committed before anything else.
Enqueue(j, p) ==
    /\ jpc[j] = "idle"
    /\ payload' = [payload EXCEPT ![j] = p]
    /\ job' = [job EXCEPT ![j] = [status |-> "pending", results |-> {}]]
    /\ JobTo(j, "precreate")
    /\ UNCHANGED <<channelVars, passVars, work, good, progress, origin>>

\* The Package rows, so that workers need not insert them; then the task.
Precreate(j) ==
    LET names == {payload[j][s] : s \in Slots} \ {None}
    IN  /\ jpc[j] = "precreate"
        /\ PackagesFree(names)
        /\ packages' = packages \cup PackagesOf(names)
        /\ JobTo(j, "begin")
        /\ UNCHANGED <<object, repodata, zst, shard, rows, about, passVars,
                       job, payload, work, good, progress, origin>>

-----------------------------------------------------------------------------
\* _run_import_job.

\* The row is set to running, whatever it says by now; without one the task
\* returns.
Begin(j) ==
    /\ jpc[j] = "begin"
    /\ SetStatus(j, "running")
    /\ IF job[j] = None
       THEN JobTo(j, "ended") /\ UNCHANGED work
       ELSE /\ JobTo(j, "gather")
            /\ work' = [work EXCEPT ![j] =
                  [s \in Slots |->
                      IF payload[j][s] = None THEN "none" ELSE "wait"]]
    /\ UNCHANGED <<channelVars, passVars, payload, good, progress, origin>>

\* A call outside the task's try statement raised: nobody writes the row.
Lose(j) ==
    /\ jpc[j] \in {"precreate", "begin", "abort"}
    /\ JobTo(j, "dead")
    /\ UNCHANGED <<channelVars, passVars, job, payload, work, good, progress,
                   origin>>

\* Every worker has returned: _reindex_background begins.
GatherDone(j) ==
    /\ jpc[j] = "gather"
    /\ \A s \in Slots : work[j][s] \in {"none", "end"}
    /\ Request(j) /\ ~verify'[j]
    /\ JobTo(j, "index")
    /\ UNCHANGED <<job, payload, work, good, progress, origin>>

\* A worker raised.  The others are not cancelled.
GatherRaises(j) ==
    /\ jpc[j] = "gather"
    /\ \E s \in Slots : work[j][s] = "raised"
    /\ JobTo(j, "abort")
    /\ UNCHANGED <<channelVars, passVars, job, payload, work, good, progress,
                   origin>>

\* A pass.  A row it deletes loses its origin, a row it inserts has none.
RunPass(j) ==
    /\ jpc[j] = "index"
    /\ \/ IndexStep(j) \/ SyncStep(j) \/ RepairStep(j)
       \/ CommitPass(j) \/ FailPass(j)
    /\ origin' = [f \in Files |-> IF rows[f] # None /\ rows'[f] # None
                                  THEN origin[f] ELSE None]
    /\ UNCHANGED <<job, jpc, payload, work, good, progress>>

\* The pass swallowed its own failure: the job is completed either way.
Complete(j) ==
    /\ jpc[j] = "index" /\ rpc[j] \in {"done", "failed"}
    /\ SetStatus(j, "completed")
    /\ JobTo(j, "ended")
    /\ UNCHANGED <<channelVars, passVars, payload, work, good, progress,
                   origin>>

CompleteFails(j) ==
    /\ jpc[j] = "index" /\ rpc[j] \in {"done", "failed"}
    /\ JobTo(j, "abort")
    /\ UNCHANGED <<channelVars, passVars, job, payload, work, good, progress,
                   origin>>

Abort(j) ==
    /\ jpc[j] = "abort"
    /\ SetStatus(j, "failed")
    /\ JobTo(j, "ended")
    /\ UNCHANGED <<channelVars, passVars, payload, work, good, progress,
                   origin>>

-----------------------------------------------------------------------------
\* One item (_process, _import_one_package), by the job's worker s.

Take(j, s) ==
    /\ work[j][s] = "wait"
    /\ Cardinality(Holding(j)) < Width
    /\ WorkerTo(j, s, "look")
    /\ UNCHANGED itemVars

\* A mutation of Look: what is there already is fetched again.
LookBlind(j, s) ==
    /\ work[j][s] = "look"
    /\ WorkerTo(j, s, "fetch")
    /\ UNCHANGED itemVars

\* storage.head: "already present in this channel" ends the item.
Look(j, s) ==
    /\ work[j][s] = "look"
    /\ WorkerTo(j, s, IF object[payload[j][s]] = None THEN "fetch" ELSE "note")
    /\ UNCHANGED itemVars

\* The download, spooled, and the checks of what it declares.
Fetch(j, s) ==
    /\ work[j][s] = "fetch"
    /\ Upstream[j][payload[j][s]] \in Builds
    /\ WorkerTo(j, s, "put")
    /\ UNCHANGED itemVars

Put(j, s) ==
    /\ work[j][s] = "put"
    /\ object' = [object EXCEPT ![payload[j][s]] = Upstream[j][payload[j][s]]]
    /\ WorkerTo(j, s, "insert")
    /\ UNCHANGED <<repodata, zst, shard, packages, rows, about, passVars, job,
                   jpc, payload, good, progress, origin>>

\* put_stream raised; its finally clause closed the writer.
PutBreaks(j, s) ==
    LET f == payload[j][s]
    IN  /\ work[j][s] = "put"
        /\ \E c \in {object[f], Junk, Upstream[j][f]} :
              object' = [object EXCEPT ![f] = c]
        /\ WorkerTo(j, s, "note")
        /\ UNCHANGED <<repodata, zst, shard, packages, rows, about, passVars,
                       job, jpc, payload, good, progress, origin>>

\* The row, with its origin and its about.json but no hash, and the commit.
Insert(j, s) ==
    LET f == payload[j][s]
        new == [sha |-> NoHash, size |-> SizeOf[Upstream[j][f]]]
    IN  /\ work[j][s] = "insert"
        /\ Unlocked(Passes, {f})
        /\ rows[f] = None /\ Fits([rows EXCEPT ![f] = new])
        /\ rows' = [rows EXCEPT ![f] = new]
        /\ packages' = packages \cup {PackageOf[f]}
        /\ about' = [about EXCEPT ![f] = Upstream[j][f]]
        /\ origin' = [origin EXCEPT ![f] = j]
        /\ good' = [good EXCEPT ![j] = @ \cup {s}]
        /\ WorkerTo(j, s, "note")
        /\ UNCHANGED <<object, repodata, zst, shard, passVars, job, jpc,
                       payload, progress>>

\* Any call of the item raised: storage, upstream, an archive that is not what
\* its name says, a row that breaks the unique constraint.
ItemFails(j, s) ==
    /\ work[j][s] \in {"look", "fetch", "insert"}
    /\ WorkerTo(j, s, "note")
    /\ UNCHANGED itemVars

\* A mutation of Note: it takes no lock.
NoteUnlocked(j, s) ==
    /\ work[j][s] = "note"
    /\ IF job[j] = None
       THEN WorkerTo(j, s, "end") /\ UNCHANGED progress
       ELSE /\ WorkerTo(j, s, "save")
            /\ progress' = [progress EXCEPT ![j] = job[j].results]
    /\ UNCHANGED <<channelVars, passVars, job, jpc, payload, good, origin>>

\* _record_progress: take progress_lock and read the row.
Note(j, s) ==
    /\ work[j][s] = "note"
    /\ \A t \in Slots : work[j][t] # "save"
    /\ IF job[j] = None
       THEN WorkerTo(j, s, "end") /\ UNCHANGED progress
       ELSE /\ WorkerTo(j, s, "save")
            /\ progress' = [progress EXCEPT ![j] = job[j].results]
    /\ UNCHANGED <<channelVars, passVars, job, jpc, payload, good, origin>>

\* A mutation of Save: a failed item is recorded by its status.
SaveStatus(j, s) ==
    /\ work[j][s] = "save"
    /\ job[j] # None
    /\ LET outcome == IF s \in good[j] THEN "stored" ELSE "error"
       IN  job' = [job EXCEPT ![j].results = progress[j] \cup {<<s, outcome>>}]
    /\ progress' = [progress EXCEPT ![j] = {}]
    /\ WorkerTo(j, s, "end")
    /\ UNCHANGED <<channelVars, passVars, jpc, payload, good, origin>>

\* Append the outcome, count it, commit, release the lock.
Save(j, s) ==
    /\ work[j][s] = "save"
    /\ job[j] # None
    /\ LET outcome == IF s \in good[j] THEN "stored" ELSE "failed"
       IN  job' = [job EXCEPT ![j].results = progress[j] \cup {<<s, outcome>>}]
    /\ progress' = [progress EXCEPT ![j] = {}]
    /\ WorkerTo(j, s, "end")
    /\ UNCHANGED <<channelVars, passVars, jpc, payload, good, origin>>

\* The row was pruned since it was read, or the database failed.  A stored
\* item is recorded again, as a failed one; a failed item ends the gather.
SaveFails(j, s) ==
    /\ work[j][s] \in {"note", "save"}
    /\ WorkerTo(j, s, IF s \in good[j] THEN "note" ELSE "raised")
    /\ good' = [good EXCEPT ![j] = @ \ {s}]
    /\ progress' =
          [progress EXCEPT ![j] = IF work[j][s] = "save" THEN {} ELSE @]
    /\ UNCHANGED <<channelVars, passVars, job, jpc, payload, origin>>

-----------------------------------------------------------------------------
\* The other processes.

\* The process of a job dies, and what it was doing with it.
Die(j) ==
    /\ Active(j)
    /\ JobTo(j, "dead")
    /\ work' = [work EXCEPT ![j] = [s \in Slots |-> "none"]]
    /\ good' = [good EXCEPT ![j] = {}]
    /\ progress' = [progress EXCEPT ![j] = {}]
    /\ IF rpc[j] \in Running THEN Close(j, "failed") ELSE UNCHANGED passVars
    /\ UNCHANGED <<channelVars, job, payload, origin>>

\* A mutation of Sweep: it fails every row.
SweepAll ==
    /\ \E j \in Passes : job[j] # None
    /\ job' = [j \in Passes |->
          IF job[j] # None THEN [job[j] EXCEPT !.status = "failed"] ELSE None]
    /\ UNCHANGED <<reindexVars, jpc, payload, work, good, progress, origin,
                   beside>>

\* _fail_orphaned_jobs, at the start of any process, also beside others.
Sweep ==
    LET orphans == {j \in Passes : /\ job[j] # None
                                   /\ job[j].status \in {"pending", "running"}}
    IN  /\ orphans # {}
        /\ job' = [j \in Passes |-> IF j \in orphans
                                    THEN [job[j] EXCEPT !.status = "failed"]
                                    ELSE job[j]]
        /\ UNCHANGED <<reindexVars, jpc, payload, work, good, progress, origin,
                       beside>>

\* prune_import_jobs: a terminal row whose time is up (import_job_ttl_days
\* after it became terminal: any time later).
Prune(j) ==
    /\ job[j] # None /\ job[j].status \in {"completed", "failed"}
    /\ job' = [job EXCEPT ![j] = None]
    /\ UNCHANGED <<reindexVars, jpc, payload, work, good, progress, origin,
                   beside>>

-----------------------------------------------------------------------------
Worker(j, s) ==
    \/ Take(j, s) \/ Look(j, s) \/ Fetch(j, s) \/ Put(j, s) \/ PutBreaks(j, s)
    \/ Insert(j, s) \/ ItemFails(j, s)
    \/ Note(j, s) \/ Save(j, s) \/ SaveFails(j, s)

Task(j) ==
    \/ Precreate(j) \/ Begin(j) \/ Lose(j) \/ GatherDone(j) \/ GatherRaises(j)
    \/ RunPass(j) \/ Complete(j) \/ CompleteFails(j) \/ Abort(j)

\* The jobs that run beside one another after a step.
Beside ==
    beside' = beside \cup
        {j \in Passes : Active(j)' /\ \E k \in Passes \ {j} : Active(k)'}

JobStep(j) ==
    /\ \/ \E p \in Payloads[j] : Enqueue(j, p)
       \/ Task(j)
       \/ \E s \in Slots : Worker(j, s)
       \/ Die(j)
    /\ alone' = Undisturbed(j)
    /\ Beside

ImportNext ==
    \/ \E j \in Passes : JobStep(j)
    \/ Sweep
    \/ \E j \in Passes : Prune(j)
    \/ /\ \A j \in Passes : ~Active(j)
       /\ UNCHANGED jobVars

ImportSpec == ImportInit /\ [][ImportNext]_jobVars

-----------------------------------------------------------------------------
ImportTypeOK ==
    /\ job \in [Passes -> JobRow \cup {None}]
    /\ jpc \in [Passes -> Live \cup {"idle", "ended", "dead"}]
    /\ payload \in [Passes -> [Slots -> Files \cup {None}]]
    /\ work \in [Passes -> [Slots -> Working \cup
                                  {"none", "wait", "end", "raised"}]]
    /\ good \in [Passes -> SUBSET Slots]
    /\ progress \in [Passes -> SUBSET Outcome]
    /\ origin \in [Files -> Passes \cup {None}]
    /\ beside \subseteq Passes

\* "Partial success is still completed; callers inspect failed_count and
\* per-item results" (_run_import_job): the row of a completed job has exactly
\* one outcome for every item of its payload, however its workers interleave,
\* whichever of their writes fail and whatever other processes do to the row.
EveryItemCounted ==
    \A j \in Passes : job[j] # None /\ job[j].status = "completed" =>
        \A s \in Slots : payload[j][s] # None =>
            (<<s, "stored">> \in job[j].results)
                # (<<s, "failed">> \in job[j].results)

\* "Clients poll until status is terminal" (import_packages): what a client
\* that saw "completed" has read never changes again; the row may be pruned.
CompletedIsFinal ==
    [][\A j \in Passes : job[j] # None /\ job[j].status = "completed" =>
          job'[j] \in {job[j], None}]_jobVars

\* "The background reindex will find these rows existing and update other
\* fields without touching imported_from" (_import_one_package): if no other
\* job ran beside a completed one and no read of an index failed, each item it
\* reports stored, and was asked for once, is there with the bytes of its
\* upstream and a row that names that upstream; and if its own pass succeeded
\* the item is listed everywhere, with its hash.
ImportedIsKept ==
    \A j \in Passes \ beside :
        /\ job[j] # None /\ job[j].status = "completed"
        /\ \A x \in Passes : missed[x] = {}
        => \A s \in Slots :
              /\ <<s, "stored">> \in job[j].results
              /\ \A t \in Slots \ {s} : payload[j][t] # payload[j][s]
              =>
              LET f == payload[j][s]
                  b == Upstream[j][f]
              IN  /\ object[f] = b /\ rows[f] # None
                  /\ origin[f] = j /\ about[f] = b
                  /\ rpc[j] = "done" =>
                        /\ rows[f] = RecordOf(b)
                        /\ repodata[f] = RecordOf(b) /\ zst[f] = RecordOf(b)
                        /\ ClientRecord(f) = RecordOf(b)
=============================================================================
