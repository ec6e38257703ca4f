------------------------------ MODULE Backfill ------------------------------
(***************************************************************************)
(* The passes that read the about metadata of versions indexed without it  *)
(* (backfill_about_batch), on one channel, and their three callers: a job  *)
(* an owner starts, the loop that sweeps every channel now and then, and   *)
(* the console.  A pass selects the first rows nobody has stamped, opens   *)
(* their archives chunk by chunk, and commits each chunk.                  *)
(*                                                                         *)
(* Around them packages are uploaded, indexed and deleted, the channel     *)
(* itself may be, calls fail and processes die.                            *)
(***************************************************************************)
EXTENDS Integers, FiniteSets, FiniteSetsExt

CONSTANTS
    Rows,         \* ids of version rows, which order a selection
    Editions,     \* what the archive of a row may hold
    Ranged,       \* rows of .conda archives, read range by range
    Oversized,    \* rows of .tar.bz2 archives past MAX_ABOUT_ARCHIVE_BYTES
    Pods,         \* server processes, each with its cleanup loop
    Jobs,         \* requests for a backfill, each with the job it starts
    Consoles,     \* runs of the backfill-about command
    PodOf,        \* the process that takes each request
    JobLimit,     \* _BACKFILL_JOB_LIMIT
    SweepLimits,  \* about_backfill_per_sweep, of which 0 turns the loop off
    CommitEvery,  \* _COMMIT_EVERY
    Width,        \* DEFAULT_CONCURRENCY
    MaxEvents,    \* bound: failing calls, dying processes and changes around
    Gone,         \* no object
    Blank,        \* the metadata of an archive without any, or misread
    Unread,       \* no metadata and no stamp
    None

ASSUME RowsAssumption == Rows \subseteq Nat /\ IsFiniteSet(Rows)
ASSUME KindAssumption ==
    /\ Ranged \subseteq Rows /\ Oversized \subseteq Rows \ Ranged
ASSUME PodAssumption == PodOf \in [Jobs -> Pods]
ASSUME RunnerAssumption ==
    /\ Jobs \cap Pods = {} /\ Jobs \cap Consoles = {}
    /\ Pods \cap Consoles = {}
ASSUME LimitAssumption ==
    /\ JobLimit \in Nat \ {0} /\ SweepLimits \subseteq Nat
    /\ CommitEvery \in Nat \ {0} /\ Width \in Nat \ {0} /\ MaxEvents \in Nat

\* What a pass holds of a row of its chunk: not opened yet, head answered,
\* replaced since, not to be had, or the metadata it read.
Marks == {"todo", "open", "torn", "failed"}
Abouts == Editions \cup {Blank}
Runners == Jobs \cup Pods \cup Consoles

ASSUME MarkAssumption ==
    /\ Abouts \cap Marks = {} /\ Unread \notin Abouts \cup Marks
    /\ Gone \notin Editions /\ Blank \notin Editions
    /\ None \notin Abouts \cup Marks

VARIABLES
    exists,     \* whether the channel is there
    alive,      \* its version rows
    born,       \* every id it has given out
    object,     \* the archive of each row
    about,      \* the metadata of each row, with its stamp
    uploading,  \* rows whose archive is replaced and whose row is not yet
    perSweep,   \* the setting the processes run with
    job,        \* the MaintenanceJob rows
    up,         \* the processes that run
    pc,         \* where each runner stands
    queue,      \* rows a pass selected and has not begun
    chunk,      \* the rows a pass is at
    tally,      \* a job's BackfillStats: rows inspected, rows failed
    hitLimit,   \* hit_limit among them; what other callers count is logged
    events,     \* how many of those there were
    kept,       \* history: the rows of the chunks each job committed
    late,       \* history: rows inserted since each job selected
    outrun,     \* history: rows replaced while a pass had them, which it did
                \* not let go of before their metadata was committed
    beside      \* history: jobs started although another one was on its way

channelVars == <<exists, alive, born, object, about, uploading, perSweep>>
passVars == <<queue, chunk, tally, hitLimit, kept>>
vars == <<channelVars, passVars, job, up, pc, events, late, outrun, beside>>

Goto(p, label) == pc' = [pc EXCEPT ![p] = label]
Event == events < MaxEvents /\ events' = events + 1

Unstamped == {r \in alive : about[r] = Unread}
LimitOf(p) == IF p \in Pods THEN perSweep ELSE JobLimit
Loop == IF perSweep > 0 THEN "asleep" ELSE "off"

\* A mutation of First: the latest rows first.
FirstLatest(n, R) == {r \in R : Cardinality({q \in R : q > r}) < n}

\* The n least of a set of rows, or all of them.
First(n, R) == {r \in R : Cardinality({q \in R : q < r}) < n}

Idle == {"none", "down", "off", "asleep", "ended", "dead", "lost"}
AtWork == {"insert", "begin", "select", "read", "report", "finish", "abort"}
Running(j) == job[j] # None /\ job[j].status \in {"pending", "running"}

JobRow == [status : {"pending", "running", "completed", "failed"},
           done : Nat, failed : Nat, total : 0 .. JobLimit, notice : BOOLEAN]

NoChunk == [r \in Rows |-> None]
Chunk(R) == [r \in Rows |-> IF r \in R THEN "todo" ELSE None]
In(p, marks) == {r \in Rows : chunk[p][r] \in marks}
Captured(p) == In(p, Abouts)

Init ==
    /\ exists = TRUE
    /\ alive \in {R \in SUBSET Rows :
                     \A r \in R, q \in Rows : q < r => q \in R}
    /\ born = alive
    /\ object \in [Rows -> Editions \cup {Gone}]
    /\ about = [r \in Rows |-> Unread]
    /\ uploading = {}
    /\ perSweep \in SweepLimits
    /\ job = [j \in Jobs |-> None]
    /\ up \in SUBSET Pods
    /\ pc = [p \in Runners |-> IF p \in up THEN Loop
                               ELSE IF p \in Pods THEN "down" ELSE "none"]
    /\ queue = [p \in Runners |-> {}]
    /\ chunk = [p \in Runners |-> NoChunk]
    /\ tally = [j \in Jobs |-> [read |-> {}, failed |-> {}]]
    /\ hitLimit = [j \in Jobs |-> FALSE]
    /\ events = 0
    /\ kept = [j \in Jobs |-> {}]
    /\ late = [j \in Jobs |-> {}]
    /\ outrun = {}
    /\ beside = {}

-----------------------------------------------------------------------------
\* trigger_about_backfill.

\* A mutation of Ask: a job that is only pending does not count.
AskBeforeRunning(j) ==
    /\ pc[j] = "none" /\ PodOf[j] \in up /\ exists
    /\ Goto(j, IF \E k \in Jobs : Running(k) /\ job[k].status = "running"
               THEN "ended" ELSE "insert")
    /\ UNCHANGED <<channelVars, passVars, job, up, events, late, outrun,
                   beside>>

\* No job of the channel may be pending or running, or the answer is 409.
Ask(j) ==
    /\ pc[j] = "none" /\ PodOf[j] \in up /\ exists
    /\ Goto(j, IF \E k \in Jobs : Running(k) THEN "ended" ELSE "insert")
    /\ UNCHANGED <<channelVars, passVars, job, up, events, late, outrun,
                   beside>>

\* A mutation of Insert: the limit is not in the total.
InsertWhole(j) ==
    /\ pc[j] = "insert"
    /\ IF ~exists \/ Unstamped = {}
       THEN Goto(j, "ended") /\ UNCHANGED <<job, beside>>
       ELSE /\ job' = [job EXCEPT ![j] =
                  [status |-> "pending", done |-> 0, failed |-> 0,
                   total |-> Cardinality(Unstamped), notice |-> FALSE]]
            /\ Goto(j, "begin")
            /\ beside' = beside \cup {k \in Jobs : pc[k] = "insert" /\ k # j}
    /\ UNCHANGED <<channelVars, passVars, up, events, late, outrun>>

\* The job's row, unless every version has its stamp; then the task.
Insert(j) ==
    /\ pc[j] = "insert"
    /\ IF ~exists \/ Unstamped = {}
       THEN Goto(j, "ended") /\ UNCHANGED <<job, beside>>
       ELSE /\ job' = [job EXCEPT ![j] =
                  [status |-> "pending", done |-> 0, failed |-> 0,
                   total |-> Min({Cardinality(Unstamped), JobLimit}),
                   notice |-> FALSE]]
            /\ Goto(j, "begin")
            /\ beside' = beside \cup {k \in Jobs : pc[k] = "insert" /\ k # j}
    /\ UNCHANGED <<channelVars, passVars, up, events, late, outrun>>

-----------------------------------------------------------------------------
\* backfill_about_batch.

\* A mutation of HitsLimit: a selection that fills the limit passes for all.
HitsLimitLate(p, rows) == Cardinality(rows) > LimitOf(p)

\* stats.hit_limit, by which a caller knows that there may be more to do.
HitsLimit(p, rows) == Cardinality(rows) = LimitOf(p)

\* The selection.  A pass without rows is over at once.
Select(p, force) ==
    LET rows == First(LimitOf(p), IF force THEN alive ELSE Unstamped)
        now == First(CommitEvery, rows)
    IN  /\ IF p \in Jobs
           THEN /\ hitLimit' = [hitLimit EXCEPT ![p] = HitsLimit(p, rows)]
                /\ late' = [late EXCEPT ![p] = {}]
           ELSE UNCHANGED <<hitLimit, late>>
        /\ queue' = [queue EXCEPT ![p] = rows \ now]
        /\ chunk' = [chunk EXCEPT ![p] = Chunk(now)]
        /\ Goto(p, IF rows # {} THEN "read"
                   ELSE IF p \in Jobs THEN "finish"
                   ELSE IF p \in Pods THEN "asleep" ELSE "ended")

\* The next archive, in order, as soon as the semaphore lets it through.
NextUp(p, r) ==
    /\ pc[p] = "read"
    /\ r \in In(p, {"todo"}) /\ \A q \in In(p, {"todo"}) : r <= q
    /\ Cardinality(In(p, {"open", "torn"})) < Width

\* One row has its outcome, and is counted.
Capture(p, r, outcome) ==
    /\ chunk' = [chunk EXCEPT ![p][r] = outcome]
    /\ tally' = IF p \notin Jobs THEN tally
                ELSE IF outcome = "failed"
                THEN [tally EXCEPT ![p].failed = @ \cup {r}]
                ELSE [tally EXCEPT ![p].read = @ \cup {r}]
    /\ UNCHANGED <<channelVars, queue, hitLimit, kept, job, up, pc, late,
                   outrun, beside>>

\* A mutation of Open: what is not there has no metadata.
OpenBlank(p, r) ==
    /\ NextUp(p, r) /\ r \in Ranged
    /\ IF object[r] = Gone
       THEN Capture(p, r, Blank)
       ELSE /\ chunk' = [chunk EXCEPT ![p][r] = "open"]
            /\ UNCHANGED <<channelVars, queue, tally, hitLimit, kept, job, up,
                           pc, late, outrun, beside>>
    /\ UNCHANGED events

\* _capture_about_ranged: the head.  An object that is not there is a failed
\* fetch.
Open(p, r) ==
    /\ NextUp(p, r) /\ r \in Ranged
    /\ IF object[r] = Gone
       THEN Capture(p, r, "failed")
       ELSE /\ chunk' = [chunk EXCEPT ![p][r] = "open"]
            /\ UNCHANGED <<channelVars, queue, tally, hitLimit, kept, job, up,
                           pc, late, outrun, beside>>
    /\ UNCHANGED events

\* The ranges.  If the object was replaced since the head, they may not fit
\* together, and an archive that cannot be parsed has no metadata; or they
\* may miss the object, as they do when it is deleted.
ReadRanges(p, r) ==
    /\ pc[p] = "read"
    /\ \/ /\ chunk[p][r] \in {"open", "torn"} /\ object[r] # Gone
          /\ Capture(p, r, object[r])
       \/ chunk[p][r] = "torn" /\ Capture(p, r, Blank)
       \/ /\ \/ chunk[p][r] = "torn"
             \/ chunk[p][r] = "open" /\ object[r] = Gone
          /\ Capture(p, r, "failed")
    /\ UNCHANGED events

\* _capture_about_spooled: the whole object in one stream.  Nothing is
\* fetched of an oversized one.
Spool(p, r) ==
    /\ NextUp(p, r) /\ r \notin Ranged
    /\ Capture(p, r, IF r \in Oversized THEN Blank
                     ELSE IF object[r] = Gone THEN "failed" ELSE object[r])
    /\ UNCHANGED events

\* The storage fails to answer.
FetchFails(p, r) ==
    /\ Event
    /\ \/ NextUp(p, r) /\ r \notin Oversized
       \/ pc[p] = "read" /\ chunk[p][r] \in {"open", "torn"}
    /\ Capture(p, r, "failed")

\* Every row of the chunk has its outcome.
Gathered(p) ==
    /\ pc[p] = "read"
    /\ \A r \in Rows : chunk[p][r] \in Abouts \cup {"failed", None}

\* The next chunk, or the end of the pass.
Advance(p) ==
    LET now == First(CommitEvery, queue[p])
    IN  /\ queue' = [queue EXCEPT ![p] = @ \ now]
        /\ chunk' = [chunk EXCEPT ![p] = Chunk(now)]
        /\ Goto(p, IF now # {} THEN "read"
                   ELSE IF p \in Jobs THEN "finish"
                   ELSE IF p \in Pods THEN "asleep" ELSE "ended")

\* The commit of a chunk: what was captured, over whatever the rows say now.
\* A row that is gone by then may go unnoticed (CommitRaises).
Commit(p) ==
    /\ Gathered(p)
    /\ about' = [r \in Rows |->
                    IF r \in Captured(p) \cap alive THEN chunk[p][r]
                    ELSE about[r]]
    /\ IF p \in Jobs
       THEN /\ Goto(p, "report")
            /\ chunk' = [chunk EXCEPT ![p] = NoChunk]
            /\ kept' = [kept EXCEPT ![p] = @ \cup Captured(p)]
            /\ UNCHANGED queue
       ELSE Advance(p) /\ UNCHANGED kept
    /\ UNCHANGED <<exists, alive, born, object, uploading, perSweep, job, up,
                   tally, hitLimit, events, late, outrun, beside>>

\* The pass raised, and its chunk is lost; the caller deals with it.
FailPass(p) ==
    /\ queue' = [queue EXCEPT ![p] = {}]
    /\ chunk' = [chunk EXCEPT ![p] = NoChunk]
    /\ Goto(p, IF p \in Jobs THEN "abort"
               ELSE IF p \in Pods THEN "asleep" ELSE "ended")
    /\ UNCHANGED <<channelVars, tally, hitLimit, kept, job, up, late, outrun,
                   beside>>

\* A row of the chunk is gone and the UPDATE noticed, or the commit fails.
CommitRaises(p) ==
    /\ Gathered(p)
    /\ FailPass(p)
    /\ \/ ~(Captured(p) \subseteq alive) /\ UNCHANGED events
       \/ Event

\* Any other call of a pass raises.
PassRaises(p) ==
    /\ pc[p] \in {"select", "report", "finish"}
    /\ Event
    /\ FailPass(p)

-----------------------------------------------------------------------------
\* The callers: _run_about_backfill, trickle_about_backfill, _backfill_about.

\* The row is set to running, whatever it says by now.
Begin(j) ==
    /\ pc[j] = "begin"
    /\ job' = [job EXCEPT ![j] =
                  IF @ = None THEN None ELSE [@ EXCEPT !.status = "running"]]
    /\ Goto(j, IF job[j] = None THEN "ended" ELSE "select")
    /\ UNCHANGED <<channelVars, passVars, up, events, late, outrun, beside>>

\* The channel, and the selection.  Without one a job fails, a sweep goes on
\* to the next channel.
Start(p) ==
    /\ \/ pc[p] = "select"
       \/ p \in Consoles /\ pc[p] = "none"
    /\ IF exists
       THEN \E force \in IF p \in Consoles THEN BOOLEAN ELSE {FALSE} :
                Select(p, force)
       ELSE /\ Goto(p, IF p \in Jobs THEN "abort"
                       ELSE IF p \in Pods THEN "asleep" ELSE "ended")
            /\ UNCHANGED <<queue, chunk, hitLimit, late>>
    /\ UNCHANGED <<channelVars, tally, kept, job, up, events, outrun, beside>>

\* _on_progress.
Report(j) ==
    /\ pc[j] = "report"
    /\ job' = [job EXCEPT ![j] =
                  IF @ = None THEN None
                  ELSE [@ EXCEPT !.done = Cardinality(tally[j].read),
                                 !.failed = Cardinality(tally[j].failed)]]
    /\ Advance(j)
    /\ UNCHANGED <<channelVars, tally, hitLimit, kept, up, events, late,
                   outrun, beside>>

\* The terminal status, unless the row is gone.
Finish(j) ==
    /\ pc[j] = "finish"
    /\ job' = [job EXCEPT ![j] =
                  IF @ = None THEN None
                  ELSE [status |-> "completed",
                        done |-> Cardinality(tally[j].read),
                        failed |-> Cardinality(tally[j].failed),
                        total |-> Cardinality(tally[j].read)
                                  + Cardinality(tally[j].failed),
                        notice |-> hitLimit[j]]]
    /\ Goto(j, "ended")
    /\ UNCHANGED <<channelVars, passVars, up, events, late, outrun, beside>>

\* Mutations of Abort: it records what was counted; it records nothing.
AbortCounting(j) ==
    /\ pc[j] = "abort"
    /\ job' = [job EXCEPT ![j] =
                  IF @ = None THEN None
                  ELSE [@ EXCEPT !.status = "failed",
                                 !.done = Cardinality(tally[j].read)]]
    /\ Goto(j, "ended")
    /\ UNCHANGED <<channelVars, passVars, up, events, late, outrun, beside>>

AbortSilently(j) ==
    /\ pc[j] = "abort"
    /\ Goto(j, "ended")
    /\ UNCHANGED <<channelVars, passVars, job, up, events, late, outrun,
                   beside>>

\* The except clause.
Abort(j) ==
    /\ pc[j] = "abort"
    /\ job' = [job EXCEPT ![j] =
                  IF @ = None THEN None ELSE [@ EXCEPT !.status = "failed"]]
    /\ Goto(j, "ended")
    /\ UNCHANGED <<channelVars, passVars, up, events, late, outrun, beside>>

\* A call outside the try statement raises: nobody writes the row any more.
\* In the request it is the answer that fails.
Lose(j) ==
    /\ pc[j] \in {"insert", "begin", "abort"}
    /\ Event
    /\ Goto(j, IF pc[j] = "insert" THEN "ended" ELSE "lost")
    /\ UNCHANGED <<channelVars, passVars, job, up, late, outrun, beside>>

\* The interval of the loop is over.
Wake(a) ==
    /\ pc[a] = "asleep"
    /\ Goto(a, "select")
    /\ UNCHANGED <<channelVars, passVars, job, up, events, late, outrun,
                   beside>>

-----------------------------------------------------------------------------
\* Processes.

\* A process dies, with its loop, its requests and its tasks.
Die(a) ==
    /\ a \in up /\ Event
    /\ up' = up \ {a}
    /\ pc' = [p \in Runners |->
                 IF p = a THEN "down"
                 ELSE IF p \in Jobs /\ pc[p] \notin Idle
                         /\ PodOf[p] = a THEN "dead"
                 ELSE pc[p]]
    /\ queue' = [queue EXCEPT ![a] = {}]
    /\ chunk' = [p \in Runners |->
                    IF p = a \/ (p \in Jobs /\ PodOf[p] = a) THEN NoChunk
                    ELSE chunk[p]]
    /\ UNCHANGED <<channelVars, tally, hitLimit, kept, job, late, outrun,
                   beside>>

\* _fail_orphaned_jobs, of any process that starts, then its loop.  It fails
\* the jobs that others are running, too.
StartPod(a) ==
    /\ a \notin up
    /\ up' = up \cup {a}
    /\ Goto(a, Loop)
    /\ job' = [j \in Jobs |-> IF Running(j)
                              THEN [job[j] EXCEPT !.status = "failed"]
                              ELSE job[j]]
    /\ beside' = beside \cup {j \in Jobs : Running(j) /\ pc[j] \notin Idle}
    /\ UNCHANGED <<channelVars, passVars, events, late, outrun>>

-----------------------------------------------------------------------------
\* What else happens to the channel.

\* An upload replaces an archive ...
Put(r) ==
    /\ exists /\ r \in alive \ uploading
    /\ Event
    /\ \E e \in Editions \ {object[r]} : object' = [object EXCEPT ![r] = e]
    /\ uploading' = uploading \cup {r}
    /\ chunk' = [p \in Runners |->
                    IF chunk[p][r] = "open"
                    THEN [chunk[p] EXCEPT ![r] = "torn"]
                    ELSE chunk[p]]
    /\ outrun' = IF \E p \in Runners :
                        chunk[p][r] \in Abouts \cup {"open", "torn"}
                 THEN outrun \cup {r} ELSE outrun
    /\ UNCHANGED <<exists, alive, born, about, perSweep, queue, tally,
                   hitLimit, kept, job, up, pc, late, beside>>

\* A pass has older metadata of a row yet to commit, or may still come to it.
Behind(r) ==
    \E p \in Runners : chunk[p][r] \in {"torn"} \cup (Abouts \ {object[r]})

\* ... and commits the row, with the metadata of the archive it has.
Upsert(r) ==
    /\ r \in uploading
    /\ about' = IF r \in alive THEN [about EXCEPT ![r] = object[r]] ELSE about
    /\ uploading' = uploading \ {r}
    /\ outrun' = IF Behind(r) THEN outrun ELSE outrun \ {r}
    /\ UNCHANGED <<exists, alive, born, object, perSweep, passVars, job, up,
                   pc, events, late, beside>>

\* A deletion removes an archive (that is not being uploaded: what becomes of
\* two requests for one file is Channel's matter) ...
Remove(r) ==
    /\ exists /\ r \in alive \ uploading
    /\ object[r] # Gone /\ Event
    /\ object' = [object EXCEPT ![r] = Gone]
    /\ UNCHANGED <<exists, alive, born, about, uploading, perSweep, passVars,
                   job, up, pc, late, outrun, beside>>

\* ... and its row.
Erase(r) ==
    /\ r \in alive /\ object[r] = Gone
    /\ alive' = alive \ {r}
    /\ about' = [about EXCEPT ![r] = Unread]
    /\ UNCHANGED <<exists, born, object, uploading, perSweep, passVars, job,
                   up, pc, events, late, outrun, beside>>

\* A reindex inserts a row that is not its package's newest, unread.
Add(r) ==
    /\ exists /\ r \notin born /\ object[r] # Gone /\ Event
    /\ \A q \in Rows \ born : r <= q
    /\ alive' = alive \cup {r}
    /\ born' = born \cup {r}
    /\ late' = [j \in Jobs |-> late[j] \cup {r}]
    /\ UNCHANGED <<exists, object, about, uploading, perSweep, passVars, job,
                   up, pc, outrun, beside>>

\* The channel is deleted, with its rows and jobs.
DeleteChannel ==
    /\ exists /\ Event
    /\ exists' = FALSE
    /\ alive' = {}
    /\ about' = [r \in Rows |-> Unread]
    /\ job' = [j \in Jobs |-> None]
    /\ UNCHANGED <<born, object, uploading, perSweep, passVars, up, pc, late,
                   outrun, beside>>

-----------------------------------------------------------------------------
\* What a runner does next when nothing fails.
Proceed(p) ==
    \/ /\ p \in Jobs
       /\ Insert(p) \/ Begin(p) \/ Report(p) \/ Finish(p) \/ Abort(p)
    \/ p \in Pods /\ Wake(p)
    \/ p \notin Consoles /\ Start(p)
    \/ \E r \in Rows : Open(p, r) \/ ReadRanges(p, r) \/ Spool(p, r)
    \/ Commit(p)

Fails(p) ==
    \/ \E r \in Rows : FetchFails(p, r)
    \/ CommitRaises(p) \/ PassRaises(p)
    \/ p \in Jobs /\ Lose(p)

Environment ==
    \/ \E r \in Rows : Put(r) \/ Upsert(r) \/ Remove(r) \/ Erase(r) \/ Add(r)
    \/ DeleteChannel

\* Nothing is on its way, and no loop runs.
Rest ==
    /\ \A p \in Runners : pc[p] \in Idle \ {"asleep", "down"}
    /\ UNCHANGED vars

Next ==
    \/ \E j \in Jobs : Ask(j)
    \/ \E c \in Consoles : Start(c)
    \/ \E p \in Runners : Proceed(p) \/ Fails(p)
    \/ \E a \in Pods : Die(a) \/ StartPod(a)
    \/ Environment \/ Rest

Spec == Init /\ [][Next]_vars

\* Tasks whose calls return go on, the loop comes round, and a process that
\* died is started again.
Fairness ==
    /\ \A p \in Runners : WF_vars(Proceed(p))
    /\ \A a \in Pods : WF_vars(StartPod(a))

FairSpec == Spec /\ Fairness
-----------------------------------------------------------------------------
BackfillTypeOK ==
    /\ exists \in BOOLEAN
    /\ alive \subseteq born /\ born \subseteq Rows
    /\ object \in [Rows -> Editions \cup {Gone}]
    /\ about \in [Rows -> Abouts \cup {Unread}]
    /\ uploading \subseteq Rows
    /\ perSweep \in SweepLimits
    /\ job \in [Jobs -> JobRow \cup {None}]
    /\ up \subseteq Pods
    /\ pc \in [Runners -> Idle \cup AtWork]
    /\ queue \in [Runners -> SUBSET Rows]
    /\ chunk \in [Runners -> [Rows -> Marks \cup Abouts \cup {None}]]
    /\ \A p \in Runners : Cardinality(In(p, {"open", "torn"})) <= Width
    /\ tally \in [Jobs -> [read : SUBSET Rows, failed : SUBSET Rows]]
    /\ hitLimit \in [Jobs -> BOOLEAN]
    /\ events \in 0 .. MaxEvents
    /\ kept \in [Jobs -> SUBSET Rows]
    /\ late \in [Jobs -> SUBSET Rows]
    /\ outrun \subseteq Rows
    /\ beside \subseteq Jobs

\* backfill.py 20: "a transient storage error should be retried, not
\* remembered as 'no metadata'".  A stamped row has the metadata of the bytes
\* in storage, and only an oversized archive passes for one without any;
\* also if the archive was replaced while a pass read it, as soon as the
\* upload has committed the row.  Left out is an archive that is replaced and
\* its row committed, all between a pass' opening it and committing it: the
\* older metadata, or none, then stays under the stamp.
AboutDescribesBytes ==
    \A r \in alive \ (uploading \cup outrun) :
        /\ about[r] \in Editions => object[r] \in {about[r], Gone}
        /\ about[r] = Blank => r \in Oversized

\* What a job's row reports as read is in the database, whatever was cut off,
\* lost with its chunk or deleted; and of a completed job it is all of it.
CountsAreKept ==
    \A j \in Jobs : job[j] # None =>
        /\ job[j].done <= Cardinality(kept[j])
        /\ job[j].status = "completed" => job[j].done = Cardinality(kept[j])

\* backfill.py 75: "hit_limit" tells that "there is more to do".  A completed
\* job that does not say so left no row unread but those it could not fetch
\* and those that were inserted after it began.
SilenceMeansDone ==
    \A j \in Jobs :
        job[j] # None /\ job[j].status = "completed" /\ ~job[j].notice =>
            \A r \in Unstamped : r \in tally[j].failed \cup late[j]

\* channels.py 1822: "One at a time per channel".  Two jobs of the channel are
\* at work together only if neither request saw the other, or a process that
\* started failed the row of a live one.
OneJobAtATime ==
    \A j, k \in Jobs :
        /\ pc[j] \in AtWork \ {"insert"} /\ job[j] # None
        /\ pc[k] \in AtWork \ {"insert"} /\ job[k] # None
        => j = k \/ j \in beside \/ k \in beside

\* cleanup.py 14: "The trickle exists so a deployment can heal itself".  A row
\* whose archive stays readable gets its stamp in the end, if fewer rows than
\* one sweep selects come before it with archives that cannot be had.
Unreadable(r) == object[r] = Gone /\ r \notin Oversized
Reachable(r) ==
    /\ r \in alive /\ ~Unreadable(r)
    /\ Cardinality({q \in Unstamped : q < r /\ Unreadable(q)}) < perSweep
EveryRowIsReached ==
    \A r \in Rows : <>[]Reachable(r) => <>(about[r] # Unread)

\* A job's row does not stay pending or running, unless a call outside its
\* task's try statement raised, after which only the start of a process can
\* end it.
EveryJobEnds == \A j \in Jobs : Running(j) ~> ~Running(j) \/ pc[j] = "lost"

=============================================================================
