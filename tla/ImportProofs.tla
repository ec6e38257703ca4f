---------------------------- MODULE ImportProofs ----------------------------
(***************************************************************************)
(* What holds of the import jobs for any number of jobs, items, files and  *)
(* workers at a time: the row of a completed job accounts for every item   *)
(* of its payload, and never changes again; and what a job stored stays    *)
(* what its upstream served.                                               *)
(*                                                                         *)
(* The first needs nothing of the reindex passes but that they leave the   *)
(* job's row, task and workers alone (RunPass); the second opens them, and *)
(* uses what ReindexProofs says of a pass.                                 *)
(***************************************************************************)
EXTENDS Import, ReindexProofs

\* A worker's item is in the results when the worker has returned, and not
\* before; what the holder of progress_lock has read is what the row says.
Recorded(j, s) ==
    LET r == job[j].results
        stored == <<s, "stored">> \in r
        failed == <<s, "failed">> \in r
    IN  /\ work[j][s] = "end" => stored # failed
        /\ work[j][s] # "end" => ~stored /\ ~failed
        /\ work[j][s] = "save" => progress[j] = r

Returned(j) == \A s \in Slots : work[j][s] \in {"none", "end"}

\* progress_lock.
Serial(j) ==
    \A s, t \in Slots : work[j][s] = "save" /\ work[j][t] = "save" => s = t

\* Where a job stands, and what its workers and its row may be then.
Phases(j) ==
    /\ jpc[j] = "index" => Returned(j)
    /\ jpc[j] = "idle" => job[j] = None
    /\ jpc[j] \in {"idle", "precreate", "begin"} =>
          \A s \in Slots : work[j][s] = "none"
    /\ jpc[j] \in {"gather", "index", "abort", "ended"} /\ job[j] # None =>
          \A s \in Slots : payload[j][s] # None => work[j][s] # "none"
    /\ job[j] # None /\ job[j].status = "completed" =>
          jpc[j] = "ended" /\ Returned(j)

Recording(j) ==
    job[j] # None /\ jpc[j] # "dead" => \A s \in Slots : Recorded(j, s)

JobInv(j) == Serial(j) /\ Phases(j) /\ Recording(j)

IInv == ImportTypeOK /\ \A j \in Passes : JobInv(j)

-----------------------------------------------------------------------------
\* Types.

LEMMA TypeInit == ImportInit => ImportTypeOK
BY DEF ImportInit, ImportTypeOK

\* Setting the status of a row leaves the rows well-typed, and what it is
\* set to is all that changes.
LEMMA StatusSet ==
    ASSUME ImportTypeOK, NEW j \in Passes, NEW status,
           status \in {"pending", "running", "completed", "failed"},
           SetStatus(j, status)
    PROVE  /\ job' \in [Passes -> JobRow \cup {None}]
           /\ \A k \in Passes \ {j} : job'[k] = job[k]
           /\ job'[j] = None <=> job[j] = None
           /\ job[j] # None => /\ job'[j].results = job[j].results
                               /\ job'[j].status = status
<1>1. job[j] \in JobRow \cup {None}
    BY DEF ImportTypeOK
<1>2. CASE job[j] = None
    BY <1>2 DEF ImportTypeOK, SetStatus
<1>3. CASE job[j] # None
    <2>1. /\ job[j] \in JobRow
          /\ job' = [job EXCEPT ![j] = [job[j] EXCEPT !.status = status]]
        BY <1>1, <1>3 DEF SetStatus, ImportTypeOK
    <2>2. [job[j] EXCEPT !.status = status] \in JobRow
        BY <2>1 DEF JobRow
    <2> QED
        BY <2>1, <2>2, <1>3, JobAssumption DEF ImportTypeOK, JobRow
<1> QED
    BY <1>2, <1>3

LEMMA TypeStep ==
    ASSUME ImportTypeOK, [ImportNext]_jobVars
    PROVE  ImportTypeOK'
<1>1. CASE UNCHANGED jobVars
    BY <1>1 DEF ImportTypeOK, jobVars, importVars
<1>2. CASE Sweep
  <2>1. ASSUME NEW k \in Passes, job[k] # None
        PROVE  [job[k] EXCEPT !.status = "failed"] \in JobRow
      BY <2>1 DEF ImportTypeOK, JobRow
  <2>2. job' \in [Passes -> JobRow \cup {None}]
      BY <1>2, <2>1 DEF Sweep, ImportTypeOK
  <2> QED
      BY <1>2, <2>2 DEF Sweep, ImportTypeOK
<1>3. ASSUME NEW j \in Passes, Prune(j) PROVE ImportTypeOK'
    BY <1>3 DEF Prune, ImportTypeOK
<1>4. ASSUME NEW j \in Passes, JobStep(j) PROVE ImportTypeOK'
  <2> USE DEF JobTo, WorkerTo, itemVars
  <2>1. beside' \subseteq Passes
      BY <1>4 DEF JobStep, Beside, ImportTypeOK
  <2>2. ASSUME NEW p \in Payloads[j], Enqueue(j, p) PROVE ImportTypeOK'
    <3>1. p \in [Slots -> Files \cup {None}]
        BY <2>2, PayloadAssumption
    <3>2. [status |-> "pending", results |-> {}] \in JobRow
        BY DEF JobRow
    <3> QED
        BY <2>1, <2>2, <3>1, <3>2 DEF Enqueue, ImportTypeOK, Live
  <2>3. CASE Precreate(j)
      BY <2>1, <2>3 DEF Precreate, ImportTypeOK, Live
  <2>4. CASE Begin(j)
    <3>1. job' \in [Passes -> JobRow \cup {None}]
        BY <2>4, StatusSet DEF Begin
    <3>2. work' \in [Passes -> [Slots -> Working \cup
                                   {"none", "wait", "end", "raised"}]]
      <4>1. CASE job[j] = None
          BY <2>4, <4>1 DEF Begin, ImportTypeOK
      <4>2. CASE job[j] # None
        <5>1. work' = [work EXCEPT ![j] = [s \in Slots |->
                           IF payload[j][s] = None THEN "none" ELSE "wait"]]
            BY <2>4, <4>2 DEF Begin
        <5> QED
            BY <5>1 DEF ImportTypeOK
      <4> QED
          BY <4>1, <4>2
    <3>3. jpc' \in [Passes -> Live \cup {"idle", "ended", "dead"}]
        BY <2>4 DEF Begin, ImportTypeOK, Live
    <3> QED
        BY <2>1, <2>4, <3>1, <3>2, <3>3 DEF Begin, ImportTypeOK
  <2>5. CASE Lose(j)
      BY <2>1, <2>5 DEF Lose, ImportTypeOK
  <2>6. CASE GatherDone(j)
      BY <2>1, <2>6 DEF GatherDone, ImportTypeOK, Live
  <2>7. CASE GatherRaises(j)
      BY <2>1, <2>7 DEF GatherRaises, ImportTypeOK, Live
  <2>8. CASE RunPass(j)
      BY <2>1, <2>8 DEF RunPass, ImportTypeOK
  <2>9. CASE Complete(j)
    <3>1. job' \in [Passes -> JobRow \cup {None}]
        BY <2>9, StatusSet DEF Complete
    <3> QED
        BY <2>1, <2>9, <3>1 DEF Complete, ImportTypeOK
  <2>10. CASE CompleteFails(j)
      BY <2>1, <2>10 DEF CompleteFails, ImportTypeOK, Live
  <2>11. CASE Abort(j)
    <3>1. job' \in [Passes -> JobRow \cup {None}]
        BY <2>11, StatusSet DEF Abort
    <3> QED
        BY <2>1, <2>11, <3>1 DEF Abort, ImportTypeOK
  <2>12. CASE Die(j)
      BY <2>1, <2>12 DEF Die, ImportTypeOK
  <2>13. ASSUME NEW s \in Slots, Worker(j, s) PROVE ImportTypeOK'
    <3>1. CASE Take(j, s)
        BY <2>1, <3>1 DEF Take, ImportTypeOK, Working
    <3>2. CASE Look(j, s)
        BY <2>1, <3>2 DEF Look, ImportTypeOK, Working
    <3>3. CASE Fetch(j, s)
        BY <2>1, <3>3 DEF Fetch, ImportTypeOK, Working
    <3>4. CASE Put(j, s)
        BY <2>1, <3>4 DEF Put, ImportTypeOK, Working
    <3>5. CASE PutBreaks(j, s)
        BY <2>1, <3>5 DEF PutBreaks, ImportTypeOK, Working
    <3>6. CASE Insert(j, s)
        BY <2>1, <3>6 DEF Insert, ImportTypeOK, Working
    <3>7. CASE ItemFails(j, s)
        BY <2>1, <3>7 DEF ItemFails, ImportTypeOK, Working
    <3>8. CASE Note(j, s)
      <4>1. job[j] # None => job[j].results \in SUBSET Outcome
          BY DEF ImportTypeOK, JobRow
      <4>2. progress' \in [Passes -> SUBSET Outcome]
          BY <3>8, <4>1 DEF Note, ImportTypeOK
      <4>3. PICK label \in {"end", "save"} : WorkerTo(j, s, label)
          BY <3>8 DEF Note
      <4>4. work' \in [Passes -> [Slots -> Working \cup
                                     {"none", "wait", "end", "raised"}]]
          BY <4>3 DEF ImportTypeOK, Working
      <4> QED
          BY <2>1, <3>8, <4>2, <4>4 DEF Note, ImportTypeOK
    <3>9. CASE Save(j, s)
      <4>1. PICK outcome \in {"stored", "failed"} :
                job' = [job EXCEPT ![j].results =
                           progress[j] \cup {<<s, outcome>>}]
          BY <3>9 DEF Save
      <4>2. progress[j] \cup {<<s, outcome>>} \in SUBSET Outcome
          BY DEF Outcome, ImportTypeOK
      <4>3. job[j] \in JobRow
          BY <3>9 DEF Save, ImportTypeOK
      <4>4. [job[j] EXCEPT !.results = progress[j] \cup {<<s, outcome>>}]
               \in JobRow
          BY <4>2, <4>3 DEF JobRow
      <4> QED
          BY <2>1, <3>9, <4>1, <4>4 DEF Save, ImportTypeOK
    <3>10. CASE SaveFails(j, s)
        BY <2>1, <3>10 DEF SaveFails, ImportTypeOK, Working
    <3> QED
        BY <2>13, <3>1, <3>2, <3>3, <3>4, <3>5, <3>6, <3>7, <3>8, <3>9, <3>10
        DEF Worker
  <2> QED
      BY <1>4, <2>2, <2>3, <2>4, <2>5, <2>6, <2>7, <2>8, <2>9, <2>10, <2>11,
         <2>12, <2>13 DEF JobStep, Task
<1> QED
    BY <1>1, <1>2, <1>3, <1>4 DEF ImportNext

\* For any number of jobs, items and files every variable keeps its type.
THEOREM ImportTyped == ImportSpec => []ImportTypeOK
<1>1. ImportTypeOK /\ [ImportNext]_jobVars => ImportTypeOK'
    BY TypeStep
<1> QED
    BY TypeInit, <1>1, PTL DEF ImportSpec

-----------------------------------------------------------------------------
\* The inductive invariant.

USE DEF JobTo, WorkerTo, itemVars

LEMMA JobInit == ImportInit => \A j \in Passes : JobInv(j)
BY DEF ImportInit, JobInv, Serial, Phases, Recording, Returned, Recorded

\* A step that leaves everything of a job alone keeps what is known of it.
Frame(k) ==
    /\ job'[k] = job[k] /\ jpc'[k] = jpc[k] /\ payload'[k] = payload[k]
    /\ work'[k] = work[k] /\ progress'[k] = progress[k]

LEMMA Framed ==
    ASSUME NEW k \in Passes, JobInv(k), Frame(k)
    PROVE  JobInv(k)'
BY DEF Frame, JobInv, Serial, Phases, Recording, Returned, Recorded

\* A worker goes on, without touching the row.
LEMMA WorkerMoves ==
    ASSUME IInv, NEW j \in Passes, NEW s \in Slots,
           NEW label \in (Working \ {"save"}) \cup {"raised"},
           work[j][s] \in Working \cup {"wait"}, WorkerTo(j, s, label),
           UNCHANGED <<job, jpc, payload>>,
           \A t \in Slots \ {s} : work[j][t] = "save" =>
               progress'[j] = progress[j]
    PROVE  JobInv(j)'
<1>1. /\ work'[j][s] = label
      /\ \A t \in Slots \ {s} : work'[j][t] = work[j][t]
    BY DEF IInv, ImportTypeOK
<1>2. /\ label \notin {"none", "end", "save", "wait"}
      /\ work[j][s] \notin {"none", "end", "raised"}
    BY DEF Working
<1>3. JobInv(j) /\ ~Returned(j)
    BY <1>2 DEF IInv, Returned
<1>4. Serial(j)'
    BY <1>1, <1>2, <1>3 DEF JobInv, Serial
<1>5. Phases(j)'
    BY <1>1, <1>2, <1>3 DEF JobInv, Phases, Returned
<1>6. Recording(j)'
  <2> SUFFICES ASSUME job[j] # None, jpc[j] # "dead", NEW t \in Slots
               PROVE  Recorded(j, t)'
      BY DEF Recording
  <2>1. Recorded(j, t)
      BY <1>3 DEF JobInv, Recording
  <2>2. CASE t = s
      BY <1>1, <1>2, <2>1, <2>2 DEF Recorded
  <2>3. CASE t # s
      BY <1>1, <2>1, <2>3 DEF Recorded
  <2> QED
      BY <2>2, <2>3
<1> QED
    BY <1>4, <1>5, <1>6 DEF JobInv

\* The task of a job goes on: its row keeps the results and, unless the job
\* has ended with every worker through, is not completed.
LEMMA TaskMoves ==
    ASSUME IInv, NEW j \in Passes, NEW label \in Live \cup {"ended"},
           JobTo(j, label), UNCHANGED <<payload, work, progress>>,
           jpc[j] \in {"precreate", "begin", "gather", "index", "abort"},
           label \in {"idle", "precreate", "begin"} => jpc[j] = "precreate",
           jpc[j] \in {"precreate", "begin"} =>
               label = "begin" \/ job[j] = None,
           label = "index" => Returned(j),
           job'[j] = None <=> job[j] = None,
           job[j] # None => job'[j].results = job[j].results,
           job[j] # None /\ job'[j].status = "completed" =>
               label = "ended" /\ jpc[j] = "index"
    PROVE  JobInv(j)'
<1>1. jpc'[j] = label /\ JobInv(j)
    BY DEF IInv, ImportTypeOK
<1>2. Serial(j)'
    BY <1>1 DEF JobInv, Serial
<1>3. Phases(j)'
    BY <1>1 DEF JobInv, Phases, Returned, Live
<1>4. Recording(j)'
    BY <1>1 DEF JobInv, Recording, Recorded
<1> QED
    BY <1>2, <1>3, <1>4 DEF JobInv

\* Every step keeps it: for the job whose step it is by the two lemmas above
\* or by its own argument, for the others because they are left alone.
LEMMA JobStepKeeps ==
    ASSUME IInv, NEW j \in Passes, JobStep(j)
    PROVE  \A k \in Passes : JobInv(k)'
<1> USE DEF IInv
<1>1. JobInv(j)
    OBVIOUS
<1>2. ASSUME NEW p \in Payloads[j], Enqueue(j, p)
      PROVE  \A k \in Passes : JobInv(k)'
  <2>1. \A k \in Passes \ {j} : JobInv(k)'
      BY <1>2, Framed DEF Enqueue, ImportTypeOK, Frame
  <2>2. /\ jpc'[j] = "precreate" /\ work' = work
        /\ job'[j] = [status |-> "pending", results |-> {}]
        /\ \A s \in Slots : work[j][s] = "none"
      BY <1>1, <1>2 DEF Enqueue, ImportTypeOK, JobInv, Phases
  <2>3. JobInv(j)'
      BY <2>2 DEF JobInv, Serial, Phases, Recording, Recorded, Returned
  <2> QED
      BY <2>1, <2>3
<1>3. CASE Precreate(j) \/ GatherRaises(j) \/ CompleteFails(j)
  <2>1. \A k \in Passes \ {j} : JobInv(k)'
      BY <1>3, Framed DEF Precreate, GatherRaises, CompleteFails,
         ImportTypeOK, Frame
  <2>2. JobInv(j)'
    <3>1. CASE Precreate(j)
        BY <1>1, <3>1, TaskMoves DEF Precreate, JobInv, Phases, Live
    <3>2. CASE GatherRaises(j)
        BY <1>1, <3>2, TaskMoves DEF GatherRaises, JobInv, Phases, Live
    <3>3. CASE CompleteFails(j)
        BY <1>1, <3>3, TaskMoves DEF CompleteFails, JobInv, Phases, Live
    <3> QED
        BY <1>3, <3>1, <3>2, <3>3
  <2> QED
      BY <2>1, <2>2
<1>4. CASE Complete(j) \/ Abort(j)
  <2>1. /\ \A k \in Passes \ {j} : job'[k] = job[k]
        /\ job'[j] = None <=> job[j] = None
        /\ job[j] # None => /\ job'[j].results = job[j].results
                            /\ job'[j].status \in {"completed", "failed"}
                            /\ Abort(j) => job'[j].status = "failed"
      BY <1>4, StatusSet DEF Complete, Abort
  <2>2. \A k \in Passes \ {j} : JobInv(k)'
      BY <1>4, <2>1, Framed DEF Complete, Abort, ImportTypeOK, Frame
  <2>3. JobInv(j)'
    <3>1. CASE Complete(j)
        BY <1>1, <2>1, <3>1, TaskMoves DEF Complete, JobInv, Phases
    <3>2. CASE Abort(j)
        BY <1>1, <2>1, <3>2, TaskMoves DEF Abort, JobInv, Phases
    <3> QED
        BY <1>4, <3>1, <3>2
  <2> QED
      BY <2>2, <2>3
<1>5. CASE GatherDone(j)
  <2>1. \A k \in Passes \ {j} : JobInv(k)'
      BY <1>5, Framed DEF GatherDone, ImportTypeOK, Frame
  <2>2. JobInv(j)'
      BY <1>1, <1>5, TaskMoves DEF GatherDone, JobInv, Phases, Live, Returned
  <2> QED
      BY <2>1, <2>2
<1>6. CASE Begin(j)
  <2>1. /\ \A k \in Passes \ {j} : job'[k] = job[k]
        /\ job'[j] = None <=> job[j] = None
        /\ job[j] # None => /\ job'[j].results = job[j].results
                            /\ job'[j].status = "running"
      BY <1>6, StatusSet DEF Begin
  <2>2. \A k \in Passes \ {j} : JobInv(k)'
      BY <1>6, <2>1, Framed DEF Begin, ImportTypeOK, Frame
  <2>3. JobInv(j)'
    <3>1. CASE job[j] = None
        BY <1>1, <1>6, <2>1, <3>1, TaskMoves DEF Begin, JobInv, Phases, Live
    <3>2. CASE job[j] # None
      <4>1. /\ jpc'[j] = "gather" /\ job'[j] # None
            /\ job'[j].status = "running"
            /\ \A s \in Slots : work'[j][s] = IF payload[j][s] = None
                                              THEN "none" ELSE "wait"
            /\ payload' = payload
          BY <1>6, <2>1, <3>2 DEF Begin, ImportTypeOK
      <4>2. \A s \in Slots : work[j][s] = "none" /\ Recorded(j, s)
          BY <1>1, <1>6, <3>2 DEF Begin, JobInv, Phases, Recording
      <4> QED
          BY <2>1, <3>2, <4>1, <4>2 DEF JobInv, Serial, Phases, Recording,
             Recorded, Returned
    <3> QED
        BY <3>1, <3>2
  <2> QED
      BY <2>2, <2>3
<1>7. CASE Lose(j)
  <2>1. \A k \in Passes \ {j} : JobInv(k)'
      BY <1>7, Framed DEF Lose, ImportTypeOK, Frame
  <2>2. JobInv(j)'
      BY <1>1, <1>7 DEF Lose, JobInv, Serial, Phases, Recording, ImportTypeOK
  <2> QED
      BY <2>1, <2>2
<1>8. CASE RunPass(j)
    BY <1>8, Framed DEF RunPass, Frame
<1>9. CASE Die(j)
  <2>1. \A k \in Passes \ {j} : JobInv(k)'
      BY <1>9, Framed DEF Die, ImportTypeOK, Frame
  <2>2. ~(job[j] # None /\ job[j].status = "completed")
      BY <1>1, <1>9 DEF Die, Active, JobInv, Phases, Returned, Live, Working
  <2>3. JobInv(j)'
      BY <1>9, <2>2 DEF Die, JobInv, Serial, Phases, Recording, ImportTypeOK
  <2> QED
      BY <2>1, <2>3
<1>10. ASSUME NEW s \in Slots, Worker(j, s)
       PROVE  \A k \in Passes : JobInv(k)'
  <2>1. CASE \/ Take(j, s) \/ Look(j, s) \/ Fetch(j, s) \/ Put(j, s)
             \/ PutBreaks(j, s) \/ Insert(j, s) \/ ItemFails(j, s)
    <3>1. /\ UNCHANGED <<job, jpc, payload, progress>>
          /\ work[j][s] \in Working \cup {"wait"}
          /\ \E label \in Working \ {"save"} : WorkerTo(j, s, label)
        BY <2>1 DEF Take, Look, Fetch, Put, PutBreaks, Insert, ItemFails,
           Working
    <3>2. \A k \in Passes \ {j} : JobInv(k)'
        BY <3>1, Framed DEF ImportTypeOK, Frame
    <3>3. JobInv(j)'
        BY <3>1, WorkerMoves
    <3> QED
        BY <3>2, <3>3
  <2>2. CASE SaveFails(j, s)
    <3>1. /\ UNCHANGED <<job, jpc, payload>>
          /\ work[j][s] \in {"note", "save"}
          /\ \E label \in {"note", "raised"} : WorkerTo(j, s, label)
          /\ \A k \in Passes \ {j} : progress'[k] = progress[k]
          /\ work[j][s] # "save" => progress'[j] = progress[j]
        BY <2>2 DEF SaveFails, ImportTypeOK
    <3>2. \A k \in Passes \ {j} : JobInv(k)'
        BY <3>1, Framed DEF ImportTypeOK, Frame
    <3>3. \A t \in Slots \ {s} : work[j][t] = "save" => work[j][s] # "save"
        BY <1>1 DEF JobInv, Serial
    <3>4. JobInv(j)'
        BY <3>1, <3>3, WorkerMoves DEF Working
    <3> QED
        BY <3>2, <3>4
  <2>3. CASE Note(j, s)
    <3>1. \A k \in Passes \ {j} : JobInv(k)'
        BY <2>3, Framed DEF Note, ImportTypeOK, Frame
    <3>2. /\ UNCHANGED <<job, jpc, payload>> /\ work[j][s] = "note"
          /\ \A t \in Slots \ {s} : work'[j][t] = work[j][t]
          /\ \A t \in Slots : work[j][t] # "save"
          /\ job[j] # None => /\ work'[j][s] = "save"
                              /\ progress'[j] = job[j].results
          /\ job[j] = None => work'[j][s] = "end"
        BY <2>3 DEF Note, ImportTypeOK
    <3>3. JobInv(j)'
        BY <1>1, <3>2 DEF JobInv, Serial, Phases, Recording, Recorded,
           Returned
    <3> QED
        BY <3>1, <3>3
  <2>4. CASE Save(j, s)
    <3>1. \A k \in Passes \ {j} : JobInv(k)'
        BY <2>4, Framed DEF Save, ImportTypeOK, Frame
    <3>2. PICK outcome \in {"stored", "failed"} :
              job' = [job EXCEPT ![j].results =
                         progress[j] \cup {<<s, outcome>>}]
        BY <2>4 DEF Save
    <3>3. /\ job[j] \in JobRow /\ job'[j] # None
          /\ job'[j].status = job[j].status
          /\ job'[j].results = progress[j] \cup {<<s, outcome>>}
      <4>1. job[j] \in JobRow
          BY <2>4 DEF Save, ImportTypeOK
      <4>2. progress[j] \cup {<<s, outcome>>} \in SUBSET Outcome
          BY DEF Outcome, ImportTypeOK
      <4>3. [job[j] EXCEPT !.results = progress[j] \cup {<<s, outcome>>}]
               \in JobRow
          BY <4>1, <4>2 DEF JobRow
      <4>4. job'[j] = [job[j] EXCEPT
                          !.results = progress[j] \cup {<<s, outcome>>}]
          BY <3>2 DEF ImportTypeOK
      <4> QED
          BY <4>1, <4>3, <4>4, JobAssumption DEF JobRow
    <3>4. /\ work[j][s] = "save" /\ work'[j][s] = "end"
          /\ \A t \in Slots \ {s} : /\ work'[j][t] = work[j][t]
                                    /\ work[j][t] # "save"
          /\ UNCHANGED <<jpc, payload>>
        BY <1>1, <2>4 DEF Save, ImportTypeOK, JobInv, Serial
    <3>5. Serial(j)' /\ Phases(j)'
        BY <1>1, <3>3, <3>4, <2>4 DEF JobInv, Serial, Phases, Returned, Save
    <3>6. Recording(j)'
      <4> SUFFICES ASSUME jpc[j] # "dead", NEW t \in Slots
                   PROVE  Recorded(j, t)'
          BY <3>4 DEF Recording
      <4>1. Recorded(j, t) /\ Recorded(j, s) /\ progress[j] = job[j].results
          BY <1>1, <2>4, <3>4 DEF Save, JobInv, Recording, Recorded
      <4>2. CASE t = s
          BY <3>3, <3>4, <4>1, <4>2 DEF Recorded
      <4>3. CASE t # s
          BY <3>3, <3>4, <4>1, <4>3 DEF Recorded
      <4> QED
          BY <4>2, <4>3
    <3> QED
        BY <3>1, <3>5, <3>6 DEF JobInv
  <2> QED
      BY <1>10, <2>1, <2>2, <2>3, <2>4 DEF Worker
<1> QED
    BY <1>2, <1>3, <1>4, <1>5, <1>6, <1>7, <1>8, <1>9, <1>10
    DEF JobStep, Task

LEMMA Inductive ==
    ASSUME IInv, [ImportNext]_jobVars
    PROVE  IInv'
<1>1. ImportTypeOK'
    BY TypeStep DEF IInv
<1>2. \A j \in Passes : JobInv(j)'
  <2>1. CASE UNCHANGED jobVars
      BY <2>1, Framed DEF jobVars, importVars, IInv, Frame
  <2>2. ASSUME NEW j \in Passes, JobStep(j)
        PROVE  \A k \in Passes : JobInv(k)'
      BY <2>2, JobStepKeeps
  <2>3. CASE Sweep
    <3> SUFFICES ASSUME NEW k \in Passes PROVE JobInv(k)'
        OBVIOUS
    <3>1. CASE job'[k] = job[k]
        BY <2>3, <3>1, Framed DEF Sweep, IInv, Frame
    <3>2. CASE job'[k] # job[k]
      <4>1. job'[k] = [job[k] EXCEPT !.status = "failed"] /\ job[k] # None
          BY <2>3, <3>2 DEF Sweep
      <4>2. job[k] \in JobRow
          BY <4>1 DEF IInv, ImportTypeOK
      <4>3. job'[k].results = job[k].results /\ job'[k].status = "failed"
          BY <4>1, <4>2 DEF JobRow
      <4>4. JobInv(k) /\ UNCHANGED <<jpc, payload, work, progress>>
          BY <2>3 DEF Sweep, IInv
      <4>5. jpc[k] # "idle"
          BY <4>1, <4>4 DEF JobInv, Phases
      <4> QED
          BY <4>1, <4>3, <4>4, <4>5 DEF JobInv, Serial, Phases, Recording,
             Recorded, Returned
    <3> QED
        BY <3>1, <3>2
  <2>4. ASSUME NEW j \in Passes, Prune(j)
        PROVE  \A k \in Passes : JobInv(k)'
    <3>1. \A k \in Passes \ {j} : JobInv(k)'
        BY <2>4, Framed DEF Prune, IInv, ImportTypeOK, Frame
    <3>2. job'[j] = None /\ UNCHANGED <<jpc, payload, work, progress>>
        BY <2>4 DEF Prune, IInv, ImportTypeOK
    <3>3. JobInv(j)'
        BY <3>2 DEF IInv, JobInv, Serial, Phases, Recording, Returned
    <3> QED
        BY <3>1, <3>3
  <2> QED
      BY <2>1, <2>2, <2>3, <2>4 DEF ImportNext
<1> QED
    BY <1>1, <1>2 DEF IInv

LEMMA Invariant == ImportSpec => []IInv
<1>1. ImportInit => IInv
    BY TypeInit, JobInit DEF IInv
<1>2. IInv /\ [ImportNext]_jobVars => IInv'
    BY Inductive
<1> QED
    BY <1>1, <1>2, PTL DEF ImportSpec

\* A completed job has exactly one outcome for every item it was asked for,
\* for any number of workers, failures, sweeps and pruned rows.
THEOREM ItemsCounted == ImportSpec => []EveryItemCounted
<1>1. IInv => EveryItemCounted
  <2> SUFFICES ASSUME IInv, NEW j \in Passes,
                      job[j] # None, job[j].status = "completed",
                      NEW s \in Slots, payload[j][s] # None
               PROVE  (<<s, "stored">> \in job[j].results)
                          # (<<s, "failed">> \in job[j].results)
      BY DEF EveryItemCounted
  <2>1. work[j][s] = "end" /\ jpc[j] = "ended"
      BY DEF IInv, JobInv, Phases, Returned
  <2>2. Recorded(j, s)
      BY <2>1 DEF IInv, JobInv, Recording
  <2> QED
      BY <2>1, <2>2 DEF Recorded
<1> QED
    BY <1>1, Invariant, PTL

\* Once a row says completed nothing but its removal ever changes it: its
\* task has ended and its workers are through.
THEOREM CompletedFinal == ImportSpec => CompletedIsFinal
<1>1. ASSUME IInv, [ImportNext]_jobVars, NEW j \in Passes,
             job[j] # None, job[j].status = "completed"
      PROVE  job'[j] \in {job[j], None}
  <2>1. jpc[j] = "ended" /\ Returned(j)
      BY <1>1 DEF IInv, JobInv, Phases
  <2>2. CASE UNCHANGED jobVars
      BY <2>2 DEF jobVars, importVars
  <2>3. CASE Sweep
      BY <1>1, <2>3 DEF Sweep
  <2>4. ASSUME NEW k \in Passes, Prune(k) PROVE job'[j] \in {job[j], None}
      BY <1>1, <2>4 DEF Prune, IInv, ImportTypeOK
  <2>5. ASSUME NEW k \in Passes, JobStep(k) PROVE job'[j] \in {job[j], None}
    <3>1. CASE k # j
      <4>1. ASSUME NEW p \in Payloads[k], Enqueue(k, p)
            PROVE  job'[j] = job[j]
          BY <3>1, <4>1, <1>1 DEF Enqueue, IInv, ImportTypeOK
      <4>2. CASE Begin(k) \/ Complete(k) \/ Abort(k)
          BY <3>1, <4>2, <1>1, StatusSet DEF Begin, Complete, Abort, IInv
      <4>3. CASE Die(k) \/ \E s \in Slots : Worker(k, s)
          BY <3>1, <4>3, <1>1 DEF Die, Worker, Take, Look, Fetch, Put,
             PutBreaks, Insert, ItemFails, Note, Save, SaveFails, IInv,
             ImportTypeOK
      <4>4. CASE \/ Precreate(k) \/ Lose(k) \/ GatherDone(k) \/ RunPass(k)
                 \/ GatherRaises(k) \/ CompleteFails(k)
          BY <4>4 DEF Precreate, Lose, GatherDone, RunPass, GatherRaises,
             CompleteFails
      <4> QED
          BY <2>5, <4>1, <4>2, <4>3, <4>4 DEF JobStep, Task
    <3>2. CASE k = j
      <4>1. \A s \in Slots : ~Worker(j, s)
          BY <2>1 DEF Returned, Worker, Take, Look, Fetch, Put, PutBreaks,
             Insert, ItemFails, Note, Save, SaveFails, Working
      <4>2. ~Task(j) /\ ~Die(j) /\ \A p \in Payloads[j] : ~Enqueue(j, p)
          BY <2>1 DEF Task, Precreate, Begin, Lose, GatherDone, RunPass,
             GatherRaises, Complete, CompleteFails, Abort, Die, Enqueue,
             Active, Returned, Live, Working
      <4> QED
          BY <2>5, <3>2, <4>1, <4>2 DEF JobStep
    <3> QED
        BY <3>1, <3>2
  <2> QED
      BY <1>1, <2>2, <2>3, <2>4, <2>5 DEF ImportNext
<1>2. IInv /\ [ImportNext]_jobVars =>
          [\A j \in Passes : job[j] # None /\ job[j].status = "completed" =>
              job'[j] \in {job[j], None}]_jobVars
    BY <1>1
<1> QED
    BY <1>2, Invariant, PTL DEF ImportSpec, CompletedIsFinal

(***************************************************************************)
(* What an import stored stays what its upstream served.  The item's file  *)
(* had no archive when its worker looked, so nothing knew of it (NoGhosts) *)
(* and nobody else was about to store it.  From its row on, everything the *)
(* channel and its passes know of the file is a record of the bytes stored *)
(* (Held), with the hash or without; after the job's own pass, with it.    *)
(***************************************************************************)

\* The records of b a pass may come to hold: the row of the import, the
\* archive's own.
WithoutHash(b) == [sha |-> NoHash, size |-> SizeOf[b]]
RecordsOf(b) == {WithoutHash(b), RecordOf(b)}

\* The phases after the index is rebuilt.
Repaired == {"fetch", "flush", "commit"} \cup Fixing
Synced == {"about", "repair", "repairList"} \cup Repaired
Followed == {"select", "read", "sync"} \cup Synced

\* What pass x knows of f is in V, as far as it will use it.
PassHolds(x, f, V) ==
    /\ rpc[x] = "list" => view[x][f] \in V
    /\ rpc[x] = "scan" => f \in rtodo[x] \/ found[x][f] \in V
    /\ rpc[x] \in Indexing =>
          /\ found[x][f] \in V
          /\ SubdirOf[f] \in rsubs[x] \/ repodata[f] \in V
    /\ rpc[x] \in {"zst", "shards"} /\ rsection[x] = SubdirOf[f] =>
          repodata[f] \in V
    /\ rpc[x] \in Followed => repodata[f] \in V
    /\ rpc[x] \in {"read", "sync"} => view[x][f] \in V /\ f \notin capture[x]
    /\ rpc[x] = "sync" => found[x][f] \in V
    /\ rpc[x] = "about" => f \notin capture[x]
    /\ rpc[x] \in Synced =>
          /\ pending[x][f] \in V \cup {Same} /\ newAbout[x][f] = Same
          /\ found[x][f] \in V \cup {None}
    /\ rpc[x] \in {"fixJson", "fixZst"} /\ rsection[x] = SubdirOf[f] =>
          merged[x][f] \in V

\* f is stored with content b, or not at all; its row is in V, the indexes
\* have what is in I, and so will the passes leave it.
Held(f, b, V, I) ==
    /\ object[f] = b /\ rows[f] \in V /\ (b # None => about[f] = b)
    /\ repodata[f] \in I /\ zst[f] \in I /\ shard[f] \in I \cup {Absent}
    /\ \A x \in Passes : PassHolds(x, f, V)

\* What V and I may be: for no archive, or for a readable one.
Fitting(b, V, I) ==
    \/ b = None /\ V = {None} /\ I = {None}
    \/ /\ b \in Builds /\ RecordOf(b) \in V /\ V \subseteq RecordsOf(b)
       /\ V \subseteq I /\ I \subseteq V \cup {None}

\* Where there is no archive, nothing says there is one.
NoGhosts == \A f \in Files : object[f] = None => Held(f, None, {None}, {None})

\* The item asks for a file no other item of the job asks for.
Sole(j, s) ==
    /\ payload[j][s] # None
    /\ \A t \in Slots \ {s} : payload[j][t] # payload[j][s]

\* The item was stored and its row committed, and that is on record.
Past(j, s) ==
    \/ s \in good[j] \/ <<s, "stored">> \in progress[j]
    \/ job[j] # None /\ <<s, "stored">> \in job[j].results

Storing == {"fetch", "put", "insert"}

Stored(j, s) ==
    LET f == payload[j][s]
        b == Upstream[j][f]
    IN  /\ b \in Builds /\ origin[f] = j
        /\ Held(f, b, RecordsOf(b), RecordsOf(b) \cup {None})
        /\ rpc[j] = "done" => Held(f, b, {RecordOf(b)}, {RecordOf(b)})
        /\ \A k \in Passes, t \in Slots :
               payload[k][t] = f => work[k][t] \notin Storing

\* An item by where its worker stands.
Item(j, s) ==
    LET f == payload[j][s]
    IN  /\ work[j][s] \in {"fetch", "put"} => object[f] = None
        /\ work[j][s] = "insert" =>
              /\ object[f] = Upstream[j][f]
              /\ repodata[f] = None /\ zst[f] = None
              /\ shard[f] \in {None, Absent}
        /\ Past(j, s) => Stored(j, s)

Items == \A j \in Passes \ beside, s \in Slots : Sole(j, s) => Item(j, s)

\* No read of an index failed.
Clear == \A x \in Passes : missed[x] = {}

Early == {"idle", "precreate", "begin"}

\* How far the task, the pass and the workers of a job are with one another.
Stations(j) ==
    /\ rpc[j] \in Running => jpc[j] = "index"
    /\ rpc[j] \in Running \cup {"idle", "done", "failed"}
    /\ rpc[j] # "idle" =>
          jpc[j] \notin Early \cup {"gather"} /\ Returned(j)
    /\ rpc[j] \notin {"sync"} \cup Synced \cup {"done", "failed"} =>
          missed[j] = {}
    /\ jpc[j] \in Early => \A s \in Slots : work[j][s] = "none" /\ ~Past(j, s)
    /\ \A s \in Slots :
          /\ Past(j, s) => /\ work[j][s] \notin Storing \cup {"wait", "look"}
                           /\ payload[j][s] # None
          /\ work[j][s] \in {"put", "insert"} =>
                Upstream[j][payload[j][s]] \in Builds
          /\ work[j][s] = "insert" => object[payload[j][s]] # None
          /\ work[j][s] \in Working \cup {"wait"} => payload[j][s] # None

\* Jobs that run at once are beside one another, and the pass of one that is
\* beside none is undisturbed.
Apart ==
    \A j \in Passes \ beside :
        /\ Active(j) => \A k \in Passes \ {j} : ~Active(k)
        /\ rpc[j] \in Running => j \in alone

ImportInv ==
    /\ IInv /\ Course /\ Apart
    /\ \A j \in Passes : Stations(j)
    /\ Clear => NoGhosts /\ Items
-----------------------------------------------------------------------------
\* One step of a pass.

LEMMA FittingRecords ==
    ASSUME NEW b, NEW V, NEW I, Fitting(b, V, I)
    PROVE  /\ V \subseteq I
           /\ b = None => V = {None} /\ I = {None}
           /\ b # None =>
                 /\ b \in Builds /\ b # Junk /\ b # Unread
                 /\ RecordOf(b) \in V /\ None \notin V
                 /\ \A u \in V : u.size = SizeOf[b] /\ u.sha \in {NoHash, b}
<1>1. CASE b = None
    BY <1>1, ValueAssumption DEF Fitting, Contents
<1>2. CASE b # None
  <2>1. /\ b \in Builds /\ RecordOf(b) \in V /\ V \subseteq RecordsOf(b)
        /\ V \subseteq I
      BY <1>2 DEF Fitting
  <2>2. RecordOf(b) # None /\ WithoutHash(b) # None
      BY <2>1, SizeAssumption, RecordAssumption
      DEF RecordOf, WithoutHash, Contents
  <2>3. \A u \in V : u.size = SizeOf[b] /\ u.sha \in {NoHash, b}
      BY <2>1 DEF RecordsOf, RecordOf, WithoutHash
  <2> QED
      BY <1>2, <2>1, <2>2, <2>3, ValueAssumption DEF RecordsOf, Contents
<1> QED
    BY <1>1, <1>2

\* While the index is rebuilt.
LEMMA IndexHolds ==
    ASSUME ReindexTypeOK, NEW x \in Passes, IndexStep(x), NEW f \in Files,
           NEW b, NEW V, NEW I, Fitting(b, V, I), Held(f, b, V, I)
    PROVE  /\ UNCHANGED <<object, rows, about>>
           /\ repodata'[f] \in V \cup {repodata[f]}
           /\ zst'[f] \in V \cup {zst[f]}
           /\ shard'[f] \in V \cup {shard[f]}
           /\ PassHolds(x, f, V)'
<1> DEFINE Fine == /\ UNCHANGED <<object, rows, about>>
                   /\ repodata'[f] \in V \cup {repodata[f]}
                   /\ zst'[f] \in V \cup {zst[f]}
                   /\ shard'[f] \in V \cup {shard[f]}
                   /\ PassHolds(x, f, V)'
<1>0. /\ object[f] = b /\ rows[f] \in V /\ PassHolds(x, f, V)
      /\ repodata[f] \in I /\ found[x] \in Index
      /\ repodata \in Index /\ zst \in Index
    BY DEF Held, ReindexTypeOK, ChannelTypeOK
<1>01. /\ V \subseteq I
       /\ b = None => V = {None} /\ I = {None}
       /\ b # None =>
             /\ b \in Builds /\ b # Junk
             /\ RecordOf(b) \in V /\ None \notin V
             /\ \A u \in V : u.size = SizeOf[b]
    BY FittingRecords
<1>02. None \in V => repodata[f] \in V
    BY <1>0, <1>01
<1> USE DEF Indexing, Followed, Synced, Repaired, Fixing
<1>1. CASE SelectKnown(x)
  <2>1. rpc'[x] = "list" /\ UNCHANGED channelVars /\ view'[x] = rows
      BY <1>1, Moved DEF SelectKnown, ReindexTypeOK
  <2> QED
      BY <1>0, <2>1 DEF PassHolds, channelVars
<1>2. CASE ListObjects(x)
  <2>1. /\ rpc[x] = "list" /\ rpc'[x] = "scan" /\ UNCHANGED channelVars
        /\ f \in rtodo'[x] \/ found'[x][f] \in V
    <3>1. /\ rpc[x] = "list" /\ rpc'[x] = "scan" /\ UNCHANGED channelVars
        BY <1>2, Moved DEF ListObjects
    <3>2. view[x][f] \in V
        BY <1>0, <3>1 DEF PassHolds
    <3>3. CASE b = None
      <4>1. found'[x][f] = None
          BY <1>0, <1>2, <3>3 DEF ListObjects, Listed, ReindexTypeOK
      <4> QED
          BY <1>01, <3>1, <3>3, <4>1
    <3>4. CASE b # None
      <4>1. found'[x][f] = view[x][f]
          BY <1>0, <1>01, <1>2, <3>2, <3>4
          DEF ListObjects, Listed, ReindexTypeOK
      <4> QED
          BY <3>1, <3>2, <4>1
    <3> QED
        BY <3>3, <3>4
  <2> QED
      BY <2>1 DEF PassHolds, channelVars
<1>3. ASSUME NEW g \in Files, ScanArchive(x, g) PROVE Fine
  <2>1. /\ rpc[x] = "scan" /\ rpc'[x] = "scan" /\ UNCHANGED channelVars
        /\ object[g] # None
      BY <1>3 DEF ScanArchive
  <2>2. f \in rtodo[x] \/ found[x][f] \in V
      BY <1>0, <2>1 DEF PassHolds
  <2>3. CASE g = f
    <3>1. found'[x][f] = RecordOf(b)
        BY <1>0, <1>01, <1>3, <2>1, <2>3 DEF ScanArchive, ReindexTypeOK, Index
    <3> QED
        BY <1>0, <1>01, <2>1, <2>3, <3>1 DEF PassHolds, channelVars
  <2>4. CASE g # f
    <3>1. found'[x][f] = found[x][f] /\ (f \in rtodo[x] => f \in rtodo'[x])
        BY <1>0, <1>3, <2>4 DEF ScanArchive, ReindexTypeOK, Index
    <3> QED
        BY <2>1, <2>2, <3>1 DEF PassHolds, channelVars
  <2> QED
      BY <2>3, <2>4
<1>4. CASE ScanDone(x)
  <2>1. /\ rpc[x] = "scan" /\ rpc'[x] = "json" /\ UNCHANGED channelVars
        /\ rtodo[x] = {} /\ found' = found
      BY <1>4, Moved DEF ScanDone
  <2>2. found[x][f] \in V
      BY <1>0, <2>1 DEF PassHolds
  <2>3. found[x][f] # None => SubdirOf[f] \in rsubs'[x]
      BY <1>4 DEF ScanDone, SubdirsOf, Listed, ReindexTypeOK
  <2> QED
      BY <1>02, <2>1, <2>2, <2>3 DEF PassHolds, channelVars
<1>5. CASE RattlerScan(x)
  <2>1. rpc'[x] = "json" /\ UNCHANGED channelVars /\ rsubs'[x] = Subdirs
      BY <1>5, Moved DEF RattlerScan, ReindexTypeOK
  <2>2. found'[x][f] = IF object[f] = None THEN None
                       ELSE IF repodata[f] # None THEN repodata[f]
                       ELSE IF object[f] = Junk THEN None ELSE RecordOf(object[f])
      BY <1>5 DEF RattlerScan, ReindexTypeOK
  <2>3. I \subseteq V \cup {None}
      BY DEF Fitting
  <2>4. found'[x][f] \in V
      BY <1>0, <1>01, <2>2, <2>3
  <2>5. SubdirOf[f] \in Subdirs
      BY FileAssumption
  <2> QED
      BY <2>1, <2>4, <2>5 DEF PassHolds, channelVars
<1>6. ASSUME NEW s \in Subdirs, IndexJson(x, s) PROVE Fine
  <2>1. /\ rpc[x] = "json" /\ rpc'[x] = "zst"
        /\ UNCHANGED <<object, zst, shard, rows, about, found, rsubs>>
        /\ rsection'[x] = s
        /\ repodata'[f] = IF SubdirOf[f] = s THEN found[x][f] ELSE repodata[f]
      BY <1>0, <1>6, Moved, Spliced DEF IndexJson, PutJson, ReindexTypeOK
  <2>2. found[x][f] \in V /\ (SubdirOf[f] \in rsubs[x] \/ repodata[f] \in V)
      BY <1>0, <2>1 DEF PassHolds
  <2> QED
      BY <2>1, <2>2 DEF PassHolds
<1>7. CASE IndexZst(x)
  <2>1. /\ rpc[x] = "zst"
        /\ UNCHANGED <<object, repodata, shard, rows, about, found, rsection>>
        /\ zst'[f] \in {found[x][f], zst[f]}
      BY <1>0, <1>7, Spliced DEF IndexZst, PutZst
  <2>2. \/ rpc'[x] = "shards" /\ rsubs' = rsubs
        \/ rpc'[x] = "json" /\ rsubs'[x] = rsubs[x] \ {rsection[x]}
      BY <1>7, Moved DEF IndexZst, ReindexTypeOK
  <2>3. /\ found[x][f] \in V /\ (SubdirOf[f] \in rsubs[x] \/ repodata[f] \in V)
        /\ rsection[x] = SubdirOf[f] => repodata[f] \in V
      BY <1>0, <2>1 DEF PassHolds
  <2> QED
      BY <2>1, <2>2, <2>3 DEF PassHolds
<1>8. CASE IndexShards(x)
  <2>1. /\ rpc[x] = "shards" /\ rpc'[x] = "json"
        /\ UNCHANGED <<object, repodata, zst, rows, about, found, rsection>>
        /\ rsubs'[x] = rsubs[x] \ {rsection[x]}
        /\ shard'[f] \in {found[x][f], shard[f]}
      BY <1>8, Moved DEF IndexShards, Splice, ReindexTypeOK
  <2>2. /\ found[x][f] \in V /\ (SubdirOf[f] \in rsubs[x] \/ repodata[f] \in V)
        /\ rsection[x] = SubdirOf[f] => repodata[f] \in V
      BY <1>0, <2>1 DEF PassHolds
  <2> QED
      BY <2>1, <2>2 DEF PassHolds
<1>9. CASE IndexDone(x)
  <2>1. /\ rpc[x] = "json" /\ rpc'[x] = "select" /\ UNCHANGED channelVars
        /\ rsubs[x] = {}
      BY <1>9, Moved DEF IndexDone
  <2>2. repodata[f] \in V
      BY <1>0, <2>1 DEF PassHolds
  <2> QED
      BY <2>1, <2>2 DEF PassHolds, channelVars
<1> QED
    BY <1>1, <1>2, <1>3, <1>4, <1>5, <1>6, <1>7, <1>8, <1>9 DEF IndexStep

\* While the rows are synced: the row is neither inserted nor deleted, and
\* nobody has to look at its about.json.
LEMMA SyncHolds ==
    ASSUME ReindexTypeOK, NEW x \in Passes, SyncStep(x), NEW f \in Files,
           NEW b, NEW V, NEW I, Fitting(b, V, I), Held(f, b, V, I),
           missed'[x] = {}
    PROVE  UNCHANGED channelVars /\ PassHolds(x, f, V)'
<1> DEFINE Fine == UNCHANGED channelVars /\ PassHolds(x, f, V)'
<1>0. /\ object[f] = b /\ rows[f] \in V /\ PassHolds(x, f, V)
      /\ b # None => about[f] = b
    BY DEF Held
<1>01. /\ b = None => V = {None}
       /\ b # None =>
             /\ b # Unread /\ None \notin V
             /\ \A u \in V : u.sha \in {NoHash, b}
    BY FittingRecords
<1>02. found[x] \in Index /\ view[x] \in Index /\ rows \in Index
    BY DEF ReindexTypeOK, ChannelTypeOK
<1> USE DEF Indexing, Followed, Synced, Repaired, Fixing
<1>1. CASE SyncSelect(x)
  <2>1. /\ rpc[x] = "select" /\ rpc'[x] = "read" /\ UNCHANGED channelVars
        /\ view'[x] = rows
        /\ capture'[x] = {g \in Listed(rows) : about[g] = Unread}
      BY <1>1, Moved DEF SyncSelect, ReindexTypeOK
  <2>2. f \notin capture'[x]
      BY <1>0, <1>01, <2>1 DEF Listed
  <2> QED
      BY <1>0, <2>1, <2>2 DEF PassHolds, channelVars
<1>2. CASE SyncRead(x)
  <2>1. PICK unreadable \in SUBSET Subdirs :
            /\ found' = [found EXCEPT ![x] =
                  [g \in Files |->
                     IF SubdirOf[g] \in unreadable THEN None ELSE repodata[g]]]
            /\ missed' = [missed EXCEPT ![x] = unreadable]
      BY <1>2 DEF SyncRead
  <2>2. unreadable = {} /\ found'[x][f] = repodata[f]
      BY <2>1 DEF ReindexTypeOK
  <2>3. /\ rpc[x] = "read" /\ rpc'[x] = "sync" /\ UNCHANGED channelVars
        /\ UNCHANGED <<view, capture>>
      BY <1>2, Moved DEF SyncRead
  <2> QED
      BY <1>0, <2>2, <2>3 DEF PassHolds, channelVars
<1>3. CASE SyncFlush(x)
  <2>1. /\ rpc[x] = "sync" /\ rpc'[x] = "about" /\ UNCHANGED channelVars
        /\ found'[x] = Nothing
      BY <1>3, Moved DEF SyncFlush, ReindexTypeOK
  <2>2. /\ view[x][f] \in V /\ found[x][f] \in V /\ f \notin capture[x]
        /\ repodata[f] \in V
      BY <1>0, <2>1 DEF PassHolds
  <2>3. f \notin Added(x) /\ f \notin Removed(x) /\ f \notin Replaced(x)
    <3>1. CASE b = None
        BY <1>01, <2>2, <3>1 DEF Added, Removed, Replaced, Updated, Listed
    <3>2. CASE b # None
      <4>1. /\ found[x][f] # None /\ view[x][f] # None
            /\ view[x][f].sha # NoHash /\ found[x][f].sha # NoHash =>
                  view[x][f].sha = found[x][f].sha
          BY <1>01, <2>2, <3>2
      <4> QED
          BY <2>2, <4>1 DEF Added, Removed, Replaced, Updated, Listed
    <3> QED
        BY <3>1, <3>2
  <2> DEFINE changed == [g \in Files |->
                 IF g \in Added(x) \cup Updated(x) THEN found[x][g]
                 ELSE IF g \in Removed(x) THEN None ELSE Same]
             after == [g \in Files |->
                 IF changed[g] = Same THEN rows[g] ELSE changed[g]]
  <2>4. /\ pending'[x] = changed
        /\ newAbout'[x][f] = IF f \in Added(x) \cup Removed(x) THEN Unread
                             ELSE IF f \in Replaced(x) THEN newAbout'[x][f]
                             ELSE Same
        /\ f \in capture'[x] => /\ f \in NewestOf(after)
                                /\ \/ f \in Added(x) \cup Replaced(x)
                                   \/ about[f] = Unread
    <3>1. pending'[x] = changed
        BY <1>3 DEF SyncFlush, ReindexTypeOK
    <3> HIDE DEF changed
    <3>2. DOMAIN newAbout = Passes /\ DOMAIN capture = Passes
        BY DEF ReindexTypeOK
    <3>3. f \notin Added(x) \cup Removed(x) /\ f \notin Replaced(x) =>
              newAbout'[x][f] = Same
        BY <1>3, <3>2 DEF SyncFlush
    <3>4. f \in capture'[x] => /\ f \in NewestOf(after)
                               /\ \/ f \in Added(x) \cup Replaced(x)
                                  \/ about[f] = Unread
        BY <1>3, <3>2 DEF SyncFlush, changed
    <3> QED
        BY <2>3, <3>1, <3>3, <3>4
  <2>5. pending'[x][f] \in V \cup {Same} /\ newAbout'[x][f] = Same
      BY <2>2, <2>3, <2>4
  <2>6. f \notin capture'[x]
    <3>1. CASE b = None
      <4>1. f \notin Updated(x)
          BY <1>01, <2>2, <3>1 DEF Updated, Listed
      <4>2. after[f] = None
          BY <1>0, <1>01, <2>3, <3>1, <4>1
      <4> QED
          BY <2>4, <4>2 DEF NewestOf, Listed
    <3>2. CASE b # None
        BY <1>0, <1>01, <2>3, <2>4, <3>2
    <3> QED
        BY <3>1, <3>2
  <2> QED
      BY <2>1, <2>2, <2>5, <2>6 DEF PassHolds, channelVars, Nothing
<1>4. ASSUME NEW g \in Files, CaptureAbout(x, g) PROVE Fine
  <2>1. /\ rpc[x] = "about" /\ g \in capture[x]
        /\ UNCHANGED <<channelVars, rpc, found, pending>>
        /\ capture'[x] \subseteq capture[x]
      BY <1>4 DEF CaptureAbout, ReindexTypeOK
  <2>2. f \notin capture[x]
      BY <1>0, <2>1 DEF PassHolds
  <2>3. newAbout'[x][f] = newAbout[x][f]
      BY <1>4, <2>1, <2>2 DEF CaptureAbout, ReindexTypeOK
  <2> QED
      BY <1>0, <2>1, <2>2, <2>3 DEF PassHolds, channelVars
<1>5. CASE CaptureDone(x)
  <2>1. /\ rpc[x] = "about" /\ rpc'[x] = "repair"
        /\ UNCHANGED <<channelVars, found, pending, newAbout>>
      BY <1>5, Moved DEF CaptureDone
  <2> QED
      BY <1>0, <2>1 DEF PassHolds, channelVars
<1> QED
    BY <1>1, <1>2, <1>3, <1>4, <1>5 DEF SyncStep

\* While records are repaired.
LEMMA RepairHolds ==
    ASSUME ReindexTypeOK, NEW x \in Passes, RepairStep(x), NEW f \in Files,
           NEW b, NEW V, NEW I, Fitting(b, V, I), Held(f, b, V, I)
    PROVE  /\ UNCHANGED <<object, rows, about>>
           /\ repodata'[f] \in V \cup {repodata[f]}
           /\ zst'[f] \in V \cup {zst[f]}
           /\ shard'[f] \in {shard[f], Absent}
           /\ PassHolds(x, f, V)'
<1> DEFINE Fine == /\ UNCHANGED <<object, rows, about>>
                   /\ repodata'[f] \in V \cup {repodata[f]}
                   /\ zst'[f] \in V \cup {zst[f]}
                   /\ shard'[f] \in {shard[f], Absent}
                   /\ PassHolds(x, f, V)'
<1>0. /\ object[f] = b /\ PassHolds(x, f, V) /\ merged[x] \in Index
      /\ found[x] \in Index /\ repodata \in Index /\ zst \in Index
    BY DEF Held, ReindexTypeOK, ChannelTypeOK
<1>01. b # None => b # Junk /\ RecordOf(b) \in V
    BY FittingRecords
<1> USE DEF Indexing, Followed, Synced, Repaired, Fixing
<1>1. CASE RepairSelect(x)
  <2>1. /\ rpc[x] = "repair" /\ rpc'[x] \in {"commit", "repairList"}
        /\ UNCHANGED <<channelVars, found, pending, newAbout>>
      BY <1>1, Moved DEF RepairSelect
  <2> QED
      BY <1>0, <2>1 DEF PassHolds, channelVars
<1>2. CASE RepairList(x)
  <2>1. /\ rpc[x] = "repairList" /\ rpc'[x] = "fetch"
        /\ UNCHANGED <<channelVars, found, pending, newAbout>>
      BY <1>2, Moved DEF RepairList
  <2> QED
      BY <1>0, <2>1 DEF PassHolds, channelVars
<1>3. ASSUME NEW g \in Files, RepairFetch(x, g) PROVE Fine
  <2>1. /\ rpc[x] = "fetch" /\ object[g] # None
        /\ UNCHANGED <<channelVars, rpc, pending, newAbout>>
      BY <1>3 DEF RepairFetch
  <2>2. found'[x][f] \in V \cup {None}
    <3>1. CASE g = f
        BY <1>0, <1>01, <1>3, <2>1, <3>1 DEF RepairFetch, ReindexTypeOK, Index
    <3>2. CASE g # f
      <4>1. found'[x][f] = found[x][f]
          BY <1>0, <1>3, <3>2 DEF RepairFetch, ReindexTypeOK, Index
      <4> QED
          BY <1>0, <2>1, <4>1 DEF PassHolds
    <3> QED
        BY <3>1, <3>2
  <2> QED
      BY <1>0, <2>1, <2>2 DEF PassHolds, channelVars
<1>4. CASE RepairFetched(x)
  <2>1. /\ rpc[x] = "fetch" /\ rpc'[x] \in {"commit", "load"}
        /\ UNCHANGED <<channelVars, found, pending, newAbout>>
      BY <1>4, Moved DEF RepairFetched
  <2> QED
      BY <1>0, <2>1 DEF PassHolds, channelVars
<1>5. ASSUME NEW s \in Subdirs, RepairLoad(x, s) PROVE Fine
  <2>1. /\ rpc[x] = "load" /\ rpc'[x] = "fixJson"
        /\ UNCHANGED <<channelVars, found, pending, newAbout>>
        /\ rsection'[x] = s
        /\ merged'[x][f] = IF SubdirOf[f] # s THEN None
                           ELSE IF found[x][f] # None THEN found[x][f]
                           ELSE repodata[f]
      BY <1>5, Moved DEF RepairLoad, ReindexTypeOK
  <2>2. repodata[f] \in V /\ found[x][f] \in V \cup {None}
      BY <1>0, <2>1 DEF PassHolds
  <2>3. s = SubdirOf[f] => merged'[x][f] \in V
      BY <2>1, <2>2
  <2> QED
      BY <1>0, <2>1, <2>3 DEF PassHolds, channelVars
<1>6. CASE FixJson(x)
  <2>1. /\ rpc[x] = "fixJson" /\ rpc'[x] = "fixZst"
        /\ UNCHANGED <<object, zst, shard, rows, about, found, merged, rsection,
                       pending, newAbout>>
        /\ repodata'[f] = IF SubdirOf[f] = rsection[x] THEN merged[x][f]
                          ELSE repodata[f]
      BY <1>0, <1>6, Moved, Spliced DEF FixJson, PutJson
  <2> QED
      BY <1>0, <2>1 DEF PassHolds
<1>7. CASE FixZst(x)
  <2>1. /\ rpc[x] = "fixZst" /\ rpc'[x] = "fixShards"
        /\ UNCHANGED <<object, repodata, shard, rows, about, found, pending,
                       newAbout>>
        /\ zst'[f] = IF SubdirOf[f] = rsection[x] THEN merged[x][f] ELSE zst[f]
      BY <1>0, <1>7, Moved, Spliced DEF FixZst, PutZst
  <2> QED
      BY <1>0, <2>1 DEF PassHolds
<1>8. CASE FixShards(x)
  <2>1. /\ rpc[x] = "fixShards" /\ rpc'[x] \in {"flush", "load"}
        /\ UNCHANGED <<object, repodata, zst, rows, about, found, pending,
                       newAbout>>
        /\ shard'[f] \in {shard[f], Absent}
      BY <1>8, Moved DEF FixShards, DropShards
  <2> QED
      BY <1>0, <2>1 DEF PassHolds
<1>9. CASE RepairFlush(x)
  <2>1. /\ rpc[x] = "flush" /\ rpc'[x] = "commit"
        /\ UNCHANGED <<channelVars, found, newAbout>>
        /\ pending'[x][f] = IF found[x][f] # None THEN found[x][f]
                            ELSE pending[x][f]
      BY <1>9, Moved DEF RepairFlush, Listed, ReindexTypeOK
  <2> QED
      BY <1>0, <2>1 DEF PassHolds, channelVars
<1> QED
    BY <1>1, <1>2, <1>3, <1>4, <1>5, <1>6, <1>7, <1>8, <1>9 DEF RepairStep

\* A step of a pass that reads every index it looks at leaves all that is
\* known of f as it was, for itself and for the others.
LEMMA PassHoldsOn ==
    ASSUME ReindexTypeOK, NEW x \in Passes, PassStep(x), NEW f \in Files,
           NEW b, NEW V, NEW I, Fitting(b, V, I), Held(f, b, V, I),
           missed'[x] = {}
    PROVE  Held(f, b, V, I)'
<1>0. /\ object[f] = b /\ rows[f] \in V /\ (b # None => about[f] = b)
      /\ repodata[f] \in I /\ zst[f] \in I /\ shard[f] \in I \cup {Absent}
      /\ \A y \in Passes : PassHolds(y, f, V)
    BY DEF Held
<1>1. /\ object' = object /\ rows'[f] \in V /\ (b # None => about'[f] = b)
      /\ repodata'[f] \in V \cup {repodata[f]}
      /\ zst'[f] \in V \cup {zst[f]}
      /\ shard'[f] \in V \cup {shard[f], Absent}
      /\ PassHolds(x, f, V)'
  <2>1. CASE Request(x) \/ FailPass(x)
    <3>1. rpc'[x] \in {"begin", "failed"} /\ UNCHANGED channelVars
        BY <2>1, Moved DEF Request, FailPass, Close
    <3> QED
        BY <1>0, <3>1
        DEF PassHolds, Indexing, Followed, Synced, Repaired, Fixing, channelVars
  <2>2. CASE CommitPass(x)
    <3>1. /\ rpc[x] = "commit" /\ rpc'[x] = "done"
          /\ UNCHANGED <<object, repodata, zst, shard>>
          /\ rows'[f] = IF pending[x][f] = Same THEN rows[f] ELSE pending[x][f]
          /\ newAbout[x][f] = Same => about'[f] = about[f]
        BY <2>2, Moved DEF CommitPass, Close, RowsSeenBy
    <3>2. pending[x][f] \in V \cup {Same} /\ newAbout[x][f] = Same
        BY <1>0, <3>1 DEF PassHolds, Synced, Repaired
    <3> QED
        BY <1>0, <3>1, <3>2
        DEF PassHolds, Indexing, Followed, Synced, Repaired, Fixing
  <2>3. CASE IndexStep(x)
      BY <1>0, <2>3, IndexHolds
  <2>4. CASE SyncStep(x)
      BY <1>0, <2>4, SyncHolds DEF channelVars
  <2>5. CASE RepairStep(x)
      BY <1>0, <2>5, RepairHolds
  <2> QED
      BY <2>1, <2>2, <2>3, <2>4, <2>5 DEF PassStep
<1>2. ASSUME NEW y \in Passes, y # x PROVE PassHolds(y, f, V)'
    BY <1>0, <1>1, <1>2, OthersUnmoved DEF Unmoved, PassHolds
<1>3. V \subseteq I
    BY FittingRecords
<1> QED
    BY <1>0, <1>1, <1>2, <1>3 DEF Held

-----------------------------------------------------------------------------
\* What the steps of the jobs do, by what they touch.

\* The task and the workers go on by themselves;
Idles == UNCHANGED <<channelVars, passVars, origin>>

\* or take a step of the job's pass;
Passing(j) ==
    /\ PassStep(j)
    /\ UNCHANGED <<channelVars, origin>> \/ RunPass(j)
    /\ \A s \in Slots : work'[j][s] \in {work[j][s], "none"}

\* or write to the channel.
Writing(j) ==
    \/ Precreate(j)
    \/ \E s \in Slots : Put(j, s) \/ PutBreaks(j, s) \/ Insert(j, s)

LEMMA StepKinds ==
    ASSUME IInv, NEW j \in Passes, JobStep(j)
    PROVE  Idles \/ Passing(j) \/ Writing(j)
<1>1. ASSUME NEW p \in Payloads[j], Enqueue(j, p) PROVE Idles
    BY <1>1 DEF Enqueue, Idles
<1>2. CASE \/ Begin(j) \/ Lose(j) \/ GatherRaises(j) \/ Complete(j)
           \/ CompleteFails(j) \/ Abort(j)
    BY <1>2 DEF Begin, Lose, GatherRaises, Complete, CompleteFails, Abort,
       Idles
<1>3. CASE GatherDone(j)
    BY <1>3 DEF GatherDone, Request, PassStep, Passing
<1>4. CASE RunPass(j)
    BY <1>4 DEF RunPass, PassStep, Passing
<1>5. CASE Die(j)
  <2>1. \A s \in Slots : work'[j][s] = "none"
      BY <1>5 DEF Die, IInv, ImportTypeOK
  <2>2. CASE rpc[j] \in Running
      BY <1>5, <2>1, <2>2 DEF Die, FailPass, PassStep, Passing
  <2>3. CASE rpc[j] \notin Running
      BY <1>5, <2>3 DEF Die, Idles
  <2> QED
      BY <2>2, <2>3
<1>6. ASSUME NEW s \in Slots,
             \/ Take(j, s) \/ Look(j, s) \/ Fetch(j, s) \/ ItemFails(j, s)
             \/ Note(j, s) \/ Save(j, s) \/ SaveFails(j, s)
      PROVE  Idles
    BY <1>6 DEF Take, Look, Fetch, ItemFails, Note, Save, SaveFails, Idles
<1> QED
    BY <1>1, <1>2, <1>3, <1>4, <1>5, <1>6
    DEF JobStep, Task, Worker, Writing

\* A job that writes has no pass yet, and touches no index.
LEMMA Writes ==
    ASSUME ReindexTypeOK, NEW j \in Passes, Stations(j), Writing(j)
    PROVE  /\ UNCHANGED <<passVars, repodata, zst, shard>>
           /\ Active(j)
           /\ ~Returned(j) \/ jpc[j] = "precreate"
           /\ rpc[j] = "idle"
           /\ \A f \in Files : object[f] # None => object'[f] # None
           /\ \A f \in Files : object'[f] # object[f] =>
                  \E s \in Slots : /\ payload[j][s] = f /\ work[j][s] = "put"
                                   /\ Put(j, s) \/ PutBreaks(j, s)
           /\ \A f \in Files : rows'[f] # rows[f] \/ about'[f] # about[f]
                                   \/ origin'[f] # origin[f] =>
                  \E s \in Slots : /\ payload[j][s] = f /\ work[j][s] = "insert"
                                   /\ Insert(j, s)
<1> DEFINE Fine == /\ UNCHANGED <<passVars, repodata, zst, shard>>
                   /\ Active(j)
                   /\ ~Returned(j) \/ jpc[j] = "precreate"
                   /\ rpc[j] = "idle"
<1>1. CASE Precreate(j)
  <2>1. rpc[j] = "idle"
      BY <1>1 DEF Precreate, Stations, Early
  <2> QED
      BY <1>1, <2>1 DEF Precreate, Active, Live
<1>2. ASSUME NEW s \in Slots, Put(j, s) \/ PutBreaks(j, s) \/ Insert(j, s)
      PROVE  Fine
  <2>1. work[j][s] \in {"put", "insert"}
      BY <1>2 DEF Put, PutBreaks, Insert
  <2>2. Active(j) /\ ~Returned(j)
      BY <2>1 DEF Active, Returned, Working
  <2>3. rpc[j] = "idle"
      BY <2>2 DEF Stations
  <2> QED
      BY <1>2, <2>2, <2>3 DEF Put, PutBreaks, Insert
<1>3. ASSUME NEW s \in Slots, Put(j, s) \/ PutBreaks(j, s), NEW f \in Files
      PROVE  /\ object[f] # None => object'[f] # None
             /\ object'[f] # object[f] => payload[j][s] = f
             /\ work[j][s] = "put" /\ UNCHANGED <<rows, about, origin>>
  <2>1. /\ work[j][s] = "put" /\ UNCHANGED <<rows, about, origin>>
        /\ \E c \in {object[payload[j][s]], Junk, Upstream[j][payload[j][s]]} :
               object' = [object EXCEPT ![payload[j][s]] = c]
      BY <1>3 DEF Put, PutBreaks
  <2>2. /\ Upstream[j][payload[j][s]] # None
        /\ Junk # None
      BY <2>1, ValueAssumption DEF Stations, Contents
  <2> QED
      BY <2>1, <2>2 DEF ReindexTypeOK, ChannelTypeOK
<1>4. ASSUME NEW s \in Slots, Insert(j, s), NEW f \in Files
      PROVE  /\ object'[f] = object[f]
             /\ rows'[f] # rows[f] \/ about'[f] # about[f]
                    \/ origin'[f] # origin[f] => payload[j][s] = f
             /\ work[j][s] = "insert"
    BY <1>4 DEF Insert, ReindexTypeOK, ChannelTypeOK
<1>5. CASE Precreate(j)
    BY <1>1, <1>5 DEF Precreate
<1>6. ASSUME NEW s \in Slots, Put(j, s) \/ PutBreaks(j, s)
      PROVE  Fine /\ UNCHANGED <<rows, about, origin>>
    BY <1>2, <1>6 DEF Put, PutBreaks
<1>7. ASSUME NEW s \in Slots, Insert(j, s)
      PROVE  Fine /\ UNCHANGED object
    BY <1>2, <1>7 DEF Insert
<1> QED
    BY <1>1, <1>3, <1>4, <1>5, <1>6, <1>7 DEF Writing, Precreate

\* How an item goes on in one step.
Goes(k, s) ==
    /\ \/ payload'[k] = payload[k]
       \/ jpc[k] = "idle" /\ jpc'[k] = "precreate" /\ work'[k] = work[k]
    /\ Past(k, s)' => Past(k, s) \/ Insert(k, s)
    /\ \/ work'[k][s] \in {work[k][s], "none", "end", "raised"}
       \/ work'[k][s] \in {"note", "save"} /\ work[k][s] \in Working
       \/ work'[k][s] = "wait" /\ jpc[k] = "begin" /\ payload[k][s] # None
       \/ Take(k, s) \/ Look(k, s) \/ Fetch(k, s) \/ Put(k, s)

\* What is on record of an item stays so unless its row or workers change it.
LEMMA SameRecord ==
    ASSUME NEW k \in Passes, NEW s \in Slots, payload'[k] = payload[k],
           work'[k][s] \in {work[k][s], "none", "end", "raised"},
           good'[k] \subseteq good[k], progress'[k] \subseteq progress[k],
           job'[k] # None => job[k] # None /\ job'[k].results = job[k].results
    PROVE  Goes(k, s)
BY DEF Goes, Past

LEMMA OthersGo ==
    ASSUME IInv, NEW j \in Passes, JobStep(j), NEW k \in Passes \ {j}
    PROVE  /\ job'[k] = job[k] /\ jpc'[k] = jpc[k] /\ payload'[k] = payload[k]
           /\ work'[k] = work[k] /\ good'[k] = good[k]
           /\ progress'[k] = progress[k]
<1> DEFINE Same1 == /\ job'[k] = job[k] /\ jpc'[k] = jpc[k]
                    /\ payload'[k] = payload[k]
                    /\ work'[k] = work[k] /\ good'[k] = good[k]
                    /\ progress'[k] = progress[k]
<1> USE DEF IInv, ImportTypeOK
<1>1. ASSUME NEW p \in Payloads[j], Enqueue(j, p) PROVE Same1
    BY <1>1 DEF Enqueue
<1>2. CASE Task(j)
  <2>1. CASE Begin(j) \/ Complete(j) \/ Abort(j)
    <3>1. job'[k] = job[k]
        BY <2>1, StatusSet DEF Begin, Complete, Abort
    <3> QED
        BY <2>1, <3>1 DEF Begin, Complete, Abort
  <2>2. CASE \/ Precreate(j) \/ Lose(j) \/ GatherDone(j) \/ RunPass(j)
             \/ GatherRaises(j) \/ CompleteFails(j)
      BY <2>2 DEF Precreate, Lose, GatherDone, RunPass, GatherRaises,
         CompleteFails
  <2> QED
      BY <1>2, <2>1, <2>2 DEF Task
<1>3. CASE Die(j)
    BY <1>3 DEF Die
<1>4. ASSUME NEW s \in Slots, Worker(j, s) PROVE Same1
    BY <1>4 DEF Worker, Take, Look, Fetch, Put, PutBreaks, Insert, ItemFails,
       Note, Save, SaveFails
<1> QED
    BY <1>1, <1>2, <1>3, <1>4 DEF JobStep

\* The steps of a worker, for its own item and for the others of its job.
LEMMA WorkerGoes ==
    ASSUME IInv, NEW j \in Passes, NEW t \in Slots, Worker(j, t),
           NEW s \in Slots
    PROVE  Goes(j, s)
<1> USE DEF IInv, ImportTypeOK
<1>1. CASE Take(j, t) \/ Look(j, t) \/ Fetch(j, t) \/ Put(j, t)
  <2>1. /\ UNCHANGED <<job, payload, good, progress>>
        /\ s # t => work'[j][s] = work[j][s]
      BY <1>1 DEF Take, Look, Fetch, Put
  <2>2. CASE s = t
      BY <1>1, <2>1, <2>2 DEF Goes, Past
  <2>3. CASE s # t
      BY <2>1, <2>3, SameRecord
  <2> QED
      BY <2>2, <2>3
<1>2. CASE PutBreaks(j, t) \/ ItemFails(j, t)
  <2>1. /\ UNCHANGED <<job, payload, good, progress>>
        /\ work[j][t] \in Working /\ work'[j][t] = "note"
        /\ s # t => work'[j][s] = work[j][s]
      BY <1>2 DEF PutBreaks, ItemFails, Working
  <2> QED
      BY <2>1 DEF Goes, Past
<1>3. CASE Insert(j, t)
  <2>1. /\ UNCHANGED <<job, payload, progress>>
        /\ good'[j] = good[j] \cup {t}
        /\ work[j][t] \in Working /\ work'[j][t] = "note"
        /\ s # t => work'[j][s] = work[j][s]
      BY <1>3 DEF Insert, Working
  <2>2. s = t => Insert(j, s)
      BY <1>3
  <2> QED
      BY <2>1, <2>2 DEF Goes, Past
<1>4. CASE Note(j, t)
  <2>1. /\ UNCHANGED <<job, payload, good>>
        /\ work[j][t] \in Working /\ work'[j][t] \in {"end", "save"}
        /\ s # t => work'[j][s] = work[j][s]
        /\ progress'[j] # progress[j] =>
              job[j] # None /\ progress'[j] = job[j].results
      BY <1>4 DEF Note, Working
  <2> QED
      BY <2>1 DEF Goes, Past
<1>5. CASE Save(j, t)
  <2>1. PICK outcome \in {"stored", "failed"} :
            /\ outcome = "stored" => t \in good[j]
            /\ job' = [job EXCEPT ![j].results =
                          progress[j] \cup {<<t, outcome>>}]
      BY <1>5 DEF Save
  <2>2. /\ UNCHANGED <<payload, good>> /\ progress'[j] = {}
        /\ work'[j][t] = "end"
        /\ s # t => work'[j][s] = work[j][s]
        /\ job[j] \in JobRow
      BY <1>5 DEF Save
  <2>3. job'[j].results = progress[j] \cup {<<t, outcome>>}
      BY <2>1, <2>2 DEF JobRow
  <2>4. Past(j, s)' => Past(j, s)
      BY <2>1, <2>2, <2>3 DEF Past
  <2>5. work'[j][s] \in {work[j][s], "end"} /\ payload'[j] = payload[j]
      BY <2>2
  <2> QED
      BY <2>4, <2>5 DEF Goes
<1>6. CASE SaveFails(j, t)
  <2>1. /\ UNCHANGED <<job, payload>>
        /\ work[j][t] \in Working /\ work'[j][t] \in {"note", "raised"}
        /\ s # t => work'[j][s] = work[j][s]
        /\ good'[j] \subseteq good[j] /\ progress'[j] \subseteq progress[j]
      BY <1>6 DEF SaveFails, Working
  <2> QED
      BY <2>1 DEF Goes, Past
<1> QED
    BY <1>1, <1>2, <1>3, <1>4, <1>5, <1>6 DEF Worker

LEMMA EveryItemGoes ==
    ASSUME IInv, NEW j \in Passes, JobStep(j),
           NEW k \in Passes, NEW s \in Slots
    PROVE  Goes(k, s)
<1> USE DEF IInv, ImportTypeOK
<1>1. CASE k # j
    BY <1>1, OthersGo, SameRecord
<1>2. ASSUME NEW p \in Payloads[j], Enqueue(j, p) PROVE Goes(j, s)
  <2>1. /\ jpc[j] = "idle" /\ jpc'[j] = "precreate"
        /\ UNCHANGED <<work, good, progress>>
        /\ job'[j].results = {}
      BY <1>2 DEF Enqueue
  <2> QED
      BY <2>1 DEF Goes, Past
<1>3. ASSUME Begin(j) PROVE Goes(j, s)
  <2>1. /\ job'[j] = None <=> job[j] = None
        /\ job[j] # None => job'[j].results = job[j].results
      BY <1>3, StatusSet DEF Begin
  <2>2. CASE job[j] = None
    <3>1. UNCHANGED <<payload, work, good, progress>>
        BY <1>3, <2>2 DEF Begin
    <3> QED
        BY <2>1, <3>1 DEF Goes, Past
  <2>3. CASE job[j] # None
    <3>1. /\ work'[j][s] = IF payload[j][s] = None THEN "none" ELSE "wait"
          /\ jpc[j] = "begin" /\ UNCHANGED <<payload, good, progress>>
        BY <1>3, <2>3 DEF Begin
    <3>2. payload' = payload /\ (Past(j, s)' => Past(j, s))
        BY <2>1, <2>3, <3>1 DEF Past
    <3> QED
        BY <3>1, <3>2 DEF Goes
  <2> QED
      BY <2>2, <2>3
<1>4. ASSUME Complete(j) \/ Abort(j) PROVE Goes(j, s)
  <2>1. /\ job'[j] = None <=> job[j] = None
        /\ job[j] # None => job'[j].results = job[j].results
      BY <1>4, StatusSet DEF Complete, Abort
  <2>2. UNCHANGED <<payload, work, good, progress>>
      BY <1>4 DEF Complete, Abort
  <2> QED
      BY <2>1, <2>2 DEF Goes, Past
<1>5. ASSUME \/ Precreate(j) \/ Lose(j) \/ GatherDone(j) \/ RunPass(j)
             \/ GatherRaises(j) \/ CompleteFails(j)
      PROVE  Goes(j, s)
    BY <1>5, SameRecord DEF Precreate, Lose, GatherDone, RunPass,
       GatherRaises, CompleteFails
<1>6. ASSUME Die(j) PROVE Goes(j, s)
    BY <1>6, SameRecord DEF Die
<1> QED
    BY <1>1, <1>2, <1>3, <1>4, <1>5, <1>6, WorkerGoes DEF JobStep, Task

\* Only the sync misses an index, and from then on a pass is past it.
Late == {"sync"} \cup Synced \cup {"done", "failed"}

LEMMA PassMisses ==
    ASSUME ReindexTypeOK, NEW x \in Passes, PassStep(x)
    PROVE  \/ missed' = missed /\ (rpc[x] \in Late => rpc'[x] \in Late)
           \/ rpc[x] = "read" /\ rpc'[x] = "sync"
<1> DEFINE Fine == missed' = missed /\ (rpc[x] \in Late => rpc'[x] \in Late)
<1> USE DEF Late, Synced, Repaired, Fixing
<1>1. CASE Request(x)
    BY <1>1, Moved DEF Request
<1>2. CASE IndexStep(x)
  <2>1. missed' = missed
      BY <1>2 DEF IndexStep, SelectKnown, ListObjects, ScanArchive, ScanDone,
         RattlerScan, IndexJson, IndexZst, IndexShards, IndexDone
  <2>2. rpc[x] \notin Late
      BY <1>2 DEF IndexStep, SelectKnown, ListObjects, ScanArchive, ScanDone,
         RattlerScan, IndexJson, IndexZst, IndexShards, IndexDone
  <2> QED
      BY <2>1, <2>2
<1>3. CASE SyncStep(x)
  <2>1. CASE SyncSelect(x)
      BY <2>1 DEF SyncSelect
  <2>2. CASE SyncRead(x)
      BY <2>2, Moved DEF SyncRead
  <2>3. CASE SyncFlush(x)
      BY <2>3, Moved DEF SyncFlush
  <2>4. ASSUME NEW f \in Files, CaptureAbout(x, f) PROVE Fine
      BY <2>4 DEF CaptureAbout
  <2>5. CASE CaptureDone(x)
      BY <2>5, Moved DEF CaptureDone
  <2> QED
      BY <1>3, <2>1, <2>2, <2>3, <2>4, <2>5 DEF SyncStep
<1>4. CASE RepairStep(x)
  <2>1. CASE RepairSelect(x)
    <3>1. rpc'[x] \in {"commit", "repairList"} /\ missed' = missed
        BY <2>1, Moved DEF RepairSelect
    <3> QED
        BY <3>1
  <2>2. CASE RepairList(x)
      BY <2>2, Moved DEF RepairList
  <2>3. ASSUME NEW f \in Files, RepairFetch(x, f) PROVE Fine
      BY <2>3 DEF RepairFetch
  <2>4. CASE RepairFetched(x)
    <3>1. rpc'[x] \in {"commit", "load"} /\ missed' = missed
        BY <2>4, Moved DEF RepairFetched
    <3> QED
        BY <3>1
  <2>5. ASSUME NEW s \in Subdirs, RepairLoad(x, s) PROVE Fine
      BY <2>5, Moved DEF RepairLoad
  <2>6. CASE FixJson(x)
      BY <2>6, Moved DEF FixJson
  <2>7. CASE FixZst(x)
      BY <2>7, Moved DEF FixZst
  <2>8. CASE FixShards(x)
    <3>1. rpc'[x] \in {"flush", "load"} /\ missed' = missed
        BY <2>8, Moved DEF FixShards
    <3> QED
        BY <3>1
  <2>9. CASE RepairFlush(x)
      BY <2>9, Moved DEF RepairFlush
  <2> QED
      BY <1>4, <2>1, <2>2, <2>3, <2>4, <2>5, <2>6, <2>7, <2>8, <2>9
      DEF RepairStep
<1>5. CASE CommitPass(x) \/ FailPass(x)
  <2>1. rpc'[x] \in {"done", "failed"} /\ missed' = missed
      BY <1>5, Moved DEF CommitPass, FailPass, Close
  <2> QED
      BY <2>1
<1> QED
    BY <1>1, <1>2, <1>3, <1>4, <1>5 DEF PassStep

\* Only its own job's step moves a pass.
LEMMA OtherPassesStay ==
    ASSUME IInv, ReindexTypeOK, NEW j \in Passes, Stations(j), JobStep(j),
           NEW k \in Passes \ {j}
    PROVE  Unmoved(k) /\ backend' = backend
<1>1. CASE Idles
    BY <1>1 DEF Idles, passVars, Unmoved
<1>2. CASE Passing(j)
    BY <1>2, OthersUnmoved DEF Passing
<1>3. CASE Writing(j)
    BY <1>3, Writes DEF passVars, Unmoved
<1> QED
    BY <1>1, <1>2, <1>3, StepKinds

\* No job removes an archive.
LEMMA ArchivesStay ==
    ASSUME IInv, ReindexTypeOK, NEW j \in Passes, Stations(j), JobStep(j),
           NEW f \in Files, object[f] # None
    PROVE  object'[f] # None
<1>1. CASE Idles
    BY <1>1 DEF Idles, channelVars
<1>2. CASE Passing(j)
    BY <1>2, PassWrites DEF Passing
<1>3. CASE Writing(j)
    BY <1>3, Writes
<1> QED
    BY <1>1, <1>2, <1>3, StepKinds

\* How the task of a job and its pass go on together.
LEMMA TaskGoes ==
    ASSUME IInv, ReindexTypeOK, NEW j \in Passes, Stations(j), JobStep(j)
    PROVE  /\ jpc'[j] \in Early => jpc[j] \in Early /\ work'[j] = work[j]
           /\ rpc'[j] \in Running => jpc'[j] = "index"
           /\ rpc'[j] # "idle" => /\ jpc'[j] \notin Early \cup {"gather"}
                                  /\ Returned(j)'
<1> DEFINE Fine == /\ jpc'[j] \in Early => jpc[j] \in Early /\ work'[j] = work[j]
                   /\ rpc'[j] \in Running => jpc'[j] = "index"
                   /\ rpc'[j] # "idle" =>
                         jpc'[j] \notin Early \cup {"gather"} /\ Returned(j)'
<1>0. /\ JobInv(j)
      /\ rpc[j] # "idle" =>
            jpc[j] \notin Early \cup {"gather"} /\ Returned(j)
      /\ rpc[j] \in Running => jpc[j] = "index"
      /\ "idle" \notin Running
    BY DEF IInv, Stations, Running
<1> USE DEF Early
<1>1. ASSUME NEW label, JobTo(j, label) PROVE jpc'[j] = label
    BY <1>1 DEF IInv, ImportTypeOK
<1>2. ASSUME NEW p \in Payloads[j], Enqueue(j, p) PROVE Fine
  <2>1. /\ jpc[j] = "idle" /\ jpc'[j] = "precreate"
        /\ UNCHANGED <<rpc, work>>
      BY <1>1, <1>2 DEF Enqueue, passVars
  <2> QED
      BY <1>0, <2>1
<1>3. CASE Precreate(j)
  <2>1. /\ jpc[j] = "precreate" /\ jpc'[j] = "begin"
        /\ UNCHANGED <<rpc, work>>
      BY <1>1, <1>3 DEF Precreate, passVars
  <2> QED
      BY <1>0, <2>1
<1>4. CASE Begin(j)
  <2>1. /\ jpc[j] = "begin" /\ jpc'[j] \in {"ended", "gather"}
        /\ UNCHANGED rpc
      BY <1>1, <1>4 DEF Begin, passVars
  <2> QED
      BY <1>0, <2>1
<1>5. CASE Lose(j) \/ GatherRaises(j) \/ Abort(j)
  <2>1. /\ jpc[j] # "index" /\ jpc'[j] \in {"dead", "abort", "ended"}
        /\ UNCHANGED <<rpc, work>>
      BY <1>1, <1>5 DEF Lose, GatherRaises, Abort, passVars
  <2> QED
      BY <1>0, <2>1 DEF Returned
<1>6. CASE Complete(j) \/ CompleteFails(j)
  <2>1. /\ rpc[j] \notin Running /\ jpc'[j] \in {"abort", "ended"}
        /\ UNCHANGED <<rpc, work>>
      BY <1>1, <1>6 DEF Complete, CompleteFails, passVars, Running
  <2> QED
      BY <1>0, <2>1 DEF Returned
<1>7. CASE GatherDone(j)
  <2>1. Returned(j) /\ jpc'[j] = "index" /\ UNCHANGED work
      BY <1>1, <1>7 DEF GatherDone, Returned
  <2> QED
      BY <2>1 DEF Returned
<1>8. CASE RunPass(j)
  <2>1. /\ jpc[j] = "index" /\ UNCHANGED <<jpc, work>>
      BY <1>8 DEF RunPass
  <2>2. Returned(j)
      BY <1>0, <2>1 DEF JobInv, Phases
  <2> QED
      BY <2>1, <2>2 DEF Returned
<1>9. CASE Die(j)
  <2>1. /\ jpc'[j] = "dead" /\ \A s \in Slots : work'[j][s] = "none"
      BY <1>1, <1>9 DEF Die, IInv, ImportTypeOK
  <2>2. rpc'[j] \notin Running
    <3>1. CASE rpc[j] \in Running
      <4>1. rpc'[j] = "failed"
          BY <1>9, <3>1, Moved DEF Die, Close
      <4> QED
          BY <4>1 DEF Running
    <3>2. CASE rpc[j] \notin Running
        BY <1>9, <3>2 DEF Die, passVars
    <3> QED
        BY <3>1, <3>2
  <2> QED
      BY <2>1, <2>2 DEF Returned
<1>10. ASSUME NEW s \in Slots, Worker(j, s) PROVE Fine
  <2>1. work[j][s] \in Working \cup {"wait"} /\ UNCHANGED <<jpc, rpc>>
      BY <1>10 DEF Worker, Take, Look, Fetch, Put, PutBreaks, Insert,
         ItemFails, Note, Save, SaveFails, Working, passVars
  <2>2. ~Returned(j) /\ jpc[j] \notin Early
      BY <1>0, <2>1 DEF Returned, JobInv, Phases, Working
  <2> QED
      BY <1>0, <2>1, <2>2
<1> QED
    BY <1>2, <1>3, <1>4, <1>5, <1>6, <1>7, <1>8, <1>9, <1>10
    DEF JobStep, Task

\* What a pass has missed.
LEMMA StepMisses ==
    ASSUME IInv, ReindexTypeOK, NEW j \in Passes, Stations(j), JobStep(j)
    PROVE  /\ rpc'[j] \in Running \cup {"idle", "done", "failed"}
           /\ rpc'[j] \notin Late => missed'[j] = {}
           /\ missed'[j] = {} => missed[j] = {}
<1>0. /\ rpc[j] \in Running \cup {"idle", "done", "failed"}
      /\ rpc[j] \notin Late => missed[j] = {}
    BY DEF Stations, Late
<1>1. CASE Idles
    BY <1>0, <1>1 DEF Idles, passVars
<1>2. CASE Passing(j)
  <2>1. PassStep(j)
      BY <1>2 DEF Passing
  <2>2. rpc'[j] \in Running \cup {"idle", "done", "failed"}
      BY <2>1, PassLeadsOn
  <2>3. "read" \notin Late /\ "sync" \in Late
      BY DEF Late, Synced, Repaired, Fixing
  <2> QED
      BY <1>0, <2>1, <2>2, <2>3, PassMisses
<1>3. CASE Writing(j)
    BY <1>0, <1>3, Writes DEF passVars
<1> QED
    BY <1>1, <1>2, <1>3, StepKinds

-----------------------------------------------------------------------------
\* A step of a job keeps the parts of the invariant.

\* The items that are early, or on record, by how they go on.
LEMMA ItemStations ==
    ASSUME IInv, ReindexTypeOK, NEW j \in Passes, JobStep(j),
           \A k \in Passes : Stations(k), NEW k \in Passes, NEW s \in Slots
    PROVE  /\ jpc'[k] \in Early => work'[k][s] = "none" /\ ~Past(k, s)'
           /\ Past(k, s)' =>
                 /\ work'[k][s] \notin Storing \cup {"wait", "look"}
                 /\ payload'[k][s] # None
           /\ work'[k][s] \in {"put", "insert"} =>
                 Upstream[k][payload'[k][s]] \in Builds
           /\ work'[k][s] = "insert" => object'[payload'[k][s]] # None
           /\ work'[k][s] \in Working \cup {"wait"} => payload'[k][s] # None
<1> USE DEF Storing, Working
<1>0. /\ Goes(k, s)
      /\ jpc'[k] \in Early => jpc[k] \in Early /\ work'[k] = work[k]
      /\ jpc[k] \in Early => work[k][s] = "none" /\ ~Past(k, s)
      /\ Past(k, s) => /\ work[k][s] \notin Storing \cup {"wait", "look"}
                       /\ payload[k][s] # None
      /\ work[k][s] \in {"put", "insert"} =>
            Upstream[k][payload[k][s]] \in Builds
      /\ work[k][s] = "insert" => object[payload[k][s]] # None
      /\ work[k][s] \in Working \cup {"wait"} => payload[k][s] # None
  <2>1. jpc'[k] \in Early => jpc[k] \in Early /\ work'[k] = work[k]
      BY TaskGoes, OthersGo
  <2> QED
      BY <2>1, EveryItemGoes DEF Stations
<1>1. Insert(k, s) => work[k][s] = "insert" /\ work'[k][s] = "note"
    BY DEF Insert, IInv, ImportTypeOK
<1>2. CASE work'[k][s] = work[k][s] /\ payload'[k] # payload[k]
  <2>1. jpc[k] = "idle"
      BY <1>0, <1>2 DEF Goes
  <2> QED
      BY <1>0, <1>1, <1>2, <2>1 DEF Goes, Early
<1>3. CASE work'[k][s] = work[k][s] /\ payload'[k] = payload[k]
  <2>1. work[k][s] = "insert" => object'[payload[k][s]] # None
    <3>1. payload[k][s] \in Files \cup {None}
        BY DEF IInv, ImportTypeOK
    <3> QED
        BY <1>0, <3>1, ArchivesStay
  <2> QED
      BY <1>0, <1>1, <1>3, <2>1 DEF Goes
<1>4. CASE work'[k][s] # work[k][s]
  <2>1. payload'[k] = payload[k] /\ jpc'[k] \notin Early
    <3>1. work'[k] # work[k]
        BY <1>4
    <3> QED
        BY <1>0, <1>4, <3>1 DEF Goes
  <2>2. CASE work'[k][s] \in {"none", "end", "raised"}
    <3>1. ~Insert(k, s)
        BY <1>1, <2>2
    <3>2. Past(k, s)' => Past(k, s)
        BY <1>0, <3>1 DEF Goes
    <3> QED
        BY <1>0, <2>1, <2>2, <3>2
  <2>3. CASE work'[k][s] \in {"note", "save"} /\ work[k][s] \in Working
      BY <1>0, <2>1, <2>3
  <2>4. CASE work'[k][s] = "wait" /\ jpc[k] = "begin" /\ payload[k][s] # None
    <3>1. work[k][s] = "none" /\ ~Past(k, s) /\ ~Insert(k, s)
        BY <1>0, <1>1, <2>4 DEF Early
    <3> QED
        BY <1>0, <2>1, <2>4, <3>1 DEF Goes
  <2>5. CASE Take(k, s) \/ Look(k, s) \/ Fetch(k, s) \/ Put(k, s)
    <3>1. /\ work[k][s] \in {"wait", "look", "fetch", "put"}
          /\ work[k][s] = "wait" => work'[k][s] = "look"
          /\ work[k][s] = "look" => work'[k][s] \in {"fetch", "note"}
          /\ work[k][s] = "fetch" =>
                /\ work'[k][s] = "put"
                /\ Upstream[k][payload[k][s]] \in Builds
          /\ work[k][s] = "put" => work'[k][s] = "insert"
        BY <2>5 DEF Take, Look, Fetch, Put, IInv, ImportTypeOK
    <3>2. ~Past(k, s) /\ ~Insert(k, s)
        BY <1>0, <1>1, <3>1
    <3>3. CASE work[k][s] = "put"
      <4>1. Put(k, s) /\ payload[k][s] \in Files
          BY <1>0, <2>5, <3>3 DEF Take, Look, Fetch, IInv, ImportTypeOK
      <4>2. object'[payload[k][s]] = Upstream[k][payload[k][s]]
          BY <4>1 DEF Put, ReindexTypeOK, ChannelTypeOK
      <4> QED
          BY <1>0, <2>1, <3>1, <3>2, <3>3, <4>2, ValueAssumption
          DEF Goes, Contents
    <3> QED
        BY <1>0, <2>1, <3>1, <3>2, <3>3 DEF Goes
  <2> QED
      BY <1>0, <1>4, <2>2, <2>3, <2>4, <2>5 DEF Goes
<1> QED
    BY <1>2, <1>3, <1>4

LEMMA StationsStep ==
    ASSUME IInv, ReindexTypeOK, NEW j \in Passes, JobStep(j),
           \A k \in Passes : Stations(k), NEW k \in Passes
    PROVE  Stations(k)'
<1>1. /\ rpc'[k] \in Running => jpc'[k] = "index"
      /\ rpc'[k] \in Running \cup {"idle", "done", "failed"}
      /\ rpc'[k] # "idle" =>
            jpc'[k] \notin Early \cup {"gather"} /\ Returned(k)'
      /\ rpc'[k] \notin {"sync"} \cup Synced \cup {"done", "failed"} =>
            missed'[k] = {}
  <2>1. CASE k = j
      BY <2>1, TaskGoes, StepMisses DEF Late
  <2>2. CASE k # j
    <3>1. /\ rpc'[k] = rpc[k] /\ missed'[k] = missed[k]
          /\ jpc'[k] = jpc[k] /\ work'[k] = work[k]
        BY <2>2, OtherPassesStay, OthersGo DEF Unmoved
    <3> QED
        BY <3>1 DEF Stations, Returned
  <2> QED
      BY <2>1, <2>2
<1> QED
    BY <1>1, ItemStations DEF Stations

\* Who changes the channel is at work.
LEMMA ChangersWork ==
    ASSUME IInv, ReindexTypeOK, NEW j \in Passes, Stations(j), JobStep(j),
           channelVars' # channelVars
    PROVE  /\ Active(j)
           /\ \/ RunPass(j) /\ PassStep(j)
              \/ Writing(j) /\ rpc[j] = "idle" /\ UNCHANGED passVars
<1>1. ~Idles
    BY DEF Idles
<1>2. CASE Passing(j)
    BY <1>2 DEF Passing, RunPass, Active, Live
<1>3. CASE Writing(j)
    BY <1>3, Writes DEF Active, Live
<1> QED
    BY <1>1, <1>2, <1>3, StepKinds

LEMMA ApartStep ==
    ASSUME IInv, Course, Apart, NEW j \in Passes, JobStep(j),
           \A k \in Passes : Stations(k), Course'
    PROVE  Apart'
<1>0. ReindexTypeOK /\ alone' = Undisturbed(j) /\ Beside
    BY DEF Course, JobStep
<1> SUFFICES ASSUME NEW k \in Passes \ beside'
             PROVE  /\ Active(k)' => \A m \in Passes \ {k} : ~Active(m)'
                    /\ rpc'[k] \in Running => k \in alone'
    BY DEF Apart
<1>1. Active(k)' => \A m \in Passes \ {k} : ~Active(m)'
    BY <1>0 DEF Beside
<1>2. k \notin beside
    BY <1>0 DEF Beside
<1>3. ASSUME rpc'[k] \in Running PROVE k \in alone'
  <2>1. CASE k # j
    <3>1. rpc[k] \in Running
        BY <1>0, <1>3, <2>1, OtherPassesStay DEF Unmoved
    <3>2. k \in alone /\ ~Active(j)
        BY <1>2, <2>1, <3>1 DEF Apart, Stations, Active, Live
    <3>3. channelVars' = channelVars
        BY <1>0, <3>2, ChangersWork
    <3> QED
        BY <1>0, <3>2, <3>3 DEF Undisturbed
  <2>2. CASE k = j
    <3>1. CASE rpc[k] \in Running
        BY <1>0, <1>2, <2>2, <3>1 DEF Apart, Undisturbed
    <3>2. CASE rpc[k] \notin Running
      <4>1. PassStep(j)
          BY <1>0, <1>3, <2>2, <3>2, StepKinds, Writes
          DEF Idles, Passing, passVars
      <4>2. rpc'[j] = "begin"
          BY <1>0, <2>2, <3>2, <4>1, PassLeadsOn
      <4> QED
          BY <1>0, <2>2, <4>2 DEF Undisturbed
    <3> QED
        BY <3>1, <3>2
  <2> QED
      BY <2>1, <2>2
<1> QED
    BY <1>1, <1>3

\* A step that leaves the passes alone, and those undisturbed with the
\* channel as it was.
LEMMA CourseKept ==
    ASSUME Course, ReindexTypeOK', UNCHANGED <<passVars, shard>>,
           \A y \in alone' : /\ y \in alone => channelVars' = channelVars
                             /\ y \notin alone => rpc[y] = "begin"
    PROVE  Course'
<1>1. ShardsFit' /\ Sharding'
    BY DEF Course, ShardsFit, Sharding, passVars
<1>2. ASSUME NEW y \in alone'
      PROVE  rpc'[y] \in Running \cup {"done", "failed"} /\ OnCourse(y)'
  <2>0. y \in Passes
      BY <1>2 DEF ReindexTypeOK
  <2>1. CASE y \in alone
    <3>1. channelVars' = channelVars
        BY <1>2, <2>1
    <3> QED
        BY <2>0, <2>1, <3>1, LeftOnCourse DEF Course, passVars
  <2>2. CASE y \notin alone
    <3>1. rpc'[y] = "begin"
        BY <1>2, <2>2 DEF passVars
    <3> QED
        BY <2>0, <3>1, NothingYet DEF Running
  <2> QED
      BY <2>1, <2>2
<1> QED
    BY <1>1, <1>2 DEF Course

LEMMA CourseStep ==
    ASSUME IInv, Course, NEW j \in Passes, Stations(j), JobStep(j)
    PROVE  Course'
<1>0. ReindexTypeOK /\ alone' = Undisturbed(j)
    BY DEF Course, JobStep
<1>1. alone' \subseteq Passes
    BY <1>0 DEF Undisturbed, ReindexTypeOK
<1>2. CASE Passing(j)
  <2>1. ReindexNext
      BY <1>0, <1>2 DEF Passing, ReindexNext
  <2> QED
      BY <2>1, StepOnCourse
<1>3. CASE UNCHANGED <<passVars, channelVars>>
  <2>1. ReindexTypeOK'
      BY <1>0, <1>1, <1>3
      DEF ReindexTypeOK, ChannelTypeOK, passVars, channelVars
  <2>2. \A y \in alone' : y \in alone \/ rpc[y] = "begin"
      BY <1>0, <1>3 DEF Undisturbed, passVars
  <2> QED
      BY <1>3, <2>1, <2>2, CourseKept DEF channelVars
<1>4. CASE Writing(j) /\ channelVars' # channelVars
  <2>1. rpc[j] = "idle" /\ UNCHANGED <<passVars, shard, repodata, zst>>
      BY <1>0, <1>4, Writes
  <2>2. alone' = {}
    <3>1. j \notin alone /\ rpc'[j] # "begin"
        BY <2>1 DEF Course, Running, passVars
    <3> QED
        BY <1>0, <1>4, <3>1 DEF Undisturbed
  <2>3. ChannelTypeOK'
    <3>1. ChannelTypeOK /\ UNCHANGED <<repodata, zst, shard>>
        BY <1>0, <2>1 DEF ReindexTypeOK
    <3>2. CASE Precreate(j)
      <4>1. PackagesOf({payload[j][s] : s \in Slots} \ {None}) \subseteq Packages
          BY FileAssumption DEF PackagesOf, IInv, ImportTypeOK
      <4> QED
          BY <3>1, <3>2, <4>1 DEF Precreate, ChannelTypeOK
    <3>3. ASSUME NEW s \in Slots, Put(j, s) \/ PutBreaks(j, s)
          PROVE  ChannelTypeOK'
      <4>1. /\ work[j][s] = "put" /\ UNCHANGED <<packages, rows, about>>
            /\ \E c \in {object[payload[j][s]], Junk,
                         Upstream[j][payload[j][s]]} :
                   object' = [object EXCEPT ![payload[j][s]] = c]
          BY <3>3 DEF Put, PutBreaks
      <4>2. /\ Upstream[j][payload[j][s]] \in Builds /\ payload[j][s] \in Files
          BY <4>1 DEF Stations, Working, IInv, ImportTypeOK
      <4> QED
          BY <3>1, <4>1, <4>2 DEF ChannelTypeOK, Contents
    <3>4. ASSUME NEW s \in Slots, Insert(j, s) PROVE ChannelTypeOK'
      <4>1. work[j][s] = "insert"
          BY <3>4 DEF Insert
      <4>2. /\ Upstream[j][payload[j][s]] \in Builds /\ payload[j][s] \in Files
          BY <4>1 DEF Stations, Working, IInv, ImportTypeOK
      <4>3. [sha |-> NoHash, size |-> SizeOf[Upstream[j][payload[j][s]]]]
               \in Record
          BY <4>2, SizeAssumption DEF Record, Contents
      <4>4. rows' \in Index
          BY <3>1, <3>4, <4>2, <4>3 DEF Insert, ChannelTypeOK, Index
      <4>5. about' \in [Files -> Contents \cup {Unread}]
        <5>1. about' = [about EXCEPT ![payload[j][s]] =
                           Upstream[j][payload[j][s]]]
            BY <3>4 DEF Insert
        <5> QED
            BY <3>1, <4>2, <5>1 DEF ChannelTypeOK, Contents
      <4>6. packages' \subseteq Packages /\ object' = object
        <5>1. /\ packages' = packages \cup {PackageOf[payload[j][s]]}
              /\ object' = object
            BY <3>4 DEF Insert
        <5> QED
            BY <3>1, <4>2, <5>1, FileAssumption DEF ChannelTypeOK
      <4> QED
          BY <3>1, <4>4, <4>5, <4>6 DEF ChannelTypeOK
    <3> QED
        BY <1>4, <3>2, <3>3, <3>4 DEF Writing
  <2>4. ReindexTypeOK'
      BY <1>0, <1>1, <2>1, <2>3 DEF ReindexTypeOK, passVars
  <2> QED
      BY <2>1, <2>2, <2>4, CourseKept
<1> QED
    BY <1>0, <1>2, <1>3, <1>4, StepKinds, Writes DEF Idles

-----------------------------------------------------------------------------
\* A step of a job keeps what the channel and the passes hold.

LEMMA HeldOn ==
    ASSUME NEW f \in Files, NEW b, NEW V, NEW I, Held(f, b, V, I),
           UNCHANGED passVars,
           object'[f] = object[f], repodata'[f] = repodata[f],
           zst'[f] = zst[f], shard'[f] = shard[f], rows'[f] = rows[f],
           b # None => about'[f] = about[f]
    PROVE  Held(f, b, V, I)'
<1>1. ASSUME NEW x \in Passes, PassHolds(x, f, V) PROVE PassHolds(x, f, V)'
    BY <1>1 DEF PassHolds, passVars
<1> QED
    BY <1>1 DEF Held

\* The pass of a job that runs by itself is undisturbed, and the others stand
\* still.
LEMMA ByItself ==
    ASSUME ReindexTypeOK, Apart, NEW k \in Passes \ beside, Active(k),
           \A x \in Passes : Stations(x), NEW x \in Passes \ {k}
    PROVE  /\ ~Active(x) /\ rpc[x] \in {"idle", "done", "failed"}
           /\ \A s \in Slots : work[x][s] \notin Storing
<1>1. ~Active(x)
    BY DEF Apart
<1>2. rpc[x] \notin Running
    BY <1>1 DEF Stations, Active, Live
<1>3. \A s \in Slots : work[x][s] \notin Storing
    BY <1>1 DEF Active, Storing, Working
<1> QED
    BY <1>1, <1>2, <1>3 DEF Stations

\* Nothing of a pass that does not run is said.
LEMMA RestHolds ==
    ASSUME NEW x \in Passes, rpc[x] \in {"idle", "done", "failed"},
           NEW f, NEW V
    PROVE  PassHolds(x, f, V)
BY DEF PassHolds, Indexing, Followed, Synced, Repaired, Fixing

LEMMA NoGhostsStep ==
    ASSUME IInv, ReindexTypeOK, NEW j \in Passes, Stations(j), JobStep(j),
           NoGhosts, missed'[j] = {}
    PROVE  NoGhosts'
<1> SUFFICES ASSUME NEW f \in Files, object'[f] = None
             PROVE  Held(f, None, {None}, {None})'
    BY DEF NoGhosts
<1>1. object[f] = None
    BY ArchivesStay
<1>2. Held(f, None, {None}, {None})
    BY <1>1 DEF NoGhosts
<1>3. CASE Idles
    BY <1>2, <1>3, HeldOn DEF Idles, channelVars
<1>4. CASE Passing(j)
    BY <1>2, <1>4, PassHoldsOn DEF Passing, Fitting
<1>5. CASE Writing(j)
  <2>1. rows'[f] = rows[f]
    <3> SUFFICES ASSUME rows'[f] # rows[f] PROVE FALSE
        OBVIOUS
    <3>1. PICK s \in Slots : payload[j][s] = f /\ work[j][s] = "insert"
        BY <1>5, Writes
    <3> QED
        BY <1>1, <3>1 DEF Stations
  <2> QED
      BY <1>1, <1>2, <1>5, <2>1, Writes, HeldOn
<1> QED
    BY <1>3, <1>4, <1>5, StepKinds

\* What an item that was stored has is not taken from it.
LEMMA StoredHeld ==
    ASSUME IInv, ReindexTypeOK, NEW j \in Passes, Stations(j), JobStep(j),
           NEW f \in Files, NEW b, NEW V, NEW I, Fitting(b, V, I), b # None,
           Held(f, b, V, I), missed'[j] = {},
           \A t \in Slots : payload[j][t] = f => work[j][t] \notin Storing
    PROVE  Held(f, b, V, I)' /\ origin'[f] = origin[f]
<1>1. CASE Idles
    BY <1>1, HeldOn DEF Idles, channelVars
<1>2. CASE Passing(j)
  <2>1. Held(f, b, V, I)'
      BY <1>2, PassHoldsOn DEF Passing
  <2>2. None \notin V
      BY FittingRecords
  <2>3. rows[f] # None /\ rows'[f] # None
      BY <2>1, <2>2 DEF Held
  <2> QED
      BY <1>2, <2>1, <2>3 DEF Passing, RunPass
<1>3. CASE Writing(j)
  <2>1. /\ object'[f] = object[f] /\ rows'[f] = rows[f]
        /\ about'[f] = about[f] /\ origin'[f] = origin[f]
      BY <1>3, Writes DEF Storing
  <2> QED
      BY <1>3, <2>1, Writes, HeldOn
<1> QED
    BY <1>1, <1>2, <1>3, StepKinds

\* What the pass of the job has made of it when it is done.
DoneIsHeld ==
    \A k \in Passes, f \in Files, b \in Builds :
        /\ ReindexTypeOK /\ OnCourse(k) /\ rpc[k] = "done" /\ missed[k] = {}
        /\ \A x \in Passes : rpc[x] \in {"idle", "done", "failed"}
        /\ Held(f, b, RecordsOf(b), RecordsOf(b) \cup {None})
        => Held(f, b, {RecordOf(b)}, {RecordOf(b)})

LEMMA DoneHeld == DoneIsHeld
<1> SUFFICES ASSUME ReindexTypeOK, NEW k \in Passes, OnCourse(k),
                    rpc[k] = "done", missed[k] = {},
                    \A x \in Passes : rpc[x] \in {"idle", "done", "failed"},
                    NEW f \in Files, NEW b \in Builds,
                    Held(f, b, RecordsOf(b), RecordsOf(b) \cup {None})
             PROVE  Held(f, b, {RecordOf(b)}, {RecordOf(b)})
    BY DEF DoneIsHeld
<1>1. object[f] = b /\ rows[f] \in RecordsOf(b) /\ about[f] = b
    BY ValueAssumption DEF Held, Contents
<1>2. /\ rows[f].sha # NoHash /\ repodata[f] = rows[f] /\ zst[f] = rows[f]
      /\ ClientRecord(f) = rows[f]
    BY <1>1, CourseReconciles
<1>3. rows[f] = RecordOf(b)
    BY <1>1, <1>2 DEF RecordsOf, WithoutHash
<1>4. shard[f] \in {RecordOf(b), Absent}
    BY <1>2, <1>3 DEF ClientRecord
<1>5. \A x \in Passes : PassHolds(x, f, {RecordOf(b)})
    BY RestHolds
<1> QED
    BY <1>1, <1>2, <1>3, <1>4, <1>5 DEF Held

LEMMA DoneHeldNext == DoneIsHeld'
BY DoneHeld, PTL

\* Nobody else is about to store what is stored.
LEMMA NobodyStores ==
    ASSUME IInv, ReindexTypeOK, NEW j \in Passes, JobStep(j),
           \A x \in Passes : Stations(x), \A x \in Passes : Stations(x)',
           NEW f \in Files, object[f] # None,
           \A x \in Passes, t \in Slots :
               payload[x][t] = f => work[x][t] \notin Storing
    PROVE  \A x \in Passes, t \in Slots :
               payload'[x][t] = f => work'[x][t] \notin Storing
<1> SUFFICES ASSUME NEW x \in Passes, NEW t \in Slots, payload'[x][t] = f,
                    work'[x][t] \in Storing
             PROVE  FALSE
    OBVIOUS
<1>1. Goes(x, t) /\ jpc'[x] \notin Early
    BY EveryItemGoes DEF Stations, Storing
<1>2. payload[x][t] = f
    BY <1>1 DEF Goes, Early
<1>3. work[x][t] \notin Storing
    BY <1>2
<1>4. Look(x, t) \/ Take(x, t)
    BY <1>1, <1>3 DEF Goes, Storing, Working, Fetch, Put
<1>5. work'[x][t] \in {"look", "note"}
    BY <1>2, <1>4 DEF Look, Take, IInv, ImportTypeOK
<1> QED
    BY <1>5 DEF Storing

LEMMA StoredStep ==
    ASSUME ImportInv, NEW j \in Passes, JobStep(j), Clear, Clear', Course',
           \A x \in Passes : Stations(x)', Apart',
           NEW k \in Passes \ beside', NEW s \in Slots,
           payload'[k] = payload[k], payload[k][s] # None, Stored(k, s)
    PROVE  Stored(k, s)'
<1>. PICK f \in Files, b \in Builds :
         f = payload[k][s] /\ b = Upstream[k][f]
    BY DEF Stored, ImportInv, IInv, ImportTypeOK
<1>0. /\ IInv /\ ReindexTypeOK /\ Stations(j) /\ missed'[j] = {}
      /\ \A x \in Passes : Stations(x)
      /\ k \notin beside /\ payload'[k][s] = f
    BY DEF ImportInv, Course, Clear, JobStep, Beside
<1>1. /\ b # None /\ origin[f] = k
      /\ Held(f, b, RecordsOf(b), RecordsOf(b) \cup {None})
      /\ rpc[k] = "done" => Held(f, b, {RecordOf(b)}, {RecordOf(b)})
      /\ \A x \in Passes, t \in Slots :
             payload[x][t] = f => work[x][t] \notin Storing
    BY <1>0, ValueAssumption DEF Stored, Contents
<1>2. /\ Fitting(b, RecordsOf(b), RecordsOf(b) \cup {None})
      /\ Fitting(b, {RecordOf(b)}, {RecordOf(b)})
    BY <1>1 DEF Fitting, RecordsOf
<1>3. /\ Held(f, b, RecordsOf(b), RecordsOf(b) \cup {None})'
      /\ origin'[f] = k
    BY <1>0, <1>1, <1>2, StoredHeld
<1>4. ASSUME rpc'[k] = "done"
      PROVE  Held(f, b, {RecordOf(b)}, {RecordOf(b)})'
  <2>1. CASE rpc[k] = "done"
      BY <1>0, <1>1, <1>2, <2>1, StoredHeld
  <2>2. CASE rpc[k] # "done"
    <3>1. k = j
        BY <1>0, <1>4, <2>2, OtherPassesStay DEF Unmoved
    <3>2. Passing(k)
        BY <1>0, <1>4, <2>2, <3>1, StepKinds, Writes DEF Idles, passVars
    <3>3. rpc[k] \in Running /\ Active(k) /\ k \in alone
        BY <1>0, <1>4, <3>2, PassLeadsOn
        DEF Passing, ImportInv, Apart, Stations, Active, Live
    <3>4. \A x \in Passes : rpc'[x] \in {"idle", "done", "failed"}
      <4>1. ASSUME NEW x \in Passes, x # k
            PROVE  rpc'[x] \in {"idle", "done", "failed"}
        <5>1. rpc[x] \in {"idle", "done", "failed"}
            BY <1>0, <3>3, <4>1, ByItself DEF ImportInv
        <5> QED
            BY <1>0, <3>1, <4>1, <5>1, OtherPassesStay DEF Unmoved
      <4> QED
          BY <1>4, <4>1
    <3>5. OnCourse(k)'
        BY <1>0, <3>2, <3>3, PassOnCourse DEF Passing, ImportInv, Course
    <3>6. ReindexTypeOK' /\ missed'[k] = {}
        BY <1>0, <3>1 DEF Course
    <3> QED
        BY <1>1, <1>3, <1>4, <3>4, <3>5, <3>6, DoneHeldNext DEF DoneIsHeld
  <2> QED
      BY <2>1, <2>2
<1>5. \A x \in Passes, t \in Slots :
          payload'[x][t] = f => work'[x][t] \notin Storing
    BY <1>0, <1>1, NobodyStores DEF Held
<1> QED
    BY <1>0, <1>1, <1>3, <1>4, <1>5 DEF Stored

\* The row of an item is committed: from now on it is stored.
LEMMA StoredByInsert ==
    ASSUME ImportInv, Clear, NEW k \in Passes \ beside, NEW s \in Slots,
           Sole(k, s), Insert(k, s)
    PROVE  Stored(k, s)'
<1>0. /\ ReindexTypeOK /\ Apart /\ \A x \in Passes : Stations(x)
      /\ work[k][s] = "insert" /\ payload[k][s] # None
    BY DEF ImportInv, Course, Sole, Insert
<1>. PICK f \in Files : f = payload[k][s]
    BY <1>0 DEF ImportInv, IInv, ImportTypeOK
<1>. PICK b \in Builds : b = Upstream[k][f]
    BY <1>0 DEF Stations
<1>1. /\ object[f] = b /\ repodata[f] = None /\ zst[f] = None
      /\ shard[f] \in {None, Absent}
    BY <1>0 DEF ImportInv, Items, Item
<1>2. /\ UNCHANGED <<object, repodata, zst, shard, passVars, payload>>
      /\ rows'[f] = WithoutHash(b) /\ about'[f] = b /\ origin'[f] = k
      /\ work' = [work EXCEPT ![k][s] = "note"]
  <2>1. /\ UNCHANGED <<object, repodata, zst, shard, passVars, payload>>
        /\ rows' = [rows EXCEPT ![f] = [sha |-> NoHash, size |-> SizeOf[b]]]
        /\ about' = [about EXCEPT ![f] = b]
        /\ origin' = [origin EXCEPT ![f] = k]
        /\ work' = [work EXCEPT ![k][s] = "note"]
      BY DEF Insert
  <2>2. f \in DOMAIN rows /\ f \in DOMAIN about /\ f \in DOMAIN origin
      BY <1>0
      DEF ImportInv, IInv, ImportTypeOK, ReindexTypeOK, ChannelTypeOK, Index
  <2> QED
      BY <2>1, <2>2 DEF WithoutHash
<1>3. Active(k) /\ rpc[k] = "idle"
  <2>1. Active(k) /\ ~Returned(k)
      BY <1>0 DEF Active, Returned, Working
  <2> QED
      BY <1>0, <2>1 DEF Stations
<1>4. ASSUME NEW x \in Passes
      PROVE  /\ rpc'[x] \in {"idle", "done", "failed"}
             /\ x # k => \A t \in Slots : work[x][t] \notin Storing
    BY <1>0, <1>2, <1>3, ByItself DEF passVars
<1>5. \A x \in Passes : PassHolds(x, f, RecordsOf(b))'
    BY <1>4 DEF PassHolds, Indexing, Followed, Synced, Repaired, Fixing
<1>6. Held(f, b, RecordsOf(b), RecordsOf(b) \cup {None})'
    BY <1>1, <1>2, <1>5 DEF Held, RecordsOf
<1>7. ASSUME NEW x \in Passes, NEW t \in Slots, payload'[x][t] = f
      PROVE  work'[x][t] \notin Storing
  <2>1. CASE x = k
    <3>1. t = s
        BY <1>2, <1>7, <2>1 DEF Sole
    <3> QED
        BY <1>2, <2>1, <3>1 DEF ImportInv, IInv, ImportTypeOK, Storing
  <2>2. CASE x # k
      BY <1>2, <1>4, <2>2 DEF ImportInv, IInv, ImportTypeOK
  <2> QED
      BY <2>1, <2>2
<1> QED
    BY <1>2, <1>3, <1>6, <1>7 DEF Stored, passVars

LEMMA ItemStep ==
    ASSUME ImportInv, NEW j \in Passes, JobStep(j), Clear, Clear', Course',
           \A x \in Passes : Stations(x)', Apart',
           NEW k \in Passes \ beside', NEW s \in Slots, Sole(k, s)'
    PROVE  Item(k, s)'
<1>0. /\ IInv /\ ReindexTypeOK /\ Apart /\ Goes(k, s)
      /\ \A x \in Passes : Stations(x)
      /\ k \notin beside
    BY EveryItemGoes DEF ImportInv, Course, JobStep, Beside
<1>1. CASE payload'[k] # payload[k]
  <2>1. work'[k][s] = "none" /\ ~Past(k, s)'
      BY <1>0, <1>1 DEF Goes, Stations, Early
  <2> QED
      BY <2>1 DEF Item
<1>2. CASE payload'[k] = payload[k]
  <2>1. Sole(k, s) /\ Item(k, s)
      BY <1>0, <1>2 DEF Sole, ImportInv, Items
  <2>. PICK f \in Files : f = payload[k][s]
      BY <1>0, <2>1 DEF Sole, IInv, ImportTypeOK
  <2>2. \A t \in Slots : payload[k][t] = f => t = s
      BY <2>1 DEF Sole
  <2>3. ASSUME object'[f] # object[f], work[k][s] \in Working
        PROVE  j = k /\ (Put(k, s) \/ PutBreaks(k, s))
    <3>1. Writing(j)
      <4>1. channelVars' # channelVars
          BY <2>3 DEF channelVars
      <4> QED
          BY <1>0, <2>3, <4>1, ChangersWork, PassWrites
    <3>2. PICK t \in Slots : /\ payload[j][t] = f /\ work[j][t] = "put"
                             /\ Put(j, t) \/ PutBreaks(j, t)
        BY <1>0, <2>3, <3>1, Writes
    <3>3. j = k
        BY <1>0, <2>3, <3>2, ByItself DEF Active, Storing
    <3> QED
        BY <2>2, <3>2, <3>3
  <2>4. ASSUME work'[k][s] \in {"fetch", "put"} PROVE object'[f] = None
    <3>1. object[f] = None /\ work[k][s] \in Working
      <4>1. ~Take(k, s) /\ ~Put(k, s)
          BY <1>0, <2>4 DEF Take, Put, IInv, ImportTypeOK
      <4>2. CASE work'[k][s] = work[k][s]
          BY <2>1, <2>4, <4>2 DEF Item, Working
      <4>3. CASE Look(k, s) \/ Fetch(k, s)
          BY <1>0, <2>1, <2>4, <4>3
          DEF Look, Fetch, Item, Working, IInv, ImportTypeOK
      <4> QED
          BY <1>0, <2>4, <4>1, <4>2, <4>3 DEF Goes
    <3>2. ~Put(k, s) /\ ~PutBreaks(k, s)
        BY <1>0, <2>4 DEF Put, PutBreaks, IInv, ImportTypeOK
    <3> QED
        BY <2>3, <3>1, <3>2
  <2>5. ASSUME work'[k][s] = "insert"
        PROVE  /\ object'[f] = Upstream[k][f]
               /\ repodata'[f] = None /\ zst'[f] = None
               /\ shard'[f] \in {None, Absent}
    <3>1. CASE Put(k, s)
      <4>1. work[k][s] = "put" /\ UNCHANGED <<repodata, zst, shard>>
          BY <3>1 DEF Put
      <4>2. Held(f, None, {None}, {None})
          BY <2>1, <4>1 DEF Item, ImportInv, NoGhosts
      <4> QED
          BY <1>0, <3>1, <4>1, <4>2 DEF Held, Put, ReindexTypeOK, ChannelTypeOK
    <3>2. CASE ~Put(k, s)
      <4>1. work[k][s] = "insert"
          BY <1>0, <2>5, <3>2
          DEF Goes, Take, Look, Fetch, IInv, ImportTypeOK
      <4>2. /\ object[f] = Upstream[k][f]
            /\ repodata[f] = None /\ zst[f] = None
            /\ shard[f] \in {None, Absent}
          BY <2>1, <4>1 DEF Item
      <4>3. Active(k) /\ ~Returned(k)
          BY <4>1 DEF Active, Returned, Working
      <4>4. object'[f] = object[f]
        <5>1. ~PutBreaks(k, s)
            BY <4>1 DEF PutBreaks
        <5> QED
            BY <2>3, <3>2, <4>1, <5>1 DEF Working
      <4>5. UNCHANGED <<repodata, zst, shard>>
        <5>1. CASE channelVars' = channelVars
            BY <5>1 DEF channelVars
        <5>2. CASE channelVars' # channelVars
          <6>1. j = k
              BY <1>0, <4>3, <5>2, ChangersWork, ByItself
          <6>2. ~RunPass(j)
              BY <1>0, <4>3, <6>1 DEF RunPass, IInv, JobInv, Phases
          <6>3. Writing(j)
              BY <1>0, <5>2, <6>2, ChangersWork
          <6> QED
              BY <1>0, <6>3, Writes
        <5> QED
            BY <5>1, <5>2
      <4> QED
          BY <4>2, <4>4, <4>5
    <3> QED
        BY <3>1, <3>2
  <2>6. ASSUME Past(k, s)' PROVE Stored(k, s)'
    <3>1. CASE Past(k, s)
      <4>1. Stored(k, s) /\ payload[k][s] # None
          BY <2>1, <3>1 DEF Item, Sole
      <4> QED
          BY <1>2, <4>1, StoredStep
    <3>2. CASE Insert(k, s)
        BY <1>0, <2>1, <3>2, StoredByInsert
    <3> QED
        BY <1>0, <2>6, <3>1, <3>2 DEF Goes
  <2> QED
      BY <1>2, <2>4, <2>5, <2>6 DEF Item
<1> QED
    BY <1>1, <1>2

-----------------------------------------------------------------------------
\* The invariant.

LEMMA ChannelTyped == ChannelInit => ChannelTypeOK
<1> SUFFICES ASSUME ChannelInit PROVE ChannelTypeOK
    OBVIOUS
<1>1. PICK seed \in Seeds, sharded \in SUBSET Subdirs :
          LET recs == [f \in Files |->
                          IF seed[f] = None THEN None ELSE RecordOf(seed[f])]
          IN  /\ object = seed
              /\ repodata = recs /\ zst = recs /\ rows = recs
              /\ packages = PackagesOf({f \in Files : recs[f] # None})
              /\ shard = [f \in Files |->
                             IF SubdirOf[f] \in sharded THEN recs[f] ELSE Absent]
              /\ about = [f \in Files |->
                             IF seed[f] = None THEN Unread ELSE seed[f]]
    BY DEF ChannelInit
<1>2. seed \in [Files -> Builds \cup {None}]
    BY SeedAssumption
<1>3. \A f \in Files : seed[f] # None => RecordOf(seed[f]) \in Record
    BY <1>2, ArchiveRecord
<1>4. repodata \in Index /\ zst \in Index /\ rows \in Index
    BY <1>1, <1>3 DEF Index
<1>5. shard \in [Files -> Record \cup {None, Absent}]
    BY <1>1, <1>3
<1>6. object \in [Files -> Contents \cup {None}]
    BY <1>1, <1>2 DEF Contents
<1>7. about \in [Files -> Contents \cup {Unread}]
    BY <1>1, <1>2 DEF Contents
<1>8. packages \subseteq Packages
    BY <1>1, FileAssumption DEF PackagesOf
<1> QED
    BY <1>4, <1>5, <1>6, <1>7, <1>8 DEF ChannelTypeOK

LEMMA InvInit == ImportInit => ImportInv
<1> SUFFICES ASSUME ImportInit PROVE ImportInv
    OBVIOUS
<1>1. IInv
    BY TypeInit, JobInit DEF IInv
<1>2. ReindexTypeOK
    BY ChannelTyped, BlankTyped DEF ImportInit, PassInit, ReindexTypeOK, Ended
<1>3. Course
    BY <1>2 DEF ImportInit, PassInit, Course, ShardsFit, Sharding
<1>4. /\ \A x \in Passes : rpc[x] = "idle" /\ missed[x] = {}
      /\ \A j \in Passes : jpc[j] = "idle" /\ job[j] = None
      /\ \A j \in Passes, s \in Slots :
             work[j][s] = "none" /\ s \notin good[j] /\ progress[j] = {}
    BY DEF ImportInit, PassInit
<1>5. \A j \in Passes, s \in Slots : ~Past(j, s)
    BY <1>4 DEF Past
<1>6. \A j \in Passes : Stations(j)
    BY <1>4, <1>5 DEF Stations, Returned, Early, Running, Storing, Working
<1>7. Apart
    BY <1>4 DEF Apart, Active, Live, Running, Working
<1>8. NoGhosts
  <2> SUFFICES ASSUME NEW f \in Files, object[f] = None
               PROVE  Held(f, None, {None}, {None})
      BY DEF NoGhosts
  <2>1. /\ repodata[f] = None /\ zst[f] = None /\ rows[f] = None
        /\ shard[f] \in {None, Absent}
      BY DEF ImportInit, ChannelInit
  <2>2. \A x \in Passes : PassHolds(x, f, {None})
      BY <1>4, RestHolds
  <2> QED
      BY <2>1, <2>2 DEF Held
<1>9. Items
    BY <1>4, <1>5 DEF Items, Item
<1> QED
    BY <1>1, <1>3, <1>6, <1>7, <1>8, <1>9 DEF ImportInv

\* A sweep and a pruning touch rows of jobs only, and no outcome.
RowsOnly ==
    /\ UNCHANGED <<reindexVars, jpc, payload, work, good, progress, origin,
                   beside>>
    /\ \A k \in Passes : job'[k] # None =>
           job[k] # None /\ job'[k].results = job[k].results

LEMMA RowsOnlyKeeps ==
    ASSUME ImportInv, IInv', RowsOnly
    PROVE  ImportInv'
<1>1. /\ UNCHANGED <<channelVars, passVars, alone>>
      /\ UNCHANGED <<jpc, payload, work, good, progress, origin, beside>>
      /\ UNCHANGED <<object, repodata, zst, shard, rows, about, rpc, missed>>
    BY DEF RowsOnly, reindexVars, channelVars, passVars
<1>2. Course'
  <2>1. [ReindexNext]_reindexVars
      BY DEF RowsOnly
  <2> QED
      BY <2>1, StepOnCourse DEF ImportInv
<1>3. \A k \in Passes, s \in Slots : Past(k, s)' => Past(k, s)
    BY <1>1 DEF RowsOnly, Past
<1>4. ASSUME NEW k \in Passes PROVE Stations(k)'
    BY <1>1, <1>3 DEF ImportInv, Stations, Returned
<1>5. Apart'
    BY <1>1 DEF ImportInv, Apart, Active
<1>6. ASSUME NEW f \in Files, NEW b, NEW V, NEW I, Held(f, b, V, I)
      PROVE  Held(f, b, V, I)'
    BY <1>1, <1>6, HeldOn
<1>7. ASSUME Clear' PROVE NoGhosts' /\ Items'
  <2>1. NoGhosts /\ Items
      BY <1>1, <1>7 DEF ImportInv, Clear
  <2>2. NoGhosts'
      BY <1>1, <1>6, <2>1 DEF NoGhosts
  <2>3. ASSUME NEW k \in Passes \ beside, NEW s \in Slots, Sole(k, s)
        PROVE  Item(k, s)'
    <3>1. Item(k, s)
        BY <2>1, <2>3 DEF Items
    <3>2. Stored(k, s) => Stored(k, s)'
      <4> SUFFICES ASSUME Stored(k, s) PROVE Stored(k, s)'
          OBVIOUS
      <4>. PICK f \in Files : f = payload[k][s]
          BY <2>3 DEF Sole, ImportInv, IInv, ImportTypeOK
      <4>. PICK b \in Builds : b = Upstream[k][f]
          BY DEF Stored
      <4> QED
          BY <1>1, <1>6 DEF Stored
    <3> QED
        BY <1>1, <1>3, <3>1, <3>2 DEF Item
  <2>4. Items'
      BY <1>1, <2>3 DEF Items, Sole
  <2> QED
      BY <2>2, <2>4
<1> QED
    BY <1>2, <1>4, <1>5, <1>7 DEF ImportInv

LEMMA InvStep == ImportInv /\ [ImportNext]_jobVars => ImportInv'
<1> SUFFICES ASSUME ImportInv, [ImportNext]_jobVars PROVE ImportInv'
    OBVIOUS
<1>0. IInv' /\ IInv /\ Course /\ ReindexTypeOK
    BY Inductive DEF ImportInv, Course
<1>1. ASSUME NEW j \in Passes, JobStep(j) PROVE ImportInv'
  <2>1. \A x \in Passes : Stations(x)'
      BY <1>0, <1>1, StationsStep DEF ImportInv
  <2>2. Course'
      BY <1>0, <1>1, CourseStep DEF ImportInv
  <2>3. Apart'
      BY <1>0, <1>1, <2>2, ApartStep DEF ImportInv
  <2>4. ASSUME Clear' PROVE NoGhosts' /\ Items'
    <3>1. Clear
      <4> SUFFICES ASSUME NEW x \in Passes PROVE missed[x] = {}
          BY DEF Clear
      <4>1. missed'[x] = {}
          BY <2>4 DEF Clear
      <4>2. CASE x = j
          BY <1>0, <1>1, <4>1, <4>2, StepMisses DEF ImportInv
      <4>3. CASE x # j
          BY <1>0, <1>1, <4>1, <4>3, OtherPassesStay DEF ImportInv, Unmoved
      <4> QED
          BY <4>2, <4>3
    <3>2. NoGhosts'
        BY <1>0, <1>1, <2>4, <3>1, NoGhostsStep DEF ImportInv, Clear
    <3>3. Items'
        BY <1>1, <2>1, <2>2, <2>3, <2>4, <3>1, ItemStep DEF Items
    <3> QED
        BY <3>2, <3>3
  <2> QED
      BY <1>0, <2>1, <2>2, <2>3, <2>4 DEF ImportInv
<1>2. CASE UNCHANGED jobVars
  <2>1. RowsOnly
      BY <1>2 DEF jobVars, importVars, RowsOnly
  <2> QED
      BY <1>0, <2>1, RowsOnlyKeeps
<1>3. CASE Sweep
  <2>1. ASSUME NEW k \in Passes, job'[k] # None
        PROVE  job[k] # None /\ job'[k].results = job[k].results
    <3>1. job'[k] \in {job[k], [job[k] EXCEPT !.status = "failed"]}
        BY <1>3 DEF Sweep
    <3>2. job'[k] = job[k] \/ job[k] # None
        BY <1>3 DEF Sweep
    <3>3. job[k] \in JobRow \cup {None}
        BY <1>0 DEF IInv, ImportTypeOK
    <3> QED
        BY <2>1, <3>1, <3>2, <3>3 DEF JobRow
  <2>2. RowsOnly
      BY <1>3, <2>1 DEF Sweep, RowsOnly
  <2> QED
      BY <1>0, <2>2, RowsOnlyKeeps
<1>4. ASSUME NEW j \in Passes, Prune(j) PROVE ImportInv'
  <2>1. RowsOnly
      BY <1>0, <1>4 DEF Prune, RowsOnly, IInv, ImportTypeOK
  <2> QED
      BY <1>0, <2>1, RowsOnlyKeeps
<1> QED
    BY <1>1, <1>2, <1>3, <1>4 DEF ImportNext

\* "The background reindex will find these rows existing and update other
\* fields without touching imported_from" (_import_one_package): for any
\* number of jobs, items, files and workers, what a job that ran beside no
\* other reports stored is there, with the bytes and the name of its upstream,
\* and is listed everywhere with its hash once the job's own pass succeeded.
THEOREM ImportsAreKept == ImportSpec => []ImportedIsKept
<1>1. ImportInv => ImportedIsKept
  <2> SUFFICES ASSUME ImportInv, NEW j \in Passes \ beside, Clear,
                      job[j] # None, NEW s \in Slots,
                      <<s, "stored">> \in job[j].results,
                      \A t \in Slots \ {s} : payload[j][t] # payload[j][s],
                      job[j].status = "completed"
               PROVE  LET f == payload[j][s]
                          b == Upstream[j][f]
                      IN  /\ object[f] = b /\ rows[f] # None
                          /\ origin[f] = j /\ about[f] = b
                          /\ rpc[j] = "done" =>
                                /\ rows[f] = RecordOf(b)
                                /\ repodata[f] = RecordOf(b)
                                /\ zst[f] = RecordOf(b)
                                /\ ClientRecord(f) = RecordOf(b)
      BY DEF ImportedIsKept, Clear
  <2>1. Past(j, s) /\ IInv /\ Stations(j)
      BY DEF Past, ImportInv
  <2>2. payload[j][s] # None
      BY <2>1 DEF Stations
  <2>3. Stored(j, s)
      BY <2>1, <2>2 DEF Sole, ImportInv, Items, Item
  <2>. PICK f \in Files : f = payload[j][s]
      BY <2>1, <2>2 DEF IInv, ImportTypeOK
  <2>. PICK b \in Builds : b = Upstream[j][f]
      BY <2>3 DEF Stored
  <2>4. /\ origin[f] = j
        /\ Held(f, b, RecordsOf(b), RecordsOf(b) \cup {None})
        /\ rpc[j] = "done" => Held(f, b, {RecordOf(b)}, {RecordOf(b)})
      BY <2>3 DEF Stored
  <2>5. None \notin RecordsOf(b) /\ b # None
    <3>1. Fitting(b, RecordsOf(b), RecordsOf(b))
        BY DEF Fitting, RecordsOf
    <3>2. b # None
        BY ValueAssumption DEF Contents
    <3> QED
        BY <3>1, <3>2, FittingRecords
  <2> QED
      BY <2>4, <2>5 DEF Held, ClientRecord
<1>2. ImportSpec => []ImportInv
    BY InvInit, InvStep, PTL DEF ImportSpec
<1> QED
    BY <1>1, <1>2, PTL

=============================================================================
