--------------------------- MODULE BackfillProofs ---------------------------
(***************************************************************************)
(* Proofs about Backfill, for any number of rows, jobs, processes and      *)
(* consoles, any limits, and however often calls fail and processes die:   *)
(* the types, the counts of a job against what it committed, one job at a  *)
(* time, and the metadata of a row against its archive.                    *)
(***************************************************************************)
EXTENDS Backfill, FiniteSetTheorems, FunctionTheorems, WellFoundedInduction,
        TLAPS

\* A job's row, before the bound on its total is known.
RowOfJob == [status : {"pending", "running", "completed", "failed"},
             done : Nat, failed : Nat, total : Nat, notice : BOOLEAN]

\* What every variable holds.  A row that is not there is unread, and what is
\* being uploaded is there.
ChannelTypes ==
    /\ exists \in BOOLEAN
    /\ alive \in SUBSET Rows /\ born \in SUBSET Rows /\ alive \subseteq born
    /\ object \in [Rows -> Editions \cup {Gone}]
    /\ about \in [Rows -> Abouts \cup {Unread}]
    /\ \A r \in Rows \ alive : about[r] = Unread
    /\ uploading \in SUBSET born
    /\ \A r \in uploading : object[r] # Gone
    /\ perSweep \in SweepLimits

RunnerTypes ==
    /\ up \in SUBSET Pods
    /\ pc \in [Runners -> Idle \cup AtWork]
    /\ queue \in [Runners -> SUBSET Rows]
    /\ chunk \in [Runners -> [Rows -> Marks \cup Abouts \cup {None}]]
    /\ events \in 0 .. MaxEvents

CountTypes ==
    /\ tally \in [Jobs -> [read : SUBSET Rows, failed : SUBSET Rows]]
    /\ hitLimit \in [Jobs -> BOOLEAN]
    /\ kept \in [Jobs -> SUBSET Rows] /\ late \in [Jobs -> SUBSET Rows]
    /\ outrun \in SUBSET Rows /\ beside \in SUBSET Jobs

JobTypes == job \in [Jobs -> RowOfJob \cup {None}]

Types == ChannelTypes /\ RunnerTypes /\ CountTypes /\ JobTypes

-----------------------------------------------------------------------------
LEMMA RunnersAre == /\ Jobs \subseteq Runners /\ Pods \subseteq Runners
                    /\ Consoles \subseteq Runners
  BY DEF Runners

LEMMA RowSets ==
    ASSUME NEW S \in SUBSET Rows
    PROVE  IsFiniteSet(S) /\ Cardinality(S) \in Nat
  BY RowsAssumption, FS_Subset, FS_CardinalityType

LEMMA LeastOfTwo ==
    ASSUME NEW m \in Nat, NEW n \in Nat
    PROVE  Min({m, n}) \in Nat /\ Min({m, n}) <= n
<1>1. \E x \in {m, n} : \A y \in {m, n} : x <= y
  OBVIOUS
<1>2. Min({m, n}) \in {m, n} /\ \A y \in {m, n} : Min({m, n}) <= y
  BY <1>1 DEF Min
<1>3. QED
  BY <1>2

LEMMA FirstIsSubset == \A n, R : First(n, R) \subseteq R
  BY DEF First

\* First keeps no more rows than it is asked for: each has another number of
\* rows before it.
LEMMA FirstIsShort ==
    ASSUME NEW n \in Nat, NEW R \in SUBSET Rows
    PROVE  Cardinality(First(n, R)) <= n
<1> DEFINE below(r) == {q \in R : q < r}
           F == First(n, R)
           count == [r \in F |-> Cardinality(below(r))]
<1>1. \A r \in R : below(r) \in SUBSET Rows
  OBVIOUS
<1>2. \A r \in F : r \in R /\ count[r] \in 0 .. n - 1
  <2>1. TAKE r \in F
  <2>2. r \in R /\ Cardinality(below(r)) < n
    BY DEF First
  <2>3. Cardinality(below(r)) \in Nat
    BY <1>1, <2>2, RowSets
  <2>4. QED
    BY <2>2, <2>3
<1>3. ASSUME NEW q \in F, NEW r \in F, q < r
      PROVE  count[q] # count[r]
  <2>1. q \in R /\ r \in R /\ q \in Nat /\ r \in Nat
    BY <1>2, RowsAssumption
  <2>2. below(q) \subseteq below(r)
    <3>1. SUFFICES ASSUME NEW x \in below(q) PROVE x \in below(r)
      OBVIOUS
    <3>2. x \in R /\ x < q /\ x \in Nat
      BY RowsAssumption
    <3>3. QED
      BY <1>3, <2>1, <3>2
  <2>3. q \in below(r) /\ q \notin below(q)
    BY <1>3, <2>1
  <2>4. IsFiniteSet(below(r)) /\ below(q) \in SUBSET below(r)
    BY <1>1, <2>1, <2>2, RowSets
  <2>5. Cardinality(below(r)) # Cardinality(below(q))
    <3> HIDE DEF below
    <3>1. QED
      BY <2>3, <2>4, FS_Subset
  <2>6. QED
    BY <2>5
<1>4. count \in [F -> 0 .. n - 1]
  BY <1>2
<1>5. ASSUME NEW q \in F, NEW r \in F, count[q] = count[r]
      PROVE  q = r
  <2>1. q \in Nat /\ r \in Nat
    BY <1>2, RowsAssumption
  <2>2. ~(q < r) /\ ~(r < q)
    BY <1>3, <1>5
  <2>3. QED
    BY <2>1, <2>2
<1> HIDE DEF count
<1>6. count \in Injection(F, 0 .. n - 1)
  BY <1>4, <1>5, Fun_IsInj
<1>7. IsFiniteSet(0 .. n - 1) /\ Cardinality(0 .. n - 1) = n
  <2>1. 0 \in Int /\ n - 1 \in Int
    OBVIOUS
  <2>2. /\ IsFiniteSet(0 .. n - 1)
        /\ Cardinality(0 .. n - 1) = IF 0 > n - 1 THEN 0 ELSE n - 1 - 0 + 1
    BY <2>1, FS_Interval
  <2>3. QED
    BY <2>2
<1>8. QED
  BY <1>6, <1>7, FS_Injection

\* The steps, one by one.
LEMMA Steps ==
    ASSUME Next
    PROVE  \/ \E j \in Jobs : \/ Ask(j) \/ Insert(j) \/ Begin(j) \/ Report(j)
                              \/ Finish(j) \/ Abort(j) \/ Lose(j)
           \/ \E p \in Runners : \/ Start(p) \/ Commit(p)
                                 \/ CommitRaises(p) \/ PassRaises(p)
           \/ \E p \in Runners, r \in Rows :
                  \/ Open(p, r) \/ ReadRanges(p, r) \/ Spool(p, r)
                  \/ FetchFails(p, r)
           \/ \E a \in Pods : Wake(a) \/ Die(a) \/ StartPod(a)
           \/ \E r \in Rows : \/ Put(r) \/ Upsert(r) \/ Remove(r) \/ Erase(r)
                              \/ Add(r)
           \/ DeleteChannel
           \/ Rest
<1>1. CASE \E j \in Jobs : Ask(j)
  BY <1>1
<1>2. CASE \E c \in Consoles : Start(c)
  BY <1>2, RunnersAre
<1>3. CASE \E p \in Runners : Proceed(p)
  BY <1>3 DEF Proceed
<1>4. CASE \E p \in Runners : Fails(p)
  BY <1>4 DEF Fails
<1>5. CASE \E a \in Pods : Die(a) \/ StartPod(a)
  BY <1>5
<1>6. CASE Environment
  BY <1>6 DEF Environment
<1>7. CASE Rest
  BY <1>7
<1>8. QED
  BY <1>1, <1>2, <1>3, <1>4, <1>5, <1>6, <1>7 DEF Next

-----------------------------------------------------------------------------
LEMMA TypesAtFirst == Init => Types
<1> SUFFICES ASSUME Init PROVE Types
  OBVIOUS
<1>1. ChannelTypes
  BY DEF Init, ChannelTypes, Abouts
<1>2. RunnerTypes
  BY LimitAssumption DEF Init, RunnerTypes, Loop, Idle, NoChunk
<1>3. CountTypes
  BY DEF Init, CountTypes
<1>4. JobTypes
  BY DEF Init, JobTypes
<1>5. QED
  BY <1>1, <1>2, <1>3, <1>4 DEF Types

LEMMA TypesStep ==
    ASSUME Types, [Next]_vars
    PROVE  Types'
<1>1. ASSUME NEW j \in Jobs, Ask(j)
      PROVE  Types'
  <2>1. ChannelTypes'
    BY <1>1 DEF Types, ChannelTypes, Ask, Goto, channelVars
  <2>2. RunnerTypes'
    BY <1>1, RunnersAre DEF Types, RunnerTypes, Ask, Goto, Idle, AtWork,
                         passVars
  <2>3. CountTypes'
    BY <1>1 DEF Types, CountTypes, Ask, Goto, passVars
  <2>4. JobTypes'
    BY <1>1 DEF Types, JobTypes, Ask, Goto
  <2>5. QED
    BY <2>1, <2>2, <2>3, <2>4 DEF Types
<1>2. ASSUME NEW j \in Jobs, Insert(j)
      PROVE  Types'
  <2>1. ChannelTypes'
    BY <1>2 DEF Types, ChannelTypes, Insert, Goto, channelVars
  <2>2. RunnerTypes'
    BY <1>2, RunnersAre DEF Types, RunnerTypes, Insert, Goto, Idle, AtWork,
                         passVars
  <2>3. CountTypes'
    BY <1>2 DEF Types, CountTypes, Insert, Goto, passVars
  <2>4. JobTypes'
    <3>1. Cardinality(Unstamped) \in Nat /\ JobLimit \in Nat
      BY RowSets, LimitAssumption DEF Types, ChannelTypes, Unstamped
    <3>2. Min({Cardinality(Unstamped), JobLimit}) \in Nat
      BY <3>1, LeastOfTwo
    <3> DEFINE row == [status |-> "pending", done |-> 0, failed |-> 0,
                       total |-> Min({Cardinality(Unstamped), JobLimit}),
                       notice |-> FALSE]
    <3>3. row \in RowOfJob
      BY <3>2 DEF RowOfJob
    <3>4. job' = job \/ job' = [job EXCEPT ![j] = row]
      BY <1>2 DEF Insert
    <3> HIDE DEF row
    <3>5. QED
      BY <3>3, <3>4 DEF Types, JobTypes
  <2>5. QED
    BY <2>1, <2>2, <2>3, <2>4 DEF Types
<1>3. ASSUME NEW j \in Jobs, Begin(j)
      PROVE  Types'
  <2>1. ChannelTypes'
    BY <1>3 DEF Types, ChannelTypes, Begin, Goto, channelVars
  <2>2. RunnerTypes'
    BY <1>3, RunnersAre DEF Types, RunnerTypes, Begin, Goto, Idle, AtWork,
                         passVars
  <2>3. CountTypes'
    BY <1>3 DEF Types, CountTypes, Begin, Goto, passVars
  <2>4. JobTypes'
    BY <1>3 DEF Types, JobTypes, Begin, Goto, RowOfJob
  <2>5. QED
    BY <2>1, <2>2, <2>3, <2>4 DEF Types
<1>4. ASSUME NEW j \in Jobs, Report(j)
      PROVE  Types'
  <2>1. ChannelTypes'
    BY <1>4 DEF Types, ChannelTypes, Report, Advance, Goto, channelVars
  <2>2. RunnerTypes'
    BY <1>4, RunnersAre, FirstIsSubset DEF Types, RunnerTypes, Report, Advance,
                                        Goto, Idle, AtWork, passVars, Chunk,
                                        NoChunk, Marks
  <2>3. CountTypes'
    BY <1>4 DEF Types, CountTypes, Report, Advance, Goto, passVars
  <2>4. JobTypes'
    BY <1>4, RowSets DEF Types, JobTypes, Report, Advance, Goto, RowOfJob,
                      CountTypes
  <2>5. QED
    BY <2>1, <2>2, <2>3, <2>4 DEF Types
<1>5. ASSUME NEW j \in Jobs, Finish(j)
      PROVE  Types'
  <2>1. ChannelTypes'
    BY <1>5 DEF Types, ChannelTypes, Finish, Goto, channelVars
  <2>2. RunnerTypes'
    BY <1>5, RunnersAre DEF Types, RunnerTypes, Finish, Goto, Idle, AtWork,
                         passVars
  <2>3. CountTypes'
    BY <1>5 DEF Types, CountTypes, Finish, Goto, passVars
  <2>4. JobTypes'
    BY <1>5, RowSets DEF Types, JobTypes, Finish, Goto, RowOfJob, CountTypes
  <2>5. QED
    BY <2>1, <2>2, <2>3, <2>4 DEF Types
<1>6. ASSUME NEW j \in Jobs, Abort(j)
      PROVE  Types'
  <2>1. ChannelTypes'
    BY <1>6 DEF Types, ChannelTypes, Abort, Goto, channelVars
  <2>2. RunnerTypes'
    BY <1>6, RunnersAre DEF Types, RunnerTypes, Abort, Goto, Idle, AtWork,
                         passVars
  <2>3. CountTypes'
    BY <1>6 DEF Types, CountTypes, Abort, Goto, passVars
  <2>4. JobTypes'
    BY <1>6 DEF Types, JobTypes, Abort, Goto, RowOfJob
  <2>5. QED
    BY <2>1, <2>2, <2>3, <2>4 DEF Types
<1>7. ASSUME NEW j \in Jobs, Lose(j)
      PROVE  Types'
  <2>1. ChannelTypes'
    BY <1>7 DEF Types, ChannelTypes, Lose, Goto, Event, channelVars
  <2>2. RunnerTypes'
    BY <1>7, RunnersAre, LimitAssumption DEF Types, RunnerTypes, Lose, Goto,
                                          Event, Idle, AtWork, passVars
  <2>3. CountTypes'
    BY <1>7 DEF Types, CountTypes, Lose, Goto, Event, passVars
  <2>4. JobTypes'
    BY <1>7 DEF Types, JobTypes, Lose, Goto, Event
  <2>5. QED
    BY <2>1, <2>2, <2>3, <2>4 DEF Types
<1>8. ASSUME NEW p \in Runners, Start(p)
      PROVE  Types'
  <2>1. ChannelTypes'
    BY <1>8 DEF Types, ChannelTypes, Start, Select, Goto, channelVars
  <2>2. RunnerTypes'
    <3>1. /\ \A n, R : First(n, R) \subseteq R
          /\ alive \subseteq Rows /\ Unstamped \subseteq Rows
      BY FirstIsSubset DEF Types, ChannelTypes, Unstamped
    <3>2. queue' \in [Runners -> SUBSET Rows]
      <4>1. \/ queue' = queue
            \/ \E n, force : LET rows == First(n, IF force THEN alive
                                                ELSE Unstamped)
                          IN  queue' = [queue EXCEPT ![p] =
                                           rows \ First(CommitEvery, rows)]
        BY <1>8 DEF Start, Select
      <4>2. queue' = queue \/ \E R \in SUBSET Rows :
                                  queue' = [queue EXCEPT ![p] = R]
        BY <3>1, <4>1
      <4>3. QED
        BY <4>2 DEF Types, RunnerTypes
    <3>3. chunk' \in [Runners -> [Rows -> Marks \cup Abouts \cup {None}]]
      <4>1. \A R : Chunk(R) \in [Rows -> Marks \cup Abouts \cup {None}]
        BY DEF Chunk, Marks
      <4>2. chunk' = chunk \/ \E R : chunk' = [chunk EXCEPT ![p] = Chunk(R)]
        BY <1>8 DEF Start, Select
      <4>3. QED
        BY <4>1, <4>2 DEF Types, RunnerTypes
    <3>4. pc' \in [Runners -> Idle \cup AtWork]
      BY <1>8 DEF Types, RunnerTypes, Start, Select, Goto, Idle, AtWork
    <3>5. up' = up /\ events' = events
      BY <1>8 DEF Start
    <3>6. QED
      BY <3>2, <3>3, <3>4, <3>5 DEF Types, RunnerTypes
  <2>3. CountTypes'
    <3>1. hitLimit' \in [Jobs -> BOOLEAN]
      BY <1>8 DEF Types, CountTypes, Start, Select, HitsLimit
    <3>2. late' \in [Jobs -> SUBSET Rows]
      BY <1>8 DEF Types, CountTypes, Start, Select
    <3>3. QED
      BY <1>8, <3>1, <3>2 DEF Types, CountTypes, Start
  <2>4. JobTypes'
    BY <1>8 DEF Types, JobTypes, Start, Select, Goto
  <2>5. QED
    BY <2>1, <2>2, <2>3, <2>4 DEF Types
<1>9. ASSUME NEW p \in Runners, Commit(p)
      PROVE  Types'
  <2>1. ChannelTypes'
    BY <1>9, RunnersAre DEF Types, ChannelTypes, Commit, Advance, Goto,
                         channelVars, Captured, In, RunnerTypes
  <2>2. RunnerTypes'
    <3>1. \A n, R : First(n, R) \subseteq R
      BY FirstIsSubset
    <3>2. queue' \in [Runners -> SUBSET Rows]
      BY <1>9, <3>1 DEF Types, RunnerTypes, Commit, Advance
    <3>3. chunk' \in [Runners -> [Rows -> Marks \cup Abouts \cup {None}]]
      <4>1. /\ NoChunk \in [Rows -> Marks \cup Abouts \cup {None}]
            /\ \A R : Chunk(R) \in [Rows -> Marks \cup Abouts \cup {None}]
        BY DEF NoChunk, Chunk, Marks
      <4>2. \/ chunk' = [chunk EXCEPT ![p] = NoChunk]
            \/ \E R : chunk' = [chunk EXCEPT ![p] = Chunk(R)]
        BY <1>9 DEF Commit, Advance
      <4>3. QED
        BY <4>1, <4>2 DEF Types, RunnerTypes
    <3>4. pc' \in [Runners -> Idle \cup AtWork]
      BY <1>9 DEF Types, RunnerTypes, Commit, Advance, Goto, Idle, AtWork
    <3>5. up' = up /\ events' = events
      BY <1>9 DEF Commit
    <3>6. QED
      BY <3>2, <3>3, <3>4, <3>5 DEF Types, RunnerTypes
  <2>3. CountTypes'
    BY <1>9 DEF Types, CountTypes, Commit, Advance, Goto, passVars, Captured,
             In
  <2>4. JobTypes'
    BY <1>9 DEF Types, JobTypes, Commit, Advance, Goto
  <2>5. QED
    BY <2>1, <2>2, <2>3, <2>4 DEF Types
<1>10. ASSUME NEW p \in Runners, CommitRaises(p)
      PROVE  Types'
  <2>1. ChannelTypes'
    BY <1>10 DEF Types, ChannelTypes, CommitRaises, FailPass, Goto, Event,
             channelVars
  <2>2. RunnerTypes'
    BY <1>10, RunnersAre, LimitAssumption, FirstIsSubset
       DEF Types, RunnerTypes, CommitRaises, FailPass, Goto, Event, Idle,
           AtWork, passVars, Chunk, NoChunk, Marks
  <2>3. CountTypes'
    BY <1>10 DEF Types, CountTypes, CommitRaises, FailPass, Goto, Event,
             passVars
  <2>4. JobTypes'
    BY <1>10 DEF Types, JobTypes, CommitRaises, FailPass, Goto, Event
  <2>5. QED
    BY <2>1, <2>2, <2>3, <2>4 DEF Types
<1>11. ASSUME NEW p \in Runners, PassRaises(p)
      PROVE  Types'
  <2>1. ChannelTypes'
    BY <1>11 DEF Types, ChannelTypes, PassRaises, FailPass, Goto, Event,
             channelVars
  <2>2. RunnerTypes'
    BY <1>11, RunnersAre, LimitAssumption, FirstIsSubset
       DEF Types, RunnerTypes, PassRaises, FailPass, Goto, Event, Idle,
           AtWork, passVars, Chunk, NoChunk, Marks
  <2>3. CountTypes'
    BY <1>11 DEF Types, CountTypes, PassRaises, FailPass, Goto, Event, passVars
  <2>4. JobTypes'
    BY <1>11 DEF Types, JobTypes, PassRaises, FailPass, Goto, Event
  <2>5. QED
    BY <2>1, <2>2, <2>3, <2>4 DEF Types
<1>12. ASSUME NEW p \in Runners, NEW r \in Rows,
               Open(p, r)
      PROVE  Types'
  <2>1. ChannelTypes'
    BY <1>12 DEF Types, ChannelTypes, Open, NextUp, Capture, In, channelVars
  <2>2. RunnerTypes'
    <3>1. \/ chunk' = [chunk EXCEPT ![p][r] = "failed"]
          \/ chunk' = [chunk EXCEPT ![p][r] = "open"]
      BY <1>12 DEF Open, Capture
    <3>2. chunk' \in [Runners -> [Rows -> Marks \cup Abouts \cup {None}]]
      BY <3>1 DEF Types, RunnerTypes, Marks
    <3>3. UNCHANGED <<up, pc, queue, events>>
      BY <1>12 DEF Open, Capture
    <3>4. QED
      BY <3>2, <3>3 DEF Types, RunnerTypes
  <2>3. CountTypes'
    BY <1>12 DEF Types, CountTypes, Open, NextUp, Capture, In, passVars
  <2>4. JobTypes'
    BY <1>12 DEF Types, JobTypes, Open, NextUp, Capture, In
  <2>5. QED
    BY <2>1, <2>2, <2>3, <2>4 DEF Types
<1>13. ASSUME NEW p \in Runners, NEW r \in Rows,
               ReadRanges(p, r)
      PROVE  Types'
  <2>1. ChannelTypes'
    BY <1>13 DEF Types, ChannelTypes, ReadRanges, Capture, channelVars
  <2>2. RunnerTypes'
    BY <1>13, RunnersAre DEF Types, RunnerTypes, ReadRanges, Capture, Marks,
                         Abouts, ChannelTypes
  <2>3. CountTypes'
    BY <1>13 DEF Types, CountTypes, ReadRanges, Capture, passVars
  <2>4. JobTypes'
    BY <1>13 DEF Types, JobTypes, ReadRanges, Capture
  <2>5. QED
    BY <2>1, <2>2, <2>3, <2>4 DEF Types
<1>14. ASSUME NEW p \in Runners, NEW r \in Rows,
               Spool(p, r)
      PROVE  Types'
  <2>1. ChannelTypes'
    BY <1>14 DEF Types, ChannelTypes, Spool, NextUp, Capture, In, channelVars
  <2>2. RunnerTypes'
    BY <1>14, RunnersAre DEF Types, RunnerTypes, Spool, NextUp, Capture, In,
                         Marks, Abouts, ChannelTypes
  <2>3. CountTypes'
    BY <1>14 DEF Types, CountTypes, Spool, NextUp, Capture, In, passVars
  <2>4. JobTypes'
    BY <1>14 DEF Types, JobTypes, Spool, NextUp, Capture, In
  <2>5. QED
    BY <2>1, <2>2, <2>3, <2>4 DEF Types
<1>15. ASSUME NEW p \in Runners, NEW r \in Rows,
               FetchFails(p, r)
      PROVE  Types'
  <2>1. ChannelTypes'
    BY <1>15 DEF Types, ChannelTypes, FetchFails, NextUp, Capture, Event, In,
             channelVars
  <2>2. RunnerTypes'
    BY <1>15, RunnersAre, LimitAssumption DEF Types, RunnerTypes, FetchFails,
                                          NextUp, Capture, Event, In, Marks,
                                          Abouts, ChannelTypes
  <2>3. CountTypes'
    BY <1>15 DEF Types, CountTypes, FetchFails, NextUp, Capture, Event, In,
             passVars
  <2>4. JobTypes'
    BY <1>15 DEF Types, JobTypes, FetchFails, NextUp, Capture, Event, In
  <2>5. QED
    BY <2>1, <2>2, <2>3, <2>4 DEF Types
<1>16. ASSUME NEW a \in Pods, Wake(a)
      PROVE  Types'
  <2>1. ChannelTypes'
    BY <1>16 DEF Types, ChannelTypes, Wake, Goto, channelVars
  <2>2. RunnerTypes'
    BY <1>16, RunnersAre DEF Types, RunnerTypes, Wake, Goto, Idle, AtWork,
                         passVars
  <2>3. CountTypes'
    BY <1>16 DEF Types, CountTypes, Wake, Goto, passVars
  <2>4. JobTypes'
    BY <1>16 DEF Types, JobTypes, Wake, Goto
  <2>5. QED
    BY <2>1, <2>2, <2>3, <2>4 DEF Types
<1>17. ASSUME NEW a \in Pods, Die(a)
      PROVE  Types'
  <2>1. ChannelTypes'
    BY <1>17 DEF Types, ChannelTypes, Die, Event, channelVars
  <2>2. RunnerTypes'
    BY <1>17, RunnersAre, LimitAssumption, FirstIsSubset
       DEF Types, RunnerTypes, Die, Event, Idle, AtWork, passVars, Chunk,
           NoChunk, Marks
  <2>3. CountTypes'
    BY <1>17 DEF Types, CountTypes, Die, Event, passVars
  <2>4. JobTypes'
    BY <1>17 DEF Types, JobTypes, Die, Event
  <2>5. QED
    BY <2>1, <2>2, <2>3, <2>4 DEF Types
<1>18. ASSUME NEW a \in Pods, StartPod(a)
      PROVE  Types'
  <2>1. ChannelTypes'
    BY <1>18 DEF Types, ChannelTypes, StartPod, Goto, channelVars
  <2>2. RunnerTypes'
    BY <1>18, RunnersAre DEF Types, RunnerTypes, StartPod, Goto, Idle, AtWork,
                         passVars, Loop
  <2>3. CountTypes'
    BY <1>18 DEF Types, CountTypes, StartPod, Goto, passVars
  <2>4. JobTypes'
    BY <1>18 DEF Types, JobTypes, StartPod, Goto, RowOfJob, Running
  <2>5. QED
    BY <2>1, <2>2, <2>3, <2>4 DEF Types
<1>19. ASSUME NEW r \in Rows, Put(r)
      PROVE  Types'
  <2>1. ChannelTypes'
    BY <1>19, MarkAssumption DEF Types, ChannelTypes, Put, Event, channelVars,
                             Abouts
  <2>2. RunnerTypes'
    BY <1>19, LimitAssumption DEF Types, RunnerTypes, Put, Event, Marks,
                              passVars
  <2>3. CountTypes'
    BY <1>19 DEF Types, CountTypes, Put, Event, passVars
  <2>4. JobTypes'
    BY <1>19 DEF Types, JobTypes, Put, Event
  <2>5. QED
    BY <2>1, <2>2, <2>3, <2>4 DEF Types
<1>20. ASSUME NEW r \in Rows, Upsert(r)
      PROVE  Types'
  <2>1. ChannelTypes'
    BY <1>20, MarkAssumption DEF Types, ChannelTypes, Upsert, channelVars,
                             Abouts
  <2>2. RunnerTypes'
    BY <1>20 DEF Types, RunnerTypes, Upsert, passVars
  <2>3. CountTypes'
    BY <1>20 DEF Types, CountTypes, Upsert, passVars
  <2>4. JobTypes'
    BY <1>20 DEF Types, JobTypes, Upsert
  <2>5. QED
    BY <2>1, <2>2, <2>3, <2>4 DEF Types
<1>21. ASSUME NEW r \in Rows, Remove(r)
      PROVE  Types'
  <2>1. ChannelTypes'
    BY <1>21, MarkAssumption DEF Types, ChannelTypes, Remove, Event,
                             channelVars, Abouts
  <2>2. RunnerTypes'
    BY <1>21, LimitAssumption DEF Types, RunnerTypes, Remove, Event, passVars
  <2>3. CountTypes'
    BY <1>21 DEF Types, CountTypes, Remove, Event, passVars
  <2>4. JobTypes'
    BY <1>21 DEF Types, JobTypes, Remove, Event
  <2>5. QED
    BY <2>1, <2>2, <2>3, <2>4 DEF Types
<1>22. ASSUME NEW r \in Rows, Erase(r)
      PROVE  Types'
  <2>1. ChannelTypes'
    BY <1>22, MarkAssumption DEF Types, ChannelTypes, Erase, channelVars,
                             Abouts
  <2>2. RunnerTypes'
    BY <1>22 DEF Types, RunnerTypes, Erase, passVars
  <2>3. CountTypes'
    BY <1>22 DEF Types, CountTypes, Erase, passVars
  <2>4. JobTypes'
    BY <1>22 DEF Types, JobTypes, Erase
  <2>5. QED
    BY <2>1, <2>2, <2>3, <2>4 DEF Types
<1>23. ASSUME NEW r \in Rows, Add(r)
      PROVE  Types'
  <2>1. ChannelTypes'
    BY <1>23, MarkAssumption DEF Types, ChannelTypes, Add, Event, channelVars,
                             Abouts
  <2>2. RunnerTypes'
    BY <1>23, LimitAssumption DEF Types, RunnerTypes, Add, Event, passVars
  <2>3. CountTypes'
    BY <1>23 DEF Types, CountTypes, Add, Event, passVars
  <2>4. JobTypes'
    BY <1>23 DEF Types, JobTypes, Add, Event
  <2>5. QED
    BY <2>1, <2>2, <2>3, <2>4 DEF Types
<1>24. CASE DeleteChannel
  <2>1. ChannelTypes'
    BY <1>24 DEF Types, ChannelTypes, DeleteChannel, Event, channelVars, Abouts
  <2>2. RunnerTypes'
    BY <1>24, RunnersAre, LimitAssumption DEF Types, RunnerTypes, DeleteChannel,
                                          Event, passVars
  <2>3. CountTypes'
    BY <1>24 DEF Types, CountTypes, DeleteChannel, Event, passVars
  <2>4. JobTypes'
    BY <1>24 DEF Types, JobTypes, DeleteChannel, Event
  <2>5. QED
    BY <2>1, <2>2, <2>3, <2>4 DEF Types
<1>25. CASE Rest
  <2>1. ChannelTypes'
    BY <1>25 DEF Types, ChannelTypes, Rest, vars, channelVars
  <2>2. RunnerTypes'
    BY <1>25, RunnersAre DEF Types, RunnerTypes, Rest, vars, passVars
  <2>3. CountTypes'
    BY <1>25 DEF Types, CountTypes, Rest, vars, passVars
  <2>4. JobTypes'
    BY <1>25 DEF Types, JobTypes, Rest, vars
  <2>5. QED
    BY <2>1, <2>2, <2>3, <2>4 DEF Types
<1>26. CASE UNCHANGED vars
  BY <1>26 DEF Types, ChannelTypes, RunnerTypes, CountTypes, JobTypes, vars,
           channelVars, passVars
<1>27. QED
  BY <1>1, <1>2, <1>3, <1>4, <1>5, <1>6, <1>7, <1>8, <1>9, <1>10, <1>11,
     <1>12, <1>13, <1>14, <1>15, <1>16, <1>17, <1>18, <1>19, <1>20, <1>21,
     <1>22, <1>23, <1>24, <1>25, <1>26, Steps

-----------------------------------------------------------------------------
\* The semaphore of a pass lets no more than Width archives be open.
WithinWidth ==
    \A p \in Runners : Cardinality(In(p, {"open", "torn"})) <= Width

LEMMA WidthStep ==
    ASSUME Types, WithinWidth, [Next]_vars
    PROVE  WithinWidth'
<1> DEFINE Opened(p) == In(p, {"open", "torn"})
           Fewer == \A q \in Runners : Opened(q)' \subseteq Opened(q)
           OneMore == \E p \in Runners, r \in Rows :
                          /\ Cardinality(Opened(p)) < Width
                          /\ Opened(p)' \subseteq Opened(p) \cup {r}
                          /\ \A q \in Runners \ {p} :
                                 Opened(q)' \subseteq Opened(q)
<1>a. Fewer \/ OneMore
  <2>1. ASSUME NEW j \in Jobs, Ask(j)
        PROVE  Fewer \/ OneMore
    BY <2>1 DEF Ask, passVars, In, Types, RunnerTypes
  <2>2. ASSUME NEW j \in Jobs, Insert(j)
        PROVE  Fewer \/ OneMore
    BY <2>2 DEF Insert, passVars, In, Types, RunnerTypes
  <2>3. ASSUME NEW j \in Jobs, Begin(j)
        PROVE  Fewer \/ OneMore
    BY <2>3 DEF Begin, passVars, In, Types, RunnerTypes
  <2>4. ASSUME NEW j \in Jobs, Report(j)
        PROVE  Fewer \/ OneMore
    BY <2>4, MarkAssumption DEF Report, Advance, Chunk, NoChunk, passVars, In,
                             Types, RunnerTypes, Marks
  <2>5. ASSUME NEW j \in Jobs, Finish(j)
        PROVE  Fewer \/ OneMore
    BY <2>5 DEF Finish, passVars, In, Types, RunnerTypes
  <2>6. ASSUME NEW j \in Jobs, Abort(j)
        PROVE  Fewer \/ OneMore
    BY <2>6 DEF Abort, passVars, In, Types, RunnerTypes
  <2>7. ASSUME NEW j \in Jobs, Lose(j)
        PROVE  Fewer \/ OneMore
    BY <2>7 DEF Lose, passVars, In, Types, RunnerTypes
  <2>8. ASSUME NEW p \in Runners, Start(p)
        PROVE  Fewer \/ OneMore
    <3>1. chunk' = chunk \/ \E R : chunk' = [chunk EXCEPT ![p] = Chunk(R)]
      BY <2>8 DEF Start, Select
    <3>2. \A q \in Runners : Opened(q)' \subseteq Opened(q)
      BY <3>1, MarkAssumption DEF Chunk, In, Types, RunnerTypes, Marks
    <3>3. QED
      BY <3>2
  <2>9. ASSUME NEW p \in Runners, Commit(p)
        PROVE  Fewer \/ OneMore
    BY <2>9, MarkAssumption DEF Commit, Advance, Chunk, NoChunk, In, Types,
                             RunnerTypes, Marks
  <2>10. ASSUME NEW p \in Runners, CommitRaises(p)
        PROVE  Fewer \/ OneMore
    BY <2>10, MarkAssumption DEF CommitRaises, FailPass, NoChunk, In, Types,
                             RunnerTypes, Marks
  <2>11. ASSUME NEW p \in Runners, PassRaises(p)
        PROVE  Fewer \/ OneMore
    BY <2>11, MarkAssumption DEF PassRaises, FailPass, NoChunk, In, Types,
                             RunnerTypes, Marks
  <2>12. ASSUME NEW p \in Runners, NEW r \in Rows,
                 Open(p, r)
        PROVE  Fewer \/ OneMore
    <3>1. chunk' = [chunk EXCEPT ![p][r] = "open"]
          \/ chunk' = [chunk EXCEPT ![p][r] = "failed"]
      BY <2>12 DEF Open, Capture
    <3>2. Cardinality(Opened(p)) < Width
      BY <2>12 DEF Open, NextUp
    <3>3. /\ Opened(p)' \subseteq Opened(p) \cup {r}
          /\ \A q \in Runners \ {p} : Opened(q)' \subseteq Opened(q)
      BY <3>1 DEF In, Types, RunnerTypes
    <3>4. QED
      BY <3>2, <3>3
  <2>13. ASSUME NEW p \in Runners, NEW r \in Rows,
                 ReadRanges(p, r)
        PROVE  Fewer \/ OneMore
    BY <2>13, MarkAssumption DEF ReadRanges, Capture, In, Types, RunnerTypes,
                             Marks, Abouts, ChannelTypes
  <2>14. ASSUME NEW p \in Runners, NEW r \in Rows,
                 Spool(p, r)
        PROVE  Fewer \/ OneMore
    BY <2>14, MarkAssumption DEF Spool, NextUp, Capture, In, Types, RunnerTypes,
                             Marks, Abouts, ChannelTypes
  <2>15. ASSUME NEW p \in Runners, NEW r \in Rows,
                 FetchFails(p, r)
        PROVE  Fewer \/ OneMore
    BY <2>15 DEF FetchFails, NextUp, Capture, In, Types, RunnerTypes
  <2>16. ASSUME NEW a \in Pods, Wake(a)
        PROVE  Fewer \/ OneMore
    BY <2>16 DEF Wake, passVars, In, Types, RunnerTypes
  <2>17. ASSUME NEW a \in Pods, Die(a)
        PROVE  Fewer \/ OneMore
    BY <2>17, MarkAssumption DEF Die, NoChunk, passVars, In, Types, RunnerTypes,
                             Marks
  <2>18. ASSUME NEW a \in Pods, StartPod(a)
        PROVE  Fewer \/ OneMore
    BY <2>18 DEF StartPod, passVars, In, Types, RunnerTypes
  <2>19. ASSUME NEW r \in Rows, Put(r)
        PROVE  Fewer \/ OneMore
    BY <2>19 DEF Put, passVars, In, Types, RunnerTypes
  <2>20. ASSUME NEW r \in Rows, Upsert(r)
        PROVE  Fewer \/ OneMore
    BY <2>20 DEF Upsert, passVars, In, Types, RunnerTypes
  <2>21. ASSUME NEW r \in Rows, Remove(r)
        PROVE  Fewer \/ OneMore
    BY <2>21 DEF Remove, passVars, In, Types, RunnerTypes
  <2>22. ASSUME NEW r \in Rows, Erase(r)
        PROVE  Fewer \/ OneMore
    BY <2>22 DEF Erase, passVars, In, Types, RunnerTypes
  <2>23. ASSUME NEW r \in Rows, Add(r)
        PROVE  Fewer \/ OneMore
    BY <2>23 DEF Add, passVars, In, Types, RunnerTypes
  <2>24. CASE DeleteChannel
    BY <2>24 DEF DeleteChannel, passVars, In
  <2>25. CASE Rest
    BY <2>25 DEF Rest, vars, passVars, In
  <2>26. CASE UNCHANGED vars
    BY <2>26 DEF vars, passVars, In
  <2>27. QED
    BY <2>1, <2>2, <2>3, <2>4, <2>5, <2>6, <2>7, <2>8, <2>9, <2>10, <2>11,
       <2>12, <2>13, <2>14, <2>15, <2>16, <2>17, <2>18, <2>19, <2>20, <2>21,
       <2>22, <2>23, <2>24, <2>25, <2>26, Steps
<1>b. \A q \in Runners : Opened(q) \in SUBSET Rows /\ Opened(q)' \in SUBSET Rows
  BY DEF In
<1>c. \A q \in Runners : /\ IsFiniteSet(Opened(q))
                         /\ Cardinality(Opened(q)) <= Width
  BY <1>b, RowSets DEF WithinWidth
<1> HIDE DEF Opened
<1>d. ASSUME NEW q \in Runners, Opened(q)' \subseteq Opened(q)
      PROVE  Cardinality(Opened(q)') <= Width
  <2>1. /\ Opened(q)' \in SUBSET Opened(q)
        /\ Cardinality(Opened(q)) \in Nat /\ Cardinality(Opened(q)') \in Nat
    BY <1>b, <1>d, RowSets
  <2>2. Cardinality(Opened(q)') <= Cardinality(Opened(q))
    BY <1>c, <2>1, FS_Subset
  <2>3. QED
    BY <1>c, <2>1, <2>2, LimitAssumption
<1>e. ASSUME NEW p \in Runners, NEW r \in Rows,
             Cardinality(Opened(p)) < Width,
             Opened(p)' \subseteq Opened(p) \cup {r}
      PROVE  Cardinality(Opened(p)') <= Width
  <2>1. /\ IsFiniteSet(Opened(p) \cup {r})
        /\ Cardinality(Opened(p) \cup {r}) \in Nat
        /\ Cardinality(Opened(p) \cup {r}) <= Cardinality(Opened(p)) + 1
    <3>1. /\ IsFiniteSet(Opened(p) \cup {r})
          /\ Cardinality(Opened(p) \cup {r}) =
                 IF r \in Opened(p) THEN Cardinality(Opened(p))
                 ELSE Cardinality(Opened(p)) + 1
      BY <1>c, FS_AddElement
    <3>2. Cardinality(Opened(p)) \in Nat
      BY <1>b, RowSets
    <3>3. QED
      BY <3>1, <3>2
  <2>2. /\ Opened(p)' \in SUBSET (Opened(p) \cup {r})
        /\ Cardinality(Opened(p)) \in Nat /\ Cardinality(Opened(p)') \in Nat
    BY <1>b, <1>e, RowSets
  <2>3. Cardinality(Opened(p)') <= Cardinality(Opened(p) \cup {r})
    BY <2>1, <2>2, FS_Subset
  <2>4. QED
    BY <1>e, <2>1, <2>2, <2>3, LimitAssumption
<1>f. \A q \in Runners : Cardinality(Opened(q)') <= Width
  BY <1>a, <1>d, <1>e
<1>g. QED
  BY <1>f DEF WithinWidth, Opened

-----------------------------------------------------------------------------
\* Where the task of a job is under way.
Working == AtWork \ {"insert"}

\* A job nobody counts as started beside another has a row that says it is
\* running, which keeps other requests from inserting theirs; and of two that
\* are under way, or about to be, one is so counted.
Together ==
    /\ \A j \in Jobs :
           pc[j] \in Working /\ job[j] # None /\ j \notin beside => Running(j)
    /\ \A j, k \in Jobs :
           /\ j # k
           /\ pc[j] \in Working /\ job[j] # None
           /\ pc[k] = "insert" \/ (pc[k] \in Working /\ job[k] # None)
           => j \in beside \/ k \in beside

LEMMA TogetherStep ==
    ASSUME Types, Together, [Next]_vars
    PROVE  Together'
<1>1. ASSUME NEW j \in Jobs, Ask(j)
      PROVE  Together'
  BY <1>1, RunnersAre DEF Together, Ask, Goto, Running, Working, AtWork, Idle,
                       Types, RunnerTypes, JobTypes, CountTypes
<1>2. ASSUME NEW j \in Jobs, Insert(j)
      PROVE  Together'
  <2>1. CASE ~exists \/ Unstamped = {}
    <3>1. /\ UNCHANGED <<job, beside>> /\ pc'[j] = "ended"
          /\ \A k \in Jobs \ {j} : pc'[k] = pc[k]
      BY <1>2, <2>1, RunnersAre DEF Insert, Goto, Types, RunnerTypes
    <3>2. QED
      BY <3>1 DEF Together, Running, Working, AtWork
  <2>2. CASE ~(~exists \/ Unstamped = {})
    <3>1. /\ pc[j] = "insert" /\ pc'[j] = "begin"
          /\ \A k \in Jobs \ {j} : pc'[k] = pc[k]
      BY <1>2, <2>2, RunnersAre DEF Insert, Goto, Types, RunnerTypes
    <3>2. /\ job'[j].status = "pending"
          /\ \A k \in Jobs \ {j} : job'[k] = job[k]
      BY <1>2, <2>2 DEF Insert, Types, JobTypes
    <3>3. beside' = beside \cup {k \in Jobs : pc[k] = "insert" /\ k # j}
      BY <1>2, <2>2 DEF Insert
    <3>4. ASSUME NEW i \in Jobs, pc'[i] \in Working, job'[i] # None,
                 i \notin beside'
          PROVE  Running(i)'
      BY <3>1, <3>2, <3>3, <3>4 DEF Together, Running
    <3>5. ASSUME NEW i \in Jobs, NEW k \in Jobs, i # k,
                 pc'[i] \in Working, job'[i] # None,
                 pc'[k] = "insert" \/ (pc'[k] \in Working /\ job'[k] # None)
          PROVE  i \in beside' \/ k \in beside'
      <4>1. CASE i # j /\ k # j
        BY <3>1, <3>2, <3>3, <3>5, <4>1 DEF Together
      <4>2. CASE i = j
        <5>1. CASE pc[k] = "insert"
          BY <3>3, <3>5, <4>2, <5>1
        <5>2. CASE pc[k] # "insert"
          <6>1. pc[k] \in Working /\ job[k] # None
            BY <3>1, <3>2, <3>5, <4>2, <5>2
          <6>2. QED
            BY <3>1, <3>3, <3>5, <4>2, <6>1 DEF Together
        <5>3. QED
          BY <5>1, <5>2
      <4>3. CASE k = j
        <5>1. pc[i] \in Working /\ job[i] # None
          BY <3>1, <3>2, <3>5, <4>3
        <5>2. QED
          BY <3>1, <3>3, <3>5, <4>3, <5>1 DEF Together
      <4>4. QED
        BY <4>1, <4>2, <4>3
    <3>6. QED
      BY <3>4, <3>5 DEF Together
  <2>3. QED
    BY <2>1, <2>2
<1>3. ASSUME NEW j \in Jobs, Begin(j)
      PROVE  Together'
  BY <1>3, RunnersAre DEF Together, Begin, Goto, Running, Working, AtWork,
                       Idle, Types, RunnerTypes, JobTypes, CountTypes
<1>4. ASSUME NEW j \in Jobs, Report(j)
      PROVE  Together'
  BY <1>4, RunnersAre DEF Together, Report, Advance, Goto, Running, Working,
                       AtWork, Idle, Types, RunnerTypes, JobTypes,
                       CountTypes
<1>5. ASSUME NEW j \in Jobs, Finish(j)
      PROVE  Together'
  BY <1>5, RunnersAre DEF Together, Finish, Goto, Running, Working, AtWork,
                       Idle, Types, RunnerTypes, JobTypes, CountTypes
<1>6. ASSUME NEW j \in Jobs, Abort(j)
      PROVE  Together'
  BY <1>6, RunnersAre DEF Together, Abort, Goto, Running, Working, AtWork,
                       Idle, Types, RunnerTypes, JobTypes, CountTypes
<1>7. ASSUME NEW j \in Jobs, Lose(j)
      PROVE  Together'
  BY <1>7, RunnersAre DEF Together, Lose, Goto, Running, Working, AtWork, Idle,
                       Types, RunnerTypes, JobTypes, CountTypes
<1>8. ASSUME NEW p \in Runners, Start(p)
      PROVE  Together'
  <2>1. UNCHANGED <<job, beside>>
    BY <1>8 DEF Start
  <2>2. \A j \in Jobs : \/ pc'[j] = pc[j]
                        \/ pc[j] \in Working /\ pc'[j] \in Working
    BY <1>8, RunnersAre, RunnerAssumption DEF Types, RunnerTypes, Start,
                                           Select, Goto, Working, AtWork
  <2>3. \A j \in Jobs : pc'[j] = "insert" <=> pc[j] = "insert"
    BY <2>2 DEF Working
  <2>4. QED
    BY <2>1, <2>2, <2>3 DEF Together, Running
<1>9. ASSUME NEW p \in Runners, Commit(p)
      PROVE  Together'
  <2>1. UNCHANGED <<job, beside>>
    BY <1>9 DEF Commit
  <2>2. \A j \in Jobs : \/ pc'[j] = pc[j]
                        \/ pc[j] \in Working /\ pc'[j] \in Working
    BY <1>9, RunnersAre, RunnerAssumption DEF Types, RunnerTypes, Commit,
                                           Advance, Goto, Working, AtWork,
                                           Gathered
  <2>3. \A j \in Jobs : pc'[j] = "insert" <=> pc[j] = "insert"
    BY <2>2 DEF Working
  <2>4. QED
    BY <2>1, <2>2, <2>3 DEF Together, Running
<1>10. ASSUME NEW p \in Runners, CommitRaises(p)
      PROVE  Together'
  <2>1. UNCHANGED <<job, beside>>
    BY <1>10 DEF CommitRaises, FailPass
  <2>2. \A j \in Jobs : \/ pc'[j] = pc[j]
                        \/ pc[j] \in Working /\ pc'[j] \in Working
    BY <1>10, RunnersAre, RunnerAssumption DEF Types, RunnerTypes, CommitRaises,
                                           FailPass, Goto, Working, AtWork,
                                           Gathered
  <2>3. \A j \in Jobs : pc'[j] = "insert" <=> pc[j] = "insert"
    BY <2>2 DEF Working
  <2>4. QED
    BY <2>1, <2>2, <2>3 DEF Together, Running
<1>11. ASSUME NEW p \in Runners, PassRaises(p)
      PROVE  Together'
  BY <1>11, RunnersAre, RunnerAssumption DEF Together, PassRaises, FailPass,
                                         Goto, Running, Working, AtWork,
                                         Idle, Types, RunnerTypes, JobTypes,
                                         CountTypes
<1>12. ASSUME NEW p \in Runners, NEW r \in Rows,
               Open(p, r)
      PROVE  Together'
  BY <1>12 DEF Together, Open, Capture, Running, Working, AtWork
<1>13. ASSUME NEW p \in Runners, NEW r \in Rows,
               ReadRanges(p, r)
      PROVE  Together'
  BY <1>13 DEF Together, ReadRanges, Capture, Running, Working, AtWork
<1>14. ASSUME NEW p \in Runners, NEW r \in Rows,
               Spool(p, r)
      PROVE  Together'
  BY <1>14 DEF Together, Spool, Capture, Running, Working, AtWork
<1>15. ASSUME NEW p \in Runners, NEW r \in Rows,
               FetchFails(p, r)
      PROVE  Together'
  BY <1>15 DEF Together, FetchFails, Capture, Running, Working, AtWork
<1>16. ASSUME NEW a \in Pods, Wake(a)
      PROVE  Together'
  BY <1>16, RunnersAre, RunnerAssumption DEF Together, Wake, Goto, Running,
                                         Working, AtWork, Idle, Types,
                                         RunnerTypes, JobTypes, CountTypes
<1>17. ASSUME NEW a \in Pods, Die(a)
      PROVE  Together'
  BY <1>17, RunnersAre, RunnerAssumption DEF Together, Die, Running, Working,
                                         AtWork, Idle, Types, RunnerTypes,
                                         JobTypes, CountTypes
<1>18. ASSUME NEW a \in Pods, StartPod(a)
      PROVE  Together'
  BY <1>18, RunnersAre, RunnerAssumption DEF Together, StartPod, Goto, Running,
                                         Working, AtWork, Idle, Types,
                                         RunnerTypes, JobTypes, CountTypes
<1>19. ASSUME NEW r \in Rows, Put(r)
      PROVE  Together'
  BY <1>19 DEF Together, Put, Running, Working, AtWork
<1>20. ASSUME NEW r \in Rows, Upsert(r)
      PROVE  Together'
  BY <1>20 DEF Together, Upsert, Running, Working, AtWork
<1>21. ASSUME NEW r \in Rows, Remove(r)
      PROVE  Together'
  BY <1>21 DEF Together, Remove, Running, Working, AtWork
<1>22. ASSUME NEW r \in Rows, Erase(r)
      PROVE  Together'
  BY <1>22 DEF Together, Erase, Running, Working, AtWork
<1>23. ASSUME NEW r \in Rows, Add(r)
      PROVE  Together'
  BY <1>23 DEF Together, Add, Running, Working, AtWork
<1>24. CASE DeleteChannel
  BY <1>24 DEF Together, DeleteChannel, Running, Working, AtWork
<1>25. CASE Rest
  BY <1>25 DEF Together, Rest, vars, Running, Working, AtWork
<1>26. CASE UNCHANGED vars
  BY <1>26 DEF Together, vars, Running, Working, AtWork
<1>27. QED
  BY <1>1, <1>2, <1>3, <1>4, <1>5, <1>6, <1>7, <1>8, <1>9, <1>10, <1>11,
     <1>12, <1>13, <1>14, <1>15, <1>16, <1>17, <1>18, <1>19, <1>20, <1>21,
     <1>22, <1>23, <1>24, <1>25, <1>26, Steps
-----------------------------------------------------------------------------
\* What a pass has read of a row, it read from the bytes in storage, unless
\* they were replaced since.
Known(p, r) ==
    /\ chunk[p][r] # "torn"
    /\ chunk[p][r] \in Editions => object[r] \in {chunk[p][r], Gone}
    /\ chunk[p][r] = Blank => r \in Oversized

Described ==
    /\ \A p \in Runners, r \in Rows \ outrun : Known(p, r)
    /\ AboutDescribesBytes

LEMMA DescribedStep ==
    ASSUME Types, Described, [Next]_vars
    PROVE  Described'
<1>1. ASSUME NEW j \in Jobs, Ask(j)
      PROVE  Described'
  BY <1>1 DEF Described, Known, AboutDescribesBytes, Ask, channelVars,
           passVars
<1>2. ASSUME NEW j \in Jobs, Insert(j)
      PROVE  Described'
  BY <1>2 DEF Described, Known, AboutDescribesBytes, Insert, channelVars,
           passVars
<1>3. ASSUME NEW j \in Jobs, Begin(j)
      PROVE  Described'
  BY <1>3 DEF Described, Known, AboutDescribesBytes, Begin, channelVars,
           passVars
<1>4. ASSUME NEW j \in Jobs, Report(j)
      PROVE  Described'
  BY <1>4, MarkAssumption DEF Described, Known, AboutDescribesBytes, Report,
                           Advance, channelVars, passVars, Types,
                           ChannelTypes, RunnerTypes, Abouts, Marks, Chunk,
                           NoChunk
<1>5. ASSUME NEW j \in Jobs, Finish(j)
      PROVE  Described'
  BY <1>5 DEF Described, Known, AboutDescribesBytes, Finish, channelVars,
           passVars
<1>6. ASSUME NEW j \in Jobs, Abort(j)
      PROVE  Described'
  BY <1>6 DEF Described, Known, AboutDescribesBytes, Abort, channelVars,
           passVars
<1>7. ASSUME NEW j \in Jobs, Lose(j)
      PROVE  Described'
  BY <1>7 DEF Described, Known, AboutDescribesBytes, Lose, channelVars,
           passVars
<1>8. ASSUME NEW p \in Runners, Start(p)
      PROVE  Described'
  <2>1. chunk' = chunk \/ \E R : chunk' = [chunk EXCEPT ![p] = Chunk(R)]
    BY <1>8 DEF Start, Select
  <2>2. UNCHANGED <<alive, object, about, uploading, outrun>>
    BY <1>8 DEF Start, channelVars
  <2>3. ASSUME NEW q \in Runners, NEW r \in Rows \ outrun
        PROVE  Known(q, r)'
    BY <2>1, <2>2, MarkAssumption
       DEF Described, Known, Chunk, Abouts, Marks, Types, RunnerTypes
  <2>4. QED
    BY <2>2, <2>3 DEF Described, AboutDescribesBytes
<1>9. ASSUME NEW p \in Runners, Commit(p)
      PROVE  Described'
  BY <1>9, MarkAssumption DEF Described, Known, AboutDescribesBytes, Commit,
                           Advance, channelVars, passVars, Types,
                           ChannelTypes, RunnerTypes, Abouts, Marks, Chunk,
                           NoChunk, Captured, In
<1>10. ASSUME NEW p \in Runners, CommitRaises(p)
      PROVE  Described'
  BY <1>10, MarkAssumption DEF Described, Known, AboutDescribesBytes,
                           CommitRaises, FailPass, channelVars, passVars,
                           Types, ChannelTypes, RunnerTypes, Abouts, Marks,
                           NoChunk
<1>11. ASSUME NEW p \in Runners, PassRaises(p)
      PROVE  Described'
  BY <1>11, MarkAssumption DEF Described, Known, AboutDescribesBytes,
                           PassRaises, FailPass, channelVars, passVars,
                           Types, ChannelTypes, RunnerTypes, Abouts, Marks,
                           NoChunk
<1>12. ASSUME NEW p \in Runners, NEW r \in Rows,
               Open(p, r)
      PROVE  Described'
  BY <1>12, MarkAssumption DEF Described, Known, AboutDescribesBytes, Open,
                           NextUp, Capture, In, channelVars, passVars,
                           Types, ChannelTypes, RunnerTypes, Abouts, Marks
<1>13. ASSUME NEW p \in Runners, NEW r \in Rows,
               ReadRanges(p, r)
      PROVE  Described'
  <2>1. UNCHANGED <<alive, object, about, uploading, outrun>>
    BY <1>13 DEF ReadRanges, Capture, channelVars
  <2>2. PICK o : /\ chunk' = [chunk EXCEPT ![p][r] = o]
                 /\ \/ object[r] # Gone /\ o = object[r]
                    \/ chunk[p][r] = "torn" /\ o = Blank
                    \/ o = "failed"
    BY <1>13 DEF ReadRanges, Capture
  <2>3. ASSUME NEW q \in Runners, NEW s \in Rows \ outrun
        PROVE  Known(q, s)'
    <3>1. CASE q = p /\ s = r
      <4>1. chunk'[q][s] = o
        BY <2>2, <3>1 DEF Types, RunnerTypes
      <4>2. object[r] \in Editions \cup {Gone} /\ chunk[p][r] # "torn"
        BY <2>3, <3>1 DEF Described, Known, Types, ChannelTypes
      <4>3. QED
        BY <2>1, <2>2, <3>1, <4>1, <4>2, MarkAssumption
           DEF Known, Abouts, Marks
    <3>2. CASE ~(q = p /\ s = r)
      <4>1. chunk'[q][s] = chunk[q][s]
        BY <2>2, <3>2 DEF Types, RunnerTypes
      <4>2. QED
        BY <2>1, <2>3, <4>1 DEF Described, Known
    <3>3. QED
      BY <3>1, <3>2
  <2>4. QED
    BY <2>1, <2>3 DEF Described, AboutDescribesBytes
<1>14. ASSUME NEW p \in Runners, NEW r \in Rows,
               Spool(p, r)
      PROVE  Described'
  BY <1>14, MarkAssumption DEF Described, Known, AboutDescribesBytes, Spool,
                           NextUp, Capture, In, channelVars, passVars,
                           Types, ChannelTypes, RunnerTypes, Abouts, Marks
<1>15. ASSUME NEW p \in Runners, NEW r \in Rows,
               FetchFails(p, r)
      PROVE  Described'
  BY <1>15, MarkAssumption DEF Described, Known, AboutDescribesBytes,
                           FetchFails, NextUp, Capture, In, channelVars,
                           passVars, Types, ChannelTypes, RunnerTypes,
                           Abouts, Marks
<1>16. ASSUME NEW a \in Pods, Wake(a)
      PROVE  Described'
  BY <1>16 DEF Described, Known, AboutDescribesBytes, Wake, channelVars,
           passVars
<1>17. ASSUME NEW a \in Pods, Die(a)
      PROVE  Described'
  BY <1>17, MarkAssumption DEF Described, Known, AboutDescribesBytes, Die,
                           channelVars, passVars, Types, ChannelTypes,
                           RunnerTypes, Abouts, Marks, NoChunk
<1>18. ASSUME NEW a \in Pods, StartPod(a)
      PROVE  Described'
  BY <1>18 DEF Described, Known, AboutDescribesBytes, StartPod, channelVars,
           passVars
<1>19. ASSUME NEW r \in Rows, Put(r)
      PROVE  Described'
  BY <1>19, MarkAssumption DEF Described, Known, AboutDescribesBytes, Put,
                           channelVars, passVars, Types, ChannelTypes,
                           RunnerTypes, Abouts, Marks
<1>20. ASSUME NEW r \in Rows, Upsert(r)
      PROVE  Described'
  <2>1. /\ uploading' = uploading \ {r} /\ alive' = alive
        /\ object' = object /\ chunk' = chunk
        /\ \A q \in Rows \ {r} : about'[q] = about[q]
        /\ r \in alive => about'[r] = object[r]
        /\ outrun' = outrun \/ (outrun' = outrun \ {r} /\ ~Behind(r))
    BY <1>20 DEF Upsert, passVars, Types, ChannelTypes
  <2>2. ASSUME NEW p \in Runners, NEW q \in Rows \ outrun'
        PROVE  Known(p, q)'
    <3>1. CASE q \notin outrun
      BY <2>1, <2>2, <3>1 DEF Described, Known
    <3>2. CASE q \in outrun
      <4>1. q = r /\ ~Behind(r)
        BY <2>1, <2>2, <3>2
      <4>2. chunk[p][r] \notin {"torn"} \cup (Abouts \ {object[r]})
        BY <4>1 DEF Behind
      <4>3. object[r] \in Editions
        BY <1>20 DEF Upsert, Types, ChannelTypes
      <4>4. QED
        BY <2>1, <4>1, <4>2, <4>3, MarkAssumption DEF Known, Abouts
    <3>3. QED
      BY <3>1, <3>2
  <2>3. AboutDescribesBytes'
    <3> SUFFICES ASSUME NEW q \in alive, q \notin uploading' \cup outrun'
                 PROVE  /\ about'[q] \in Editions =>
                               object[q] \in {about'[q], Gone}
                        /\ about'[q] = Blank => q \in Oversized
      BY <2>1 DEF AboutDescribesBytes
    <3>1. q \in Rows
      BY DEF Types, ChannelTypes
    <3>2. CASE q = r
      <4>1. object[r] \in Editions
        BY <1>20 DEF Upsert, Types, ChannelTypes
      <4>2. QED
        BY <2>1, <3>2, <4>1, MarkAssumption
    <3>3. CASE q # r
      BY <2>1, <3>1, <3>3 DEF Described, AboutDescribesBytes
    <3>4. QED
      BY <3>2, <3>3
  <2>4. QED
    BY <2>2, <2>3 DEF Described
<1>21. ASSUME NEW r \in Rows, Remove(r)
      PROVE  Described'
  BY <1>21, MarkAssumption DEF Described, Known, AboutDescribesBytes, Remove,
                           channelVars, passVars, Types, ChannelTypes,
                           RunnerTypes, Abouts, Marks
<1>22. ASSUME NEW r \in Rows, Erase(r)
      PROVE  Described'
  BY <1>22, MarkAssumption DEF Described, Known, AboutDescribesBytes, Erase,
                           channelVars, passVars, Types, ChannelTypes,
                           RunnerTypes, Abouts, Marks
<1>23. ASSUME NEW r \in Rows, Add(r)
      PROVE  Described'
  BY <1>23, MarkAssumption DEF Described, Known, AboutDescribesBytes, Add,
                           channelVars, passVars, Types, ChannelTypes,
                           RunnerTypes, Abouts, Marks
<1>24. CASE DeleteChannel
  BY <1>24, MarkAssumption DEF Described, Known, AboutDescribesBytes,
                           DeleteChannel, channelVars, passVars, Abouts
<1>25. CASE Rest
  BY <1>25 DEF Described, Known, AboutDescribesBytes, Rest, vars, channelVars,
           passVars
<1>26. CASE UNCHANGED vars
  BY <1>26 DEF Described, Known, AboutDescribesBytes, vars, channelVars,
           passVars
<1>27. QED
  BY <1>1, <1>2, <1>3, <1>4, <1>5, <1>6, <1>7, <1>8, <1>9, <1>10, <1>11,
     <1>12, <1>13, <1>14, <1>15, <1>16, <1>17, <1>18, <1>19, <1>20, <1>21,
     <1>22, <1>23, <1>24, <1>25, <1>26, Steps
-----------------------------------------------------------------------------
\* Before the task of a job has selected its rows.
Early == {"none", "insert", "begin", "select"}

\* The rows a job has selected and not counted yet, and all it has selected.
Undone(j) == queue[j] \cup In(j, {"todo", "open", "torn"})
Taken(j) == tally[j].read \cup tally[j].failed \cup Undone(j)

\* A job counts each row it selected once, as read or as failed, selects no
\* more of them than its limit, and commits what it counts as read.
Counted(j) ==
    /\ pc[j] \in Early => /\ tally[j].read = {} /\ tally[j].failed = {}
                          /\ kept[j] = {} /\ queue[j] = {}
                          /\ chunk[j] = NoChunk
    /\ tally[j].read \cap tally[j].failed = {}
    /\ Undone(j) \cap (tally[j].read \cup tally[j].failed) = {}
    /\ \A r \in queue[j] : chunk[j][r] = None
    /\ Cardinality(Taken(j)) <= JobLimit
    /\ kept[j] \subseteq tally[j].read
    /\ pc[j] = "read" => tally[j].read = kept[j] \cup Captured(j)
    /\ pc[j] \in {"report", "finish"} => tally[j].read = kept[j]

\* Its row says no more than that.
Booked(j) ==
    job[j] # None =>
        /\ job[j].total <= JobLimit
        /\ job[j].done <= Cardinality(kept[j])
        /\ job[j].status = "completed" =>
               pc[j] = "ended" /\ job[j].done = Cardinality(kept[j])

AllCounted == \A j \in Jobs : Counted(j)
AllBooked == \A j \in Jobs : Booked(j)

LEMMA NoMoreRows ==
    ASSUME NEW S \in SUBSET Rows, NEW T \in SUBSET S, NEW n \in Nat,
           Cardinality(S) <= n
    PROVE  Cardinality(T) <= n
<1>1. /\ IsFiniteSet(S) /\ Cardinality(S) \in Nat
      /\ Cardinality(T) \in Nat
  BY RowSets
<1>2. Cardinality(T) <= Cardinality(S)
  BY <1>1, FS_Subset
<1>3. QED
  BY <1>1, <1>2

LEMMA TakenTypes ==
    ASSUME Types, NEW j \in Jobs
    PROVE  /\ Taken(j) \in SUBSET Rows /\ Undone(j) \in SUBSET Rows
           /\ tally[j].read \in SUBSET Rows /\ tally[j].failed \in SUBSET Rows
           /\ queue[j] \in SUBSET Rows /\ kept[j] \in SUBSET Rows
           /\ chunk[j] \in [Rows -> Marks \cup Abouts \cup {None}]
           /\ pc[j] \in Idle \cup AtWork
  BY RunnersAre DEF Types, RunnerTypes, CountTypes, Taken, Undone, In

\* A job none of whose counts change keeps them.
LEMMA CountedStays ==
    ASSUME NEW j \in Jobs, Counted(j), pc'[j] = pc[j], queue'[j] = queue[j],
           chunk'[j] = chunk[j], tally'[j] = tally[j], kept'[j] = kept[j]
    PROVE  Counted(j)'
  BY DEF Counted, Taken, Undone, Captured, In

\* Nor do they change when it has not begun, or is over, or is cut off.
LEMMA CountedLeft ==
    ASSUME Types, NEW j \in Jobs, Counted(j),
           tally'[j] = tally[j], kept'[j] = kept[j],
           queue'[j] \in {queue[j], {}}, chunk'[j] \in {chunk[j], NoChunk},
           pc'[j] \notin {"read", "report", "finish"},
           pc'[j] \in Early => pc[j] \in Early
    PROVE  Counted(j)'
<1>1. Undone(j)' \subseteq Undone(j)
  BY MarkAssumption, TakenTypes DEF Undone, In, NoChunk, Marks
<1>2. Taken(j)' \in SUBSET Taken(j)
  BY <1>1 DEF Taken
<1>3. Cardinality(Taken(j)') <= JobLimit
  BY <1>2, TakenTypes, NoMoreRows, LimitAssumption DEF Counted
<1>4. \A r \in queue'[j] : chunk'[j][r] = None
  BY TakenTypes DEF Counted, NoChunk
<1>5. QED
  BY <1>1, <1>3, <1>4 DEF Counted

\* It begins a chunk, its first or the next one.
LEMMA CountedAnew ==
    ASSUME Types, NEW j \in Jobs, NEW S \in SUBSET Rows, NEW now \in SUBSET S,
           tally[j].read = kept[j],
           tally[j].read \cap tally[j].failed = {},
           S \cap (tally[j].read \cup tally[j].failed) = {},
           Cardinality(tally[j].read \cup tally[j].failed \cup S) <= JobLimit,
           tally'[j] = tally[j], kept'[j] = kept[j],
           queue'[j] = S \ now, chunk'[j] = Chunk(now),
           pc'[j] \in {"read", "finish"}
    PROVE  Counted(j)'
<1>1. /\ \A r \in Rows : chunk'[j][r] = IF r \in now THEN "todo" ELSE None
      /\ None \notin Marks \cup Abouts /\ "todo" \in Marks
      /\ Abouts \cap Marks = {}
  BY MarkAssumption DEF Chunk, Marks
<1>2. In(j, {"todo", "open", "torn"})' = now
  BY <1>1 DEF In, Marks
<1>3. Captured(j)' = {}
  BY <1>1 DEF Captured, In
<1>4. Undone(j)' = S
  BY <1>2 DEF Undone
<1>5. Taken(j)' = tally[j].read \cup tally[j].failed \cup S
  BY <1>4 DEF Taken
<1>6. \A r \in queue'[j] : chunk'[j][r] = None
  BY <1>1
<1>7. QED
  BY <1>3, <1>4, <1>5, <1>6 DEF Counted, Early

\* It counts the outcome of a row it has not counted yet.
LEMMA CountedOnce ==
    ASSUME Types, NEW j \in Jobs, Counted(j), NEW r \in Rows,
           NEW o \in Abouts \cup {"failed"}, pc[j] = "read",
           chunk[j][r] \in {"todo", "open", "torn"},
           pc'[j] = pc[j], queue'[j] = queue[j], kept'[j] = kept[j],
           chunk'[j] = [chunk[j] EXCEPT ![r] = o],
           tally'[j] = IF o = "failed"
                       THEN [tally[j] EXCEPT !.failed = @ \cup {r}]
                       ELSE [tally[j] EXCEPT !.read = @ \cup {r}]
    PROVE  Counted(j)'
<1>1. /\ tally'[j].read = IF o = "failed" THEN tally[j].read
                          ELSE tally[j].read \cup {r}
      /\ tally'[j].failed = IF o = "failed" THEN tally[j].failed \cup {r}
                            ELSE tally[j].failed
  BY DEF Types, CountTypes
<1>2. /\ chunk'[j][r] = o
      /\ \A q \in Rows \ {r} : chunk'[j][q] = chunk[j][q]
  BY TakenTypes
<1>3. /\ Abouts \cap Marks = {} /\ "failed" \in Marks /\ None \notin Marks
      /\ {"todo", "open", "torn"} \subseteq Marks
  BY MarkAssumption DEF Marks
<1>4. r \in Undone(j) /\ r \notin queue[j]
  BY <1>3 DEF Undone, In, Counted
<1>5. In(j, {"todo", "open", "torn"})'
          = In(j, {"todo", "open", "torn"}) \ {r}
  <2>1. o \notin {"todo", "open", "torn"}
    BY <1>3
  <2>2. QED
    BY <1>2, <2>1 DEF In
<1>6. Undone(j)' = Undone(j) \ {r}
  BY <1>4, <1>5 DEF Undone
<1>7. Captured(j)' = IF o = "failed" THEN Captured(j)
                     ELSE Captured(j) \cup {r}
  <2>1. o = "failed" <=> o \notin Abouts
    BY <1>3
  <2>2. chunk[j][r] \notin Abouts
    BY <1>3
  <2>3. QED
    BY <1>2, <2>1, <2>2 DEF Captured, In
<1>8. Taken(j)' = Taken(j)
  BY <1>1, <1>4, <1>6 DEF Taken
<1>9. \A q \in queue'[j] : chunk'[j][q] = None
  BY <1>2, <1>4, TakenTypes DEF Counted
<1>10. QED
  BY <1>1, <1>4, <1>6, <1>7, <1>8, <1>9 DEF Counted, Early

\* Opening an archive, or replacing one that is open, counts nothing.
LEMMA CountedOpen ==
    ASSUME Types, NEW j \in Jobs, Counted(j), NEW r \in Rows,
           NEW o \in {"open", "torn"}, chunk[j][r] \in {"todo", "open"},
           pc'[j] = pc[j], queue'[j] = queue[j], kept'[j] = kept[j],
           tally'[j] = tally[j],
           chunk'[j] = [chunk[j] EXCEPT ![r] = o]
    PROVE  Counted(j)'
<1>1. /\ chunk'[j][r] = o
      /\ \A q \in Rows \ {r} : chunk'[j][q] = chunk[j][q]
  BY TakenTypes
<1>2. /\ Abouts \cap Marks = {} /\ None \notin Marks
      /\ {"todo", "open", "torn"} \subseteq Marks
  BY MarkAssumption DEF Marks
<1>3. In(j, {"todo", "open", "torn"})' = In(j, {"todo", "open", "torn"})
  BY <1>1 DEF In
<1>4. Captured(j)' = Captured(j)
  BY <1>1, <1>2 DEF Captured, In
<1>5. Undone(j)' = Undone(j) /\ Taken(j)' = Taken(j)
  BY <1>3 DEF Undone, Taken
<1>6. r \notin queue[j]
  BY <1>2 DEF Counted
<1>7. \A q \in queue'[j] : chunk'[j][q] = None
  BY <1>1, <1>6, TakenTypes DEF Counted
<1>8. pc[j] \in Early => FALSE
  BY <1>2 DEF Counted, NoChunk
<1>9. QED
  BY <1>4, <1>5, <1>7, <1>8 DEF Counted

LEMMA CaptureCounts ==
    ASSUME Types, AllCounted, NEW p \in Runners, NEW r \in Rows,
           NEW o \in Abouts \cup {"failed"}, pc[p] = "read",
           chunk[p][r] \in {"todo", "open", "torn"}, Capture(p, r, o)
    PROVE  AllCounted'
<1>1. /\ chunk' = [chunk EXCEPT ![p][r] = o]
      /\ UNCHANGED <<queue, kept, pc>>
  BY DEF Capture
<1>2. \A k \in Runners : chunk'[k] = IF k = p THEN [chunk[p] EXCEPT ![r] = o]
                                     ELSE chunk[k]
  BY <1>1 DEF Types, RunnerTypes
<1>3. \A k \in Jobs : tally'[k] =
          IF k # p THEN tally[k]
          ELSE IF o = "failed" THEN [tally[k] EXCEPT !.failed = @ \cup {r}]
          ELSE [tally[k] EXCEPT !.read = @ \cup {r}]
  BY DEF Capture, Types, CountTypes
<1>4. \A k \in Jobs \ {p} : Counted(k)'
  BY <1>1, <1>2, <1>3, RunnersAre, CountedStays DEF AllCounted
<1>5. p \in Jobs => Counted(p)'
  <2>1. SUFFICES ASSUME p \in Jobs PROVE Counted(p)'
    OBVIOUS
  <2>2. /\ pc'[p] = pc[p] /\ queue'[p] = queue[p] /\ kept'[p] = kept[p]
        /\ chunk'[p] = [chunk[p] EXCEPT ![r] = o]
        /\ tally'[p] = IF o = "failed"
                       THEN [tally[p] EXCEPT !.failed = @ \cup {r}]
                       ELSE [tally[p] EXCEPT !.read = @ \cup {r}]
    BY <1>1, <1>2, <1>3, <2>1
  <2>3. Counted(p)
    BY <2>1 DEF AllCounted
  <2>4. QED
    BY <2>1, <2>2, <2>3, CountedOnce
<1>6. QED
  BY <1>4, <1>5 DEF AllCounted

LEMMA CountedStep ==
    ASSUME Types, AllCounted, [Next]_vars
    PROVE  AllCounted'
<1>1. ASSUME NEW j \in Jobs, Ask(j)
      PROVE  AllCounted'
  <2>1. UNCHANGED <<queue, chunk, tally, kept>>
    BY <1>1 DEF Ask, passVars
  <2>2. \A k \in Jobs \ {j} : pc'[k] = pc[k]
    BY <1>1, RunnersAre DEF Ask, Goto, Types, RunnerTypes
  <2>3. /\ pc'[j] \notin {"read", "report", "finish"}
        /\ pc'[j] \in Early => pc[j] \in Early
    BY <1>1, RunnersAre DEF Ask, Goto, Types, RunnerTypes, Early
  <2>4. Counted(j)'
    BY <2>1, <2>3, CountedLeft DEF AllCounted
  <2>5. \A k \in Jobs \ {j} : Counted(k)'
    BY <2>1, <2>2, CountedStays DEF AllCounted
  <2>6. QED
    BY <2>4, <2>5 DEF AllCounted
<1>2. ASSUME NEW j \in Jobs, Insert(j)
      PROVE  AllCounted'
  <2>1. UNCHANGED <<queue, chunk, tally, kept>>
    BY <1>2 DEF Insert, passVars
  <2>2. \A k \in Jobs \ {j} : pc'[k] = pc[k]
    BY <1>2, RunnersAre DEF Insert, Goto, Types, RunnerTypes
  <2>3. /\ pc'[j] \notin {"read", "report", "finish"}
        /\ pc'[j] \in Early => pc[j] \in Early
    BY <1>2, RunnersAre DEF Insert, Goto, Types, RunnerTypes, Early
  <2>4. Counted(j)'
    BY <2>1, <2>3, CountedLeft DEF AllCounted
  <2>5. \A k \in Jobs \ {j} : Counted(k)'
    BY <2>1, <2>2, CountedStays DEF AllCounted
  <2>6. QED
    BY <2>4, <2>5 DEF AllCounted
<1>3. ASSUME NEW j \in Jobs, Begin(j)
      PROVE  AllCounted'
  <2>1. UNCHANGED <<queue, chunk, tally, kept>>
    BY <1>3 DEF Begin, passVars
  <2>2. \A k \in Jobs \ {j} : pc'[k] = pc[k]
    BY <1>3, RunnersAre DEF Begin, Goto, Types, RunnerTypes
  <2>3. /\ pc'[j] \notin {"read", "report", "finish"}
        /\ pc'[j] \in Early => pc[j] \in Early
    BY <1>3, RunnersAre DEF Begin, Goto, Types, RunnerTypes, Early
  <2>4. Counted(j)'
    BY <2>1, <2>3, CountedLeft DEF AllCounted
  <2>5. \A k \in Jobs \ {j} : Counted(k)'
    BY <2>1, <2>2, CountedStays DEF AllCounted
  <2>6. QED
    BY <2>4, <2>5 DEF AllCounted
<1>4. ASSUME NEW j \in Jobs, Report(j)
      PROVE  AllCounted'
  <2> DEFINE now == First(CommitEvery, queue[j])
  <2>1. /\ UNCHANGED <<tally, kept>> /\ pc[j] = "report"
        /\ queue' = [queue EXCEPT ![j] = queue[j] \ now]
        /\ chunk' = [chunk EXCEPT ![j] = Chunk(now)]
    BY <1>4 DEF Report, Advance
  <2>2. \A k \in Jobs \ {j} : pc'[k] = pc[k]
    BY <1>4, RunnersAre DEF Report, Advance, Goto, Types, RunnerTypes
  <2>3. pc'[j] \in {"read", "finish"}
    BY <1>4, RunnersAre DEF Report, Advance, Goto, Types, RunnerTypes
  <2>4. now \in SUBSET queue[j] /\ queue[j] \in SUBSET Rows
    BY FirstIsSubset, TakenTypes
  <2> HIDE DEF now
  <2>5. /\ queue'[j] = queue[j] \ now /\ chunk'[j] = Chunk(now)
        /\ \A k \in Jobs \ {j} : queue'[k] = queue[k] /\ chunk'[k] = chunk[k]
    BY <2>1, RunnersAre DEF Types, RunnerTypes
  <2>6. \A k \in Jobs \ {j} : Counted(k)'
    BY <2>1, <2>2, <2>5, CountedStays DEF AllCounted
  <2>7. Counted(j)'
    <3>1. Counted(j) /\ tally[j].read = kept[j]
      BY <2>1 DEF AllCounted, Counted
    <3>2. queue[j] \cap (tally[j].read \cup tally[j].failed) = {}
      BY <3>1 DEF Counted, Undone
    <3>3. tally[j].read \cup tally[j].failed \cup queue[j] \in SUBSET Taken(j)
      BY DEF Taken, Undone
    <3>4. Cardinality(tally[j].read \cup tally[j].failed \cup queue[j])
              <= JobLimit
      BY <3>1, <3>3, TakenTypes, NoMoreRows, LimitAssumption DEF Counted
    <3>5. tally[j].read \cap tally[j].failed = {}
      BY <3>1 DEF Counted
    <3>6. tally'[j] = tally[j] /\ kept'[j] = kept[j]
      BY <2>1
    <3>7. queue[j] \in SUBSET Rows /\ now \in SUBSET queue[j]
      BY <2>4
    <3>8. QED
      BY <2>3, <2>5, <3>1, <3>2, <3>4, <3>5, <3>6, <3>7, CountedAnew
  <2>8. QED
    BY <2>6, <2>7 DEF AllCounted
<1>5. ASSUME NEW j \in Jobs, Finish(j)
      PROVE  AllCounted'
  <2>1. UNCHANGED <<queue, chunk, tally, kept>>
    BY <1>5 DEF Finish, passVars
  <2>2. \A k \in Jobs \ {j} : pc'[k] = pc[k]
    BY <1>5, RunnersAre DEF Finish, Goto, Types, RunnerTypes
  <2>3. /\ pc'[j] \notin {"read", "report", "finish"}
        /\ pc'[j] \in Early => pc[j] \in Early
    BY <1>5, RunnersAre DEF Finish, Goto, Types, RunnerTypes, Early
  <2>4. Counted(j)'
    BY <2>1, <2>3, CountedLeft DEF AllCounted
  <2>5. \A k \in Jobs \ {j} : Counted(k)'
    BY <2>1, <2>2, CountedStays DEF AllCounted
  <2>6. QED
    BY <2>4, <2>5 DEF AllCounted
<1>6. ASSUME NEW j \in Jobs, Abort(j)
      PROVE  AllCounted'
  <2>1. UNCHANGED <<queue, chunk, tally, kept>>
    BY <1>6 DEF Abort, passVars
  <2>2. \A k \in Jobs \ {j} : pc'[k] = pc[k]
    BY <1>6, RunnersAre DEF Abort, Goto, Types, RunnerTypes
  <2>3. /\ pc'[j] \notin {"read", "report", "finish"}
        /\ pc'[j] \in Early => pc[j] \in Early
    BY <1>6, RunnersAre DEF Abort, Goto, Types, RunnerTypes, Early
  <2>4. Counted(j)'
    BY <2>1, <2>3, CountedLeft DEF AllCounted
  <2>5. \A k \in Jobs \ {j} : Counted(k)'
    BY <2>1, <2>2, CountedStays DEF AllCounted
  <2>6. QED
    BY <2>4, <2>5 DEF AllCounted
<1>7. ASSUME NEW j \in Jobs, Lose(j)
      PROVE  AllCounted'
  <2>1. UNCHANGED <<queue, chunk, tally, kept>>
    BY <1>7 DEF Lose, passVars
  <2>2. \A k \in Jobs \ {j} : pc'[k] = pc[k]
    BY <1>7, RunnersAre DEF Lose, Goto, Types, RunnerTypes
  <2>3. /\ pc'[j] \notin {"read", "report", "finish"}
        /\ pc'[j] \in Early => pc[j] \in Early
    BY <1>7, RunnersAre DEF Lose, Goto, Types, RunnerTypes, Early
  <2>4. Counted(j)'
    BY <2>1, <2>3, CountedLeft DEF AllCounted
  <2>5. \A k \in Jobs \ {j} : Counted(k)'
    BY <2>1, <2>2, CountedStays DEF AllCounted
  <2>6. QED
    BY <2>4, <2>5 DEF AllCounted
<1>8. ASSUME NEW p \in Runners, Start(p)
      PROVE  AllCounted'
  <2>1. UNCHANGED <<tally, kept>>
    BY <1>8 DEF Start
  <2>2. /\ \A k \in Runners \ {p} : /\ pc'[k] = pc[k] /\ queue'[k] = queue[k]
                                    /\ chunk'[k] = chunk[k]
    BY <1>8 DEF Start, Select, Goto, Types, RunnerTypes
  <2>3. \A k \in Jobs \ {p} : Counted(k)'
    BY <2>1, <2>2, RunnersAre, CountedStays DEF AllCounted
  <2>4. ASSUME p \in Jobs PROVE Counted(p)'
    <3>1. p \notin Pods /\ p \notin Consoles
      BY <2>4, RunnerAssumption
    <3>2. Counted(p) /\ pc[p] = "select"
      BY <1>8, <2>4, <3>1 DEF Start, AllCounted
    <3>3. /\ tally[p].read = {} /\ tally[p].failed = {} /\ kept[p] = {}
      BY <3>2 DEF Counted, Early
    <3>4. CASE exists
      <4> DEFINE rows == First(JobLimit, Unstamped)
                 now == First(CommitEvery, rows)
      <4>1. /\ queue' = [queue EXCEPT ![p] = rows \ now]
            /\ chunk' = [chunk EXCEPT ![p] = Chunk(now)]
            /\ pc' = [pc EXCEPT ![p] = IF rows # {} THEN "read" ELSE "finish"]
        BY <1>8, <2>4, <3>1, <3>4 DEF Start, Select, Goto, LimitOf
      <4>2. /\ rows \in SUBSET Rows /\ now \in SUBSET rows
            /\ Cardinality(rows) <= JobLimit
        <5>1. Unstamped \in SUBSET Rows
          BY DEF Unstamped, Types, ChannelTypes
        <5>2. QED
          BY <5>1, FirstIsSubset, FirstIsShort, LimitAssumption
      <4> HIDE DEF rows, now
      <4>3. /\ queue'[p] = rows \ now /\ chunk'[p] = Chunk(now)
            /\ pc'[p] \in {"read", "finish"}
        BY <4>1 DEF Types, RunnerTypes
      <4>4. /\ tally[p].read \cap tally[p].failed = {}
            /\ rows \cap (tally[p].read \cup tally[p].failed) = {}
            /\ tally[p].read \cup tally[p].failed \cup rows = rows
            /\ tally[p].read = kept[p]
        BY <3>3
      <4>5. QED
        BY <2>1, <2>4, <4>2, <4>3, <4>4, CountedAnew
    <3>5. CASE ~exists
      <4>1. /\ queue' = queue /\ chunk' = chunk /\ pc'[p] = "abort"
        BY <1>8, <2>4, <3>5 DEF Start, Goto, Types, RunnerTypes
      <4>2. QED
        BY <2>1, <2>4, <3>2, <4>1, CountedLeft DEF Early
    <3>6. QED
      BY <3>4, <3>5
  <2>5. QED
    BY <2>3, <2>4 DEF AllCounted
<1>9. ASSUME NEW p \in Runners, Commit(p)
      PROVE  AllCounted'
  <2>1. UNCHANGED tally
    BY <1>9 DEF Commit
  <2>2. \A k \in Jobs \ {p} : /\ pc'[k] = pc[k] /\ queue'[k] = queue[k]
                              /\ chunk'[k] = chunk[k] /\ kept'[k] = kept[k]
    BY <1>9, RunnersAre
       DEF Commit, Advance, Goto, Types, RunnerTypes, CountTypes
  <2>3. \A k \in Jobs \ {p} : Counted(k)'
    BY <2>1, <2>2, CountedStays DEF AllCounted
  <2>4. ASSUME p \in Jobs PROVE Counted(p)'
    <3>1. /\ pc'[p] = "report" /\ queue'[p] = queue[p] /\ chunk'[p] = NoChunk
          /\ kept'[p] = kept[p] \cup Captured(p)
      BY <1>9, <2>4 DEF Commit, Goto, Types, RunnerTypes, CountTypes
    <3>2. Counted(p) /\ tally[p].read = kept[p] \cup Captured(p)
      BY <1>9, <2>4 DEF Commit, Gathered, AllCounted, Counted
    <3>3. Undone(p)' \subseteq Undone(p)
      BY <3>1, MarkAssumption DEF Undone, In, NoChunk, Marks
    <3>4. Taken(p)' \in SUBSET Taken(p)
      BY <2>1, <3>3 DEF Taken
    <3>5. Cardinality(Taken(p)') <= JobLimit
      BY <2>4, <3>2, <3>4, TakenTypes, NoMoreRows, LimitAssumption
         DEF Counted
    <3>6. \A r \in queue'[p] : chunk'[p][r] = None
      BY <2>4, <3>1, TakenTypes DEF NoChunk
    <3>7. QED
      BY <2>1, <3>1, <3>2, <3>3, <3>5, <3>6 DEF Counted, Early
  <2>5. QED
    BY <2>3, <2>4 DEF AllCounted
<1>10. ASSUME NEW p \in Runners, CommitRaises(p)
      PROVE  AllCounted'
  <2>1. UNCHANGED <<tally, kept>>
    BY <1>10 DEF CommitRaises, FailPass
  <2>2. \A k \in Runners \ {p} : /\ pc'[k] = pc[k] /\ queue'[k] = queue[k]
                                 /\ chunk'[k] = chunk[k]
    BY <1>10 DEF CommitRaises, FailPass, Goto, Types, RunnerTypes
  <2>3. \A k \in Jobs \ {p} : Counted(k)'
    BY <2>1, <2>2, RunnersAre, CountedStays DEF AllCounted
  <2>4. ASSUME p \in Jobs PROVE Counted(p)'
    <3>1. pc'[p] = "abort" /\ queue'[p] = {} /\ chunk'[p] = NoChunk
      BY <1>10, <2>4 DEF CommitRaises, FailPass, Goto, Types, RunnerTypes
    <3>2. QED
      BY <2>1, <2>4, <3>1, CountedLeft DEF AllCounted, Early
  <2>5. QED
    BY <2>3, <2>4 DEF AllCounted
<1>11. ASSUME NEW p \in Runners, PassRaises(p)
      PROVE  AllCounted'
  <2>1. UNCHANGED <<tally, kept>>
    BY <1>11 DEF PassRaises, FailPass
  <2>2. \A k \in Runners \ {p} : /\ pc'[k] = pc[k] /\ queue'[k] = queue[k]
                                 /\ chunk'[k] = chunk[k]
    BY <1>11 DEF PassRaises, FailPass, Goto, Types, RunnerTypes
  <2>3. \A k \in Jobs \ {p} : Counted(k)'
    BY <2>1, <2>2, RunnersAre, CountedStays DEF AllCounted
  <2>4. ASSUME p \in Jobs PROVE Counted(p)'
    <3>1. pc'[p] = "abort" /\ queue'[p] = {} /\ chunk'[p] = NoChunk
      BY <1>11, <2>4 DEF PassRaises, FailPass, Goto, Types, RunnerTypes
    <3>2. QED
      BY <2>1, <2>4, <3>1, CountedLeft DEF AllCounted, Early
  <2>5. QED
    BY <2>3, <2>4 DEF AllCounted
<1>12. ASSUME NEW p \in Runners, NEW r \in Rows,
               Open(p, r)
      PROVE  AllCounted'
  <2>1. pc[p] = "read" /\ chunk[p][r] = "todo"
    BY <1>12 DEF Open, NextUp, In
  <2>2. CASE Capture(p, r, "failed")
    BY <2>1, <2>2, CaptureCounts
  <2>3. CASE ~Capture(p, r, "failed")
    <3>1. /\ chunk' = [chunk EXCEPT ![p][r] = "open"]
          /\ UNCHANGED <<queue, tally, kept, pc>>
      BY <1>12, <2>3 DEF Open
    <3>2. \A k \in Runners : chunk'[k] =
              IF k = p THEN [chunk[p] EXCEPT ![r] = "open"] ELSE chunk[k]
      BY <3>1 DEF Types, RunnerTypes
    <3>3. \A k \in Jobs \ {p} : Counted(k)'
      BY <3>1, <3>2, RunnersAre, CountedStays DEF AllCounted
    <3>4. p \in Jobs => Counted(p)'
      BY <2>1, <3>1, <3>2, CountedOpen DEF AllCounted
    <3>5. QED
      BY <3>3, <3>4 DEF AllCounted
  <2>4. QED
    BY <2>2, <2>3
<1>13. ASSUME NEW p \in Runners, NEW r \in Rows,
               ReadRanges(p, r)
      PROVE  AllCounted'
  <2>1. /\ pc[p] = "read" /\ chunk[p][r] \in {"todo", "open", "torn"}
        /\ \E o \in Abouts \cup {"failed"} : Capture(p, r, o)
    BY <1>13 DEF ReadRanges, Abouts, Types, ChannelTypes
  <2>2. QED
    BY <2>1, CaptureCounts
<1>14. ASSUME NEW p \in Runners, NEW r \in Rows,
               Spool(p, r)
      PROVE  AllCounted'
  <2>1. /\ pc[p] = "read" /\ chunk[p][r] \in {"todo", "open", "torn"}
        /\ \E o \in Abouts \cup {"failed"} : Capture(p, r, o)
    BY <1>14 DEF Spool, NextUp, In, Abouts, Types, ChannelTypes
  <2>2. QED
    BY <2>1, CaptureCounts
<1>15. ASSUME NEW p \in Runners, NEW r \in Rows,
               FetchFails(p, r)
      PROVE  AllCounted'
  <2>1. /\ pc[p] = "read" /\ chunk[p][r] \in {"todo", "open", "torn"}
        /\ Capture(p, r, "failed")
    BY <1>15 DEF FetchFails, NextUp, In
  <2>2. QED
    BY <2>1, CaptureCounts
<1>16. ASSUME NEW a \in Pods, Wake(a)
      PROVE  AllCounted'
  <2>1. UNCHANGED <<queue, chunk, tally, kept>>
    BY <1>16 DEF Wake, passVars
  <2>2. \A k \in Jobs : pc'[k] = pc[k]
    BY <1>16, RunnersAre, RunnerAssumption DEF Wake, Goto, Types, RunnerTypes
  <2>3. QED
    BY <2>1, <2>2, CountedStays DEF AllCounted
<1>17. ASSUME NEW a \in Pods, Die(a)
      PROVE  AllCounted'
  <2>1. /\ UNCHANGED <<tally, kept>>
        /\ \A k \in Jobs : queue'[k] = queue[k]
    BY <1>17, RunnersAre, RunnerAssumption DEF Die, Types, RunnerTypes
  <2>2. ASSUME NEW k \in Jobs PROVE Counted(k)'
    <3>1. k \in Runners /\ k # a
      BY RunnersAre, RunnerAssumption
    <3>2. CASE PodOf[k] = a
      <4>1. /\ chunk'[k] = NoChunk
            /\ pc'[k] = IF pc[k] \in Idle THEN pc[k] ELSE "dead"
        BY <1>17, <3>1, <3>2 DEF Die
      <4>2. /\ pc'[k] \notin {"read", "report", "finish"}
            /\ pc'[k] \in Early => pc[k] \in Early
        BY <4>1 DEF Idle, Early
      <4>3. QED
        BY <2>1, <4>1, <4>2, CountedLeft DEF AllCounted
    <3>3. CASE PodOf[k] # a
      <4>1. chunk'[k] = chunk[k] /\ pc'[k] = pc[k]
        BY <1>17, <3>1, <3>3 DEF Die
      <4>2. QED
        BY <2>1, <4>1, CountedStays DEF AllCounted
    <3>4. QED
      BY <3>2, <3>3
  <2>3. QED
    BY <2>2 DEF AllCounted
<1>18. ASSUME NEW a \in Pods, StartPod(a)
      PROVE  AllCounted'
  <2>1. UNCHANGED <<queue, chunk, tally, kept>>
    BY <1>18 DEF StartPod, passVars
  <2>2. \A k \in Jobs : pc'[k] = pc[k]
    BY <1>18, RunnersAre, RunnerAssumption DEF StartPod, Goto, Types, RunnerTypes
  <2>3. QED
    BY <2>1, <2>2, CountedStays DEF AllCounted
<1>19. ASSUME NEW r \in Rows, Put(r)
      PROVE  AllCounted'
  <2>1. UNCHANGED <<queue, tally, kept, pc>>
    BY <1>19 DEF Put
  <2>2. \A k \in Jobs : chunk'[k] =
            IF chunk[k][r] = "open" THEN [chunk[k] EXCEPT ![r] = "torn"]
            ELSE chunk[k]
    BY <1>19, RunnersAre DEF Put
  <2>3. ASSUME NEW k \in Jobs PROVE Counted(k)'
    <3>1. CASE chunk[k][r] = "open"
      BY <2>1, <2>2, <3>1, CountedOpen DEF AllCounted
    <3>2. CASE chunk[k][r] # "open"
      BY <2>1, <2>2, <3>2, CountedStays DEF AllCounted
    <3>3. QED
      BY <3>1, <3>2
  <2>4. QED
    BY <2>3 DEF AllCounted
<1>20. ASSUME NEW r \in Rows, Upsert(r)
      PROVE  AllCounted'
  <2>1. UNCHANGED <<queue, chunk, tally, kept, pc>>
    BY <1>20 DEF Upsert, passVars
  <2>2. QED
    BY <2>1, CountedStays DEF AllCounted
<1>21. ASSUME NEW r \in Rows, Remove(r)
      PROVE  AllCounted'
  <2>1. UNCHANGED <<queue, chunk, tally, kept, pc>>
    BY <1>21 DEF Remove, passVars
  <2>2. QED
    BY <2>1, CountedStays DEF AllCounted
<1>22. ASSUME NEW r \in Rows, Erase(r)
      PROVE  AllCounted'
  <2>1. UNCHANGED <<queue, chunk, tally, kept, pc>>
    BY <1>22 DEF Erase, passVars
  <2>2. QED
    BY <2>1, CountedStays DEF AllCounted
<1>23. ASSUME NEW r \in Rows, Add(r)
      PROVE  AllCounted'
  <2>1. UNCHANGED <<queue, chunk, tally, kept, pc>>
    BY <1>23 DEF Add, passVars
  <2>2. QED
    BY <2>1, CountedStays DEF AllCounted
<1>24. CASE DeleteChannel
  <2>1. UNCHANGED <<queue, chunk, tally, kept, pc>>
    BY <1>24 DEF DeleteChannel, passVars
  <2>2. QED
    BY <2>1, CountedStays DEF AllCounted
<1>25. CASE Rest
  <2>1. UNCHANGED <<queue, chunk, tally, kept, pc>>
    BY <1>25 DEF Rest, vars, passVars
  <2>2. QED
    BY <2>1, CountedStays DEF AllCounted
<1>26. CASE UNCHANGED vars
  <2>1. UNCHANGED <<queue, chunk, tally, kept, pc>>
    BY <1>26 DEF vars, passVars
  <2>2. QED
    BY <2>1, CountedStays DEF AllCounted
<1>27. QED
  BY <1>1, <1>2, <1>3, <1>4, <1>5, <1>6, <1>7, <1>8, <1>9, <1>10, <1>11,
     <1>12, <1>13, <1>14, <1>15, <1>16, <1>17, <1>18, <1>19, <1>20, <1>21,
     <1>22, <1>23, <1>24, <1>25, <1>26, Steps

\* A row stays true while nobody writes it and the job is not over.
LEMMA BookedStays ==
    ASSUME Types, Types', NEW j \in Jobs, Booked(j),
           job'[j] = job[j], kept[j] \subseteq kept'[j],
           pc[j] = "ended" => pc'[j] = "ended" /\ kept'[j] = kept[j]
    PROVE  Booked(j)'
<1>1. kept'[j] \in SUBSET Rows /\ kept[j] \in SUBSET kept'[j]
  BY DEF Types, CountTypes
<1>2. /\ IsFiniteSet(kept'[j])
      /\ Cardinality(kept'[j]) \in Nat /\ Cardinality(kept[j]) \in Nat
  BY <1>1, RowSets
<1>3. Cardinality(kept[j]) <= Cardinality(kept'[j])
  BY <1>1, <1>2, FS_Subset
<1>4. SUFFICES ASSUME job[j] # None PROVE Booked(j)'
  BY DEF Booked
<1>5. job[j].done \in Nat
  BY <1>4 DEF Types, JobTypes, RowOfJob
<1>6. QED
  BY <1>2, <1>3, <1>4, <1>5 DEF Booked

LEMMA BookedStep ==
    ASSUME Types, AllCounted, AllBooked, [Next]_vars
    PROVE  AllBooked'
<1> DEFINE Same(k) == /\ job'[k] = job[k] /\ kept'[k] = kept[k]
                      /\ pc[k] = "ended" => pc'[k] = "ended"
<1>a. Types'
  BY TypesStep
<1>b. ASSUME NEW k \in Jobs, Same(k)
      PROVE  Booked(k)'
  BY <1>a, <1>b, BookedStays DEF AllBooked
<1>1. ASSUME NEW j \in Jobs, Ask(j)
      PROVE  AllBooked'
  <2>1. \A k \in Jobs : Same(k)
    BY <1>1, RunnersAre DEF Ask, Goto, Types, RunnerTypes, passVars
  <2>2. QED
    BY <1>b, <2>1 DEF AllBooked
<1>2. ASSUME NEW j \in Jobs, Insert(j)
      PROVE  AllBooked'
  <2>1. \A k \in Jobs \ {j} : Same(k)
    BY <1>2, RunnersAre DEF Insert, Goto, Types, RunnerTypes, JobTypes,
                         passVars
  <2>2. Booked(j)'
    <3>1. CASE ~exists \/ Unstamped = {}
      <4>1. Same(j)
        BY <1>2, <3>1, RunnersAre DEF Insert, Goto, passVars, Types, RunnerTypes
      <4>2. QED
        BY <1>b, <4>1
    <3>2. CASE ~(~exists \/ Unstamped = {})
      <4>1. /\ job'[j].status = "pending" /\ job'[j].done = 0
            /\ job'[j].total = Min({Cardinality(Unstamped), JobLimit})
        BY <1>2, <3>2 DEF Insert, Types, JobTypes
      <4>2. Unstamped \in SUBSET Rows
        BY DEF Unstamped, Types, ChannelTypes
      <4>3. job'[j].total <= JobLimit
        BY <4>1, <4>2, RowSets, LeastOfTwo, LimitAssumption
      <4>4. Cardinality(kept'[j]) >= 0
        BY <1>a, RowSets DEF Types, CountTypes
      <4>5. QED
        BY <4>1, <4>3, <4>4 DEF Booked
    <3>3. QED
      BY <3>1, <3>2
  <2>3. QED
    BY <1>b, <2>1, <2>2 DEF AllBooked
<1>3. ASSUME NEW j \in Jobs, Begin(j)
      PROVE  AllBooked'
  <2>1. \A k \in Jobs \ {j} : Same(k)
    BY <1>3, RunnersAre DEF Begin, Goto, Types, RunnerTypes, JobTypes,
                         passVars
  <2>2. Booked(j)'
    <3>1. CASE job[j] = None
      <4>1. job'[j] = None
        BY <1>3, <3>1 DEF Begin, Types, JobTypes
      <4>2. QED
        BY <4>1 DEF Booked
    <3>2. CASE job[j] # None
      <4>1. /\ job'[j].status = "running" /\ job'[j].done = job[j].done
            /\ job'[j].total = job[j].total /\ kept'[j] = kept[j]
        BY <1>3, <3>2 DEF Begin, passVars, Types, JobTypes, RowOfJob
      <4>2. QED
        BY <3>2, <4>1 DEF AllBooked, Booked
    <3>3. QED
      BY <3>1, <3>2
  <2>3. QED
    BY <1>b, <2>1, <2>2 DEF AllBooked
<1>4. ASSUME NEW j \in Jobs, Report(j)
      PROVE  AllBooked'
  <2>1. \A k \in Jobs \ {j} : Same(k)
    BY <1>4, RunnersAre DEF Report, Advance, Goto, Types, RunnerTypes,
                         JobTypes, passVars
  <2>2. Booked(j)'
    <3>1. CASE job[j] = None
      <4>1. job'[j] = None
        BY <1>4, <3>1 DEF Report, Types, JobTypes
      <4>2. QED
        BY <4>1 DEF Booked
    <3>2. CASE job[j] # None
      <4>1. /\ job'[j].status = job[j].status /\ kept'[j] = kept[j]
            /\ job'[j].done = Cardinality(tally[j].read)
            /\ job'[j].total = job[j].total /\ pc[j] = "report"
        BY <1>4, <3>2 DEF Report, Types, JobTypes, RowOfJob
      <4>2. job[j].status # "completed" /\ job[j].total <= JobLimit
        BY <3>2, <4>1 DEF AllBooked, Booked
      <4>3. tally[j].read = kept[j]
        BY <4>1 DEF AllCounted, Counted
      <4>4. Cardinality(kept[j]) \in Nat
        BY RowSets, TakenTypes
      <4>5. QED
        BY <4>1, <4>2, <4>3, <4>4 DEF Booked
    <3>3. QED
      BY <3>1, <3>2
  <2>3. QED
    BY <1>b, <2>1, <2>2 DEF AllBooked
<1>5. ASSUME NEW j \in Jobs, Finish(j)
      PROVE  AllBooked'
  <2>1. \A k \in Jobs \ {j} : Same(k)
    BY <1>5, RunnersAre DEF Finish, Goto, Types, RunnerTypes, JobTypes,
                         passVars
  <2>2. Booked(j)'
    <3>1. CASE job[j] = None
      <4>1. job'[j] = None
        BY <1>5, <3>1 DEF Finish, Types, JobTypes
      <4>2. QED
        BY <4>1 DEF Booked
    <3>2. CASE job[j] # None
      <4> DEFINE R == tally[j].read
                 F == tally[j].failed
      <4>1. /\ job'[j].done = Cardinality(R) /\ kept'[j] = kept[j]
            /\ job'[j].total = Cardinality(R) + Cardinality(F)
            /\ pc[j] = "finish"
        BY <1>5, <3>2 DEF Finish, passVars, Types, JobTypes
      <4>2. pc'[j] = "ended"
        BY <1>5, RunnersAre DEF Finish, Goto, Types, RunnerTypes
      <4>3. R = kept[j] /\ R \cap F = {}
        BY <4>1 DEF AllCounted, Counted
      <4>4. R \cup F \in SUBSET Taken(j) /\ Taken(j) \in SUBSET Rows
            /\ R \in SUBSET Rows /\ F \in SUBSET Rows
        BY TakenTypes DEF Taken
      <4>5. Cardinality(R \cup F) <= JobLimit
        BY <4>4, NoMoreRows, LimitAssumption DEF AllCounted, Counted
      <4>6. /\ IsFiniteSet(R) /\ Cardinality(R) \in Nat
            /\ IsFiniteSet(F) /\ Cardinality(F) \in Nat
        BY <4>4, RowSets
      <4> HIDE DEF R, F
      <4>7. Cardinality(R \cup F)
                = Cardinality(R) + Cardinality(F) - Cardinality(R \cap F)
        BY <4>6, FS_Union
      <4>8. Cardinality(R \cap F) = 0
        BY <4>3, FS_EmptySet
      <4>9. job'[j].total <= JobLimit
        BY <4>1, <4>5, <4>6, <4>7, <4>8
      <4>10. QED
        BY <4>1, <4>2, <4>3, <4>6, <4>9 DEF Booked
    <3>3. QED
      BY <3>1, <3>2
  <2>3. QED
    BY <1>b, <2>1, <2>2 DEF AllBooked
<1>6. ASSUME NEW j \in Jobs, Abort(j)
      PROVE  AllBooked'
  <2>1. \A k \in Jobs \ {j} : Same(k)
    BY <1>6, RunnersAre DEF Abort, Goto, Types, RunnerTypes, JobTypes,
                         passVars
  <2>2. Booked(j)'
    <3>1. CASE job[j] = None
      <4>1. job'[j] = None
        BY <1>6, <3>1 DEF Abort, Types, JobTypes
      <4>2. QED
        BY <4>1 DEF Booked
    <3>2. CASE job[j] # None
      <4>1. /\ job'[j].status = "failed" /\ job'[j].done = job[j].done
            /\ job'[j].total = job[j].total /\ kept'[j] = kept[j]
        BY <1>6, <3>2 DEF Abort, passVars, Types, JobTypes, RowOfJob
      <4>2. QED
        BY <3>2, <4>1 DEF AllBooked, Booked
    <3>3. QED
      BY <3>1, <3>2
  <2>3. QED
    BY <1>b, <2>1, <2>2 DEF AllBooked
<1>7. ASSUME NEW j \in Jobs, Lose(j)
      PROVE  AllBooked'
  <2>1. \A k \in Jobs : Same(k)
    BY <1>7, RunnersAre DEF Lose, Goto, Types, RunnerTypes, passVars
  <2>2. QED
    BY <1>b, <2>1 DEF AllBooked
<1>8. ASSUME NEW p \in Runners, Start(p)
      PROVE  AllBooked'
  <2>1. \A k \in Jobs : Same(k)
    BY <1>8, RunnersAre, RunnerAssumption DEF Start, Select, Goto, Types,
                                           RunnerTypes, passVars
  <2>2. QED
    BY <1>b, <2>1 DEF AllBooked
<1>9. ASSUME NEW p \in Runners, Commit(p)
      PROVE  AllBooked'
  <2>1. ASSUME NEW k \in Jobs
        PROVE  /\ job'[k] = job[k] /\ kept[k] \subseteq kept'[k]
               /\ pc[k] = "ended" => pc'[k] = "ended" /\ kept'[k] = kept[k]
    <3>1. CASE k = p
      BY <1>9, <3>1 DEF Commit, Gathered, Types, CountTypes
    <3>2. CASE k # p
      <4>1. kept'[k] = kept[k] /\ job'[k] = job[k]
        BY <1>9, <3>2 DEF Commit, Types, CountTypes
      <4>2. pc'[k] = pc[k]
        BY <1>9, <3>2, RunnersAre DEF Commit, Advance, Goto, Types, RunnerTypes
      <4>3. QED
        BY <4>1, <4>2
    <3>3. QED
      BY <3>1, <3>2
  <2>2. QED
    BY <1>a, <2>1, BookedStays DEF AllBooked
<1>10. ASSUME NEW p \in Runners, CommitRaises(p)
      PROVE  AllBooked'
  <2>1. \A k \in Jobs : Same(k)
    BY <1>10, RunnersAre, RunnerAssumption DEF CommitRaises, FailPass, Goto,
                                           Types, RunnerTypes, Gathered,
                                           passVars
  <2>2. QED
    BY <1>b, <2>1 DEF AllBooked
<1>11. ASSUME NEW p \in Runners, PassRaises(p)
      PROVE  AllBooked'
  <2>1. \A k \in Jobs : Same(k)
    BY <1>11, RunnersAre, RunnerAssumption DEF PassRaises, FailPass, Goto,
                                           Types, RunnerTypes, passVars
  <2>2. QED
    BY <1>b, <2>1 DEF AllBooked
<1>12. ASSUME NEW p \in Runners, NEW r \in Rows,
               Open(p, r)
      PROVE  AllBooked'
  <2>1. \A k \in Jobs : Same(k)
    BY <1>12 DEF Open, Capture, passVars
  <2>2. QED
    BY <1>b, <2>1 DEF AllBooked
<1>13. ASSUME NEW p \in Runners, NEW r \in Rows,
               ReadRanges(p, r)
      PROVE  AllBooked'
  <2>1. \A k \in Jobs : Same(k)
    BY <1>13 DEF ReadRanges, Capture, passVars
  <2>2. QED
    BY <1>b, <2>1 DEF AllBooked
<1>14. ASSUME NEW p \in Runners, NEW r \in Rows,
               Spool(p, r)
      PROVE  AllBooked'
  <2>1. \A k \in Jobs : Same(k)
    BY <1>14 DEF Spool, Capture, passVars
  <2>2. QED
    BY <1>b, <2>1 DEF AllBooked
<1>15. ASSUME NEW p \in Runners, NEW r \in Rows,
               FetchFails(p, r)
      PROVE  AllBooked'
  <2>1. \A k \in Jobs : Same(k)
    BY <1>15 DEF FetchFails, Capture, passVars
  <2>2. QED
    BY <1>b, <2>1 DEF AllBooked
<1>16. ASSUME NEW a \in Pods, Wake(a)
      PROVE  AllBooked'
  <2>1. \A k \in Jobs : Same(k)
    BY <1>16, RunnersAre, RunnerAssumption DEF Wake, Goto, Types, RunnerTypes,
                                           passVars
  <2>2. QED
    BY <1>b, <2>1 DEF AllBooked
<1>17. ASSUME NEW a \in Pods, Die(a)
      PROVE  AllBooked'
  <2>1. \A k \in Jobs : Same(k)
    BY <1>17, RunnersAre, RunnerAssumption DEF Die, Types, RunnerTypes, Idle,
                                           passVars
  <2>2. QED
    BY <1>b, <2>1 DEF AllBooked
<1>18. ASSUME NEW a \in Pods, StartPod(a)
      PROVE  AllBooked'
  <2>1. kept' = kept /\ \A k \in Jobs : pc'[k] = pc[k]
    BY <1>18, RunnersAre, RunnerAssumption
       DEF StartPod, Goto, passVars, Types, RunnerTypes
  <2>2. ASSUME NEW k \in Jobs PROVE Booked(k)'
    <3>1. CASE Running(k)
      <4>1. job'[k] = [job[k] EXCEPT !.status = "failed"] /\ job[k] # None
        BY <1>18, <3>1 DEF StartPod, Running
      <4>2. /\ job'[k].status = "failed" /\ job'[k].done = job[k].done
            /\ job'[k].total = job[k].total
        BY <4>1 DEF Types, JobTypes, RowOfJob
      <4>3. QED
        BY <2>1, <4>1, <4>2 DEF AllBooked, Booked
    <3>2. CASE ~Running(k)
      <4>1. Same(k)
        BY <1>18, <2>1, <3>2 DEF StartPod
      <4>2. QED
        BY <1>b, <4>1
    <3>3. QED
      BY <3>1, <3>2
  <2>3. QED
    BY <2>2 DEF AllBooked
<1>19. ASSUME NEW r \in Rows, Put(r)
      PROVE  AllBooked'
  <2>1. \A k \in Jobs : Same(k)
    BY <1>19 DEF Put, passVars
  <2>2. QED
    BY <1>b, <2>1 DEF AllBooked
<1>20. ASSUME NEW r \in Rows, Upsert(r)
      PROVE  AllBooked'
  <2>1. \A k \in Jobs : Same(k)
    BY <1>20 DEF Upsert, passVars
  <2>2. QED
    BY <1>b, <2>1 DEF AllBooked
<1>21. ASSUME NEW r \in Rows, Remove(r)
      PROVE  AllBooked'
  <2>1. \A k \in Jobs : Same(k)
    BY <1>21 DEF Remove, passVars
  <2>2. QED
    BY <1>b, <2>1 DEF AllBooked
<1>22. ASSUME NEW r \in Rows, Erase(r)
      PROVE  AllBooked'
  <2>1. \A k \in Jobs : Same(k)
    BY <1>22 DEF Erase, passVars
  <2>2. QED
    BY <1>b, <2>1 DEF AllBooked
<1>23. ASSUME NEW r \in Rows, Add(r)
      PROVE  AllBooked'
  <2>1. \A k \in Jobs : Same(k)
    BY <1>23 DEF Add, passVars
  <2>2. QED
    BY <1>b, <2>1 DEF AllBooked
<1>24. CASE DeleteChannel
  <2>1. \A k \in Jobs : job'[k] = None
    BY <1>24 DEF DeleteChannel
  <2>2. QED
    BY <2>1 DEF AllBooked, Booked
<1>25. CASE Rest
  <2>1. \A k \in Jobs : Same(k)
    BY <1>25 DEF Rest, vars, passVars
  <2>2. QED
    BY <1>b, <2>1 DEF AllBooked
<1>26. CASE UNCHANGED vars
  <2>1. \A k \in Jobs : Same(k)
    BY <1>26 DEF vars, passVars
  <2>2. QED
    BY <1>b, <2>1 DEF AllBooked
<1>27. QED
  BY <1>1, <1>2, <1>3, <1>4, <1>5, <1>6, <1>7, <1>8, <1>9, <1>10, <1>11,
     <1>12, <1>13, <1>14, <1>15, <1>16, <1>17, <1>18, <1>19, <1>20, <1>21,
     <1>22, <1>23, <1>24, <1>25, <1>26, Steps

-----------------------------------------------------------------------------
LEMMA LeastRow ==
    ASSUME NEW K \in SUBSET Rows, K # {}
    PROVE  \E m \in K : \A k \in K : m <= k
<1> DEFINE upTo(k) == 0 .. k
           T == {upTo(k) : k \in K}
<1>1. /\ K \subseteq Nat
      /\ \A k \in K : IsFiniteSet(upTo(k)) /\ upTo(k) \in SUBSET Nat
  BY RowsAssumption, FS_Interval
<1>2. T \subseteq FiniteSubsetsOf(Nat) /\ T # {}
  BY <1>1 DEF FiniteSubsetsOf
<1>3. IsWellFoundedOn(StrictSubsetOrdering(Nat), FiniteSubsetsOf(Nat))
  BY FS_StrictSubsetOrderingWellFounded
<1>4. \E x \in T : \A y \in T : <<y, x>> \notin StrictSubsetOrdering(Nat)
  BY <1>2, <1>3, WFMin
<1>5. PICK m \in K :
          \A k \in K : <<upTo(k), upTo(m)>> \notin StrictSubsetOrdering(Nat)
  BY <1>4
<1>6. \A k \in K : ~(k < m)
  <2>1. SUFFICES ASSUME NEW k \in K, k < m PROVE FALSE
    OBVIOUS
  <2>2. upTo(k) \subseteq upTo(m) /\ upTo(k) # upTo(m)
    BY <1>1, <2>1
  <2>3. QED
    BY <1>1, <1>5, <2>2 DEF StrictSubsetOrdering
<1>7. QED
  BY <1>1, <1>6

\* First leaves a row out only if it has as many as it was asked for.
LEMMA FirstIsAll ==
    ASSUME NEW n \in Nat, NEW R \in SUBSET Rows,
           Cardinality(First(n, R)) < n
    PROVE  First(n, R) = R
<1>1. SUFFICES ASSUME R \ First(n, R) # {} PROVE FALSE
  BY FirstIsSubset
<1>2. PICK m \in R \ First(n, R) : \A k \in R \ First(n, R) : m <= k
  BY <1>1, LeastRow
<1> DEFINE below == {q \in R : q < m}
<1>3. ~(Cardinality(below) < n)
  BY <1>2 DEF First
<1>4. below \subseteq First(n, R)
  <2>1. SUFFICES ASSUME NEW q \in below, q \notin First(n, R) PROVE FALSE
    OBVIOUS
  <2>2. q \in Nat /\ m \in Nat /\ m <= q /\ q < m
    BY <1>2, <2>1, RowsAssumption
  <2>3. QED
    BY <2>2
<1>5. below \in SUBSET First(n, R) /\ First(n, R) \in SUBSET Rows
      /\ below \in SUBSET Rows
  BY <1>4, FirstIsSubset
<1> HIDE DEF below
<1>6. /\ Cardinality(below) <= Cardinality(First(n, R))
      /\ Cardinality(below) \in Nat /\ Cardinality(First(n, R)) \in Nat
  BY <1>5, RowSets, FS_Subset
<1>7. QED
  BY <1>3, <1>6

LEMMA FirstIsSome ==
    ASSUME NEW n \in Nat \ {0}, NEW R \in SUBSET Rows, First(n, R) = {}
    PROVE  R = {}
<1>1. Cardinality(First(n, R)) < n
  BY FS_EmptySet
<1>2. QED
  BY <1>1, FirstIsAll

-----------------------------------------------------------------------------
\* What a job's row may say of a selection that was not cut short.
Done(j) == job[j] # None /\ job[j].status = "completed" /\ ~job[j].notice

\* Then no row is unread but those it has still to do or to commit, those it
\* could not fetch, and those that came later.
Exhaustive(j) ==
    LET missed == tally[j].failed \cup late[j] IN
    /\ pc[j] = "read" /\ ~hitLimit[j] =>
           Unstamped \subseteq missed \cup Undone(j) \cup Captured(j)
    /\ pc[j] = "report" /\ ~hitLimit[j] =>
           Unstamped \subseteq missed \cup queue[j]
    /\ pc[j] = "finish" /\ ~hitLimit[j] => Unstamped \subseteq missed
    /\ Done(j) => Unstamped \subseteq missed

AllExhaustive == \A j \in Jobs : Exhaustive(j)

\* Rows stamped, erased or added do not disturb it.
LEMMA ExhaustiveStays ==
    ASSUME NEW j \in Jobs, Exhaustive(j),
           Unstamped' \subseteq Unstamped \cup late'[j],
           late[j] \subseteq late'[j], tally'[j] = tally[j],
           hitLimit'[j] = hitLimit[j], Done(j)' => Done(j),
           pc'[j] \in {"read", "report", "finish"} =>
               /\ pc'[j] = pc[j] /\ queue'[j] = queue[j]
               /\ Undone(j)' = Undone(j) /\ Captured(j)' = Captured(j)
    PROVE  Exhaustive(j)'
  BY DEF Exhaustive

LEMMA CaptureExhausts ==
    ASSUME Types, AllExhaustive, NEW p \in Runners, NEW r \in Rows,
           NEW o \in Abouts \cup {"failed"}, pc[p] = "read",
           chunk[p][r] \in {"todo", "open", "torn"}, Capture(p, r, o)
    PROVE  AllExhaustive'
<1>1. /\ chunk' = [chunk EXCEPT ![p][r] = o]
      /\ UNCHANGED <<queue, hitLimit, late, pc, job>>
      /\ UNCHANGED <<alive, about>>
  BY DEF Capture, channelVars
<1>2. Unstamped' = Unstamped
  BY <1>1 DEF Unstamped
<1>3. \A k \in Jobs : chunk'[k] = IF k = p THEN [chunk[p] EXCEPT ![r] = o]
                                  ELSE chunk[k]
  BY <1>1, RunnersAre DEF Types, RunnerTypes
<1>4. ASSUME NEW k \in Jobs, k # p PROVE Exhaustive(k)'
  <2>1. tally'[k] = tally[k]
    BY <1>4 DEF Capture, Types, CountTypes
  <2>2. Undone(k)' = Undone(k) /\ Captured(k)' = Captured(k)
    BY <1>1, <1>3, <1>4 DEF Undone, Captured, In
  <2>3. QED
    BY <1>1, <1>2, <2>1, <2>2, ExhaustiveStays DEF AllExhaustive, Done
<1>5. ASSUME p \in Jobs PROVE Exhaustive(p)'
  <2>1. /\ chunk'[p][r] = o
        /\ \A q \in Rows \ {r} : chunk'[p][q] = chunk[p][q]
    BY <1>3, <1>5, TakenTypes
  <2>2. tally'[p].failed = IF o = "failed" THEN tally[p].failed \cup {r}
                           ELSE tally[p].failed
    BY <1>5 DEF Capture, Types, CountTypes
  <2>3. Undone(p) \cup Captured(p)
            \subseteq Undone(p)' \cup Captured(p)' \cup tally'[p].failed
    BY <1>1, <2>1, <2>2 DEF Undone, Captured, In
  <2>4. Exhaustive(p)
    BY <1>5 DEF AllExhaustive
  <2>5. pc'[p] = "read" /\ Done(p)' = Done(p)
    BY <1>1 DEF Done
  <2>6. tally[p].failed \subseteq tally'[p].failed
    BY <2>2
  <2>7. QED
    BY <1>1, <1>2, <2>3, <2>4, <2>5, <2>6 DEF Exhaustive
<1>6. QED
  BY <1>4, <1>5 DEF AllExhaustive

LEMMA ExhaustiveStep ==
    ASSUME Types, AllCounted, AllBooked, AllExhaustive, [Next]_vars
    PROVE  AllExhaustive'
<1> DEFINE Stays(k) ==
        /\ late[k] \subseteq late'[k] /\ tally'[k] = tally[k]
        /\ hitLimit'[k] = hitLimit[k]
        /\ Done(k)' => Done(k)
        /\ pc'[k] \in {"read", "report", "finish"} =>
               /\ pc'[k] = pc[k] /\ queue'[k] = queue[k]
               /\ Undone(k)' = Undone(k) /\ Captured(k)' = Captured(k)
<1>a. ASSUME NEW k \in Jobs, Unstamped' \subseteq Unstamped \cup late'[k],
             Stays(k)
      PROVE  Exhaustive(k)'
  BY <1>a, ExhaustiveStays DEF AllExhaustive
<1>1. ASSUME NEW j \in Jobs, Ask(j)
      PROVE  AllExhaustive'
  <2>1. /\ UNCHANGED <<alive, about, queue, chunk, tally, hitLimit, late>>
        /\ Unstamped' = Unstamped
    BY <1>1 DEF Ask, Goto, channelVars, passVars, Unstamped
  <2>2. \A k \in Jobs : Undone(k)' = Undone(k) /\ Captured(k)' = Captured(k)
    BY <2>1 DEF Undone, Captured, In
  <2>3. \A k \in Jobs : pc'[k] \in {"read", "report", "finish"}
                            => pc'[k] = pc[k]
    BY <1>1, RunnersAre DEF Ask, Goto, Types, RunnerTypes
  <2>4. \A k \in Jobs : Done(k)' => Done(k)
    BY <1>1 DEF Done, Types, JobTypes, RowOfJob, Ask
  <2>5. \A k \in Jobs : Stays(k)
    BY <2>1, <2>2, <2>3, <2>4
  <2>6. QED
    BY <1>a, <2>1, <2>5 DEF AllExhaustive
<1>2. ASSUME NEW j \in Jobs, Insert(j)
      PROVE  AllExhaustive'
  <2>1. /\ UNCHANGED <<alive, about, queue, chunk, tally, hitLimit, late>>
        /\ Unstamped' = Unstamped
    BY <1>2 DEF Insert, Goto, channelVars, passVars, Unstamped
  <2>2. \A k \in Jobs : Undone(k)' = Undone(k) /\ Captured(k)' = Captured(k)
    BY <2>1 DEF Undone, Captured, In
  <2>3. \A k \in Jobs : pc'[k] \in {"read", "report", "finish"}
                            => pc'[k] = pc[k]
    BY <1>2, RunnersAre DEF Insert, Goto, Types, RunnerTypes
  <2>4. \A k \in Jobs : Done(k)' => Done(k)
    BY <1>2 DEF Done, Types, JobTypes, RowOfJob, Insert
  <2>5. \A k \in Jobs : Stays(k)
    BY <2>1, <2>2, <2>3, <2>4
  <2>6. QED
    BY <1>a, <2>1, <2>5 DEF AllExhaustive
<1>3. ASSUME NEW j \in Jobs, Begin(j)
      PROVE  AllExhaustive'
  <2>1. /\ UNCHANGED <<alive, about, queue, chunk, tally, hitLimit, late>>
        /\ Unstamped' = Unstamped
    BY <1>3 DEF Begin, Goto, channelVars, passVars, Unstamped
  <2>2. \A k \in Jobs : Undone(k)' = Undone(k) /\ Captured(k)' = Captured(k)
    BY <2>1 DEF Undone, Captured, In
  <2>3. \A k \in Jobs : pc'[k] \in {"read", "report", "finish"}
                            => pc'[k] = pc[k]
    BY <1>3, RunnersAre DEF Begin, Goto, Types, RunnerTypes
  <2>4. \A k \in Jobs : Done(k)' => Done(k)
    BY <1>3 DEF Done, Types, JobTypes, RowOfJob, Begin
  <2>5. \A k \in Jobs : Stays(k)
    BY <2>1, <2>2, <2>3, <2>4
  <2>6. QED
    BY <1>a, <2>1, <2>5 DEF AllExhaustive
<1>4. ASSUME NEW j \in Jobs, Report(j)
      PROVE  AllExhaustive'
  <2> DEFINE now == First(CommitEvery, queue[j])
  <2>1. /\ UNCHANGED <<alive, about, tally, hitLimit, late>>
        /\ Unstamped' = Unstamped /\ pc[j] = "report"
        /\ queue' = [queue EXCEPT ![j] = queue[j] \ now]
        /\ chunk' = [chunk EXCEPT ![j] = Chunk(now)]
    BY <1>4 DEF Report, Advance, channelVars, Unstamped
  <2>2. /\ \A k \in Jobs \ {j} : pc'[k] = pc[k]
        /\ pc'[j] = IF now # {} THEN "read" ELSE "finish"
    BY <1>4, RunnersAre DEF Report, Advance, Goto, Types, RunnerTypes
  <2>3. \A k \in Jobs : Done(k)' => Done(k)
    BY <1>4 DEF Report, Done, Types, JobTypes, RowOfJob
  <2>4. now \in SUBSET queue[j] /\ queue[j] \in SUBSET Rows
    BY FirstIsSubset, TakenTypes
  <2>5. now = {} => queue[j] = {}
    BY <2>4, FirstIsSome, LimitAssumption
  <2> HIDE DEF now
  <2>6. /\ queue'[j] = queue[j] \ now /\ chunk'[j] = Chunk(now)
        /\ \A k \in Jobs \ {j} : queue'[k] = queue[k] /\ chunk'[k] = chunk[k]
    BY <2>1, RunnersAre DEF Types, RunnerTypes
  <2>7. \A k \in Jobs \ {j} : Stays(k)
    BY <2>1, <2>2, <2>3, <2>6 DEF Undone, Captured, In
  <2>8. Exhaustive(j)'
    <3>1. Exhaustive(j) /\ ~Done(j)
      BY <2>1 DEF AllExhaustive, AllBooked, Booked, Done
    <3>2. queue[j] \subseteq Undone(j)'
      BY <2>4, <2>6 DEF Undone, In, Chunk
    <3>3. QED
      BY <2>1, <2>2, <2>3, <2>5, <3>1, <3>2 DEF Exhaustive
  <2>9. QED
    BY <1>a, <2>1, <2>7, <2>8 DEF AllExhaustive
<1>5. ASSUME NEW j \in Jobs, Finish(j)
      PROVE  AllExhaustive'
  <2>1. /\ UNCHANGED <<alive, about, queue, chunk, tally, hitLimit, late>>
        /\ Unstamped' = Unstamped /\ pc[j] = "finish"
    BY <1>5 DEF Finish, channelVars, passVars, Unstamped
  <2>2. /\ \A k \in Jobs \ {j} : pc'[k] = pc[k]
        /\ pc'[j] = "ended"
    BY <1>5, RunnersAre DEF Finish, Goto, Types, RunnerTypes
  <2>3. \A k \in Jobs \ {j} : Done(k)' => Done(k)
    BY <1>5 DEF Finish, Done, Types, JobTypes
  <2>4. \A k \in Jobs \ {j} : Stays(k)
    BY <2>1, <2>2, <2>3 DEF Undone, Captured, In
  <2>5. Exhaustive(j)'
    <3>1. Done(j)' => ~hitLimit[j]
      BY <1>5 DEF Finish, Done, Types, JobTypes
    <3>2. QED
      BY <2>1, <2>2, <3>1 DEF AllExhaustive, Exhaustive
  <2>6. QED
    BY <1>a, <2>1, <2>4, <2>5 DEF AllExhaustive
<1>6. ASSUME NEW j \in Jobs, Abort(j)
      PROVE  AllExhaustive'
  <2>1. /\ UNCHANGED <<alive, about, queue, chunk, tally, hitLimit, late>>
        /\ Unstamped' = Unstamped
    BY <1>6 DEF Abort, Goto, channelVars, passVars, Unstamped
  <2>2. \A k \in Jobs : Undone(k)' = Undone(k) /\ Captured(k)' = Captured(k)
    BY <2>1 DEF Undone, Captured, In
  <2>3. \A k \in Jobs : pc'[k] \in {"read", "report", "finish"}
                            => pc'[k] = pc[k]
    BY <1>6, RunnersAre DEF Abort, Goto, Types, RunnerTypes
  <2>4. \A k \in Jobs : Done(k)' => Done(k)
    BY <1>6 DEF Done, Types, JobTypes, RowOfJob, Abort
  <2>5. \A k \in Jobs : Stays(k)
    BY <2>1, <2>2, <2>3, <2>4
  <2>6. QED
    BY <1>a, <2>1, <2>5 DEF AllExhaustive
<1>7. ASSUME NEW j \in Jobs, Lose(j)
      PROVE  AllExhaustive'
  <2>1. /\ UNCHANGED <<alive, about, queue, chunk, tally, hitLimit, late>>
        /\ Unstamped' = Unstamped
    BY <1>7 DEF Lose, Goto, channelVars, passVars, Unstamped
  <2>2. \A k \in Jobs : Undone(k)' = Undone(k) /\ Captured(k)' = Captured(k)
    BY <2>1 DEF Undone, Captured, In
  <2>3. \A k \in Jobs : pc'[k] \in {"read", "report", "finish"}
                            => pc'[k] = pc[k]
    BY <1>7, RunnersAre DEF Lose, Goto, Types, RunnerTypes
  <2>4. \A k \in Jobs : Done(k)' => Done(k)
    BY <1>7 DEF Done, Types, JobTypes, RowOfJob, Lose
  <2>5. \A k \in Jobs : Stays(k)
    BY <2>1, <2>2, <2>3, <2>4
  <2>6. QED
    BY <1>a, <2>1, <2>5 DEF AllExhaustive
<1>8. ASSUME NEW p \in Runners, Start(p)
      PROVE  AllExhaustive'
  <2>1. /\ UNCHANGED <<alive, about, tally, job>>
        /\ Unstamped' = Unstamped
    BY <1>8 DEF Start, channelVars, Unstamped
  <2>2. \A k \in Jobs \ {p} : /\ pc'[k] = pc[k] /\ queue'[k] = queue[k]
                              /\ chunk'[k] = chunk[k] /\ late'[k] = late[k]
                              /\ hitLimit'[k] = hitLimit[k]
    BY <1>8, RunnersAre
       DEF Start, Select, Goto, Types, RunnerTypes, CountTypes
  <2>3. \A k \in Jobs \ {p} : Stays(k)
    BY <2>1, <2>2 DEF Undone, Captured, In, Done
  <2>4. ASSUME p \in Jobs PROVE Exhaustive(p)'
    <3>1. p \notin Pods /\ p \notin Consoles
      BY <2>4, RunnerAssumption
    <3>2. pc[p] = "select"
      BY <1>8, <3>1 DEF Start
    <3>3. ~Done(p)'
      BY <2>1, <2>4, <3>2 DEF AllBooked, Booked, Done
    <3>4. CASE exists
      <4> DEFINE rows == First(JobLimit, Unstamped)
                 now == First(CommitEvery, rows)
      <4>1. /\ queue' = [queue EXCEPT ![p] = rows \ now]
            /\ chunk' = [chunk EXCEPT ![p] = Chunk(now)]
            /\ pc' = [pc EXCEPT ![p] = IF rows # {} THEN "read" ELSE "finish"]
            /\ hitLimit' = [hitLimit EXCEPT ![p] =
                                Cardinality(rows) = JobLimit]
        BY <1>8, <2>4, <3>1, <3>4
           DEF Start, Select, Goto, LimitOf, HitsLimit
      <4>2. Unstamped \in SUBSET Rows
        BY DEF Unstamped, Types, ChannelTypes
      <4>3. rows \in SUBSET Rows /\ Cardinality(rows) <= JobLimit
        BY <4>2, FirstIsSubset, FirstIsShort, LimitAssumption
      <4>4. Cardinality(rows) # JobLimit => rows = Unstamped
        <5>1. Cardinality(rows) \in Nat /\ JobLimit \in Nat
          BY <4>3, RowSets, LimitAssumption
        <5>2. QED
          BY <4>2, <4>3, <5>1, FirstIsAll
      <4> HIDE DEF rows, now
      <4>5. /\ queue'[p] = rows \ now /\ chunk'[p] = Chunk(now)
            /\ pc'[p] = IF rows # {} THEN "read" ELSE "finish"
            /\ hitLimit'[p] = (Cardinality(rows) = JobLimit)
        BY <2>4, <4>1 DEF Types, RunnerTypes, CountTypes
      <4>6. rows \subseteq Undone(p)'
        BY <4>3, <4>5 DEF Undone, In, Chunk
      <4>7. QED
        BY <2>1, <3>3, <4>4, <4>5, <4>6 DEF Exhaustive
    <3>5. CASE ~exists
      <4>1. pc'[p] = "abort"
        BY <1>8, <2>4, <3>5 DEF Start, Goto, Types, RunnerTypes
      <4>2. QED
        BY <3>3, <4>1 DEF Exhaustive
    <3>6. QED
      BY <3>4, <3>5
  <2>5. QED
    BY <1>a, <2>1, <2>3, <2>4 DEF AllExhaustive
<1>9. ASSUME NEW p \in Runners, Commit(p)
      PROVE  AllExhaustive'
  <2>1. UNCHANGED <<alive, tally, hitLimit, late, job>>
    BY <1>9 DEF Commit
  <2>2. Unstamped' \subseteq Unstamped \ (Captured(p) \cap alive)
    BY <1>9, MarkAssumption
       DEF Commit, Unstamped, Captured, In, Types, ChannelTypes
  <2>3. \A k \in Jobs \ {p} : /\ pc'[k] = pc[k] /\ queue'[k] = queue[k]
                              /\ chunk'[k] = chunk[k]
    BY <1>9, RunnersAre
       DEF Commit, Advance, Goto, Types, RunnerTypes, CountTypes
  <2>4. \A k \in Jobs \ {p} : Stays(k)
    BY <2>1, <2>3 DEF Undone, Captured, In, Done
  <2>5. ASSUME p \in Jobs PROVE Exhaustive(p)'
    <3>1. pc[p] = "read" /\ pc'[p] = "report" /\ queue'[p] = queue[p]
      BY <1>9, <2>5, RunnersAre DEF Commit, Gathered, Goto, Types, RunnerTypes
    <3>2. Undone(p) = queue[p]
      BY <1>9, MarkAssumption DEF Commit, Gathered, Undone, In, Marks
    <3>3. Exhaustive(p) /\ ~Done(p)
      BY <2>5, <3>1 DEF AllExhaustive, AllBooked, Booked, Done
    <3>4. ~Done(p)'
      BY <2>1, <3>3 DEF Done
    <3>5. Unstamped \subseteq alive
      BY DEF Unstamped
    <3>6. QED
      BY <2>1, <2>2, <3>1, <3>2, <3>3, <3>4, <3>5 DEF Exhaustive
  <2>6. QED
    BY <1>a, <2>2, <2>4, <2>5 DEF AllExhaustive
<1>10. ASSUME NEW p \in Runners, CommitRaises(p)
      PROVE  AllExhaustive'
  <2>1. /\ UNCHANGED <<alive, about, tally, hitLimit, late, job>>
        /\ Unstamped' = Unstamped
    BY <1>10 DEF CommitRaises, FailPass, channelVars, Unstamped
  <2>2. \A k \in Jobs \ {p} : /\ pc'[k] = pc[k] /\ queue'[k] = queue[k]
                              /\ chunk'[k] = chunk[k]
    BY <1>10, RunnersAre DEF CommitRaises, FailPass, Goto, Types, RunnerTypes
  <2>3. p \in Jobs => pc'[p] = "abort"
    BY <1>10 DEF CommitRaises, FailPass, Goto, Types, RunnerTypes
  <2>4. \A k \in Jobs : Stays(k)
    BY <2>1, <2>2, <2>3 DEF Undone, Captured, In, Done
  <2>5. QED
    BY <1>a, <2>1, <2>4 DEF AllExhaustive
<1>11. ASSUME NEW p \in Runners, PassRaises(p)
      PROVE  AllExhaustive'
  <2>1. /\ UNCHANGED <<alive, about, tally, hitLimit, late, job>>
        /\ Unstamped' = Unstamped
    BY <1>11 DEF PassRaises, FailPass, channelVars, Unstamped
  <2>2. \A k \in Jobs \ {p} : /\ pc'[k] = pc[k] /\ queue'[k] = queue[k]
                              /\ chunk'[k] = chunk[k]
    BY <1>11, RunnersAre DEF PassRaises, FailPass, Goto, Types, RunnerTypes
  <2>3. p \in Jobs => pc'[p] = "abort"
    BY <1>11 DEF PassRaises, FailPass, Goto, Types, RunnerTypes
  <2>4. \A k \in Jobs : Stays(k)
    BY <2>1, <2>2, <2>3 DEF Undone, Captured, In, Done
  <2>5. QED
    BY <1>a, <2>1, <2>4 DEF AllExhaustive
<1>12. ASSUME NEW p \in Runners, NEW r \in Rows,
               Open(p, r)
      PROVE  AllExhaustive'
  <2>1. pc[p] = "read" /\ chunk[p][r] = "todo"
    BY <1>12 DEF Open, NextUp, In
  <2>2. CASE Capture(p, r, "failed")
    BY <2>1, <2>2, CaptureExhausts
  <2>3. CASE ~Capture(p, r, "failed")
    <3>1. /\ chunk' = [chunk EXCEPT ![p][r] = "open"]
          /\ UNCHANGED <<alive, about, queue, tally, hitLimit, late, pc, job>>
          /\ Unstamped' = Unstamped
      BY <1>12, <2>3 DEF Open, channelVars, Unstamped
    <3>2. \A k \in Jobs, q \in Rows :
              chunk'[k][q] = IF k = p /\ q = r THEN "open" ELSE chunk[k][q]
      BY <3>1, RunnersAre DEF Types, RunnerTypes
    <3>3. {"todo", "open"} \cap Abouts = {}
      BY MarkAssumption DEF Marks
    <3>4. \A k \in Jobs : Undone(k)' = Undone(k) /\ Captured(k)' = Captured(k)
      BY <2>1, <3>1, <3>2, <3>3 DEF Undone, Captured, In
    <3>5. \A k \in Jobs : Stays(k)
      BY <3>1, <3>4 DEF Done
    <3>6. QED
      BY <1>a, <3>1, <3>5 DEF AllExhaustive
  <2>4. QED
    BY <2>2, <2>3
<1>13. ASSUME NEW p \in Runners, NEW r \in Rows,
               ReadRanges(p, r)
      PROVE  AllExhaustive'
  <2>1. /\ pc[p] = "read" /\ chunk[p][r] \in {"todo", "open", "torn"}
        /\ \E o \in Abouts \cup {"failed"} : Capture(p, r, o)
    BY <1>13 DEF ReadRanges, Abouts, Types, ChannelTypes
  <2>2. QED
    BY <2>1, CaptureExhausts
<1>14. ASSUME NEW p \in Runners, NEW r \in Rows,
               Spool(p, r)
      PROVE  AllExhaustive'
  <2>1. /\ pc[p] = "read" /\ chunk[p][r] \in {"todo", "open", "torn"}
        /\ \E o \in Abouts \cup {"failed"} : Capture(p, r, o)
    BY <1>14 DEF Spool, NextUp, In, Abouts, Types, ChannelTypes
  <2>2. QED
    BY <2>1, CaptureExhausts
<1>15. ASSUME NEW p \in Runners, NEW r \in Rows,
               FetchFails(p, r)
      PROVE  AllExhaustive'
  <2>1. /\ pc[p] = "read" /\ chunk[p][r] \in {"todo", "open", "torn"}
        /\ Capture(p, r, "failed")
    BY <1>15 DEF FetchFails, NextUp, In
  <2>2. QED
    BY <2>1, CaptureExhausts
<1>16. ASSUME NEW a \in Pods, Wake(a)
      PROVE  AllExhaustive'
  <2>1. /\ UNCHANGED <<alive, about, queue, chunk, tally, hitLimit, late>>
        /\ Unstamped' = Unstamped
    BY <1>16 DEF Wake, channelVars, passVars, Unstamped
  <2>2. \A k \in Jobs : Undone(k)' = Undone(k) /\ Captured(k)' = Captured(k)
    BY <2>1 DEF Undone, Captured, In
  <2>3. \A k \in Jobs : pc'[k] = pc[k]
    BY <1>16, RunnersAre, RunnerAssumption DEF Wake, Goto, Types, RunnerTypes
  <2>4. \A k \in Jobs : Done(k)' => Done(k)
    BY <1>16 DEF Wake, Done, Types, JobTypes, RowOfJob
  <2>5. \A k \in Jobs : Stays(k)
    BY <2>1, <2>2, <2>3, <2>4
  <2>6. QED
    BY <1>a, <2>1, <2>5 DEF AllExhaustive
<1>17. ASSUME NEW a \in Pods, Die(a)
      PROVE  AllExhaustive'
  <2>1. /\ UNCHANGED <<alive, about, tally, hitLimit, late, job>>
        /\ Unstamped' = Unstamped
        /\ \A k \in Jobs : queue'[k] = queue[k]
    BY <1>17, RunnersAre, RunnerAssumption
       DEF Die, channelVars, Unstamped, Types, RunnerTypes
  <2>2. ASSUME NEW k \in Jobs PROVE Stays(k)
    <3>1. k \in Runners /\ k # a
      BY RunnersAre, RunnerAssumption
    <3>2. CASE PodOf[k] = a
      <4>1. pc'[k] \notin {"read", "report", "finish"}
        BY <1>17, <3>1, <3>2 DEF Die, Idle
      <4>2. QED
        BY <2>1, <4>1 DEF Done
    <3>3. CASE PodOf[k] # a
      <4>1. chunk'[k] = chunk[k] /\ pc'[k] = pc[k]
        BY <1>17, <3>1, <3>3 DEF Die
      <4>2. QED
        BY <2>1, <4>1 DEF Done, Undone, Captured, In
    <3>4. QED
      BY <3>2, <3>3
  <2>3. QED
    BY <1>a, <2>1, <2>2 DEF AllExhaustive
<1>18. ASSUME NEW a \in Pods, StartPod(a)
      PROVE  AllExhaustive'
  <2>1. /\ UNCHANGED <<alive, about, queue, chunk, tally, hitLimit, late>>
        /\ Unstamped' = Unstamped
    BY <1>18 DEF StartPod, channelVars, passVars, Unstamped
  <2>2. \A k \in Jobs : Undone(k)' = Undone(k) /\ Captured(k)' = Captured(k)
    BY <2>1 DEF Undone, Captured, In
  <2>3. \A k \in Jobs : pc'[k] = pc[k]
    BY <1>18, RunnersAre, RunnerAssumption DEF StartPod, Goto, Types, RunnerTypes
  <2>4. \A k \in Jobs : Done(k)' => Done(k)
    BY <1>18 DEF StartPod, Running, Done, Types, JobTypes, RowOfJob
  <2>5. \A k \in Jobs : Stays(k)
    BY <2>1, <2>2, <2>3, <2>4
  <2>6. QED
    BY <1>a, <2>1, <2>5 DEF AllExhaustive
<1>19. ASSUME NEW r \in Rows, Put(r)
      PROVE  AllExhaustive'
  <2>1. /\ UNCHANGED <<alive, about, queue, tally, hitLimit, late, pc, job>>
        /\ Unstamped' = Unstamped
    BY <1>19 DEF Put, Unstamped
  <2>2. \A k \in Jobs, q \in Rows :
            chunk'[k][q] = IF chunk[k][r] = "open" /\ q = r THEN "torn"
                           ELSE chunk[k][q]
    BY <1>19, RunnersAre DEF Put, Types, RunnerTypes
  <2>3. {"open", "torn"} \cap Abouts = {}
    BY MarkAssumption DEF Marks
  <2>4. \A k \in Jobs : Undone(k)' = Undone(k) /\ Captured(k)' = Captured(k)
    BY <2>1, <2>2, <2>3 DEF Undone, Captured, In
  <2>5. \A k \in Jobs : Stays(k)
    BY <2>1, <2>4 DEF Done
  <2>6. QED
    BY <1>a, <2>1, <2>5 DEF AllExhaustive
<1>20. ASSUME NEW r \in Rows, Upsert(r)
      PROVE  AllExhaustive'
  <2>1. UNCHANGED <<queue, chunk, tally, hitLimit, pc, job>>
    BY <1>20 DEF Upsert, channelVars, passVars
  <2>2. \A k \in Jobs : /\ late[k] \subseteq late'[k]
                        /\ Unstamped' \subseteq Unstamped \cup late'[k]
    BY <1>20, MarkAssumption DEF Upsert, Unstamped, Types, ChannelTypes, Abouts
  <2>3. \A k \in Jobs : Stays(k)
    BY <2>1, <2>2 DEF Undone, Captured, In, Done
  <2>4. QED
    BY <1>a, <2>2, <2>3 DEF AllExhaustive
<1>21. ASSUME NEW r \in Rows, Remove(r)
      PROVE  AllExhaustive'
  <2>1. UNCHANGED <<queue, chunk, tally, hitLimit, pc, job>>
    BY <1>21 DEF Remove, channelVars, passVars
  <2>2. \A k \in Jobs : /\ late[k] \subseteq late'[k]
                        /\ Unstamped' \subseteq Unstamped \cup late'[k]
    BY <1>21 DEF Remove, channelVars, passVars, Unstamped
  <2>3. \A k \in Jobs : Stays(k)
    BY <2>1, <2>2 DEF Undone, Captured, In, Done
  <2>4. QED
    BY <1>a, <2>2, <2>3 DEF AllExhaustive
<1>22. ASSUME NEW r \in Rows, Erase(r)
      PROVE  AllExhaustive'
  <2>1. UNCHANGED <<queue, chunk, tally, hitLimit, pc, job>>
    BY <1>22 DEF Erase, channelVars, passVars
  <2>2. \A k \in Jobs : /\ late[k] \subseteq late'[k]
                        /\ Unstamped' \subseteq Unstamped \cup late'[k]
    BY <1>22 DEF Erase, Unstamped, Types, ChannelTypes
  <2>3. \A k \in Jobs : Stays(k)
    BY <2>1, <2>2 DEF Undone, Captured, In, Done
  <2>4. QED
    BY <1>a, <2>2, <2>3 DEF AllExhaustive
<1>23. ASSUME NEW r \in Rows, Add(r)
      PROVE  AllExhaustive'
  <2>1. UNCHANGED <<queue, chunk, tally, hitLimit, pc, job>>
    BY <1>23 DEF Add, channelVars, passVars
  <2>2. \A k \in Jobs : /\ late[k] \subseteq late'[k]
                        /\ Unstamped' \subseteq Unstamped \cup late'[k]
    BY <1>23 DEF Add, Unstamped, Types, ChannelTypes, CountTypes
  <2>3. \A k \in Jobs : Stays(k)
    BY <2>1, <2>2 DEF Undone, Captured, In, Done
  <2>4. QED
    BY <1>a, <2>2, <2>3 DEF AllExhaustive
<1>24. CASE DeleteChannel
  <2>1. UNCHANGED <<queue, chunk, tally, hitLimit, pc>>
    BY <1>24 DEF DeleteChannel, channelVars, passVars
  <2>2. \A k \in Jobs : /\ late[k] \subseteq late'[k]
                        /\ Unstamped' \subseteq Unstamped \cup late'[k]
    BY <1>24 DEF DeleteChannel, channelVars, passVars, Unstamped
  <2>3. \A k \in Jobs : Stays(k)
    BY <1>24, <2>1, <2>2 DEF Undone, Captured, In, Done, DeleteChannel
  <2>4. QED
    BY <1>a, <2>2, <2>3 DEF AllExhaustive
<1>25. CASE Rest
  <2>1. UNCHANGED <<queue, chunk, tally, hitLimit, pc, job>>
    BY <1>25 DEF Rest, vars, channelVars, passVars
  <2>2. \A k \in Jobs : /\ late[k] \subseteq late'[k]
                        /\ Unstamped' \subseteq Unstamped \cup late'[k]
    BY <1>25 DEF Rest, vars, channelVars, passVars, Unstamped
  <2>3. \A k \in Jobs : Stays(k)
    BY <2>1, <2>2 DEF Undone, Captured, In, Done
  <2>4. QED
    BY <1>a, <2>2, <2>3 DEF AllExhaustive
<1>26. CASE UNCHANGED vars
  <2>1. UNCHANGED <<queue, chunk, tally, hitLimit, pc, job>>
    BY <1>26 DEF vars, channelVars, passVars
  <2>2. \A k \in Jobs : /\ late[k] \subseteq late'[k]
                        /\ Unstamped' \subseteq Unstamped \cup late'[k]
    BY <1>26 DEF vars, channelVars, passVars, Unstamped
  <2>3. \A k \in Jobs : Stays(k)
    BY <2>1, <2>2 DEF Undone, Captured, In, Done
  <2>4. QED
    BY <1>a, <2>2, <2>3 DEF AllExhaustive
<1>27. QED
  BY <1>1, <1>2, <1>3, <1>4, <1>5, <1>6, <1>7, <1>8, <1>9, <1>10, <1>11,
     <1>12, <1>13, <1>14, <1>15, <1>16, <1>17, <1>18, <1>19, <1>20, <1>21,
     <1>22, <1>23, <1>24, <1>25, <1>26, Steps

-----------------------------------------------------------------------------
\* The invariant: the types, and what was shown to follow of each step.
BackfillInv ==
    /\ Types /\ WithinWidth /\ Together /\ Described
    /\ AllCounted /\ AllBooked /\ AllExhaustive

LEMMA InvAtFirst == Init => BackfillInv
<1> SUFFICES ASSUME Init PROVE BackfillInv
  OBVIOUS
<1>1. Types
  BY TypesAtFirst
<1>2. \A p \in Runners : chunk[p] = NoChunk
  BY DEF Init
<1>3. \A p \in Runners, r \in Rows : chunk[p][r] = None
  BY <1>2 DEF NoChunk
<1>4. WithinWidth
  <2>1. SUFFICES ASSUME NEW p \in Runners
                 PROVE  Cardinality(In(p, {"open", "torn"})) <= Width
    BY DEF WithinWidth
  <2>2. In(p, {"open", "torn"}) = {}
    BY <1>3, MarkAssumption DEF In, Marks
  <2>3. QED
    BY <2>2, FS_EmptySet, LimitAssumption
<1>5. Together
  BY RunnersAre, RunnerAssumption DEF Init, Together, Working, AtWork
<1>6. Described
  BY <1>3, MarkAssumption
     DEF Init, Described, Known, AboutDescribesBytes, Abouts, Marks
<1>7. ASSUME NEW j \in Jobs PROVE Counted(j) /\ Booked(j) /\ Exhaustive(j)
  <2>1. /\ tally[j].read = {} /\ tally[j].failed = {} /\ kept[j] = {}
        /\ queue[j] = {} /\ chunk[j] = NoChunk /\ job[j] = None
    BY <1>2, RunnersAre DEF Init
  <2>2. pc[j] = "none"
    BY RunnersAre, RunnerAssumption DEF Init
  <2>3. Undone(j) = {} /\ Taken(j) = {}
    BY <1>3, <2>1, RunnersAre, MarkAssumption DEF Undone, Taken, In, Marks
  <2>4. Cardinality(Taken(j)) <= JobLimit
    BY <2>3, FS_EmptySet, LimitAssumption
  <2>5. QED
    BY <2>1, <2>2, <2>3, <2>4 DEF Counted, Booked, Exhaustive, Done
<1>8. QED
  BY <1>1, <1>4, <1>5, <1>6, <1>7
     DEF BackfillInv, AllCounted, AllBooked, AllExhaustive

LEMMA InvHolds == Spec => []BackfillInv
<1>1. BackfillInv /\ [Next]_vars => BackfillInv'
  BY TypesStep, WidthStep, TogetherStep, DescribedStep, CountedStep,
     BookedStep, ExhaustiveStep DEF BackfillInv
<1>2. QED
  BY <1>1, InvAtFirst, PTL DEF Spec

\* Every variable keeps its type, no pass opens more archives at once than its
\* semaphore allows, and no job's total is past its limit.
THEOREM BackfillTyped == Spec => []BackfillTypeOK
<1>1. BackfillInv => BackfillTypeOK
  <2> SUFFICES ASSUME BackfillInv PROVE BackfillTypeOK
    OBVIOUS
  <2>1. Types /\ WithinWidth /\ AllBooked
    BY DEF BackfillInv
  <2>2. job \in [Jobs -> JobRow \cup {None}]
    <3>1. job \in [Jobs -> RowOfJob \cup {None}]
      BY <2>1 DEF Types, JobTypes
    <3>2. ASSUME NEW j \in Jobs PROVE job[j] \in JobRow \cup {None}
      BY <2>1, <3>1, LimitAssumption
         DEF AllBooked, Booked, RowOfJob, JobRow
    <3>3. QED
      BY <3>1, <3>2
  <2>3. QED
    BY <2>1, <2>2 DEF BackfillTypeOK, Types, ChannelTypes, RunnerTypes,
                      CountTypes, WithinWidth
<1>2. QED
  BY <1>1, InvHolds, PTL

\* What a job's row reports as read was committed (backfill.py 127-137): a chunk
\* that was lost, and a row that was cut off, count for nothing.
THEOREM CountsCommitted == Spec => []CountsAreKept
<1>1. BackfillInv => CountsAreKept
  BY DEF BackfillInv, AllBooked, Booked, CountsAreKept
<1>2. QED
  BY <1>1, InvHolds, PTL

\* channels.py 1822, "One at a time per channel": two jobs are at work together
\* only if one was counted as started beside the other.
THEOREM JobsOneByOne == Spec => []OneJobAtATime
<1>1. BackfillInv => OneJobAtATime
  BY DEF BackfillInv, Together, Working, OneJobAtATime
<1>2. QED
  BY <1>1, InvHolds, PTL

\* backfill.py 20: a stamp stands over the metadata of the bytes in storage, and
\* never over an archive that only could not be fetched.
THEOREM StampsAreTrue == Spec => []AboutDescribesBytes
<1>1. BackfillInv => AboutDescribesBytes
  BY DEF BackfillInv, Described
<1>2. QED
  BY <1>1, InvHolds, PTL

\* backfill.py 75: a completed job that does not tell of its limit has left no
\* row unread but those it could not fetch and those that came after it began.
THEOREM SilenceIsTrue == Spec => []SilenceMeansDone
<1>1. BackfillInv => SilenceMeansDone
  BY DEF BackfillInv, AllExhaustive, Exhaustive, Done, SilenceMeansDone
<1>2. QED
  BY <1>1, InvHolds, PTL
=============================================================================
