------------------------------ MODULE MCAbout ------------------------------
(* The way of about metadata, from an archive to a page: instances small    *)
(* enough for TLC, of the passes (Backfill), of the reading of one archive  *)
(* (RangedRead) and of the page (Versions), one of them in a behaviour.     *)
EXTENDS Backfill, RangedRead, Versions, TLC

CONSTANTS
    j1, j2, a1, a2, c1, e1, e2,
    r1, r2, r3, r4, r5, r6, r7, v1, v1x, v2, x1, x2

MCPodOf == [j \in Jobs |-> IF j = j1 THEN a1 ELSE a2]

\* What runs together, by the setting of the loop: without it (0) a job, or two
\* on two rows of a channel nobody touches; beside it (1) a job or a console;
\* the loop by itself (2).
Quiet(R) == \A p \in R : pc[p] = "none"
MCRows == IF perSweep = 1 THEN Rows \ {3} ELSE Rows
PassInit ==
    /\ Init
    /\ object \in [Rows -> {e1, Gone}]
    /\ Cardinality({r \in Rows : object[r] = Gone}) <= 1
    /\ alive \subseteq MCRows
    /\ \A r \in Rows \ MCRows : object[r] = e1
    /\ up = IF perSweep = 0 THEN Pods ELSE {a1}
MCScope ==
    /\ born \subseteq MCRows
    /\ perSweep # 2 => events <= 1
    /\ perSweep = 0 => /\ Quiet(Consoles)
                       /\ Quiet({j1}) => Quiet({j2})
                       /\ Quiet({j2}) \/ (born = {1,2} /\ uploading = {})
    /\ perSweep = 1 => Quiet({j2}) /\ (Quiet({j1}) \/ Quiet(Consoles))
    /\ perSweep = 2 => Quiet(Jobs \cup Consoles)
    /\ perSweep # 0 => up \subseteq {a1}

\* Windows of 1, 4 and 16 bytes, and what lies at, before and behind them.
MCArchives ==
    {a \in [size : {0, 1, 2, 6, 20}, zip : BOOLEAN,
            directory : {0, 1, 4, 13, 18},
            comment : {0, 1, 3}, info : BOOLEAN, offset : {0, 1, 4, 19, 21},
            header : {1, 3}, data : {1, 4}, about : BOOLEAN] :
        IF a.zip THEN a.directory + 1 + a.comment <= a.size
        ELSE a.directory = 0 /\ a.comment = 0 /\ ~a.info /\ a.offset = 0}

\* Two spellings of one version, an older one, and two that do not parse.
MCParsed == v1 :> 1 @@ v1x :> 1 @@ v2 :> 0 @@ x1 :> Unparsed @@ x2 :> Unparsed
MCText == v1 :> 1 @@ v1x :> 3 @@ v2 :> 2 @@ x1 :> 0 @@ x2 :> 4
MCVersionOf == r1 :> v1 @@ r2 :> v1x @@ r3 :> v1 @@ r4 :> v2 @@ r5 :> x1
               @@ r6 :> x2 @@ r7 :> v1
MCNumberOf == r1 :> 0 @@ r2 :> 0 @@ r3 :> 1 @@ r4 :> 2 @@ r5 :> 0
              @@ r6 :> 0 @@ r7 :> 0
MCPlaceOf == r1 :> 1 @@ r2 :> 1 @@ r3 :> 1 @@ r4 :> 1 @@ r5 :> 2
             @@ r6 :> 1 @@ r7 :> 2

\* A behaviour of one of the three; the others have nothing to do.
Empty == [size |-> 0, zip |-> FALSE, directory |-> 0, comment |-> 0,
          info |-> FALSE, offset |-> 0, header |-> 1, data |-> 1,
          about |-> TRUE]
Passes == archive = Empty /\ stored = {}
AtRest ==
    /\ perSweep = 0 /\ alive = {} /\ events = 0
    /\ up = Pods /\ \A r \in Rows : object[r] = e1
MCInit ==
    /\ PassInit /\ ReadInit /\ PageInit
    /\ archive.size = 0 => archive = Empty
    /\ stored = {} \/ archive = Empty
    /\ Passes \/ AtRest
    /\ Cardinality(stored) <= 5
MCNext ==
    \/ Passes /\ Next /\ MCScope' /\ UNCHANGED <<readVars, pageVars>>
    \/ archive # Empty /\ ReadNext /\ UNCHANGED <<vars, pageVars>>
    \/ stored # {} /\ Show /\ UNCHANGED <<vars, readVars>>
MCFairness ==
    /\ \A p \in Runners : WF_vars(Proceed(p))
    /\ \A a \in Pods : WF_vars((perSweep = 0 \/ a = a1) /\ StartPod(a))
    /\ ReadFairness
MCSpec == MCInit /\ [][MCNext]_<<vars, readVars, pageVars>> /\ MCFairness
=============================================================================
