----------------------------- MODULE MCReindex -----------------------------
(* Instances of Reindex small enough for TLC. *)
EXTENDS Reindex, TLC

CONSTANTS f1, f2, f3, b1, b2, b3, s1, s2, p1, p2, x1, x2

MCSubdirOf == f1 :> s1 @@ f2 :> s1 @@ f3 :> s2
MCPackageOf == f1 :> p1 @@ f2 :> p2 @@ f3 :> p1
MCVersionOf == [f \in Files |-> f]
MCAge == f1 :> 1 @@ f2 :> 0 @@ f3 :> 0
\* b3 is a rebuild of b1 that has its length.
MCSizeOf == b1 :> 1 @@ b2 :> 2 @@ b3 :> 1 @@ Junk :> 0
MCSeeds == {[f \in Files |-> None]}

Rec1 == [sha |-> b1, size |-> 1]
Rec2 == [sha |-> b2, size |-> 2]
Rec3 == [sha |-> b3, size |-> 1]
Rec0 == [sha |-> NoHash, size |-> 1]

State(o, j, z, h, r, a) ==
    [object |-> o, repodata |-> j, zst |-> z, shard |-> h, row |-> r,
     about |-> a]

MCDrifts == {
    State(None, None, None, None, None, Unread),      \* never uploaded
    State(b1, Rec1, Rec1, Rec1, Rec1, b1),            \* in order
    State(b1, None, None, None, None, Unread),        \* stored, then cut off
    State(b3, Rec1, Rec1, Rec1, Rec1, b1),            \* rebuilt, same length
    State(b2, Rec1, Rec1, Rec1, Rec1, b1),            \* rebuilt, longer
    State(b2, Rec2, Rec1, Rec1, Rec1, b1),            \* cut off before the zst
    State(b2, Rec2, Rec2, None, None, Unread),        \* and before the commit
    State(b3, Rec3, Rec3, None, Rec1, b1),            \* the same, same length
    State(b1, None, None, None, Rec0, b1),            \* imported, no hash yet
    State(Junk, Rec1, Rec1, Rec1, Rec1, b1),          \* truncated
    State(None, Rec1, Rec1, Rec1, None, Unread)}      \* deleted, not reindexed
=============================================================================
