----------------------------- MODULE MCChannel -----------------------------
(* Instances of Channel small enough for TLC. *)
EXTENDS Channel, TLC

CONSTANTS f1, f2, b1, b2, s1, s2, p1, p2, u1, u2, r1, x1, x2

MCSubdirOf == f1 :> s1 @@ f2 :> s1
MCPackageOf == f1 :> p1 @@ f2 :> p1
MCVersionOf == [f \in Files |-> f]
MCAge == f1 :> 1 @@ f2 :> 0
MCSizeOf == b1 :> 1 @@ b2 :> 2 @@ Junk :> 0
MCReplicaOf == [u \in Uploads |-> r1]

MCBatch(p) == [f \in Files |-> IF f \in DOMAIN p THEN p[f] ELSE None]

\* A channel that has f1, and one that has both files.
MCSeeds == {MCBatch(p) : p \in {f1 :> b1, f1 :> b1 @@ f2 :> b1}}

\* A rebuild of f1, and a batch of both files.
MCBatches == {MCBatch(p) : p \in {f1 :> b2, f1 :> b1 @@ f2 :> b1}}

MCDrifts == {}
=============================================================================
