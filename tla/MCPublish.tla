----------------------------- MODULE MCPublish -----------------------------
(* Instances of Publish small enough for TLC. *)
EXTENDS Publish, TLC

CONSTANTS f1, f2, f3, b1, b2, s1, s2, u1, u2, r1, p1, p2

MCSubdirOf == f1 :> s1 @@ f2 :> s1 @@ f3 :> s2
MCReplicaOf == [u \in Uploads |-> r1]
MCPackageOf == f1 :> p1 @@ f2 :> p2 @@ f3 :> p1
MCVersionOf == [f \in Files |-> f]
MCSizeOf == b1 :> 1 @@ b2 :> 2 @@ Junk :> 0

MCBatch(p) == [f \in Files |-> IF f \in DOMAIN p THEN p[f] ELSE None]

\* A channel that has f1 and one that has everything.
MCSeeds == {MCBatch(p) : p \in {f1 :> b1, f1 :> b1 @@ f2 :> b2 @@ f3 :> b1}}

\* A rebuild of one file, another file of the same subdir, a batch over two
\* subdirs.
MCBatches == {MCBatch(p) : p \in {f1 :> b1, f2 :> b1, f1 :> b2 @@ f3 :> b1}}

\* One of the two requests has the batch.
MCScope == pc[u1] = "idle" \/ batch[u1][f3] # None
MCSpec == Init /\ [][Next /\ MCScope']_vars /\ Fairness
=============================================================================
