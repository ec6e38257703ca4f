------------------------------ MODULE MCImport ------------------------------
(* Instances of Import small enough for TLC. *)
EXTENDS Import, TLC

CONSTANTS f1, f2, b1, b2, s1, p1, x1, x2

MCSubdirOf == [f \in Files |-> s1]
MCPackageOf == [f \in Files |-> p1]
MCVersionOf == [f \in Files |-> f]
MCAge == f1 :> 1 @@ f2 :> 0
MCSizeOf == b1 :> 1 @@ b2 :> 2 @@ Junk :> 0
MCSeeds == {[f \in Files |-> None]}
MCDrifts == {}

\* Two files, one of them twice, or one file that the other job wants as well.
MCPayloads ==
    [j \in Passes |-> IF j = x1 THEN {<<f1, f2, f1>>, <<f1, None, None>>}
                      ELSE {<<f1, None, None>>}]

\* The second upstream has another build of f1 and lacks f2.
MCUpstream ==
    [j \in Passes |-> IF j = x1 THEN f1 :> b1 @@ f2 :> b1
                      ELSE f1 :> b2 @@ f2 :> None]

\* One job of three items, or two jobs of one item.  These may run beside one
\* another where rattler indexes, though not both in their passes.
MCScope ==
    /\ Cardinality({j \in Passes : jpc[j] = "index"}) <= 1
    /\ payload[x1][2] = None \/ \A j \in Passes \ {x1} : jpc[j] = "idle"
    /\ backend = "rattler" \/ Cardinality({j \in Passes : Active(j)}) <= 1
MCInit == ImportInit /\ \A f \in Files : shard[f] = Absent
MCSpec == MCInit /\ [][ImportNext /\ MCScope']_jobVars
=============================================================================
