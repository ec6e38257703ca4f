----------------------------- MODULE MCMirror ------------------------------
(* Instances of Mirror small enough for TLC. *)
EXTENDS Mirror, TLC

CONSTANTS g1, g2, repodata, archive

\* Requests are interchangeable.
MCSymmetry == Permutations({g1, g2})
=============================================================================
