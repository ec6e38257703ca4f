----------------------------- MODULE MCMembers -----------------------------
(* Instances of Members small enough for TLC. *)
EXTENDS Members, TLC

CONSTANTS q1, q2, u1, u2, u3

\* Requests are interchangeable, and so are the users without a server role.
MCSymmetry == Permutations({q1, q2}) \cup Permutations({u1, u2})
=============================================================================
