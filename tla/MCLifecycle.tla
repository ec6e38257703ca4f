---------------------------- MODULE MCLifecycle ----------------------------
(* An instance of Lifecycle small enough for TLC. *)
EXTENDS Lifecycle, TLC

CONSTANTS c1, c2, c3, c4, u1, u2, u3, u4, n1, n2, p1, p2, p3, f1, f2

\* A channel (c1) that may be created again under its name (c2), a channel
\* inside its prefix (c4), and one whose prefix only begins with the same
\* letters (c3).
MCNameOf == c1 :> n1 @@ c2 :> n1 @@ c3 :> n2 @@ c4 :> n2
MCPrefixOf == c1 :> p1 @@ c2 :> p1 @@ c3 :> p2 @@ c4 :> p3
MCInside == p1 :> {p1, p3} @@ p2 :> {p2} @@ p3 :> {p3}
MCSpelled == p1 :> {p1, p2, p3} @@ p2 :> {p2} @@ p3 :> {p3}
MCChannelOf == u1 :> c1 @@ u2 :> c2 @@ u3 :> c3 @@ u4 :> c4
MCFileOf == u1 :> f1 @@ u2 :> f1 @@ u3 :> f2 @@ u4 :> f2

\* One of the other three beside c1.  The neighbour is there from the start
\* and stays; the one inside sees no late upload to c1.
Unused(R) == \A c \in R : life[c] = "unborn"
MCScope ==
    /\ \E c \in {c2, c3, c4} : Unused({c2, c3, c4} \ {c})
    /\ Unused({c2}) \/ ~Unused({c1})
    /\ Unused({c3}) \/ Unused({c1}) \/ (life[c3] = "live" /\ ~Busy(u3))
    /\ Unused({c4}) \/ ~Busy(u1)
MCSpec == Init /\ [][Next /\ MCScope']_vars /\ Fairness
=============================================================================
