--------------------------- MODULE ChannelIndex ---------------------------
(***************************************************************************)
(* What a channel promises the people who publish to it, without saying    *)
(* how: a request names some files and the contents it wants published;    *)
(* the index changes only by taking over, in one step, the contents one    *)
(* request asked for; a file is taken over at most once per request; and   *)
(* an answer of success names only files whose contents were taken over.   *)
(* Nothing a request did not ask for is added, changed or dropped.         *)
(***************************************************************************)
CONSTANTS Requests, Files, Builds, None, RecordOf(_), Initial

VARIABLES
    index,      \* the record each file is listed with
    asked,      \* the contents each request wants to publish
    published,  \* the files of each request the index has taken over
    answered    \* the files each request was told are listed

vars == <<index, asked, published, answered>>

Nothing == [f \in Files |-> None]

Init ==
    /\ index \in Initial
    /\ asked = [u \in Requests |-> Nothing]
    /\ published = [u \in Requests |-> {}]
    /\ answered = [u \in Requests |-> {}]

Ask(u) ==
    /\ asked[u] = Nothing
    /\ \E b \in [Files -> Builds \cup {None}] :
          asked' = [asked EXCEPT ![u] = b]
    /\ UNCHANGED <<index, published, answered>>

Publish(u) ==
    /\ \E F \in SUBSET (Files \ published[u]) :
          /\ \A f \in F : asked[u][f] # None
          /\ index' = [f \in Files |->
                          IF f \in F THEN RecordOf(asked[u][f]) ELSE index[f]]
          /\ published' = [published EXCEPT ![u] = @ \cup F]
    /\ UNCHANGED <<asked, answered>>

Answer(u) ==
    /\ answered' = [answered EXCEPT ![u] = published[u]]
    /\ UNCHANGED <<index, asked, published>>

Next == \E u \in Requests : Ask(u) \/ Publish(u) \/ Answer(u)

Spec == Init /\ [][Next]_vars
=============================================================================
