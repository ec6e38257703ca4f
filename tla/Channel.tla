------------------------------ MODULE Channel ------------------------------
(***************************************************************************)
(* One channel with all that writes to it: upload requests, deletions and  *)
(* reindex passes, on the same storage and the same rows.  The uploads of  *)
(* a process exclude one another; nothing excludes a pass.  The only other *)
(* meeting point is the database: a transaction that has changed a row     *)
(* makes the others wait for its end.                                      *)
(***************************************************************************)
EXTENDS Publish, Reindex

VARIABLES
    raced,      \* history: uploads during which a pass or a deletion ran
    lost        \* history: files of each upload whose archive was deleted or
                \* damaged after it had stored them

systemVars == <<vars, passVars, alone, raced, lost>>

PassActive == \E x \in Passes : rpc[x] \in Running \cup Deleting

\* The flush of upsert_version waits for the rows of running transactions.
RowsFree(u) == pc[u] = "commit" => Unlocked(Passes, stored[u])

Track ==
    /\ raced' = raced \cup
          {u \in Uploads : /\ pc[u] \in InFlight \/ pc'[u] \in InFlight
                           /\ PassActive \/ PassActive'}
    /\ lost' = [u \in Uploads |->
          lost[u] \cup {f \in stored[u] : object'[f] \notin Builds}]

SystemInit ==
    /\ Init
    /\ PassInit
    /\ raced = {}
    /\ lost = [u \in Uploads |-> {}]

Upload(u) ==
    /\ UploadStep(u)
    /\ RowsFree(u)
    /\ UNCHANGED passVars
    /\ alone' = IF channelVars' = channelVars THEN alone ELSE {}
    /\ Track

Maintain(x) ==
    /\ DeleteStep(x) \/ PassStep(x)
    /\ alone' = Undisturbed(x)
    /\ UNCHANGED <<uploadVars, published, cutOff, overlapped>>
    /\ Track

\* A process is killed: its requests and the pass it runs go with it.  A pass
\* may also run in a process of its own, the CLI.
Restart(r) ==
    /\ Crash(r)
    /\ UNCHANGED <<passVars, alone, raced, lost>>

SystemNext ==
    \/ \E u \in Uploads : Upload(u)
    \/ \E x \in Passes : Maintain(x)
    \/ \E r \in Replicas : Restart(r)
    \/ /\ \A u \in Uploads : pc[u] \in Finished
       /\ \A x \in Passes : rpc[x] \in Ended \ {"idle"}
       /\ UNCHANGED systemVars

SystemSpec == SystemInit /\ [][SystemNext]_systemVars

-----------------------------------------------------------------------------
\* channels.py 528 again, for a request no deletion and no failed read of an
\* index came between: a reindex does not take it back.
ReindexKeepsAcked ==
    (\A x \in Passes : victim[x] = None /\ missed[x] = {}) => AckedIsListed

\* channels.py 528 once more: "The response means the package is listed, not
\* merely received".  If no pass or deletion ran during the upload, whatever
\* ran or was cut off afterwards, the file stays listed in every index a
\* client may read for as long as its name has held a readable archive, be it
\* this upload's or a later one's.
AckedStaysListed ==
    \A u \in Uploads \ raced : pc[u] = "acked" =>
        \A f \in stored[u] \ lost[u] :
            repodata[f] # None /\ zst[f] # None /\ ClientRecord(f) # None
=============================================================================
