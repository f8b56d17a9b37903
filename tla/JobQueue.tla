------------------------------ MODULE JobQueue ------------------------------
(***************************************************************************)
(* What the download queue promises about its jobs, seen from outside: the *)
(* queue page and the SABnzbd emulation read nothing but the status of the *)
(* rows.  Threads, sessions and cancellation requests are not visible.     *)
(***************************************************************************)
EXTENDS Naturals, FiniteSets, FiniteSetsExt

CONSTANTS
    Jobs,    \* the ids a job may get, ordered as they are given
    Limit    \* max_concurrent_downloads

VARIABLE status

Ended == {"completed", "failed", "cancelled"}

With(s) == {j \in Jobs : status[j] = s}

Init == status = [j \in Jobs |-> "absent"]

\* Jobs are submitted, for the first time or again after they ended.
Submit ==
    \E S \in SUBSET {j \in Jobs : status[j] \in Ended \cup {"absent"}} :
        status' = [j \in Jobs |-> IF j \in S THEN "queued" ELSE status[j]]

\* The oldest queued job starts while fewer than Limit downloads run.
Start ==
    /\ With("queued") # {}
    /\ Cardinality(With("downloading")) < Limit
    /\ status' = [status EXCEPT ![Min(With("queued"))] = "downloading"]

\* A job ends by having been downloading, in one of three ways.
End(j) ==
    /\ status[j] = "downloading"
    /\ \E s \in Ended : status' = [status EXCEPT ![j] = s]

\* Only a job that ended can be removed.
Remove(j) ==
    /\ status[j] \in Ended
    /\ status' = [status EXCEPT ![j] = "absent"]

\* After a restart everything that was interrupted waits again.
Recover ==
    status' = [j \in Jobs |-> IF status[j] = "downloading" THEN "queued" ELSE status[j]]

Next ==
    \/ Submit
    \/ Start
    \/ Recover
    \/ \E j \in Jobs : End(j) \/ Remove(j)

Safety == Init /\ [][Next]_status

\* The queue keeps starting jobs and every download comes to an end.
Spec ==
    /\ Safety
    /\ WF_status(Start)
    /\ \A j \in Jobs : WF_status(End(j))

=============================================================================
