------------------------ MODULE DownloadQueueIntent ------------------------
(***************************************************************************)
(* DownloadQueue with one history variable: what the user last asked of    *)
(* each job.  The program does not store it; it is what a person at the    *)
(* queue page remembers, and lets a property say that a job is not         *)
(* cancelled behind the back of somebody who asked for it again.           *)
(***************************************************************************)
EXTENDS DownloadQueue

VARIABLE wish     \* rowid -> the last word on the job that has this rowid

intentVars == <<job, track, cancelRequested, worker, match, stranded, wish>>

CancelRequest ==
    \/ \E j \in JobIds :
        /\ CancelJob(j) \/ PluginCancel(j) \/ DeleteJob(j)
        /\ wish' = [wish EXCEPT ![j] = "cancel"]
    \/ \E t \in Tracks :
        /\ CancelTrack(t)
        /\ wish' = [j \in JobIds |-> IF job[j].track = t /\ job[j].status \in Active
                                     THEN "cancel" ELSE wish[j]]

\* Whatever else re-queues a job, or creates it, asks for its download.
DownloadRequest ==
    /\ \/ QueueAlbum \/ QueueArtistMissing \/ RetryAllFailed
       \/ \E t \in Tracks : QueueTrack(t)
       \/ \E S \in SUBSET Tracks : QueueGrab(S)
       \/ \E j \in JobIds : RetryJob(j)
    /\ wish' = [j \in JobIds |-> IF job'[j].status = "queued" /\ job[j].status # "queued"
                                 THEN "download" ELSE wish[j]]

OtherStep ==
    /\ \/ System
       \/ Restart
       \/ \E t \in Tracks : DeleteTrack(t)
       \/ \E m \in Matchers, t \in Tracks : MatchStart(m, t)
    /\ UNCHANGED wish

IntentInit == Init /\ wish = [j \in JobIds |-> "none"]
IntentNext == CancelRequest \/ DownloadRequest \/ OtherStep
IntentSpec == IntentInit /\ [][IntentNext]_intentVars

\* A job somebody asked for, with no later request to cancel it, is not
\* cancelled: it completes or fails ("one-click retry of failed tracks").
OnlyCancelledOnRequest ==
    [][\A j \in JobIds : job[j].status = "downloading" /\ job'[j].status = "cancelled"
                            => wish[j] # "download"]_intentVars

=============================================================================
