--------------------------- MODULE DownloadQueue ---------------------------
(***************************************************************************)
(* The download queue of fnack: services/queue_service.py with the request *)
(* handlers of app.py and plugins/context.py that write the same rows.     *)
(*                                                                         *)
(* Shared state is the DownloadJob table, the Track table and the          *)
(* in-memory set cancel_requested_jobs.  The actors are the worker loop,   *)
(* the futures on the thread pool, the manual-match greenlets and the HTTP *)
(* handlers.  All of them are gevent greenlets: a switch happens only at a *)
(* network call, a subprocess or a sleep, so a stretch of code between two *)
(* of those is one action here.                                            *)
(*                                                                         *)
(* A future reads its job and track through one SQLAlchemy session that it *)
(* keeps for the whole download.  The rows it loaded stay in the identity  *)
(* map, and a flush writes the attributes that differ from what was        *)
(* LOADED, not from what the table holds by then: see Flushed.             *)
(*                                                                         *)
(* All tracks of the model belong to one monitored album of one monitored  *)
(* artist, so the monitoring gates of the queue_* functions are open.      *)
(***************************************************************************)
EXTENDS Integers, FiniteSets, FiniteSetsExt, Functions

CONSTANTS
    Tracks,      \* rows of the tracks table
    NoTrack,     \* the track of an absent job row, of an idle worker
    MaxJobId,    \* bound: rowids 1..MaxJobId of download_jobs are used
    Workers,     \* threads of the pool, max_concurrent_downloads of them
    Matchers,    \* bound: manual matches that may run at a time
    Requests,    \* the kinds of request the environment sends
    Faults       \* the failures of the environment that are let happen

RequestKinds == {"queue", "grab", "cancel", "pluginCancel", "retry",
                 "retryActive", "retryAll", "delete", "deleteActive",
                 "deleteTrack", "match"}

FaultKinds == {"setup", "submit", "commit", "crash"}

ASSUME NoTrackAssumption == NoTrack \notin Tracks
ASSUME TracksAssumption == IsFiniteSet(Tracks)
ASSUME WorkersAssumption == IsFiniteSet(Workers)
ASSUME MaxJobIdAssumption == MaxJobId \in Nat
ASSUME KindsAssumption == Requests \subseteq RequestKinds /\ Faults \subseteq FaultKinds

VARIABLES
    job,               \* the download_jobs table: rowid -> row
    track,             \* the columns of tracks the queue reads and writes
    cancelRequested,   \* cancel_requested_jobs, in memory
    worker,            \* the futures of _running_futures
    match,             \* the track each manual-match greenlet works on
    stranded           \* history: jobs whose last future went away, since the
                       \* boot, without writing the row

vars == <<job, track, cancelRequested, worker, match, stranded>>

JobIds == 1..MaxJobId

Retryable == {"failed", "cancelled"}            \* "error" is never written
Active == {"queued", "downloading"}
JobStatus == Active \cup Retryable \cup {"completed"}

NoJob == [status |-> "absent", track |-> NoTrack]
JobRow == [status : JobStatus, track : Tracks] \cup {NoJob}

\* down is is_downloaded; err says that error_message is a non-empty text.
TrackStatus == {"missing", "queued", "downloading", "completed", "failed"}
TrackRow == [status : TrackStatus, down : BOOLEAN, err : BOOLEAN]

\* What the session of a future holds of its track: the row it loaded, or
\* Expired once a commit of its own made the next access read the table.
Expired == [status |-> "expired", down |-> FALSE, err |-> FALSE]

\* submitted: handed to the pool; lookup: in the ISRC/genre lookup; setup:
\* creating the directories and fetching the cover; chain: in the try block,
\* resolving and downloading; tail: after the commit, in the event callbacks
\* and the media scan, before the finally clause.
RunningPc == {"submitted", "lookup", "setup", "chain"}
Future == [pc : RunningPc \cup {"tail"}, job : JobIds,
           track : Tracks \cup {NoTrack}, seen : TrackRow \cup {Expired}]
Idle == [pc |-> "idle", job |-> 0, track |-> NoTrack, seen |-> Expired]

TypeOK ==
    /\ job \in [JobIds -> JobRow]
    /\ track \in [Tracks -> TrackRow]
    /\ cancelRequested \subseteq JobIds
    /\ worker \in [Workers -> Future \cup {Idle}]
    /\ match \in [Matchers -> Tracks \cup {NoTrack}]
    /\ stranded \subseteq JobIds

-----------------------------------------------------------------------------
(* Queries on the tables.                                                  *)

Rows == {j \in JobIds : job[j] # NoJob}
JobsOf(t) == {j \in Rows : job[j].track = t}
HasJob(t) == JobsOf(t) # {}

\* DownloadJob.query.filter_by(track_id=t).first(): the lowest rowid.
FirstJob(t) == Min(JobsOf(t))

\* Ordering by created_at is ordering by rowid: a new row gets the highest
\* rowid and the latest timestamp, and no code changes either one.
QueuedJobs == {j \in Rows : job[j].status = "queued"}

\* SQLite gives a new row the rowid after the largest one in use, so the id
\* of a deleted row may be given again.
NewIds(n) == LET last == Max(Rows \cup {0}) IN (last + 1)..(last + n)

Running(w) == worker[w].pc \in RunningPc

\* The columns of a track after a flush: a column whose new value equals the
\* loaded one is not part of the UPDATE and keeps what the table holds.
Flushed(loaded, new, row) ==
    LET base == IF loaded = Expired THEN row ELSE loaded
    IN  [status |-> IF new.status = base.status THEN row.status ELSE new.status,
         down   |-> IF new.down = base.down THEN row.down ELSE new.down,
         err    |-> IF new.err = base.err THEN row.err ELSE new.err]

-----------------------------------------------------------------------------
(* Requests.  Each handler runs without a switch, so it is one step.       *)

\* Creates one queued job per track of fresh, sets the jobs in again to
\* queued, and moves the tracks of both to queued.
Enqueue(again, fresh, queuedTracks) ==
    LET new == NewIds(Cardinality(fresh))
    IN  /\ new \subseteq JobIds
        /\ \E rows \in Bijection(new, fresh) :
              job' = [j \in JobIds |->
                        IF j \in new THEN [status |-> "queued", track |-> rows[j]]
                        ELSE IF j \in again THEN [job[j] EXCEPT !.status = "queued"]
                        ELSE job[j]]
        /\ track' = [t \in Tracks |->
                        IF t \in queuedTracks
                        THEN [track[t] EXCEPT !.status = "queued", !.err = FALSE]
                        ELSE track[t]]
        /\ UNCHANGED <<cancelRequested, worker, match, stranded>>

\* Mutant: queue_track does not look for a job the track already has.
QueueTracksBlindly(S) ==
    /\ "queue" \in Requests
    /\ Enqueue({}, S, S)

\* Mutant: queue_track re-queues the job it finds whatever its status.
QueueTracksAlways(S) ==
    LET known == {t \in S : HasJob(t)}
    IN  /\ "queue" \in Requests
        /\ Enqueue({FirstJob(t) : t \in known}, S \ known, S)

\* queue_track on every track of S in one handler: a job that is queued,
\* downloading or completed is returned as it is.
QueueTracks(S) ==
    LET retried == {t \in S : HasJob(t) /\ job[FirstJob(t)].status \in Retryable}
        fresh == {t \in S : ~HasJob(t)}
    IN  /\ "queue" \in Requests
        /\ Enqueue({FirstJob(t) : t \in retried}, fresh, retried \cup fresh)

QueueTrack(t) == QueueTracks({t})

QueueAlbum == QueueTracks({t \in Tracks : ~track[t].down})

QueueArtistMissing ==
    QueueTracks({t \in Tracks : ~track[t].down /\ track[t].status \notin Active})

\* queue_lidarr_grab: looks for a queued job only, so a track may get a
\* second row; error_message is left as it was.
QueueGrab(S) ==
    LET fresh == {t \in S : \A j \in JobsOf(t) : job[j].status # "queued"}
        new == NewIds(Cardinality(fresh))
    IN  /\ "grab" \in Requests
        /\ new \subseteq JobIds
        /\ \E rows \in Bijection(new, fresh) :
              job' = [j \in JobIds |->
                        IF j \in new THEN [status |-> "queued", track |-> rows[j]]
                        ELSE job[j]]
        /\ track' = [t \in Tracks |->
                        IF t \in fresh THEN [track[t] EXCEPT !.status = "queued"]
                        ELSE track[t]]
        /\ UNCHANGED <<cancelRequested, worker, match, stranded>>

\* cancel_job: the id of a row of the queue page goes into the set, whatever
\* the status of the row.
CancelJob(j) ==
    /\ "cancel" \in Requests
    /\ j \in Rows
    /\ cancelRequested' = cancelRequested \cup {j}
    /\ UNCHANGED <<job, track, worker, match, stranded>>

CancelTrack(t) ==
    LET live == {j \in JobsOf(t) : job[j].status \in Active}
    IN  /\ "cancel" \in Requests
        /\ cancelRequested' = cancelRequested \cup (IF live = {} THEN {} ELSE {Min(live)})
        /\ track' = [track EXCEPT ![t].status = "missing"]
        /\ UNCHANGED <<job, worker, match, stranded>>

\* LibraryAPI.cancel_download_job: the row only.
PluginCancel(j) ==
    /\ "pluginCancel" \in Requests
    /\ j \in Rows
    /\ job' = [job EXCEPT ![j].status = "cancelled"]
    /\ UNCHANGED <<track, cancelRequested, worker, match, stranded>>

\* The handler has no guard on the status of the job.
RetryJob(j) ==
    /\ j \in Rows
    /\ (IF job[j].status \in Active THEN "retryActive" ELSE "retry") \in Requests
    /\ Enqueue({j}, {}, {job[j].track})

\* Step 1 re-queues the jobs that ended badly; step 2 the tracks that still
\* look failed, whatever the state of their first job.
RetryAllFailed ==
    LET jobs == {j \in Rows : job[j].status \in Retryable}
        first == {job[j].track : j \in jobs}
        second == {t \in Tracks \ first : \/ track[t].status = "failed"
                                          \/ ~track[t].down /\ track[t].err}
    IN  /\ "retryAll" \in Requests
        /\ Enqueue(jobs \cup {FirstJob(t) : t \in {u \in second : HasJob(u)}},
                   {t \in second : ~HasJob(t)},
                   first \cup second)

DeleteJob(j) ==
    /\ j \in Rows
    /\ (IF job[j].status \in Active THEN "deleteActive" ELSE "delete") \in Requests
    /\ cancelRequested' = cancelRequested \cup {j}
    /\ job' = [job EXCEPT ![j] = NoJob]
    /\ UNCHANGED <<track, worker, match, stranded>>

\* DELETE /api/track: the jobs of the track stay.
DeleteTrack(t) ==
    /\ "deleteTrack" \in Requests
    /\ track' = [track EXCEPT ![t] = [status |-> "missing", down |-> FALSE, err |-> FALSE]]
    /\ UNCHANGED <<job, cancelRequested, worker, match, stranded>>

Request ==
    \/ \E t \in Tracks : QueueTrack(t) \/ CancelTrack(t) \/ DeleteTrack(t)
    \/ QueueAlbum
    \/ QueueArtistMissing
    \/ \E S \in SUBSET Tracks : QueueGrab(S)
    \/ \E j \in JobIds : CancelJob(j) \/ PluginCancel(j) \/ RetryJob(j) \/ DeleteJob(j)
    \/ RetryAllFailed

-----------------------------------------------------------------------------
(* The worker loop.                                                        *)

\* Mutant: the query orders by descending age.
DispatchNewest(w) ==
    /\ worker[w] = Idle
    /\ QueuedJobs # {}
    /\ LET j == Max(QueuedJobs)
       IN  /\ job' = [job EXCEPT ![j].status = "downloading"]
           /\ track' = [track EXCEPT ![job[j].track].status = "downloading"]
           /\ worker' = [worker EXCEPT ![w] = [Idle EXCEPT !.pc = "submitted", !.job = j]]
           /\ stranded' = stranded \ {j}
    /\ UNCHANGED <<cancelRequested, match>>

\* One pass of the loop with a free thread: the oldest queued job is marked
\* and committed, then its future is submitted.
Dispatch(w) ==
    /\ worker[w] = Idle
    /\ QueuedJobs # {}
    /\ LET j == Min(QueuedJobs)
       IN  /\ job' = [job EXCEPT ![j].status = "downloading"]
           /\ track' = [track EXCEPT ![job[j].track].status = "downloading"]
           /\ \/ /\ worker' = [worker EXCEPT ![w] = [Idle EXCEPT !.pc = "submitted", !.job = j]]
                 /\ stranded' = stranded \ {j}
              \/ /\ "submit" \in Faults
                 /\ stranded' = stranded \cup {j}
                 /\ UNCHANGED worker
    /\ UNCHANGED <<cancelRequested, match>>

-----------------------------------------------------------------------------
(* _process_track_job.                                                     *)

\* The future begins: it gives up unless its row is still "downloading".
StartJob(w) ==
    LET j == worker[w].job
    IN  /\ worker[w].pc = "submitted"
        /\ worker' = [worker EXCEPT ![w] =
                        IF job[j].status = "downloading"
                        THEN [@ EXCEPT !.pc = "lookup", !.track = job[j].track,
                                       !.seen = track[job[j].track]]
                        ELSE Idle]
        /\ UNCHANGED <<job, track, cancelRequested, match, stranded>>

\* Mutant: the row is written without checking that it is still there.
HandleCancellationUnchecked(w) ==
    /\ job' = [job EXCEPT ![worker[w].job].status = "cancelled"]
    /\ track' = [track EXCEPT ![worker[w].track].status = "missing",
                              ![worker[w].track].err = FALSE]

\* Mutant: cancelling resets the track altogether.
HandleCancellationResets(w) ==
    /\ job' = [j \in JobIds |-> IF j = worker[w].job /\ job[j] # NoJob
                                THEN [job[j] EXCEPT !.status = "cancelled"]
                                ELSE job[j]]
    /\ track' = [track EXCEPT ![worker[w].track] =
                    [status |-> "missing", down |-> FALSE, err |-> FALSE]]

\* _handle_cancellation: a session of its own, so it sees the tables as they
\* are; the row found under the id may be another job by now.
HandleCancellation(w) ==
    /\ job' = [j \in JobIds |-> IF j = worker[w].job /\ job[j] # NoJob
                                THEN [job[j] EXCEPT !.status = "cancelled"]
                                ELSE job[j]]
    /\ track' = [track EXCEPT ![worker[w].track].status = "missing",
                              ![worker[w].track].err = FALSE]

\* After the lookup.  A lookup that found something commits, which expires
\* what the session had loaded.  A cancellation seen here returns before the
\* try block: the id stays in cancel_requested_jobs.
LookupDone(w) ==
    /\ worker[w].pc = "lookup"
    /\ \/ /\ worker[w].job \in cancelRequested
          /\ HandleCancellation(w)
          /\ worker' = [worker EXCEPT ![w] = Idle]
       \/ /\ worker[w].job \notin cancelRequested
          /\ \E seen \in {worker[w].seen, Expired} :
                worker' = [worker EXCEPT ![w].pc = "setup", ![w].seen = seen]
          /\ UNCHANGED <<job, track>>
    /\ UNCHANGED <<cancelRequested, match, stranded>>

\* Directories and cover.  They stand outside the try block, so an OSError
\* ends the future with the job still "downloading".
SetupDone(w) ==
    /\ worker[w].pc = "setup"
    /\ \/ /\ worker' = [worker EXCEPT ![w].pc = "chain"]
          /\ UNCHANGED stranded
       \/ /\ "setup" \in Faults
          /\ worker' = [worker EXCEPT ![w] = Idle]
          /\ stranded' = stranded \cup {worker[w].job}
    /\ UNCHANGED <<job, track, cancelRequested, match>>

\* The finally clause of a future that leaves without a further switch.
LeaveNow(w) ==
    /\ cancelRequested' = cancelRequested \ {worker[w].job}
    /\ worker' = [worker EXCEPT ![w] = Idle]

ChainCancelled(w) ==
    /\ worker[w].pc = "chain"
    /\ worker[w].job \in cancelRequested
    /\ HandleCancellation(w)
    /\ LeaveNow(w)
    /\ UNCHANGED <<match, stranded>>

\* The job row is written under its id.  When the row is gone a session that
\* still holds it finds no row to update and the commit raises.
RowLost(w) == job[worker[w].job] = NoJob /\ worker[w].seen # Expired

SetJob(w, status) ==
    job' = [j \in JobIds |-> IF j = worker[w].job /\ job[j] # NoJob
                             THEN [job[j] EXCEPT !.status = status]
                             ELSE job[j]]

FailedTrack(w) ==
    LET t == worker[w].track
        base == IF worker[w].seen = Expired THEN track[t] ELSE worker[w].seen
    IN  [Flushed(base, [base EXCEPT !.status = "failed"], track[t]) EXCEPT !.err = TRUE]

\* A file was obtained and moved into place: one commit completes the track
\* and the job, then events, cleanup and the media scan follow.
FinishCompleted(w) ==
    LET t == worker[w].track
    IN  /\ worker[w].pc = "chain"
        /\ worker[w].job \notin cancelRequested
        /\ ~RowLost(w)
        /\ SetJob(w, "completed")
        /\ track' = [track EXCEPT ![t] =
                       Flushed(worker[w].seen,
                               [status |-> "completed", down |-> TRUE, err |-> FALSE], @)]
        /\ worker' = [worker EXCEPT ![w].pc = "tail", ![w].track = NoTrack,
                                  ![w].seen = Expired]
        /\ UNCHANGED <<cancelRequested, match, stranded>>

\* No provider delivered a file that passed.
FinishFailed(w) ==
    /\ worker[w].pc = "chain"
    /\ worker[w].job \notin cancelRequested
    /\ ~RowLost(w)
    /\ SetJob(w, "failed")
    /\ track' = [track EXCEPT ![worker[w].track] = FailedTrack(w)]
    /\ worker' = [worker EXCEPT ![w].pc = "tail", ![w].track = NoTrack,
                                  ![w].seen = Expired]
    /\ UNCHANGED <<cancelRequested, match, stranded>>

\* An exception inside the try block, before or after the second
\* cancellation check.
ChainRaises(w) ==
    /\ worker[w].pc = "chain"
    /\ ~RowLost(w)
    /\ SetJob(w, "failed")
    /\ track' = [track EXCEPT ![worker[w].track] = FailedTrack(w)]
    /\ LeaveNow(w)
    /\ UNCHANGED <<match, stranded>>

\* The commit itself raises.  The except clause uses the same session, which
\* refuses until it is rolled back, so nothing is written at all.
CommitRaises(w) ==
    /\ worker[w].pc = "chain"
    /\ RowLost(w) \/ "commit" \in Faults
    /\ LeaveNow(w)
    /\ stranded' = IF job[worker[w].job] = NoJob THEN stranded
                   ELSE stranded \cup {worker[w].job}
    /\ UNCHANGED <<job, track, match>>

FinishTail(w) ==
    /\ worker[w].pc = "tail"
    /\ LeaveNow(w)
    /\ UNCHANGED <<job, track, match, stranded>>

ProcessTrackJob(w) ==
    \/ StartJob(w)
    \/ LookupDone(w)
    \/ SetupDone(w)
    \/ ChainCancelled(w)
    \/ FinishCompleted(w)
    \/ FinishFailed(w)
    \/ ChainRaises(w)
    \/ CommitRaises(w)
    \/ FinishTail(w)

-----------------------------------------------------------------------------
(* download_manual_match_track.  It commits before it downloads, so all    *)
(* that it reads later is read from the table.                             *)

MatchStart(m, t) ==
    /\ "match" \in Requests
    /\ match[m] = NoTrack
    /\ match' = [match EXCEPT ![m] = t]
    /\ track' = [track EXCEPT ![t].status = "downloading", ![t].err = FALSE]
    /\ UNCHANGED <<job, cancelRequested, worker, stranded>>

MatchFailed(m) ==
    /\ match[m] # NoTrack
    /\ match' = [match EXCEPT ![m] = NoTrack]
    /\ track' = [track EXCEPT ![match[m]].status = "failed", ![match[m]].err = TRUE]
    /\ UNCHANGED <<job, cancelRequested, worker, stranded>>

\* The directories are created outside the try block here too, and a commit
\* that raises defeats the except clause as in CommitRaises.
MatchRaises(m) ==
    /\ match[m] # NoTrack
    /\ {"setup", "commit"} \cap Faults # {}
    /\ match' = [match EXCEPT ![m] = NoTrack]
    /\ UNCHANGED <<job, track, cancelRequested, worker, stranded>>

\* The first job of the track is completed, whatever it was doing.
MatchCompleted(m) ==
    LET t == match[m]
    IN  /\ t # NoTrack
        /\ match' = [match EXCEPT ![m] = NoTrack]
        /\ track' = [track EXCEPT ![t] = [status |-> "completed", down |-> TRUE, err |-> FALSE]]
        /\ job' = [j \in JobIds |-> IF HasJob(t) /\ j = FirstJob(t)
                                    THEN [job[j] EXCEPT !.status = "completed"]
                                    ELSE job[j]]
        /\ UNCHANGED <<cancelRequested, worker, stranded>>

ManualMatch(m) == MatchFailed(m) \/ MatchRaises(m) \/ MatchCompleted(m)

-----------------------------------------------------------------------------
(* The process dies and boots again.  start_queue_worker reconciles the    *)
(* jobs, and their tracks, before its loop begins.                         *)

\* Mutant: no reconciliation at boot.
RestartForgetting ==
    /\ "crash" \in Faults
    /\ cancelRequested' = {}
    /\ worker' = [w \in Workers |-> Idle]
    /\ match' = [m \in Matchers |-> NoTrack]
    /\ stranded' = {}
    /\ UNCHANGED <<job, track>>

\* Mutant: the reconciliation resets the jobs and forgets their tracks.
RestartJobsOnly ==
    /\ "crash" \in Faults
    /\ job' = [j \in JobIds |-> IF job[j].status = "downloading"
                                THEN [job[j] EXCEPT !.status = "queued"] ELSE job[j]]
    /\ cancelRequested' = {}
    /\ worker' = [w \in Workers |-> Idle]
    /\ match' = [m \in Matchers |-> NoTrack]
    /\ stranded' = {}
    /\ UNCHANGED track

Restart ==
    LET stale == {j \in Rows : job[j].status = "downloading"}
    IN  /\ "crash" \in Faults
        /\ job' = [j \in JobIds |-> IF j \in stale THEN [job[j] EXCEPT !.status = "queued"]
                                    ELSE job[j]]
        /\ track' = [t \in Tracks |->
                       IF \E j \in stale : job[j].track = t
                       THEN [track[t] EXCEPT !.status = "queued", !.err = FALSE]
                       ELSE track[t]]
        /\ cancelRequested' = {}
        /\ worker' = [w \in Workers |-> Idle]
        /\ match' = [m \in Matchers |-> NoTrack]
        /\ stranded' = {}

-----------------------------------------------------------------------------

Init ==
    /\ job = [j \in JobIds |-> NoJob]
    /\ track \in [Tracks -> {[status |-> "missing", down |-> FALSE, err |-> FALSE],
                             [status |-> "completed", down |-> TRUE, err |-> FALSE]}]
    /\ cancelRequested = {}
    /\ worker = [w \in Workers |-> Idle]
    /\ match = [m \in Matchers |-> NoTrack]
    /\ stranded = {}

\* What the program does by itself, and what the outside does to it.
System ==
    \/ \E w \in Workers : Dispatch(w) \/ ProcessTrackJob(w)
    \/ \E m \in Matchers : ManualMatch(m)

Outside ==
    \/ Request
    \/ \E m \in Matchers, t \in Tracks : MatchStart(m, t)
    \/ Restart

Next == System \/ Outside

Spec == Init /\ [][Next]_vars

\* The loop polls every 1.5 s for as long as the process lives, and every
\* call a future or a manual match waits for has a timeout.  Requests,
\* crashes and faults are owed to nobody.
Fairness ==
    /\ WF_vars(\E w \in Workers : Dispatch(w))
    /\ \A w \in Workers : WF_vars(ProcessTrackJob(w))
    /\ \A m \in Matchers : WF_vars(ManualMatch(m))

FairSpec == Spec /\ Fairness

-----------------------------------------------------------------------------
(* Properties.                                                             *)

\* A job shown as downloading is on a thread: a future that has not reached
\* its final commit runs it, unless an exception outside the try block of
\* _process_track_job took the future away.  The worker loop picks up queued
\* jobs only, so any other such row would stay active until a restart.  Holds
\* under every kind of request, second runs of a job and rowids given again
\* included, and again after a restart.
DownloadingHasFuture ==
    \A j \in JobIds : job[j].status = "downloading" =>
        j \in stranded \/ \E w \in Workers : Running(w) /\ worker[w].job = j

\* The requests that write a row some future or greenlet is working on, or
\* add a second row for a track.  Without them the queue is orderly.
Disruptive == {"grab", "pluginCancel", "retryActive", "deleteActive", "match"}
Calm == Requests \cap Disruptive = {} /\ Faults \subseteq {"crash"}

\* No track is downloaded twice at a time, and a job that a future runs is
\* not offered to the worker loop again: two downloads of one track would
\* replace, and then clean up, each other's file.
OneFuturePerTrack ==
    Calm => \A v, w \in Workers : Running(v) /\ Running(w) /\ v # w =>
                /\ worker[v].job # worker[w].job
                /\ job[worker[v].job].track # job[worker[w].job].track

\* The future that runs a job works on the track the row names, and the row
\* says downloading until that future itself ends it.
FutureOwnsItsJob ==
    Calm => \A w \in Workers : Running(w) =>
                /\ job[worker[w].job].status = "downloading"
                /\ worker[w].track \in {NoTrack, job[worker[w].job].track}

\* The track page agrees with the queue: a track shown as queued or
\* downloading has a job in that state, which will move it on.
TrackFollowsJob ==
    Calm => \A t \in Tracks : track[t].status \in Active =>
                \E j \in JobsOf(t) : job[j].status = track[t].status

\* The queue as JobQueue describes it: no more downloads than threads, the
\* oldest job first, no job lost, no status out of order; and the queue
\* drains.  A claim about calm instances.
Abstract == INSTANCE JobQueue WITH
                Jobs <- JobIds,
                Limit <- Cardinality(Workers),
                status <- [j \in JobIds |-> job[j].status]

ImplementsJobQueue == Abstract!Spec

\* Work on a track that is in the library never takes it out: cancelling or
\* failing a second download leaves is_downloaded alone.
DownloadedIsKept ==
    [][\A t \in Tracks : track[t].down /\ ~track'[t].down => DeleteTrack(t)]_vars

\* "Queue all missing/failed tracks in an album" (queue_album): a track that
\* is not in the library can be queued, or is already on its way.
MissingCanBeQueued ==
    \A t \in Tracks : ~track[t].down /\ track[t].status \in {"missing", "failed"} /\ HasJob(t) =>
        job[FirstJob(t)].status \in Retryable \cup Active

\* "any downloads that were interrupted by the upgrade are automatically
\* re-queued" (DEPLOY.md): a track that was downloading waits again after a
\* restart.
InterruptedIsRequeued ==
    [][Restart => \A t \in Tracks :
          track[t].status = "downloading" => track'[t].status = "queued"]_vars

=============================================================================
