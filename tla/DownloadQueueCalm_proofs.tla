---------------------- MODULE DownloadQueueCalm_proofs ----------------------
(***************************************************************************)
(* What holds of the download queue without the requests and faults that   *)
(* write a row behind the back of a future (Calm): one download per track, *)
(* tracks that agree with jobs, and the steps of JobQueue.                 *)
(***************************************************************************)
EXTENDS DownloadQueue_proofs

-----------------------------------------------------------------------------
(* The inductive invariant.                                                *)

\* A track has one row of download_jobs.
OneRow == \A i, j \in Rows : job[i].track = job[j].track => i = j

\* No manual match, and no future that went away without writing its row.
Undisturbed == stranded = {} /\ \A m \in Matchers : match[m] = NoTrack

\* What a future holds of its track was never written by the end of another
\* run: the flush of its own end is an UPDATE of status.
Owns(w) ==
    LET f == worker[w]
    IN  /\ job[f.job].status = "downloading"
        /\ f.pc = "submitted" => f.track = NoTrack
        /\ f.pc # "submitted" =>
              /\ f.track = job[f.job].track
              /\ f.seen = Expired \/ f.seen.status \in {"missing", "downloading"}

FuturesOwn == \A w \in Workers : Running(w) => Owns(w)

OneFuturePerJob ==
    \A v, w \in Workers : Running(v) /\ Running(w) /\ v # w => worker[v].job # worker[w].job

\* The track of an active job shows the status of the job, or was cancelled
\* or deleted; it does not look failed, or "retry all" would queue it.
ActiveShown ==
    \A j \in Rows : job[j].status \in Active =>
        /\ track[job[j].track].status \in {"missing", job[j].status}
        /\ ~track[job[j].track].err

Follows ==
    \A t \in Tracks : track[t].status \in Active =>
        \E j \in JobsOf(t) : job[j].status = track[t].status

CalmInv == /\ TypeOK /\ OneRow /\ Undisturbed /\ FuturesOwn /\ OneFuturePerJob
           /\ ActiveShown /\ Follows

-----------------------------------------------------------------------------
(* New rowids.                                                             *)

LEMMA MaxOfIds ==
    ASSUME NEW S \in SUBSET (0..MaxJobId), S # {}
    PROVE  Max(S) \in S /\ \A x \in S : Max(S) >= x
<1>1. (0..MaxJobId) \subseteq Int /\ IsFiniteSet(0..MaxJobId)
  BY MaxJobIdAssumption, FS_Interval
<1>2. S \in SUBSET Int /\ IsFiniteSet(S)
  BY <1>1, FS_Subset
<1> QED BY <1>2, MaxOfNumbers

\* A new row takes no row's place.
LEMMA NewIdsAreFree ==
    ASSUME NEW n \in Nat, NEW j \in NewIds(n)
    PROVE  j \notin Rows
<1> DEFINE S == Rows \cup {0}
<1>1. S \in SUBSET (0..MaxJobId) /\ S # {}
  BY MaxJobIdAssumption DEF Rows, JobIds
<1>2. Max(S) \in S /\ \A x \in S : Max(S) >= x
  <2> HIDE DEF S
  <2> QED BY <1>1, MaxOfIds
<1>3. Max(S) \in Nat
  BY <1>1, <1>2
<1>4. j \in (Max(S) + 1)..(Max(S) + n)
  BY DEF NewIds
<1>5. SUFFICES ASSUME j \in Rows PROVE FALSE
  OBVIOUS
<1>6. Max(S) >= j
  BY <1>2, <1>5
<1> HIDE DEF S
<1> QED BY <1>3, <1>4, <1>6

LEMMA CountsOfTracks ==
    ASSUME NEW S \in SUBSET Tracks
    PROVE  Cardinality(S) \in Nat
BY TracksAssumption, FS_Subset, FS_CardinalityType

LEMMA RowTypes ==
    ASSUME TypeOK, NEW j \in JobIds
    PROVE  /\ job[j] \in JobRow /\ DOMAIN job[j] = {"status", "track"}
           /\ j \in Rows <=> job[j].status # "absent"
           /\ j \in Rows => job[j].track \in Tracks /\ job[j].status \in JobStatus
           /\ j \notin Rows => job[j] = NoJob
BY DEF TypeOK, JobRow, NoJob, Rows, JobStatus, Active, Retryable

LEMMA RunningTypes ==
    ASSUME TypeOK, NEW w \in Workers, Running(w)
    PROVE  worker[w] \in Future /\ worker[w].job \in JobIds
BY DEF TypeOK, Running, RunningPc, Idle, Future

-----------------------------------------------------------------------------
(* What Enqueue does to the table when it adds rows for tracks without one *)
(* and re-queues jobs that ended.                                          *)

Submitted(again, fresh, new) ==
    /\ new \cap Rows = {}
    /\ Rows' = Rows \cup new
    /\ \A j \in again \cup new : job'[j].status = "queued"
    /\ \A j \in again : job'[j].track = job[j].track
    /\ \A j \in new : job'[j].track \in fresh
    /\ \A i, j \in new : job'[i].track = job'[j].track => i = j
    /\ \A t \in fresh : \E j \in new : job'[j].track = t
    /\ \A j \in JobIds \ (again \cup new) : job'[j] = job[j]

LEMMA Enqueued ==
    ASSUME TypeOK, NEW again \in SUBSET Rows, NEW fresh \in SUBSET Tracks,
           NEW queuedTracks, Enqueue(again, fresh, queuedTracks)
    PROVE  \E new \in SUBSET JobIds : Submitted(again, fresh, new)
<1> DEFINE new == NewIds(Cardinality(fresh))
<1>1. new \in SUBSET JobIds
  BY DEF Enqueue
<1>2. PICK rows \in Bijection(new, fresh) :
         job' = [j \in JobIds |->
                   IF j \in new THEN [status |-> "queued", track |-> rows[j]]
                   ELSE IF j \in again THEN [job[j] EXCEPT !.status = "queued"]
                   ELSE job[j]]
  BY DEF Enqueue
<1>3. new \cap Rows = {}
  BY CountsOfTracks, NewIdsAreFree
<1> HIDE DEF new
<1>4. \A j \in new : job'[j].status = "queued" /\ job'[j].track = rows[j]
  BY <1>1, <1>2
<1>5. \A j \in again : job'[j].status = "queued" /\ job'[j].track = job[j].track
  <2> SUFFICES ASSUME NEW j \in again
               PROVE  job'[j].status = "queued" /\ job'[j].track = job[j].track
    OBVIOUS
  <2>1. j \in JobIds /\ j \notin new
    BY <1>3 DEF Rows
  <2>2. DOMAIN job[j] = {"status", "track"}
    BY <2>1, RowTypes
  <2> QED BY <1>2, <2>1, <2>2
<1>6. \A j \in JobIds \ (again \cup new) : job'[j] = job[j]
  BY <1>2
<1>7. Rows' = Rows \cup new
  <2>1. \A j \in new \cup again : job'[j] # NoJob
    BY <1>4, <1>5 DEF NoJob
  <2> QED BY <1>1, <1>6, <2>1 DEF Rows
<1>8. /\ \A j \in new : rows[j] \in fresh
      /\ \A i, j \in new : rows[i] = rows[j] => i = j
      /\ \A t \in fresh : \E j \in new : rows[j] = t
  BY DEF Bijection, Injection, Surjection, IsInjective
<1>9. Submitted(again, fresh, new)
  BY <1>3, <1>4, <1>5, <1>6, <1>7, <1>8 DEF Submitted
<1> QED BY <1>1, <1>9

LEMMA RunningJobIsRow ==
    ASSUME TypeOK, FuturesOwn, NEW w \in Workers, Running(w)
    PROVE  worker[w].job \in Rows /\ job[worker[w].job].status = "downloading"
BY RunningTypes, RowTypes DEF FuturesOwn, Owns

\* The jobs that a request adds or re-queues are not active, so no future runs
\* one, and the tracks it marks are theirs.
OrderlyEnqueue ==
    \E again \in SUBSET Rows, fresh \in SUBSET Tracks :
        /\ \A j \in again : job[j].status \notin Active
        /\ \A t \in fresh : ~HasJob(t)
        /\ Enqueue(again, fresh, {job[j].track : j \in again} \cup fresh)

LEMMA CalmEnqueue ==
    ASSUME CalmInv, TypeOK', OrderlyEnqueue
    PROVE  CalmInv'
<1>0. PICK again \in SUBSET Rows, fresh \in SUBSET Tracks :
        /\ \A j \in again : job[j].status \notin Active
        /\ \A t \in fresh : ~HasJob(t)
        /\ Enqueue(again, fresh, {job[j].track : j \in again} \cup fresh)
  BY DEF OrderlyEnqueue
<1> DEFINE marked == {job[j].track : j \in again} \cup fresh
<1>1. PICK new \in SUBSET JobIds : Submitted(again, fresh, new)
  BY <1>0, Enqueued DEF CalmInv
<1>2. UNCHANGED <<cancelRequested, worker, match, stranded>>
  BY <1>0 DEF Enqueue
<1>3. Rows \subseteq JobIds
  BY DEF Rows
<1>4. \A j \in Rows \ again : job'[j] = job[j]
  BY <1>1, <1>3 DEF Submitted
<1>5. \A j \in Rows : job'[j].track = job[j].track
  BY <1>1, <1>4 DEF Submitted
<1>6. \A j \in Rows : job[j].track \notin fresh
  BY <1>0 DEF HasJob, JobsOf
<1>7. OneRow'
  <2> SUFFICES ASSUME NEW i \in Rows', NEW j \in Rows', job'[i].track = job'[j].track
               PROVE  i = j
    BY DEF OneRow
  <2>1. CASE i \in Rows /\ j \in Rows
    BY <1>5, <2>1 DEF CalmInv, OneRow
  <2>2. CASE i \in new /\ j \in new
    BY <1>1, <2>2 DEF Submitted
  <2>3. CASE i \in new /\ j \in Rows
    BY <1>1, <1>5, <1>6, <2>3 DEF Submitted
  <2>4. CASE i \in Rows /\ j \in new
    BY <1>1, <1>5, <1>6, <2>4 DEF Submitted
  <2> QED BY <1>1, <2>1, <2>2, <2>3, <2>4 DEF Submitted
<1>8. \A w \in Workers : Running(w)' => Running(w)
  BY <1>2 DEF Running
<1>9. ASSUME NEW w \in Workers, Running(w)
      PROVE  job'[worker[w].job] = job[worker[w].job]
  <2>1. worker[w].job \in Rows /\ job[worker[w].job].status \in Active
    BY <1>9, RunningJobIsRow DEF CalmInv, Active
  <2> QED BY <1>0, <1>4, <2>1
<1>10. FuturesOwn' /\ OneFuturePerJob'
  BY <1>2, <1>8, <1>9 DEF CalmInv, FuturesOwn, OneFuturePerJob, Owns
<1>11. \A t \in Tracks : track'[t] = IF t \in marked
                                      THEN [track[t] EXCEPT !.status = "queued", !.err = FALSE]
                                      ELSE track[t]
  BY <1>0 DEF Enqueue
<1>12. \A t \in Tracks \cap marked : track'[t].status = "queued" /\ ~track'[t].err
  BY <1>11 DEF CalmInv, TypeOK, TrackRow
<1> HIDE DEF marked
<1>13. ActiveShown'
  <2> SUFFICES ASSUME NEW j \in Rows', job'[j].status \in Active
               PROVE  /\ track'[job'[j].track].status \in {"missing", job'[j].status}
                      /\ ~track'[job'[j].track].err
    BY DEF ActiveShown
  <2>1. CASE j \in again \cup new
    <3>1. job'[j].status = "queued" /\ job'[j].track \in Tracks \cap marked
      BY <1>1, <1>3, <2>1, RowTypes DEF marked, CalmInv, Submitted
    <3> QED BY <1>12, <3>1
  <2>2. CASE j \in Rows \ again
    <3>1. job'[j] = job[j] /\ job[j].track \in Tracks
      BY <1>3, <1>4, <2>2, RowTypes DEF CalmInv
    <3>2. job[j].track \notin marked
      BY <1>6, <2>2 DEF marked, CalmInv, OneRow
    <3> QED BY <1>11, <2>2, <3>1, <3>2 DEF CalmInv, ActiveShown
  <2>3. Rows' = Rows \cup new
    BY <1>1 DEF Submitted
  <2> QED BY <2>1, <2>2, <2>3
<1>14. Follows'
  <2> SUFFICES ASSUME NEW t \in Tracks, track'[t].status \in Active
               PROVE  \E j \in Rows' : job'[j].track = t /\ job'[j].status = track'[t].status
    BY DEF Follows, JobsOf
  <2>1. CASE t \in marked
    <3>1. track'[t].status = "queued"
      BY <1>12, <2>1
    <3>2. \E j \in again \cup new : job'[j].track = t /\ job'[j].status = "queued"
      <4>1. CASE t \in fresh
        BY <1>1, <4>1 DEF Submitted
      <4>2. CASE \E j \in again : job[j].track = t
        BY <1>1, <4>2 DEF Submitted
      <4> QED BY <2>1, <4>1, <4>2 DEF marked
    <3> QED BY <1>1, <3>1, <3>2 DEF Submitted
  <2>2. CASE t \notin marked
    <3>1. track'[t] = track[t]
      BY <1>11, <2>2
    <3>2. PICK j \in Rows : job[j].track = t /\ job[j].status = track[t].status
      BY <3>1 DEF CalmInv, Follows, JobsOf
    <3>3. j \notin again
      BY <2>2, <3>2 DEF marked
    <3> QED BY <1>1, <1>4, <3>1, <3>2, <3>3 DEF Submitted
  <2> QED BY <2>1, <2>2
<1> QED BY <1>2, <1>7, <1>10, <1>13, <1>14 DEF CalmInv, Undisturbed

-----------------------------------------------------------------------------
(* The requests of a calm instance.                                        *)

\* Cancelling and deleting a track write the track row alone.
TrackDrop ==
    /\ UNCHANGED <<job, worker, match, stranded>>
    /\ \A t \in Tracks : \/ track'[t] = track[t]
                         \/ /\ track'[t].status = "missing"
                            /\ track'[t].err => track[t].err

LEMMA TrackDrops ==
    ASSUME CalmInv, TypeOK', TrackDrop
    PROVE  CalmInv'
<1> USE DEF TrackDrop
<1>1. OneRow' /\ Undisturbed' /\ FuturesOwn' /\ OneFuturePerJob'
  BY DEF CalmInv, OneRow, Rows, Undisturbed, FuturesOwn, OneFuturePerJob, Owns, Running
<1>2. ActiveShown'
  <2> SUFFICES ASSUME NEW j \in Rows, job[j].status \in Active
               PROVE  /\ track'[job[j].track].status \in {"missing", job[j].status}
                      /\ ~track'[job[j].track].err
    BY DEF ActiveShown, Rows
  <2>1. job[j].track \in Tracks
    BY RowTypes DEF CalmInv, Rows
  <2>2. /\ track[job[j].track].status \in {"missing", job[j].status}
        /\ ~track[job[j].track].err
    BY DEF CalmInv, ActiveShown
  <2> QED BY <2>1, <2>2
<1>3. Follows'
  BY DEF CalmInv, Follows, JobsOf, Rows, Active
<1> QED BY <1>1, <1>2, <1>3 DEF CalmInv

LEMMA CalmQueueTracks ==
    ASSUME CalmInv, NEW S \in SUBSET Tracks, QueueTracks(S)
    PROVE  OrderlyEnqueue
<1> DEFINE retried == {t \in S : HasJob(t) /\ job[FirstJob(t)].status \in Retryable}
           fresh == {t \in S : ~HasJob(t)}
           again == {FirstJob(t) : t \in retried}
<1>1. \A t \in retried : FirstJob(t) \in Rows /\ job[FirstJob(t)].track = t
  BY FirstJobIsRow DEF CalmInv
<1>2. again \in SUBSET Rows /\ {job[j].track : j \in again} = retried
  BY <1>1
<1>3. \A j \in again : job[j].status \notin Active
  BY DEF Retryable, Active
<1>4. Enqueue(again, fresh, retried \cup fresh)
  BY DEF QueueTracks
<1>5. fresh \in SUBSET Tracks /\ \A t \in fresh : ~HasJob(t)
  OBVIOUS
<1> HIDE DEF retried, fresh, again
<1> QED BY <1>2, <1>3, <1>4, <1>5 DEF OrderlyEnqueue

\* What "retry all" queues because the track looks failed has no active job:
\* the track of one does not look failed.
LEMMA CalmRetryAll ==
    ASSUME CalmInv, RetryAllFailed
    PROVE  OrderlyEnqueue
<1> DEFINE jobs == {j \in Rows : job[j].status \in Retryable}
           first == {job[j].track : j \in jobs}
           second == {t \in Tracks \ first : \/ track[t].status = "failed"
                                             \/ ~track[t].down /\ track[t].err}
           known == {t \in second : HasJob(t)}
           again == jobs \cup {FirstJob(t) : t \in known}
           fresh == {t \in second : ~HasJob(t)}
<1>1. \A t \in known : FirstJob(t) \in Rows /\ job[FirstJob(t)].track = t
  BY FirstJobIsRow DEF CalmInv
<1>2. \A t \in known : job[FirstJob(t)].status \notin Active
  <2> SUFFICES ASSUME NEW t \in known, job[FirstJob(t)].status \in Active PROVE FALSE
    OBVIOUS
  <2>1. track[t].status \in {"missing", "queued", "downloading"} /\ ~track[t].err
    BY <1>1 DEF CalmInv, ActiveShown, Active
  <2> QED BY <2>1
<1>3. again \in SUBSET Rows /\ \A j \in again : job[j].status \notin Active
  BY <1>1, <1>2 DEF Retryable, Active
<1>4. fresh \in SUBSET Tracks /\ \A t \in fresh : ~HasJob(t)
  OBVIOUS
<1>5. first \cup second = {job[j].track : j \in again} \cup fresh
  <2>1. second = known \cup fresh
    OBVIOUS
  <2>2. {job[j].track : j \in again} = first \cup known
    BY <1>1
  <2> HIDE DEF first, second, known, again, fresh
  <2> QED BY <2>1, <2>2
<1>6. Enqueue(again, fresh, first \cup second)
  BY DEF RetryAllFailed
<1> HIDE DEF again, fresh, first, second
<1> QED BY <1>3, <1>4, <1>5, <1>6 DEF OrderlyEnqueue

\* A job that is neither waiting nor running goes: nothing refers to it.
LEMMA CalmDelete ==
    ASSUME CalmInv, TypeOK', NEW i \in JobIds, DeleteJob(i), job[i].status \notin Active
    PROVE  CalmInv'
<1>1. /\ job' = [job EXCEPT ![i] = NoJob]
      /\ UNCHANGED <<track, worker, match, stranded>>
  BY DEF DeleteJob
<1>2. Rows' = Rows \ {i} /\ \A j \in Rows' : job'[j] = job[j]
  BY <1>1 DEF Rows, CalmInv, TypeOK
<1>3. OneRow' /\ Undisturbed'
  BY <1>1, <1>2 DEF CalmInv, OneRow, Undisturbed
<1>4. \A w \in Workers : Running(w) => job'[worker[w].job] = job[worker[w].job]
  <2> SUFFICES ASSUME NEW w \in Workers, Running(w)
               PROVE  job'[worker[w].job] = job[worker[w].job]
    OBVIOUS
  <2>1. worker[w].job \in Rows /\ worker[w].job # i
    BY RunningJobIsRow DEF CalmInv, Active
  <2> QED BY <1>2, <2>1
<1>5. FuturesOwn' /\ OneFuturePerJob'
  BY <1>1, <1>4 DEF CalmInv, FuturesOwn, OneFuturePerJob, Owns, Running
<1>6. ActiveShown'
  BY <1>1, <1>2 DEF CalmInv, ActiveShown
<1>7. Follows'
  BY <1>1, <1>2 DEF CalmInv, Follows, JobsOf
<1> QED BY <1>3, <1>5, <1>6, <1>7 DEF CalmInv

QuietDelete == \E j \in JobIds : DeleteJob(j) /\ job[j].status \notin Active

LEMMA CalmRequests ==
    ASSUME Calm, CalmInv, Request
    PROVE  OrderlyEnqueue \/ TrackDrop \/ QuietDelete
<1> DEFINE Goal == OrderlyEnqueue \/ TrackDrop \/ QuietDelete
<1>1. ASSUME NEW t \in Tracks, QueueTrack(t) PROVE Goal
  BY <1>1, CalmQueueTracks DEF QueueTrack
<1>2. CASE QueueAlbum \/ QueueArtistMissing
  BY <1>2, CalmQueueTracks DEF QueueAlbum, QueueArtistMissing
<1>3. ASSUME NEW S \in SUBSET Tracks, QueueGrab(S) PROVE Goal
  BY <1>3 DEF QueueGrab, Calm, Disruptive
<1>4. ASSUME NEW t \in Tracks, CancelTrack(t) PROVE Goal
  <2>1. UNCHANGED <<job, worker, match, stranded>>
    BY <1>4 DEF CancelTrack
  <2>2. \A u \in Tracks \ {t} : track'[u] = track[u]
    BY <1>4 DEF CancelTrack, CalmInv, TypeOK
  <2>3. track'[t].status = "missing" /\ track'[t].err = track[t].err
    BY <1>4 DEF CancelTrack, CalmInv, TypeOK, TrackRow
  <2> QED BY <2>1, <2>2, <2>3 DEF TrackDrop
<1>5. ASSUME NEW t \in Tracks, DeleteTrack(t) PROVE Goal
  <2>1. UNCHANGED <<job, worker, match, stranded>>
    BY <1>5 DEF DeleteTrack
  <2>2. \A u \in Tracks \ {t} : track'[u] = track[u]
    BY <1>5 DEF DeleteTrack, CalmInv, TypeOK
  <2>3. track'[t].status = "missing" /\ ~track'[t].err
    BY <1>5 DEF DeleteTrack, CalmInv, TypeOK
  <2> QED BY <2>1, <2>2, <2>3 DEF TrackDrop
<1>6. ASSUME NEW j \in JobIds, CancelJob(j) PROVE Goal
  BY <1>6 DEF CancelJob, TrackDrop
<1>7. ASSUME NEW j \in JobIds, PluginCancel(j) PROVE Goal
  BY <1>7 DEF PluginCancel, Calm, Disruptive
<1>8. ASSUME NEW j \in JobIds, RetryJob(j) PROVE Goal
  <2>1. job[j].status \notin Active
    BY <1>8 DEF RetryJob, Calm, Disruptive
  <2>2. Enqueue({j}, {}, {job[i].track : i \in {j}} \cup {}) /\ j \in Rows
    <3>1. {job[i].track : i \in {j}} \cup {} = {job[j].track}
      OBVIOUS
    <3> QED BY <1>8, <3>1 DEF RetryJob
  <2> QED BY <2>1, <2>2 DEF OrderlyEnqueue
<1>9. ASSUME NEW j \in JobIds, DeleteJob(j) PROVE Goal
  <2>1. job[j].status \notin Active
    BY <1>9 DEF DeleteJob, Calm, Disruptive
  <2> QED BY <1>9, <2>1 DEF QuietDelete
<1>10. CASE RetryAllFailed
  BY <1>10, CalmRetryAll
<1> QED BY <1>1, <1>2, <1>3, <1>4, <1>5, <1>6, <1>7, <1>8, <1>9, <1>10 DEF Request

-----------------------------------------------------------------------------
(* The worker loop, the futures and the restart.                           *)

\* One row per track, so the track of the dispatched job is no other job's.
LEMMA CalmDispatch ==
    ASSUME Calm, CalmInv, TypeOK', NEW w \in Workers, Dispatch(w)
    PROVE  CalmInv'
<1> DEFINE i == Min(QueuedJobs)
<1>1. i \in Rows /\ job[i].status = "queued" /\ i \in JobIds
  BY DispatchTyped DEF CalmInv, QueuedJobs, Rows
<1>2. /\ job' = [job EXCEPT ![i].status = "downloading"]
      /\ track' = [track EXCEPT ![job[i].track].status = "downloading"]
      /\ worker' = [worker EXCEPT ![w] = [Idle EXCEPT !.pc = "submitted", !.job = i]]
      /\ UNCHANGED match
      /\ stranded' = stranded \ {i}
  BY DEF Dispatch, Calm
<1>3. ~Running(w)
  BY DEF Dispatch, Running, RunningPc, Idle
<1> HIDE DEF i
<1>4. /\ job'[i].status = "downloading" /\ job'[i].track = job[i].track
      /\ \A j \in JobIds \ {i} : job'[j] = job[j]
  BY <1>1, <1>2, RowTypes DEF CalmInv, TypeOK
<1>5. Rows' = Rows
  BY <1>1, <1>4 DEF Rows, NoJob
<1>6. \A j \in Rows : job'[j].track = job[j].track
  BY <1>4 DEF Rows
<1>7. \A j \in Rows \ {i} : job[j].track # job[i].track
  BY <1>1 DEF CalmInv, OneRow
<1>8. /\ worker'[w].pc = "submitted" /\ worker'[w].job = i /\ worker'[w].track = NoTrack
      /\ \A v \in Workers \ {w} : worker'[v] = worker[v]
  BY <1>2 DEF CalmInv, TypeOK, Idle
<1>9. OneRow' /\ Undisturbed'
  BY <1>2, <1>5, <1>6 DEF CalmInv, OneRow, Undisturbed
<1>10. \A v \in Workers \ {w} : Running(v) => worker[v].job \in Rows \ {i}
  BY <1>1, RunningJobIsRow DEF CalmInv
<1>11. FuturesOwn'
  <2> SUFFICES ASSUME NEW v \in Workers, Running(v)' PROVE Owns(v)'
    BY DEF FuturesOwn
  <2>1. CASE v = w
    BY <1>4, <1>8, <2>1 DEF Owns
  <2>2. CASE v # w
    <3>1. worker'[v] = worker[v] /\ Running(v)
      BY <1>8, <2>2 DEF Running
    <3>2. job'[worker[v].job] = job[worker[v].job]
      BY <1>4, <1>10, <2>2, <3>1 DEF Rows
    <3> QED BY <3>1, <3>2 DEF CalmInv, FuturesOwn, Owns
  <2> QED BY <2>1, <2>2
<1>12. OneFuturePerJob'
  BY <1>8, <1>10 DEF CalmInv, OneFuturePerJob, Running
<1>13. /\ job[i].track \in Tracks
       /\ track'[job[i].track].status = "downloading"
       /\ track'[job[i].track].err = track[job[i].track].err
       /\ \A t \in Tracks \ {job[i].track} : track'[t] = track[t]
  BY <1>1, <1>2, RowTypes DEF CalmInv, TypeOK, TrackRow
<1>14. ActiveShown'
  <2> SUFFICES ASSUME NEW j \in Rows, job'[j].status \in Active
               PROVE  /\ track'[job[j].track].status \in {"missing", job'[j].status}
                      /\ ~track'[job[j].track].err
    BY <1>5, <1>6 DEF ActiveShown
  <2>1. CASE j = i
    BY <1>1, <1>4, <1>13, <2>1 DEF CalmInv, ActiveShown, Active
  <2>2. CASE j # i
    <3>1. job'[j] = job[j] /\ track'[job[j].track] = track[job[j].track]
      BY <1>4, <1>7, <1>13, <2>2, RowTypes DEF CalmInv, Rows
    <3> QED BY <3>1 DEF CalmInv, ActiveShown
  <2> QED BY <2>1, <2>2
<1>15. Follows'
  <2> SUFFICES ASSUME NEW t \in Tracks, track'[t].status \in Active
               PROVE  \E j \in Rows : job[j].track = t /\ job'[j].status = track'[t].status
    BY <1>5, <1>6 DEF Follows, JobsOf
  <2>1. CASE t = job[i].track
    BY <1>1, <1>4, <1>13, <2>1
  <2>2. CASE t # job[i].track
    <3>1. track'[t] = track[t]
      BY <1>13, <2>2
    <3>2. PICK j \in Rows : job[j].track = t /\ job[j].status = track[t].status
      BY <3>1 DEF CalmInv, Follows, JobsOf
    <3> QED BY <1>4, <2>2, <3>1, <3>2 DEF Rows
  <2> QED BY <2>1, <2>2
<1> QED BY <1>9, <1>11, <1>12, <1>14, <1>15 DEF CalmInv

\* Between its start and its end a future writes nothing.
LEMMA CalmProgress ==
    ASSUME CalmInv, TypeOK', NEW w \in Workers, UNCHANGED <<job, track, match, stranded>>,
           \A v \in Workers \ {w} : worker'[v] = worker[v],
           Running(w)' => Running(w) /\ worker'[w].job = worker[w].job /\ Owns(w)'
    PROVE  CalmInv'
<1>1. OneRow' /\ Undisturbed' /\ ActiveShown' /\ Follows'
  BY DEF CalmInv, OneRow, Undisturbed, ActiveShown, Follows, Rows, JobsOf
<1>2. \A v \in Workers : Running(v)' => Running(v) /\ worker'[v].job = worker[v].job
  BY DEF Running
<1>3. OneFuturePerJob'
  BY <1>2 DEF CalmInv, OneFuturePerJob
<1>4. FuturesOwn'
  BY <1>2 DEF CalmInv, FuturesOwn, Owns
<1> QED BY <1>1, <1>3, <1>4 DEF CalmInv

\* The end of a future: its job ends, and its track shows the end or nothing.
LEMMA CalmEnd ==
    ASSUME CalmInv, TypeOK', NEW w \in Workers, Running(w), worker[w].pc # "submitted",
           NEW s \in JobStatus \ Active, SetJob(w, s), UNCHANGED <<match, stranded>>,
           \A v \in Workers \ {w} : worker'[v] = worker[v], ~Running(w)',
           \A t \in Tracks \ {worker[w].track} : track'[t] = track[t],
           track'[worker[w].track].status \notin Active
    PROVE  CalmInv'
<1> DEFINE i == worker[w].job
<1>1. i \in Rows /\ i \in JobIds /\ job[i].status = "downloading" /\ worker[w].track = job[i].track
  BY RunningJobIsRow DEF CalmInv, Rows, FuturesOwn, Owns
<1>2. /\ job'[i].status = s /\ job'[i].track = job[i].track
      /\ \A j \in JobIds \ {i} : job'[j] = job[j]
  BY <1>1, RowTypes DEF SetJob, CalmInv, Rows
<1>3. Rows' = Rows
  BY <1>1, <1>2 DEF Rows, NoJob, JobStatus, Retryable, Active
<1>4. \A j \in Rows : job'[j].track = job[j].track
  BY <1>2 DEF Rows
<1>5. \A j \in Rows \ {i} : job[j].track # job[i].track
  BY <1>1 DEF CalmInv, OneRow
<1>6. \A v \in Workers \ {w} : Running(v) => worker[v].job \in Rows \ {i}
  BY RunningJobIsRow DEF CalmInv, OneFuturePerJob
<1>7. \A v \in Workers : Running(v)' => v # w /\ Running(v) /\ worker'[v] = worker[v]
  BY DEF Running
<1> HIDE DEF i
<1>8. OneRow' /\ Undisturbed'
  BY <1>3, <1>4 DEF CalmInv, OneRow, Undisturbed
<1>9. OneFuturePerJob'
  BY <1>7 DEF CalmInv, OneFuturePerJob
<1>10. FuturesOwn'
  <2> SUFFICES ASSUME NEW v \in Workers, Running(v)' PROVE Owns(v)'
    BY DEF FuturesOwn
  <2>1. job'[worker[v].job] = job[worker[v].job]
    BY <1>2, <1>6, <1>7 DEF Rows
  <2> QED BY <1>7, <2>1 DEF CalmInv, FuturesOwn, Owns
<1>11. \A j \in Rows \ {i} : job'[j] = job[j] /\ track'[job[j].track] = track[job[j].track]
  BY <1>1, <1>2, <1>5, RowTypes DEF CalmInv, Rows
<1>12. ActiveShown'
  <2> SUFFICES ASSUME NEW j \in Rows, job'[j].status \in Active
               PROVE  /\ track'[job'[j].track].status \in {"missing", job'[j].status}
                      /\ ~track'[job'[j].track].err
    BY <1>3 DEF ActiveShown
  <2>1. j # i
    BY <1>2
  <2> QED BY <1>11, <2>1 DEF CalmInv, ActiveShown
<1>13. Follows'
  <2> SUFFICES ASSUME NEW t \in Tracks, track'[t].status \in Active
               PROVE  \E j \in Rows : job[j].track = t /\ job'[j].status = track'[t].status
    BY <1>3, <1>4 DEF Follows, JobsOf
  <2>1. t # job[i].track /\ track'[t] = track[t]
    BY <1>1
  <2>2. PICK j \in Rows : job[j].track = t /\ job[j].status = track[t].status
    BY <2>1 DEF CalmInv, Follows, JobsOf
  <2> QED BY <1>11, <2>1, <2>2
<1> QED BY <1>8, <1>9, <1>10, <1>12, <1>13 DEF CalmInv

\* The track a future writes at its end is its own, and what it loaded of it
\* is not an outcome that the flush would take for unchanged.
LEMMA EndWrites ==
    ASSUME CalmInv, NEW w \in Workers, Running(w), worker[w].pc # "submitted"
    PROVE  /\ worker[w].track \in Tracks
           /\ Flushed(worker[w].seen, [status |-> "completed", down |-> TRUE, err |-> FALSE],
                      track[worker[w].track]).status = "completed"
           /\ FailedTrack(w).status = "failed"
           /\ ~RowLost(w)
<1> DEFINE t == worker[w].track
           seen == worker[w].seen
           done == [status |-> "completed", down |-> TRUE, err |-> FALSE]
<1>1. t = job[worker[w].job].track /\ (seen = Expired \/ seen.status \in {"missing", "downloading"})
  BY DEF CalmInv, FuturesOwn, Owns
<1>2. worker[w].job \in Rows
  BY RunningJobIsRow DEF CalmInv
<1>3. t \in Tracks
  BY <1>1, <1>2, RowTypes DEF CalmInv, Rows
<1>4. track[t] \in TrackRow /\ seen \in TrackRow \cup {Expired}
  BY <1>3, RunningTypes DEF CalmInv, TypeOK, Future
<1> HIDE DEF t, seen
<1>5. Flushed(seen, done, track[t]).status = "completed"
  <2>1. CASE seen = Expired
    BY <2>1 DEF Flushed
  <2>2. CASE seen # Expired
    BY <1>1, <2>2 DEF Flushed
  <2> QED BY <2>1, <2>2
<1>6. FailedTrack(w).status = "failed"
  <2> DEFINE base == IF seen = Expired THEN track[t] ELSE seen
             new == [base EXCEPT !.status = "failed"]
             f == Flushed(base, new, track[t])
  <2>1. base \in TrackRow
    BY <1>4
  <2>2. new.status = "failed" /\ base # Expired
    BY <2>1 DEF TrackRow, TrackStatus, Expired
  <2>3. f.status = "failed"
    <3>1. CASE seen = Expired
      BY <2>2, <3>1 DEF Flushed
    <3>2. CASE seen # Expired
      BY <1>1, <2>2, <3>2 DEF Flushed
    <3> QED BY <3>1, <3>2
  <2>4. [f EXCEPT !.err = TRUE].status = f.status
    BY DEF Flushed
  <2>5. FailedTrack(w) = [f EXCEPT !.err = TRUE]
    BY DEF FailedTrack, t, seen
  <2> HIDE DEF f
  <2> QED BY <2>3, <2>4, <2>5
<1>7. ~RowLost(w)
  BY <1>2 DEF RowLost, Rows
<1> QED BY <1>3, <1>5, <1>6, <1>7 DEF t, seen

LEMMA CalmProcess ==
    ASSUME Calm, CalmInv, TypeOK', NEW w \in Workers, ProcessTrackJob(w)
    PROVE  CalmInv'
<1> DEFINE f == worker[w]
<1>1. \A v \in Workers \ {w} : worker'[v] = worker[v]
  BY DEF CalmInv, TypeOK, ProcessTrackJob, StartJob, LookupDone, SetupDone, ChainCancelled,
         FinishCompleted, FinishFailed, ChainRaises, CommitRaises, FinishTail, LeaveNow
<1>2. Idle.pc \notin RunningPc
  BY DEF Idle, RunningPc
<1>3. ASSUME Running(w), f.pc # "submitted", HandleCancellation(w), worker'[w] = Idle,
             UNCHANGED <<match, stranded>>
      PROVE  CalmInv'
  <2>1. SetJob(w, "cancelled") /\ "cancelled" \in JobStatus \ Active
    BY <1>3 DEF HandleCancellation, SetJob, JobStatus, Retryable, Active
  <2>2. f.track \in Tracks
    BY <1>3, EndWrites
  <2>3. /\ track'[f.track].status = "missing"
        /\ \A t \in Tracks \ {f.track} : track'[t] = track[t]
    BY <1>3, <2>2 DEF HandleCancellation, CalmInv, TypeOK, TrackRow
  <2>4. ~Running(w)'
    BY <1>2, <1>3 DEF Running
  <2>5. track'[f.track].status \notin Active
    BY <2>3 DEF Active
  <2> QED BY <1>1, <1>3, <2>1, <2>3, <2>4, <2>5, CalmEnd
<1>4. ASSUME f.pc = "chain", UNCHANGED <<match, stranded>>,
             worker'[w].pc \in {"idle", "tail"},
             NEW s \in {"completed", "failed"}, SetJob(w, s), track'[f.track].status = s,
             \A t \in Tracks \ {f.track} : track'[t] = track[t]
      PROVE  CalmInv'
  <2>1. Running(w) /\ f.pc # "submitted" /\ ~Running(w)'
    BY <1>4 DEF Running, RunningPc
  <2>2. s \in JobStatus \ Active
    BY <1>4 DEF JobStatus, Retryable, Active
  <2>3. track'[f.track].status \notin Active
    BY <1>4 DEF Active
  <2> QED BY <1>1, <1>4, <2>1, <2>2, <2>3, CalmEnd
<1>5. CASE StartJob(w)
  <2>1. Running(w) /\ job[f.job].status = "downloading"
    BY <1>5, RunningJobIsRow DEF StartJob, Running, RunningPc, CalmInv
  <2>2. f.job \in Rows /\ f.job \in JobIds /\ job[f.job].track \in Tracks
    BY <2>1, RunningJobIsRow, RowTypes DEF CalmInv, Rows
  <2>3. /\ worker'[w].pc = "lookup" /\ worker'[w].job = f.job
        /\ worker'[w].track = job[f.job].track /\ worker'[w].seen = track[job[f.job].track]
    BY <1>5, <2>1, RunningTypes DEF StartJob, CalmInv, TypeOK, Future
  <2>4. track[job[f.job].track].status \in {"missing", "downloading"}
    BY <2>1, <2>2 DEF CalmInv, ActiveShown, Active
  <2>5. Owns(w)' /\ UNCHANGED <<job, track, match, stranded>>
    BY <1>5, <2>1, <2>3, <2>4 DEF StartJob, Owns
  <2> QED BY <1>1, <2>1, <2>3, <2>5, CalmProgress
<1>6. CASE LookupDone(w)
  <2>1. Running(w) /\ f.pc # "submitted" /\ f \in Future
    BY <1>6, RunningTypes DEF LookupDone, Running, RunningPc, CalmInv
  <2>2. CASE f.job \in cancelRequested
    BY <1>3, <1>6, <2>1, <2>2 DEF LookupDone, CalmInv, TypeOK
  <2>3. CASE f.job \notin cancelRequested
    <3>1. /\ worker'[w].pc = "setup" /\ worker'[w].job = f.job /\ worker'[w].track = f.track
          /\ worker'[w].seen \in {f.seen, Expired}
      BY <1>6, <2>1, <2>3 DEF LookupDone, CalmInv, TypeOK, Future
    <3>2. UNCHANGED <<job, track, match, stranded>>
      BY <1>6, <2>3 DEF LookupDone
    <3>3. Owns(w)'
      BY <2>1, <3>1, <3>2 DEF CalmInv, FuturesOwn, Owns
    <3> QED BY <1>1, <2>1, <3>1, <3>2, <3>3, CalmProgress
  <2> QED BY <2>2, <2>3
<1>7. CASE SetupDone(w)
  <2>1. Running(w) /\ f.pc = "setup" /\ f \in Future
    BY <1>7, RunningTypes DEF SetupDone, Running, RunningPc, CalmInv
  <2>2. /\ worker'[w].pc = "chain" /\ worker'[w].job = f.job /\ worker'[w].track = f.track
        /\ worker'[w].seen = f.seen /\ UNCHANGED <<job, track, match, stranded>>
    BY <1>7, <2>1 DEF SetupDone, CalmInv, TypeOK, Future, Calm
  <2>3. Owns(w)'
    BY <2>1, <2>2 DEF CalmInv, FuturesOwn, Owns
  <2> QED BY <1>1, <2>1, <2>2, <2>3, CalmProgress
<1>8. CASE ChainCancelled(w)
  <2>1. Running(w) /\ f.pc # "submitted"
    BY <1>8 DEF ChainCancelled, Running, RunningPc
  <2> QED BY <1>3, <1>8, <2>1 DEF ChainCancelled, LeaveNow, CalmInv, TypeOK
<1>9. ASSUME f.pc = "chain"
      PROVE  /\ f.track \in Tracks
             /\ Flushed(f.seen, [status |-> "completed", down |-> TRUE, err |-> FALSE],
                        track[f.track]).status = "completed"
             /\ FailedTrack(w).status = "failed"
             /\ ~RowLost(w) /\ f \in Future
  BY <1>9, EndWrites, RunningTypes DEF Running, RunningPc, CalmInv
<1>10. CASE FinishCompleted(w)
  <2> DEFINE row == Flushed(f.seen, [status |-> "completed", down |-> TRUE, err |-> FALSE],
                            track[f.track])
  <2>1. f.pc = "chain" /\ f \in Future
    BY <1>9, <1>10 DEF FinishCompleted
  <2>2. worker'[w].pc = "tail"
    BY <1>10, <2>1 DEF FinishCompleted, CalmInv, TypeOK, Future
  <2>3. row.status = "completed"
    BY <1>9, <2>1
  <2>4. SetJob(w, "completed") /\ UNCHANGED <<match, stranded>>
    BY <1>10 DEF FinishCompleted
  <2>5. track'[f.track] = row /\ \A t \in Tracks \ {f.track} : track'[t] = track[t]
    BY <1>9, <1>10, <2>1 DEF FinishCompleted, CalmInv, TypeOK
  <2> HIDE DEF row
  <2> QED BY <1>4, <2>1, <2>2, <2>3, <2>4, <2>5
<1>11. CASE FinishFailed(w) \/ ChainRaises(w)
  <2> DEFINE row == FailedTrack(w)
  <2>1. f.pc = "chain" /\ f \in Future
    BY <1>9, <1>11 DEF FinishFailed, ChainRaises
  <2>2. worker'[w].pc \in {"idle", "tail"}
    BY <1>11, <2>1 DEF FinishFailed, ChainRaises, LeaveNow, CalmInv, TypeOK, Future, Idle
  <2>3. row.status = "failed"
    BY <1>9, <2>1
  <2>4. SetJob(w, "failed") /\ UNCHANGED <<match, stranded>>
    BY <1>11 DEF FinishFailed, ChainRaises
  <2>5. track'[f.track] = row /\ \A t \in Tracks \ {f.track} : track'[t] = track[t]
    BY <1>9, <1>11, <2>1 DEF FinishFailed, ChainRaises, CalmInv, TypeOK
  <2> HIDE DEF row
  <2> QED BY <1>4, <2>1, <2>2, <2>3, <2>4, <2>5
<1>12. CASE CommitRaises(w)
  BY <1>9, <1>12 DEF CommitRaises, Calm
<1>13. CASE FinishTail(w)
  <2>1. worker'[w] = Idle /\ UNCHANGED <<job, track, match, stranded>>
    BY <1>13 DEF FinishTail, LeaveNow, CalmInv, TypeOK
  <2>2. ~Running(w)'
    BY <1>2, <2>1 DEF Running
  <2> QED BY <1>1, <2>1, <2>2, CalmProgress
<1> QED BY <1>5, <1>6, <1>7, <1>8, <1>10, <1>11, <1>12, <1>13 DEF ProcessTrackJob

\* A restart queues the interrupted jobs again, and their tracks with them.
LEMMA CalmRestart ==
    ASSUME CalmInv, TypeOK', Restart
    PROVE  CalmInv'
<1> DEFINE stale == {j \in Rows : job[j].status = "downloading"}
<1>1. /\ \A j \in stale : job'[j].status = "queued" /\ job'[j].track = job[j].track
      /\ \A j \in JobIds \ stale : job'[j] = job[j]
  <2>1. \A j \in JobIds : DOMAIN job[j] = {"status", "track"}
    BY RowTypes DEF CalmInv
  <2> QED BY <2>1 DEF Restart, Rows
<1>2. Rows' = Rows
  BY <1>1 DEF Rows, NoJob
<1>3. \A j \in Rows : job'[j].track = job[j].track /\ job[j].track \in Tracks
  BY <1>1, RowTypes DEF CalmInv, Rows
<1>4. \A t \in Tracks :
         IF \E j \in stale : job[j].track = t
         THEN track'[t].status = "queued" /\ ~track'[t].err
         ELSE track'[t] = track[t]
  BY DEF Restart, CalmInv, TypeOK, TrackRow
<1>5. \A w \in Workers : ~Running(w)'
  BY DEF Restart, Running, RunningPc, Idle
<1> HIDE DEF stale
<1>6. /\ OneRow' /\ FuturesOwn' /\ OneFuturePerJob'
      /\ Undisturbed'
  <2>1. OneRow' /\ FuturesOwn' /\ OneFuturePerJob'
    BY <1>2, <1>3, <1>5 DEF CalmInv, OneRow, FuturesOwn, OneFuturePerJob
  <2>2. Undisturbed'
    BY DEF Restart, Undisturbed
  <2> QED BY <2>1, <2>2
<1>7. \A i, j \in Rows : i \in stale /\ job[i].track = job[j].track => j \in stale
  BY DEF CalmInv, OneRow
<1>8. ActiveShown'
  <2> SUFFICES ASSUME NEW j \in Rows, job'[j].status \in Active
               PROVE  /\ track'[job[j].track].status \in {"missing", job'[j].status}
                      /\ ~track'[job[j].track].err
    BY <1>2, <1>3 DEF ActiveShown
  <2>1. CASE j \in stale
    BY <1>1, <1>3, <1>4, <2>1
  <2>2. CASE j \notin stale
    <3>1. job'[j] = job[j]
      BY <1>1, <2>2 DEF Rows
    <3>2. ~\E i \in stale : job[i].track = job[j].track
      BY <1>7, <2>2 DEF stale
    <3>3. track'[job[j].track] = track[job[j].track]
      BY <1>3, <1>4, <3>2
    <3> QED BY <3>1, <3>3 DEF CalmInv, ActiveShown
  <2> QED BY <2>1, <2>2
<1>9. Follows'
  <2> SUFFICES ASSUME NEW t \in Tracks, track'[t].status \in Active
               PROVE  \E j \in Rows : job[j].track = t /\ job'[j].status = track'[t].status
    BY <1>2, <1>3 DEF Follows, JobsOf
  <2>1. CASE \E j \in stale : job[j].track = t
    BY <1>1, <1>4, <2>1 DEF stale
  <2>2. CASE ~\E j \in stale : job[j].track = t
    <3>1. track'[t] = track[t]
      BY <1>4, <2>2
    <3>2. PICK j \in Rows : job[j].track = t /\ job[j].status = track[t].status
      BY <3>1 DEF CalmInv, Follows, JobsOf
    <3> QED BY <1>1, <2>2, <3>1, <3>2 DEF Rows
  <2> QED BY <2>1, <2>2
<1> QED BY <1>6, <1>8, <1>9 DEF CalmInv

-----------------------------------------------------------------------------

LEMMA CalmInit == Init => CalmInv
<1> SUFFICES ASSUME Init PROVE CalmInv
  OBVIOUS
<1>1. TypeOK
  BY InitTyped
<1>2. Rows = {}
  BY DEF Init, Rows
<1>3. \A w \in Workers : ~Running(w)
  BY DEF Init, Running, RunningPc, Idle
<1>4. \A t \in Tracks : track[t].status \notin Active
  BY DEF Init, Active
<1> QED BY <1>1, <1>2, <1>3, <1>4
     DEF Init, CalmInv, OneRow, Undisturbed, FuturesOwn, OneFuturePerJob, ActiveShown, Follows

LEMMA CalmStep == Calm /\ CalmInv /\ [Next]_vars => CalmInv'
<1> SUFFICES ASSUME Calm, CalmInv, [Next]_vars PROVE CalmInv'
  OBVIOUS
<1>1. TypeOK'
  BY StepTyped DEF CalmInv
<1>2. CASE UNCHANGED vars
  BY <1>1, <1>2, TrackDrops DEF vars, TrackDrop
<1>3. CASE Request
  BY <1>1, <1>3, CalmRequests, CalmEnqueue, TrackDrops, CalmDelete DEF QuietDelete
<1>4. ASSUME NEW w \in Workers, Dispatch(w) \/ ProcessTrackJob(w) PROVE CalmInv'
  BY <1>1, <1>4, CalmDispatch, CalmProcess
<1>5. ASSUME NEW m \in Matchers, ManualMatch(m) \/ \E t \in Tracks : MatchStart(m, t)
      PROVE  CalmInv'
  BY <1>5 DEF ManualMatch, MatchStart, MatchFailed, MatchRaises, MatchCompleted, Calm, Disruptive,
              CalmInv, Undisturbed
<1>6. CASE Restart
  BY <1>1, <1>6, CalmRestart
<1> QED BY <1>2, <1>3, <1>4, <1>5, <1>6 DEF Next, System, Outside

\* Without those requests and faults the pool, the rows of jobs and the rows
\* of tracks agree after every step.
THEOREM CalmInvariant == Spec => [](Calm => CalmInv)
<1>1. Init => (Calm => CalmInv)
  BY CalmInit
<1>2. (Calm => CalmInv) /\ [Next]_vars => (Calm => CalmInv)'
  BY CalmStep DEF Calm
<1> QED BY <1>1, <1>2, PTL DEF Spec

\* While no request or fault writes a row behind a future's back, no two
\* futures of the pool download the same track or run the same job, however
\* often jobs are queued, cancelled, retried and deleted, and across restarts.
THEOREM OneDownloadPerTrack == Spec => []OneFuturePerTrack
<1>1. (Calm => CalmInv) => OneFuturePerTrack
  <2> SUFFICES ASSUME Calm, CalmInv, NEW v \in Workers, NEW w \in Workers,
                      Running(v), Running(w), v # w
               PROVE  /\ worker[v].job # worker[w].job
                      /\ job[worker[v].job].track # job[worker[w].job].track
    BY DEF OneFuturePerTrack
  <2>1. worker[v].job \in Rows /\ worker[w].job \in Rows
    BY RunningJobIsRow DEF CalmInv
  <2>2. worker[v].job # worker[w].job
    BY DEF CalmInv, OneFuturePerJob
  <2> QED BY <2>1, <2>2 DEF CalmInv, OneRow
<1> QED BY <1>1, CalmInvariant, PTL

\* A calm future runs a job that says downloading, and works on the track
\* that the row of the job names.
THEOREM FuturesOwnTheirJobs == Spec => []FutureOwnsItsJob
<1>1. (Calm => CalmInv) => FutureOwnsItsJob
  <2> SUFFICES ASSUME Calm, CalmInv, NEW w \in Workers, Running(w)
               PROVE  /\ job[worker[w].job].status = "downloading"
                      /\ worker[w].track \in {NoTrack, job[worker[w].job].track}
    BY DEF FutureOwnsItsJob
  <2> QED BY DEF CalmInv, FuturesOwn, Owns
<1> QED BY <1>1, CalmInvariant, PTL

\* A calm track that is shown as queued or downloading has a job in that
\* state: the track page never waits for work that nobody will do.
THEOREM TracksFollowJobs == Spec => []TrackFollowsJob
<1>1. (Calm => CalmInv) => TrackFollowsJob
  BY DEF TrackFollowsJob, CalmInv, Follows
<1> QED BY <1>1, CalmInvariant, PTL

-----------------------------------------------------------------------------
(* The steps of JobQueue.  What is left to show is that every step of the  *)
(* queue changes the status of the jobs as JobQueue allows.                *)

status == [j \in JobIds |-> job[j].status]

\* The two modules have the same Min and Cardinality.
LEMMA SameOperators ==
    /\ \A S : Abstract!Min(S) = Min(S)
    /\ \A S : Abstract!Cardinality(S) = Cardinality(S)
<1>1. \A S : Abstract!Min(S) = Min(S)
  BY DEF Abstract!Min, Min
<1>2. \A S : Abstract!Cardinality(S) = Cardinality(S)
  BY Zenon DEF Abstract!Cardinality, Cardinality
<1> QED BY <1>1, <1>2

LEMMA SubmitMaps ==
    ASSUME CalmInv, OrderlyEnqueue
    PROVE  Abstract!Submit
<1>1. PICK again \in SUBSET Rows, fresh \in SUBSET Tracks :
        /\ \A j \in again : job[j].status \notin Active
        /\ Enqueue(again, fresh, {job[j].track : j \in again} \cup fresh)
  BY DEF OrderlyEnqueue
<1>2. PICK new \in SUBSET JobIds : Submitted(again, fresh, new)
  BY <1>1, Enqueued DEF CalmInv
<1> DEFINE S == again \cup new
<1>3. S \in SUBSET {j \in JobIds : status[j] \in Abstract!Ended \cup {"absent"}}
  <2>1. ASSUME NEW j \in again PROVE j \in JobIds /\ job[j].status \in Abstract!Ended
    BY <1>1, <2>1, RowTypes DEF CalmInv, Rows, JobStatus, Retryable, Abstract!Ended
  <2>2. ASSUME NEW j \in new PROVE j \in JobIds /\ job[j].status = "absent"
    BY <1>2, <2>2, RowTypes DEF CalmInv, Submitted
  <2> QED BY <2>1, <2>2 DEF status
<1>4. status' = [j \in JobIds |-> IF j \in S THEN "queued" ELSE status[j]]
  BY <1>2 DEF Submitted, status
<1> HIDE DEF S
<1>5. \E T \in SUBSET {j \in JobIds : status[j] \in Abstract!Ended \cup {"absent"}} :
         status' = [j \in JobIds |-> IF j \in T THEN "queued" ELSE status[j]]
  BY <1>3, <1>4
<1> QED BY <1>5 DEF Abstract!Submit, status

LEMMA RemoveMaps ==
    ASSUME CalmInv, NEW i \in JobIds, DeleteJob(i), job[i].status \notin Active
    PROVE  Abstract!Remove(i)
<1>1. status[i] \in Abstract!Ended
  BY RowTypes DEF CalmInv, DeleteJob, JobStatus, Retryable, Abstract!Ended, status
<1>2. status' = [status EXCEPT ![i] = "absent"]
  BY DEF DeleteJob, status, NoJob, CalmInv, TypeOK
<1> QED BY <1>1, <1>2 DEF Abstract!Remove, status

\* The dispatching thread is free, and each of the other threads runs one of
\* the downloading jobs at most, so fewer than all the threads' worth of jobs
\* are downloading.
LEMMA RoomForOne ==
    ASSUME CalmInv, DownloadingHasFuture, NEW w \in Workers, ~Running(w)
    PROVE  Cardinality({j \in JobIds : job[j].status = "downloading"}) < Cardinality(Workers)
<1> DEFINE D == {j \in JobIds : job[j].status = "downloading"}
           others == Workers \ {w}
           Runs(j, v) == Running(v) /\ worker[v].job = j
           f == [j \in D |-> CHOOSE v \in Workers : Runs(j, v)]
<1>1. \A j \in D : \E v \in Workers : Runs(j, v)
  BY DEF CalmInv, Undisturbed, DownloadingHasFuture
<1>2. \A j \in D : f[j] \in Workers /\ Runs(j, f[j])
  BY <1>1
<1>3. f \in Injection(D, others)
  <2> HIDE DEF f
  <2>1. \A j \in D : f[j] \in others
    BY <1>2
  <2>2. f = [j \in D |-> f[j]]
    BY DEF f
  <2> QED BY <1>2, <2>1, <2>2 DEF Injection, IsInjective
<1>4. IsFiniteSet(others) /\ Cardinality(others) = Cardinality(Workers) - 1
  BY WorkersAssumption, FS_RemoveElement
<1>5. Cardinality(D) =< Cardinality(others) /\ IsFiniteSet(D)
  <2> HIDE DEF f, D, others
  <2> QED BY <1>3, <1>4, FS_Injection
<1>6. Cardinality(Workers) \in Nat /\ Cardinality(others) \in Nat /\ Cardinality(D) \in Nat
  BY <1>4, <1>5, WorkersAssumption, FS_CardinalityType
<1> HIDE DEF D, others
<1>7. Cardinality(D) < Cardinality(Workers)
  BY <1>4, <1>5, <1>6
<1> QED BY <1>7 DEF D

LEMMA StartMaps ==
    ASSUME CalmInv, DownloadingHasFuture, NEW w \in Workers, Dispatch(w)
    PROVE  Abstract!Start
<1>1. ~Running(w)
  BY DEF Dispatch, Running, RunningPc, Idle
<1>2. Abstract!With("queued") = QueuedJobs
  BY RowTypes DEF CalmInv, QueuedJobs, Rows, NoJob, Abstract!With
<1>3. Abstract!With("downloading") = {j \in JobIds : job[j].status = "downloading"}
  BY DEF Abstract!With
<1>4. Cardinality(Abstract!With("downloading")) < Cardinality(Workers)
  BY <1>1, <1>3, RoomForOne
<1>5. QueuedJobs # {} /\ status' = [status EXCEPT ![Min(QueuedJobs)] = "downloading"]
  <2> DEFINE i == Min(QueuedJobs)
  <2>1. i \in JobIds
    BY DispatchTyped DEF CalmInv, QueuedJobs, Rows
  <2>2. job' = [job EXCEPT ![i].status = "downloading"] /\ QueuedJobs # {}
    BY DEF Dispatch
  <2> HIDE DEF i
  <2>3. \A j \in JobIds : job'[j].status = IF j = i THEN "downloading" ELSE job[j].status
    BY <2>1, <2>2, RowTypes DEF CalmInv, TypeOK
  <2>4. status' = [status EXCEPT ![i] = "downloading"]
    BY <2>1, <2>3 DEF status
  <2> QED BY <2>2, <2>4 DEF i
<1> QED BY <1>2, <1>4, <1>5, SameOperators DEF Abstract!Start, status

LEMMA EndMaps ==
    ASSUME CalmInv, NEW w \in Workers, Running(w), NEW i \in JobIds, i = worker[w].job,
           NEW s \in Abstract!Ended, SetJob(w, s)
    PROVE  Abstract!End(i)
<1>1. i \in Rows /\ job[i].status = "downloading"
  BY RunningJobIsRow DEF CalmInv, Rows
<1>2. \A j \in JobIds : job'[j].status = IF j = i THEN s ELSE job[j].status
  BY <1>1, RowTypes DEF SetJob, CalmInv, Rows
<1>3. status' = [status EXCEPT ![i] = s]
  BY <1>1, <1>2 DEF status
<1> QED BY <1>1, <1>3 DEF Abstract!End, status

\* The steps of a calm future: it ends its job, or leaves all jobs alone.
LEMMA ProcessMaps ==
    ASSUME Calm, CalmInv, NEW w \in Workers, ProcessTrackJob(w)
    PROVE  UNCHANGED job \/ \E j \in JobIds : Abstract!End(j)
<1>1. ASSUME Running(w), SetJob(w, "completed") \/ SetJob(w, "failed") \/ SetJob(w, "cancelled")
      PROVE  \E j \in JobIds : Abstract!End(j)
  <2>1. PICK i \in JobIds : i = worker[w].job
    BY <1>1, RunningTypes DEF CalmInv
  <2>2. PICK s \in Abstract!Ended : SetJob(w, s)
    BY <1>1 DEF Abstract!Ended
  <2> QED BY <1>1, <2>1, <2>2, EndMaps
<1>2. HandleCancellation(w) => SetJob(w, "cancelled")
  BY DEF HandleCancellation, SetJob
<1>3. CASE StartJob(w) \/ SetupDone(w) \/ CommitRaises(w) \/ FinishTail(w)
  BY <1>3 DEF StartJob, SetupDone, CommitRaises, FinishTail
<1>4. CASE LookupDone(w)
  BY <1>1, <1>2, <1>4 DEF LookupDone, Running, RunningPc
<1>5. CASE ChainCancelled(w)
  BY <1>1, <1>2, <1>5 DEF ChainCancelled, Running, RunningPc
<1>6. CASE FinishCompleted(w) \/ FinishFailed(w) \/ ChainRaises(w)
  BY <1>1, <1>6 DEF FinishCompleted, FinishFailed, ChainRaises, Running, RunningPc
<1> QED BY <1>3, <1>4, <1>5, <1>6 DEF ProcessTrackJob

LEMMA RecoverMaps ==
    ASSUME CalmInv, Restart
    PROVE  Abstract!Recover
<1>1. \A j \in JobIds : /\ DOMAIN job[j] = {"status", "track"}
                        /\ job[j].status = "downloading" => j \in Rows
  BY RowTypes DEF CalmInv, NoJob
<1>2. \A j \in JobIds : job'[j].status = IF job[j].status = "downloading" THEN "queued"
                                         ELSE job[j].status
  BY <1>1 DEF Restart
<1>3. status' = [j \in JobIds |-> IF status[j] = "downloading" THEN "queued" ELSE status[j]]
  BY <1>2 DEF status
<1> QED BY <1>3 DEF Abstract!Recover, status

LEMMA StepMaps ==
    Calm /\ CalmInv /\ DownloadingHasFuture /\ [Next]_vars => [Abstract!Next]_status
<1> SUFFICES ASSUME Calm, CalmInv, DownloadingHasFuture, [Next]_vars
             PROVE  Abstract!Next \/ UNCHANGED status
  OBVIOUS
<1>1. UNCHANGED job => UNCHANGED status
  BY DEF status
<1>2. CASE UNCHANGED vars
  BY <1>1, <1>2 DEF vars
<1>3. CASE Request
  <2>1. CASE OrderlyEnqueue
    BY <2>1, SubmitMaps DEF Abstract!Next
  <2>2. CASE TrackDrop
    BY <1>1, <2>2 DEF TrackDrop
  <2>3. CASE QuietDelete
    BY <2>3, RemoveMaps DEF QuietDelete, Abstract!Next
  <2> QED BY <1>3, <2>1, <2>2, <2>3, CalmRequests
<1>4. ASSUME NEW w \in Workers, Dispatch(w) \/ ProcessTrackJob(w)
      PROVE  Abstract!Next \/ UNCHANGED status
  BY <1>1, <1>4, StartMaps, ProcessMaps DEF Abstract!Next
<1>5. ASSUME NEW m \in Matchers, ManualMatch(m) \/ \E t \in Tracks : MatchStart(m, t)
      PROVE  FALSE
  BY <1>5 DEF ManualMatch, MatchStart, MatchFailed, MatchRaises, MatchCompleted, Calm, Disruptive,
              CalmInv, Undisturbed
<1>6. CASE Restart
  BY <1>6, RecoverMaps DEF Abstract!Next
<1> QED BY <1>2, <1>3, <1>4, <1>5, <1>6 DEF Next, System, Outside

\* A calm queue does what JobQueue promises of the rows that the queue page
\* and the SABnzbd emulation read: it starts the oldest queued job, never more
\* jobs than there are threads, and loses or reorders none, for any number of
\* jobs and threads.
THEOREM RefinesJobQueue == Calm => (Spec => Abstract!Safety)
<1> SUFFICES ASSUME Calm PROVE Spec => Abstract!Safety
  OBVIOUS
<1>1. Init => Abstract!Init
  BY DEF Init, Abstract!Init, NoJob
<1>2. CalmInv /\ DownloadingHasFuture /\ [Next]_vars => [Abstract!Next]_status
  BY StepMaps
<1>3. Spec => []CalmInv
  <2>1. (Calm => CalmInv) => CalmInv
    OBVIOUS
  <2> QED BY <2>1, CalmInvariant, PTL
<1> QED BY <1>1, <1>2, <1>3, DownloadingCovered, PTL DEF Spec, Abstract!Safety, status

=============================================================================
