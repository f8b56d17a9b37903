------------------------ MODULE DownloadQueue_proofs ------------------------
(***************************************************************************)
(* What holds of the download queue for any tracks, any pool, any number   *)
(* of rowids and any choice of requests and faults.                        *)
(***************************************************************************)
EXTENDS DownloadQueue, Extremes_proofs, TLAPS

-----------------------------------------------------------------------------
(* The queue picks rows with Min.                                          *)

LEMMA MinOfIds ==
    ASSUME NEW S \in SUBSET JobIds, S # {}
    PROVE  Min(S) \in S /\ \A x \in S : Min(S) =< x
<1>1. JobIds \subseteq Int /\ IsFiniteSet(JobIds)
  BY MaxJobIdAssumption, FS_Interval DEF JobIds
<1>2. S \in SUBSET Int /\ IsFiniteSet(S)
  BY <1>1, FS_Subset
<1> QED BY <1>2, MinOfNumbers

-----------------------------------------------------------------------------
(* Facts about the tables that the steps below share.                      *)

LEMMA RowsTyped ==
    ASSUME TypeOK, NEW j \in Rows
    PROVE  /\ j \in JobIds
           /\ job[j].status \in JobStatus
           /\ job[j].track \in Tracks
           /\ \A s \in JobStatus : [job[j] EXCEPT !.status = s] \in JobRow
BY DEF TypeOK, Rows, JobRow, JobStatus, NoJob

LEMMA FirstJobIsRow ==
    ASSUME TypeOK, NEW t, HasJob(t)
    PROVE  FirstJob(t) \in Rows /\ job[FirstJob(t)].track = t
<1>1. JobsOf(t) \in SUBSET JobIds /\ JobsOf(t) # {}
  BY DEF HasJob, JobsOf, Rows
<1>2. FirstJob(t) \in JobsOf(t)
  BY <1>1, MinOfIds DEF FirstJob
<1> QED BY <1>2 DEF JobsOf

LEMMA BijectionsAreFunctions ==
    ASSUME NEW S, NEW T, NEW f \in Bijection(S, T)
    PROVE  f \in [S -> T]
BY DEF Bijection, Injection, Surjection

\* A track row stays one when a status or an error text is written to it.
LEMMA TrackRowsTyped ==
    ASSUME NEW r \in TrackRow, NEW s \in TrackStatus
    PROVE  /\ [r EXCEPT !.status = s] \in TrackRow
           /\ [r EXCEPT !.status = s, !.err = FALSE] \in TrackRow
           /\ [r EXCEPT !.status = s, !.err = TRUE] \in TrackRow
BY DEF TrackRow

LEMMA FlushedTyped ==
    ASSUME NEW loaded \in TrackRow \cup {Expired}, NEW new \in TrackRow, NEW row \in TrackRow
    PROVE  /\ Flushed(loaded, new, row) \in TrackRow
           /\ [Flushed(loaded, new, row) EXCEPT !.err = TRUE] \in TrackRow
<1> DEFINE base == IF loaded = Expired THEN row ELSE loaded
           f == Flushed(loaded, new, row)
<1>1. (IF new.status = base.status THEN row.status ELSE new.status) \in TrackStatus
  BY DEF TrackRow
<1>2. (IF new.down = base.down THEN row.down ELSE new.down) \in BOOLEAN
  BY Zenon DEF TrackRow
<1>3. (IF new.err = base.err THEN row.err ELSE new.err) \in BOOLEAN
  BY Zenon DEF TrackRow
<1>4. f \in TrackRow
  BY <1>1, <1>2, <1>3, Zenon DEF Flushed, TrackRow
<1> QED BY <1>4 DEF TrackRow

-----------------------------------------------------------------------------
(* Type correctness, one lemma per group of actions.                       *)

LEMMA InitTyped == Init => TypeOK
<1> SUFFICES ASSUME Init PROVE TypeOK
  OBVIOUS
<1> USE DEF Init
<1>1. job \in [JobIds -> JobRow]
  BY DEF JobRow
<1>2. track \in [Tracks -> TrackRow]
  <2> DEFINE rows == {[status |-> "missing", down |-> FALSE, err |-> FALSE],
                      [status |-> "completed", down |-> TRUE, err |-> FALSE]}
  <2>1. rows \subseteq TrackRow
    BY DEF TrackRow, TrackStatus
  <2>2. track \in [Tracks -> rows]
    OBVIOUS
  <2> HIDE DEF rows
  <2> QED BY <2>1, <2>2
<1>3. worker \in [Workers -> Future \cup {Idle}]
  OBVIOUS
<1> QED BY <1>1, <1>2, <1>3 DEF TypeOK

\* Rows are added for the tracks of fresh under new ids, and other rows get
\* another status: the table keeps its type.
LEMMA EnqueuedRowsTyped ==
    ASSUME TypeOK, NEW fresh \in SUBSET Tracks, NEW new \in SUBSET JobIds,
           NEW rows \in Bijection(new, fresh), NEW again \in SUBSET Rows
    PROVE  [j \in JobIds |->
              IF j \in new THEN [status |-> "queued", track |-> rows[j]]
              ELSE IF j \in again THEN [job[j] EXCEPT !.status = "queued"]
              ELSE job[j]] \in [JobIds -> JobRow]
<1>1. \A j \in new : [status |-> "queued", track |-> rows[j]] \in JobRow
  BY BijectionsAreFunctions DEF JobRow, JobStatus, Active
<1>2. \A j \in again : [job[j] EXCEPT !.status = "queued"] \in JobRow
  BY RowsTyped DEF JobStatus, Active
<1> QED BY <1>1, <1>2 DEF TypeOK

LEMMA EnqueueTyped ==
    ASSUME TypeOK, NEW again \in SUBSET Rows, NEW fresh \in SUBSET Tracks,
           NEW queuedTracks, Enqueue(again, fresh, queuedTracks)
    PROVE  TypeOK'
<1>1. job' \in [JobIds -> JobRow]
  <2> DEFINE new == NewIds(Cardinality(fresh))
  <2>1. new \in SUBSET JobIds
    BY DEF Enqueue
  <2>2. PICK rows \in Bijection(new, fresh) :
           job' = [j \in JobIds |->
                     IF j \in new THEN [status |-> "queued", track |-> rows[j]]
                     ELSE IF j \in again THEN [job[j] EXCEPT !.status = "queued"]
                     ELSE job[j]]
    BY DEF Enqueue
  <2> HIDE DEF new
  <2> QED BY <2>1, <2>2, EnqueuedRowsTyped
<1>2. track' \in [Tracks -> TrackRow]
  BY TrackRowsTyped DEF Enqueue, TypeOK, TrackStatus
<1> QED BY <1>1, <1>2 DEF Enqueue, TypeOK

LEMMA RequestTyped == TypeOK /\ Request => TypeOK'
<1> SUFFICES ASSUME TypeOK, Request PROVE TypeOK'
  OBVIOUS
<1>0. ASSUME NEW S \in SUBSET Tracks, QueueTracks(S) PROVE TypeOK'
  <2>1. {FirstJob(t) : t \in {u \in S : HasJob(u) /\ job[FirstJob(u)].status \in Retryable}}
          \in SUBSET Rows
    BY FirstJobIsRow
  <2> QED BY <1>0, <2>1, EnqueueTyped DEF QueueTracks
<1>1. ASSUME NEW t \in Tracks, QueueTrack(t) PROVE TypeOK'
  BY <1>0, <1>1 DEF QueueTrack
<1>2. CASE QueueAlbum
  BY <1>0, <1>2 DEF QueueAlbum
<1>3. CASE QueueArtistMissing
  BY <1>0, <1>3 DEF QueueArtistMissing
<1>4. ASSUME NEW S \in SUBSET Tracks, QueueGrab(S) PROVE TypeOK'
  <2>1. job' \in [JobIds -> JobRow]
    <3> DEFINE fresh == {t \in S : \A j \in JobsOf(t) : job[j].status # "queued"}
               new == NewIds(Cardinality(fresh))
    <3>1. new \in SUBSET JobIds /\ fresh \in SUBSET Tracks /\ {} \in SUBSET Rows
      BY <1>4 DEF QueueGrab
    <3>2. PICK rows \in Bijection(new, fresh) :
             job' = [j \in JobIds |->
                       IF j \in new THEN [status |-> "queued", track |-> rows[j]]
                       ELSE job[j]]
      BY <1>4 DEF QueueGrab
    <3> HIDE DEF fresh, new
    <3> QED BY <3>1, <3>2, BijectionsAreFunctions DEF JobRow, JobStatus, Active, TypeOK
  <2>2. track' \in [Tracks -> TrackRow]
    BY <1>4, TrackRowsTyped DEF QueueGrab, TypeOK, TrackStatus
  <2> QED BY <1>4, <2>1, <2>2 DEF QueueGrab, TypeOK
<1>5. ASSUME NEW t \in Tracks, CancelTrack(t) PROVE TypeOK'
  <2> DEFINE live == {j \in JobsOf(t) : job[j].status \in Active}
  <2>1. live \in SUBSET JobIds
    BY DEF JobsOf, Rows
  <2>2. live # {} => Min(live) \in JobIds
    <3> HIDE DEF live
    <3> QED BY <2>1, MinOfIds
  <2>3. track' \in [Tracks -> TrackRow]
    BY <1>5, TrackRowsTyped DEF CancelTrack, TypeOK, TrackStatus
  <2> QED BY <1>5, <2>2, <2>3 DEF CancelTrack, TypeOK
<1>6. ASSUME NEW t \in Tracks, DeleteTrack(t) PROVE TypeOK'
  BY <1>6 DEF DeleteTrack, TypeOK, TrackRow, TrackStatus
<1>7. ASSUME NEW j \in JobIds, CancelJob(j) PROVE TypeOK'
  BY <1>7 DEF CancelJob, TypeOK
<1>8. ASSUME NEW j \in JobIds, PluginCancel(j) PROVE TypeOK'
  BY <1>8, RowsTyped DEF PluginCancel, TypeOK, JobStatus, Retryable
<1>9. ASSUME NEW j \in JobIds, RetryJob(j) PROVE TypeOK'
  BY <1>9, EnqueueTyped DEF RetryJob
<1>10. ASSUME NEW j \in JobIds, DeleteJob(j) PROVE TypeOK'
  BY <1>10 DEF DeleteJob, TypeOK, JobRow
<1>11. CASE RetryAllFailed
  <2> DEFINE jobs == {j \in Rows : job[j].status \in Retryable}
             first == {job[j].track : j \in jobs}
             second == {t \in Tracks \ first : \/ track[t].status = "failed"
                                               \/ ~track[t].down /\ track[t].err}
             again == jobs \cup {FirstJob(t) : t \in {u \in second : HasJob(u)}}
             fresh == {t \in second : ~HasJob(t)}
  <2>1. again \in SUBSET Rows
    BY FirstJobIsRow
  <2>2. fresh \in SUBSET Tracks
    OBVIOUS
  <2>3. Enqueue(again, fresh, first \cup second)
    BY <1>11 DEF RetryAllFailed
  <2> HIDE DEF again, fresh
  <2> QED BY <2>1, <2>2, <2>3, EnqueueTyped
<1> QED BY <1>1, <1>2, <1>3, <1>4, <1>5, <1>6, <1>7, <1>8, <1>9, <1>10, <1>11 DEF Request

LEMMA DispatchTyped ==
    ASSUME TypeOK, NEW w \in Workers, Dispatch(w)
    PROVE  TypeOK' /\ Min(QueuedJobs) \in QueuedJobs
<1>1. QueuedJobs \in SUBSET JobIds /\ QueuedJobs # {}
  BY DEF QueuedJobs, Rows, Dispatch
<1>2. PICK j \in QueuedJobs : j = Min(QueuedJobs)
  BY <1>1, MinOfIds
<1>3. j \in Rows /\ j \in JobIds
  BY <1>2 DEF QueuedJobs, Rows
<1>4. job' \in [JobIds -> JobRow]
  BY <1>2, <1>3, RowsTyped DEF Dispatch, TypeOK, JobStatus, Active
<1>5. track' \in [Tracks -> TrackRow]
  BY <1>2, <1>3, TrackRowsTyped DEF Dispatch, TypeOK, TrackStatus
<1>6. [Idle EXCEPT !.pc = "submitted", !.job = j] \in Future
  BY <1>3 DEF Idle, Future, RunningPc
<1>7. worker' \in [Workers -> Future \cup {Idle}]
  BY <1>2, <1>6 DEF Dispatch, TypeOK
<1> QED BY <1>2, <1>3, <1>4, <1>5, <1>7 DEF Dispatch, TypeOK

\* The outcome of a cancellation checkpoint, and of a failure.
LEMMA OutcomesTyped ==
    ASSUME TypeOK, NEW w \in Workers, worker[w] # Idle
    PROVE  /\ HandleCancellation(w) => job' \in [JobIds -> JobRow] /\ track' \in [Tracks -> TrackRow]
           /\ \A s \in JobStatus : SetJob(w, s) => job' \in [JobIds -> JobRow]
           /\ worker[w].track \in Tracks => FailedTrack(w) \in TrackRow
<1>1. worker[w] \in Future
  BY DEF TypeOK
<1>4. ASSUME NEW s \in JobStatus, SetJob(w, s) PROVE job' \in [JobIds -> JobRow]
  BY <1>4, RowsTyped DEF SetJob, Rows, TypeOK
<1>2. ASSUME HandleCancellation(w) PROVE job' \in [JobIds -> JobRow]
  BY <1>2, <1>4 DEF HandleCancellation, SetJob, JobStatus, Retryable
<1>3. ASSUME HandleCancellation(w) PROVE track' \in [Tracks -> TrackRow]
  <2>1. CASE worker[w].track \in Tracks
    BY <1>3, <2>1 DEF HandleCancellation, TypeOK, TrackRow, TrackStatus
  <2>2. CASE worker[w].track \notin Tracks
    BY <1>3, <2>2 DEF HandleCancellation, TypeOK
  <2> QED BY <2>1, <2>2
<1>5. ASSUME worker[w].track \in Tracks PROVE FailedTrack(w) \in TrackRow
  <2> DEFINE row == track[worker[w].track]
             base == IF worker[w].seen = Expired THEN row ELSE worker[w].seen
             new == [base EXCEPT !.status = "failed"]
  <2>1. row \in TrackRow
    BY <1>5 DEF TypeOK
  <2>2. base \in TrackRow
    BY <1>1, <2>1 DEF Future
  <2>3. new \in TrackRow
    BY <2>2, TrackRowsTyped DEF TrackStatus
  <2>4. FailedTrack(w) = [Flushed(base, new, row) EXCEPT !.err = TRUE]
    BY DEF FailedTrack
  <2> HIDE DEF row, base, new
  <2> QED BY <2>1, <2>2, <2>3, <2>4, FlushedTyped
<1> QED BY <1>2, <1>3, <1>4, <1>5

LEMMA ProcessTyped ==
    ASSUME TypeOK, NEW w \in Workers, ProcessTrackJob(w)
    PROVE  TypeOK'
<1> DEFINE f == worker[w]
<1>0. f # Idle => f \in Future
  BY DEF TypeOK
<1>a. \A p \in RunningPc \cup {"tail"} : f.pc = p => f # Idle
  BY DEF RunningPc, Idle
<1>b. Idle \in Future \cup {Idle}
  OBVIOUS
<1>1. CASE StartJob(w)
  <2>1. f \in Future
    BY <1>1, <1>0, <1>a DEF StartJob, RunningPc
  <2>2. ASSUME job[f.job].status = "downloading"
        PROVE  [f EXCEPT !.pc = "lookup", !.track = job[f.job].track,
                         !.seen = track[job[f.job].track]] \in Future
    <3>1. f.job \in Rows
      BY <2>1, <2>2 DEF Future, Rows, NoJob
    <3>2. job[f.job].track \in Tracks
      BY <3>1, RowsTyped
    <3>3. track[job[f.job].track] \in TrackRow
      BY <3>2 DEF TypeOK
    <3> QED BY <2>1, <3>2, <3>3 DEF Future, RunningPc
  <2> QED BY <1>1, <2>2 DEF StartJob, TypeOK
<1>2. CASE LookupDone(w)
  <2>1. f \in Future /\ f # Idle
    BY <1>2, <1>0, <1>a DEF LookupDone, RunningPc
  <2>2. CASE f.job \in cancelRequested
    BY <1>2, <2>1, <2>2, OutcomesTyped DEF LookupDone, TypeOK
  <2>3. CASE f.job \notin cancelRequested
    <3>1. ASSUME NEW seen \in {f.seen, Expired}
          PROVE  [f EXCEPT !.pc = "setup", !.seen = seen] \in Future
      BY <2>1 DEF Future, RunningPc
    <3>2. worker' \in [Workers -> Future \cup {Idle}]
      BY <1>2, <2>3, <3>1 DEF LookupDone, TypeOK
    <3> QED BY <1>2, <2>3, <3>2 DEF LookupDone, TypeOK
  <2> QED BY <2>2, <2>3
<1>3. CASE SetupDone(w)
  <2>1. f \in Future
    BY <1>3, <1>0, <1>a DEF SetupDone, RunningPc
  <2>2. [f EXCEPT !.pc = "chain"] \in Future /\ f.job \in JobIds
    BY <2>1 DEF Future, RunningPc
  <2> QED BY <1>3, <2>2 DEF SetupDone, TypeOK
<1>4. CASE ChainCancelled(w)
  <2>1. f # Idle
    BY <1>4, <1>a DEF ChainCancelled, RunningPc
  <2> QED BY <1>4, <2>1, OutcomesTyped DEF ChainCancelled, LeaveNow, TypeOK
<1>5. CASE FinishCompleted(w)
  <2>1. f # Idle /\ f \in Future
    BY <1>5, <1>0, <1>a DEF FinishCompleted, RunningPc
  <2>2. job' \in [JobIds -> JobRow]
    BY <1>5, <2>1, OutcomesTyped DEF FinishCompleted, JobStatus
  <2>3. [status |-> "completed", down |-> TRUE, err |-> FALSE] \in TrackRow
    BY DEF TrackRow, TrackStatus
  <2>4. f.seen \in TrackRow \cup {Expired}
    BY <2>1 DEF Future
  <2>5. track' \in [Tracks -> TrackRow]
    BY <1>5, <2>3, <2>4, FlushedTyped DEF FinishCompleted, TypeOK
  <2>6. [f EXCEPT !.pc = "tail", !.track = NoTrack, !.seen = Expired] \in Future
    BY <2>1 DEF Future
  <2>7. worker' \in [Workers -> Future \cup {Idle}]
    BY <1>5, <2>6 DEF FinishCompleted, TypeOK
  <2> QED BY <1>5, <2>2, <2>5, <2>7 DEF FinishCompleted, TypeOK
<1>6. CASE FinishFailed(w)
  <2>1. f # Idle /\ f \in Future
    BY <1>6, <1>0, <1>a DEF FinishFailed, RunningPc
  <2>2. job' \in [JobIds -> JobRow]
    BY <1>6, <2>1, OutcomesTyped DEF FinishFailed, JobStatus, Retryable
  <2>3. track' \in [Tracks -> TrackRow]
    BY <1>6, <2>1, OutcomesTyped DEF FinishFailed, TypeOK
  <2>4. [f EXCEPT !.pc = "tail", !.track = NoTrack, !.seen = Expired] \in Future
    BY <2>1 DEF Future
  <2>5. worker' \in [Workers -> Future \cup {Idle}]
    BY <1>6, <2>4 DEF FinishFailed, TypeOK
  <2> QED BY <1>6, <2>2, <2>3, <2>5 DEF FinishFailed, TypeOK
<1>7. CASE ChainRaises(w)
  <2>1. f # Idle /\ f \in Future
    BY <1>7, <1>0, <1>a DEF ChainRaises, RunningPc
  <2>2. job' \in [JobIds -> JobRow]
    BY <1>7, <2>1, OutcomesTyped DEF ChainRaises, JobStatus, Retryable
  <2>3. track' \in [Tracks -> TrackRow]
    BY <1>7, <2>1, OutcomesTyped DEF ChainRaises, TypeOK
  <2> QED BY <1>7, <2>2, <2>3 DEF ChainRaises, LeaveNow, TypeOK
<1>8. CASE CommitRaises(w)
  <2>1. f \in Future
    BY <1>8, <1>0, <1>a DEF CommitRaises, RunningPc
  <2>2. f.job \in JobIds
    BY <2>1 DEF Future
  <2> QED BY <1>8, <2>2 DEF CommitRaises, LeaveNow, TypeOK
<1>9. CASE FinishTail(w)
  BY <1>9 DEF FinishTail, LeaveNow, TypeOK
<1> QED BY <1>1, <1>2, <1>3, <1>4, <1>5, <1>6, <1>7, <1>8, <1>9 DEF ProcessTrackJob

LEMMA MatchTyped ==
    ASSUME TypeOK, NEW m \in Matchers,
           ManualMatch(m) \/ \E t \in Tracks : MatchStart(m, t)
    PROVE  TypeOK'
<1>1. ASSUME NEW t \in Tracks, MatchStart(m, t) PROVE TypeOK'
  BY <1>1, TrackRowsTyped DEF MatchStart, TypeOK, TrackStatus
<1>2. CASE MatchFailed(m)
  BY <1>2, TrackRowsTyped DEF MatchFailed, TypeOK, TrackStatus
<1>3. CASE MatchRaises(m)
  BY <1>3 DEF MatchRaises, TypeOK
<1>4. CASE MatchCompleted(m)
  <2>2. job' \in [JobIds -> JobRow]
    BY <1>4, FirstJobIsRow, RowsTyped DEF MatchCompleted, TypeOK, JobStatus
  <2>3. track' \in [Tracks -> TrackRow]
    BY <1>4 DEF MatchCompleted, TypeOK, TrackRow, TrackStatus
  <2> QED BY <1>4, <2>2, <2>3 DEF MatchCompleted, TypeOK
<1> QED BY <1>1, <1>2, <1>3, <1>4 DEF ManualMatch

LEMMA RestartTyped == TypeOK /\ Restart => TypeOK'
<1> SUFFICES ASSUME TypeOK, Restart PROVE TypeOK'
  OBVIOUS
<1>1. job' \in [JobIds -> JobRow]
  BY RowsTyped DEF Restart, TypeOK, JobStatus, Active
<1>2. track' \in [Tracks -> TrackRow]
  BY TrackRowsTyped DEF Restart, TypeOK, TrackStatus
<1> QED BY <1>1, <1>2 DEF Restart, TypeOK

LEMMA StepTyped == TypeOK /\ [Next]_vars => TypeOK'
<1> SUFFICES ASSUME TypeOK, [Next]_vars PROVE TypeOK'
  OBVIOUS
<1>1. CASE UNCHANGED vars
  BY <1>1 DEF TypeOK, vars
<1>2. CASE Next
  BY <1>2, DispatchTyped, ProcessTyped, MatchTyped, RequestTyped, RestartTyped
    DEF Next, System, Outside
<1> QED BY <1>1, <1>2

\* Every row, future and request of every reachable state is one the source
\* can write: no lookup in the tables leaves their domain, no status is
\* written that the queue page does not know.
THEOREM TypeCorrect == Spec => []TypeOK
BY InitTyped, StepTyped, PTL DEF Spec

-----------------------------------------------------------------------------
(* DownloadingHasFuture is inductive together with the types: Dispatch is  *)
(* the only action that writes "downloading" in a job, and each way a      *)
(* future has of ceasing to run either writes the row or adds it to        *)
(* stranded.                                                               *)

Covered(j) == j \in stranded \/ \E w \in Workers : Running(w) /\ worker[w].job = j

\* A future w that moves on without being lost, or is lost in a way that
\* strands or ends its job, leaves every other job as covered as it was.
LEMMA FutureSteps ==
    ASSUME TypeOK, DownloadingHasFuture, NEW w \in Workers,
           \A v \in Workers \ {w} : worker'[v] = worker[v],
           stranded \subseteq stranded',
           \A j \in JobIds : job'[j].status = "downloading" => job[j].status = "downloading",
           Running(w) => \/ Running(w)' /\ worker'[w].job = worker[w].job
                         \/ job'[worker[w].job].status # "downloading"
                         \/ worker[w].job \in stranded'
    PROVE  DownloadingHasFuture'
<1> SUFFICES ASSUME NEW j \in JobIds, job'[j].status = "downloading"
             PROVE  Covered(j)'
  BY DEF DownloadingHasFuture, Covered
<1>1. Covered(j)
  BY DEF DownloadingHasFuture, Covered
<1>2. CASE j \in stranded
  BY <1>2 DEF Covered
<1>3. ASSUME NEW v \in Workers, Running(v), worker[v].job = j PROVE Covered(j)'
  <2>1. CASE v = w
    BY <1>3, <2>1 DEF Covered
  <2>2. CASE v # w
    BY <1>3, <2>2 DEF Covered, Running
  <2> QED BY <2>1, <2>2
<1> QED BY <1>1, <1>2, <1>3 DEF Covered

\* Steps of requests and manual matches start nothing and stop nothing.
LEMMA OtherSteps ==
    ASSUME DownloadingHasFuture, UNCHANGED <<worker, stranded>>,
           \A j \in JobIds : job'[j].status = "downloading" => job[j].status = "downloading"
    PROVE  DownloadingHasFuture'
BY DEF DownloadingHasFuture, Running

LEMMA EnqueueStartsNothing ==
    ASSUME TypeOK, NEW again, NEW fresh, NEW queuedTracks,
           Enqueue(again, fresh, queuedTracks)
    PROVE  /\ UNCHANGED <<worker, stranded>>
           /\ \A j \in JobIds : job'[j].status = "downloading" => job[j].status = "downloading"
<1> DEFINE new == NewIds(Cardinality(fresh))
<1>1. PICK rows \in Bijection(new, fresh) :
         job' = [j \in JobIds |->
                   IF j \in new THEN [status |-> "queued", track |-> rows[j]]
                   ELSE IF j \in again THEN [job[j] EXCEPT !.status = "queued"]
                   ELSE job[j]]
  BY DEF Enqueue
<1>2. ASSUME NEW j \in JobIds, job'[j].status = "downloading"
      PROVE  job[j].status = "downloading"
  <2>1. DOMAIN job[j] = {"status", "track"}
    BY DEF TypeOK, JobRow, NoJob
  <2> HIDE DEF new
  <2> QED BY <1>1, <1>2, <2>1
<1> QED BY <1>2 DEF Enqueue

LEMMA RequestStartsNothing ==
    ASSUME TypeOK, Request
    PROVE  /\ UNCHANGED <<worker, stranded>>
           /\ \A j \in JobIds : job'[j].status = "downloading" => job[j].status = "downloading"
<1> DEFINE Goal == /\ UNCHANGED <<worker, stranded>>
                   /\ \A j \in JobIds : job'[j].status = "downloading"
                                          => job[j].status = "downloading"
<1>0. \A j \in JobIds : job[j] \in JobRow /\ DOMAIN job[j] = {"status", "track"}
  BY DEF TypeOK, JobRow, NoJob
<1>1. ASSUME NEW S \in SUBSET Tracks, QueueTracks(S) PROVE Goal
  BY <1>1, EnqueueStartsNothing DEF QueueTracks
<1>2. ASSUME NEW t \in Tracks, QueueTrack(t) PROVE Goal
  BY <1>1, <1>2 DEF QueueTrack
<1>3. CASE QueueAlbum
  BY <1>1, <1>3 DEF QueueAlbum
<1>4. CASE QueueArtistMissing
  BY <1>1, <1>4 DEF QueueArtistMissing
<1>5. ASSUME NEW S \in SUBSET Tracks, QueueGrab(S) PROVE Goal
  <2> DEFINE fresh == {t \in S : \A j \in JobsOf(t) : job[j].status # "queued"}
             new == NewIds(Cardinality(fresh))
  <2>1. PICK rows \in Bijection(new, fresh) :
           job' = [j \in JobIds |->
                     IF j \in new THEN [status |-> "queued", track |-> rows[j]]
                     ELSE job[j]]
    BY <1>5 DEF QueueGrab
  <2>2. UNCHANGED <<worker, stranded>>
    BY <1>5 DEF QueueGrab
  <2> HIDE DEF new, fresh
  <2> QED BY <2>1, <2>2
<1>6. ASSUME NEW t \in Tracks, CancelTrack(t) PROVE Goal
  BY <1>6 DEF CancelTrack
<1>7. ASSUME NEW t \in Tracks, DeleteTrack(t) PROVE Goal
  BY <1>7 DEF DeleteTrack
<1>8. ASSUME NEW j \in JobIds, CancelJob(j) PROVE Goal
  BY <1>8 DEF CancelJob
<1>9. ASSUME NEW j \in JobIds, PluginCancel(j) PROVE Goal
  BY <1>9, <1>0 DEF PluginCancel, TypeOK
<1>10. ASSUME NEW j \in JobIds, RetryJob(j) PROVE Goal
  BY <1>10, EnqueueStartsNothing DEF RetryJob
<1>11. ASSUME NEW j \in JobIds, DeleteJob(j) PROVE Goal
  BY <1>11, <1>0 DEF DeleteJob, TypeOK, NoJob
<1>12. CASE RetryAllFailed
  BY <1>12, EnqueueStartsNothing DEF RetryAllFailed
<1> QED BY <1>2, <1>3, <1>4, <1>5, <1>6, <1>7, <1>8, <1>9, <1>10, <1>11, <1>12 DEF Request

LEMMA DispatchCovers ==
    ASSUME TypeOK, DownloadingHasFuture, NEW w \in Workers, Dispatch(w)
    PROVE  DownloadingHasFuture'
<1> DEFINE i == Min(QueuedJobs)
<1>0. i \in JobIds /\ job[i].status = "queued"
  BY DispatchTyped DEF QueuedJobs, Rows
<1>1. \A j \in JobIds \ {i} : job'[j] = job[j]
  BY DEF Dispatch
<1>2. ~Running(w)
  BY DEF Dispatch, Running, Idle, RunningPc
<1>3. \A v \in Workers \ {w} : worker'[v] = worker[v]
  BY DEF Dispatch, TypeOK
<1> SUFFICES ASSUME NEW j \in JobIds, job'[j].status = "downloading" PROVE Covered(j)'
  BY DEF DownloadingHasFuture, Covered
<1>4. CASE j = i
  <2>1. CASE stranded' = stranded \cup {i}
    BY <1>4, <2>1 DEF Covered
  <2>2. CASE worker' = [worker EXCEPT ![w] = [Idle EXCEPT !.pc = "submitted", !.job = i]]
    BY <1>4, <2>2 DEF Covered, Running, RunningPc, Idle, TypeOK
  <2> QED BY <2>1, <2>2 DEF Dispatch
<1>5. CASE j # i
  <2>1. Covered(j)
    BY <1>1, <1>5 DEF DownloadingHasFuture, Covered
  <2>2. j \in stranded => j \in stranded'
    BY <1>5 DEF Dispatch
  <2>3. \A v \in Workers : Running(v) => Running(v)' /\ worker'[v].job = worker[v].job
    BY <1>2, <1>3 DEF Running
  <2> QED BY <2>1, <2>2, <2>3 DEF Covered
<1> QED BY <1>4, <1>5

LEMMA ProcessCovers ==
    ASSUME TypeOK, DownloadingHasFuture, NEW w \in Workers, ProcessTrackJob(w)
    PROVE  DownloadingHasFuture'
<1> DEFINE f == worker[w]
           Safe == /\ \A v \in Workers \ {w} : worker'[v] = worker[v]
                   /\ stranded \subseteq stranded'
                   /\ \A j \in JobIds : job'[j].status = "downloading"
                                          => job[j].status = "downloading"
                   /\ Running(w) => \/ Running(w)' /\ worker'[w].job = f.job
                                    \/ job'[f.job].status # "downloading"
                                    \/ f.job \in stranded'
<1> SUFFICES Safe
  BY FutureSteps
<1>0. \A j \in JobIds : DOMAIN job[j] = {"status", "track"}
  BY DEF TypeOK, JobRow, NoJob
<1>a. Running(w) => f.job \in JobIds /\ f \in Future
  BY DEF TypeOK, Running, RunningPc, Idle, Future
<1>b. NoJob.status # "downloading"
  BY DEF NoJob
\* A future that writes its row as anything but downloading covers nothing.
<1>c. ASSUME NEW s \in {"cancelled", "completed", "failed"},
             job' = [j \in JobIds |-> IF j = f.job /\ job[j] # NoJob
                                      THEN [job[j] EXCEPT !.status = s] ELSE job[j]]
      PROVE  /\ \A j \in JobIds : job'[j].status = "downloading" => job[j].status = "downloading"
             /\ Running(w) => job'[f.job].status # "downloading"
  BY <1>0, <1>a, <1>b, <1>c
<1>d. /\ \A v \in Workers \ {w} : worker'[v] = worker[v]
      /\ stranded \subseteq stranded'
  BY DEF TypeOK, ProcessTrackJob, StartJob, LookupDone, SetupDone, ChainCancelled,
         FinishCompleted, FinishFailed, ChainRaises, CommitRaises, FinishTail, LeaveNow
<1>1. CASE StartJob(w)
  BY <1>1, <1>a, <1>d DEF StartJob, Running, RunningPc, TypeOK
<1>2. CASE LookupDone(w)
  <2>1. CASE f.job \in cancelRequested
    BY <1>2, <2>1, <1>c, <1>d DEF LookupDone, HandleCancellation
  <2>2. CASE f.job \notin cancelRequested
    BY <1>2, <2>2, <1>a, <1>d DEF LookupDone, Running, RunningPc, TypeOK, Future
  <2> QED BY <2>1, <2>2
<1>3. CASE SetupDone(w)
  BY <1>3, <1>a, <1>d DEF SetupDone, Running, RunningPc, TypeOK, Future
<1>4. CASE ChainCancelled(w)
  BY <1>4, <1>c, <1>d DEF ChainCancelled, LeaveNow, HandleCancellation
<1>5. CASE FinishCompleted(w)
  BY <1>5, <1>c, <1>d DEF FinishCompleted, SetJob
<1>6. CASE FinishFailed(w)
  BY <1>6, <1>c, <1>d DEF FinishFailed, SetJob
<1>7. CASE ChainRaises(w)
  BY <1>7, <1>c, <1>d DEF ChainRaises, LeaveNow, SetJob
<1>8. CASE CommitRaises(w)
  BY <1>8, <1>b, <1>d DEF CommitRaises, LeaveNow
<1>9. CASE FinishTail(w)
  BY <1>9, <1>d DEF FinishTail, LeaveNow, Running, RunningPc
<1> QED BY <1>1, <1>2, <1>3, <1>4, <1>5, <1>6, <1>7, <1>8, <1>9 DEF ProcessTrackJob

LEMMA MatchCovers ==
    ASSUME TypeOK, DownloadingHasFuture, NEW m \in Matchers,
           ManualMatch(m) \/ \E t \in Tracks : MatchStart(m, t)
    PROVE  DownloadingHasFuture'
<1>0. \A j \in JobIds : DOMAIN job[j] = {"status", "track"}
  BY DEF TypeOK, JobRow, NoJob
<1>1. UNCHANGED <<worker, stranded>>
  BY DEF ManualMatch, MatchStart, MatchFailed, MatchRaises, MatchCompleted
<1>2. CASE UNCHANGED job
  BY <1>1, <1>2, OtherSteps
<1>3. CASE MatchCompleted(m)
  <2>1. \A j \in JobIds : job'[j].status = "downloading" => job[j].status = "downloading"
    BY <1>0, <1>3 DEF MatchCompleted
  <2> QED BY <1>1, <2>1, OtherSteps
<1> QED BY <1>2, <1>3 DEF ManualMatch, MatchStart, MatchFailed, MatchRaises

LEMMA RestartCovers ==
    ASSUME TypeOK, Restart
    PROVE  DownloadingHasFuture'
<1> SUFFICES ASSUME NEW j \in JobIds PROVE job'[j].status # "downloading"
  BY DEF DownloadingHasFuture
<1>1. DOMAIN job[j] = {"status", "track"}
  BY DEF TypeOK, JobRow, NoJob
<1>2. job[j].status = "downloading" => j \in Rows
  BY DEF Rows, NoJob
<1> QED BY <1>1, <1>2 DEF Restart

\* A job row that says "downloading" has a future that will still write it,
\* unless an exception outside the try block took that future away: for any
\* number of tracks, threads and rowids, and under every kind of request.
THEOREM DownloadingCovered == Spec => []DownloadingHasFuture
<1>1. Init => DownloadingHasFuture
  BY DEF Init, DownloadingHasFuture, NoJob
<1>2. TypeOK /\ DownloadingHasFuture /\ [Next]_vars => DownloadingHasFuture'
  <2> SUFFICES ASSUME TypeOK, DownloadingHasFuture, [Next]_vars
               PROVE  DownloadingHasFuture'
    OBVIOUS
  <2>1. CASE UNCHANGED vars
    BY <2>1, OtherSteps DEF vars
  <2>2. CASE Request
    BY <2>2, RequestStartsNothing, OtherSteps
  <2>3. CASE Next /\ ~Request
    BY <2>3, DispatchCovers, ProcessCovers, MatchCovers, RestartCovers
      DEF Next, System, Outside
  <2> QED BY <2>1, <2>2, <2>3
<1> QED BY <1>1, <1>2, TypeCorrect, PTL DEF Spec

-----------------------------------------------------------------------------
(* A track that is in the library leaves it only with DELETE /api/track.   *)

\* The flush of a stale row cannot take is_downloaded back, because no code
\* of a future writes False to it.
LEMMA FlushedKeepsDown ==
    ASSUME NEW w \in Workers, NEW loaded, NEW row, row.down
    PROVE  /\ Flushed(loaded, [status |-> "completed", down |-> TRUE, err |-> FALSE], row).down
           /\ \A base \in TrackRow :
                [Flushed(base, [base EXCEPT !.status = "failed"], row) EXCEPT !.err = TRUE].down
<1>1. Flushed(loaded, [status |-> "completed", down |-> TRUE, err |-> FALSE], row).down
  BY Zenon DEF Flushed
<1>2. ASSUME NEW base \in TrackRow
      PROVE  [Flushed(base, [base EXCEPT !.status = "failed"], row) EXCEPT !.err = TRUE].down
  <2> DEFINE new == [base EXCEPT !.status = "failed"]
  <2>1. new.down = base.down
    BY DEF TrackRow
  <2>2. base # Expired
    BY DEF TrackRow, TrackStatus, Expired
  <2>3. Flushed(base, new, row).down
    BY <2>1, <2>2, Zenon DEF Flushed
  <2> QED BY <2>3 DEF Flushed
<1> QED BY <1>1, <1>2

Kept == \A t \in Tracks : track[t].down => track'[t].down

LEMMA EnqueueKeeps ==
    ASSUME TypeOK, NEW again, NEW fresh, NEW q, Enqueue(again, fresh, q)
    PROVE  Kept
BY DEF Kept, Enqueue, TypeOK, TrackRow

LEMMA RequestKeeps ==
    ASSUME TypeOK, Request, \A t \in Tracks : ~DeleteTrack(t)
    PROVE  Kept
<1> USE DEF Kept
<1>1. ASSUME NEW S \in SUBSET Tracks, QueueTracks(S) PROVE Kept
  BY <1>1, EnqueueKeeps DEF QueueTracks
<1>2. CASE \E t \in Tracks : QueueTrack(t)
  BY <1>1, <1>2 DEF QueueTrack
<1>3. CASE QueueAlbum \/ QueueArtistMissing
  BY <1>1, <1>3 DEF QueueAlbum, QueueArtistMissing
<1>4. CASE RetryAllFailed \/ \E j \in JobIds : RetryJob(j)
  BY <1>4, EnqueueKeeps DEF RetryAllFailed, RetryJob
<1>5. ASSUME NEW S \in SUBSET Tracks, QueueGrab(S) PROVE Kept
  BY <1>5 DEF QueueGrab, TypeOK, TrackRow
<1>6. ASSUME NEW t \in Tracks, CancelTrack(t) PROVE Kept
  BY <1>6 DEF CancelTrack, TypeOK, TrackRow
<1>7. ASSUME NEW j \in JobIds, CancelJob(j) \/ PluginCancel(j) \/ DeleteJob(j) PROVE Kept
  BY <1>7 DEF CancelJob, PluginCancel, DeleteJob
<1> QED BY <1>2, <1>3, <1>4, <1>5, <1>6, <1>7 DEF Request

LEMMA ProcessKeeps ==
    ASSUME TypeOK, NEW w \in Workers, ProcessTrackJob(w)
    PROVE  Kept
<1> DEFINE f == worker[w]
<1> SUFFICES ASSUME NEW t \in Tracks, track[t].down PROVE track'[t].down
  BY DEF Kept
<1>0. track[t] \in TrackRow
  BY DEF TypeOK
<1>1. ASSUME HandleCancellation(w) PROVE track'[t].down
  BY <1>0, <1>1 DEF HandleCancellation, TypeOK, TrackRow
<1>2. CASE FinishCompleted(w)
  <2>1. t # f.track => track'[t] = track[t]
    BY <1>2 DEF FinishCompleted, TypeOK
  <2>2. ASSUME t = f.track
        PROVE  track'[t] = Flushed(f.seen, [status |-> "completed", down |-> TRUE,
                                            err |-> FALSE], track[t])
    BY <1>2, <2>2 DEF FinishCompleted, TypeOK
  <2> QED BY <2>1, <2>2, FlushedKeepsDown
<1>3. CASE FinishFailed(w) \/ ChainRaises(w)
  <2>1. t # f.track => track'[t] = track[t]
    BY <1>3 DEF FinishFailed, ChainRaises, TypeOK
  <2>2. t = f.track => track'[t] = FailedTrack(w)
    BY <1>3 DEF FinishFailed, ChainRaises, TypeOK
  <2>3. ASSUME t = f.track PROVE FailedTrack(w).down
    <3> DEFINE base == IF f.seen = Expired THEN track[t] ELSE f.seen
    <3>1. f # Idle
      BY <1>3 DEF FinishFailed, ChainRaises, Idle
    <3>2. base \in TrackRow
      BY <1>0, <3>1 DEF TypeOK, Future
    <3>3. FailedTrack(w) = [Flushed(base, [base EXCEPT !.status = "failed"], track[t])
                              EXCEPT !.err = TRUE]
      BY <2>3 DEF FailedTrack
    <3> HIDE DEF base
    <3> QED BY <3>2, <3>3, FlushedKeepsDown
  <2> QED BY <2>1, <2>2, <2>3
<1>4. CASE UNCHANGED track
  BY <1>4
<1>5. \/ HandleCancellation(w) \/ FinishCompleted(w)
      \/ FinishFailed(w) \/ ChainRaises(w) \/ UNCHANGED track
  BY DEF ProcessTrackJob, StartJob, LookupDone, SetupDone, ChainCancelled, CommitRaises, FinishTail
<1> QED BY <1>1, <1>2, <1>3, <1>4, <1>5

LEMMA OthersKeep ==
    ASSUME TypeOK,
           \/ \E w \in Workers : Dispatch(w)
           \/ \E m \in Matchers : ManualMatch(m) \/ \E t \in Tracks : MatchStart(m, t)
           \/ Restart
    PROVE  Kept
<1> USE DEF Kept, TypeOK, TrackRow
<1>1. ASSUME NEW w \in Workers, Dispatch(w) PROVE Kept
  BY <1>1 DEF Dispatch
<1>2. ASSUME NEW m \in Matchers, NEW t \in Tracks, MatchStart(m, t) PROVE Kept
  BY <1>2 DEF MatchStart
<1>3. ASSUME NEW m \in Matchers, ManualMatch(m) PROVE Kept
  BY <1>3 DEF ManualMatch, MatchFailed, MatchRaises, MatchCompleted
<1>4. CASE Restart
  BY <1>4 DEF Restart
<1> QED BY <1>1, <1>2, <1>3, <1>4

\* No cancellation, failure, second run, stale session or restart makes the
\* program forget a file it has: only the request to delete it does.
THEOREM DownloadedKept == Spec => DownloadedIsKept
<1> DEFINE Deletes == \A t \in Tracks : track[t].down /\ ~track'[t].down => DeleteTrack(t)
<1>1. TypeOK /\ [Next]_vars => [Deletes]_vars
  <2> SUFFICES ASSUME TypeOK, Next PROVE Deletes
    OBVIOUS
  <2>1. CASE \E t \in Tracks : DeleteTrack(t)
    BY <2>1 DEF DeleteTrack, TypeOK
  <2>2. CASE \A t \in Tracks : ~DeleteTrack(t)
    <3>1. Kept
      BY <2>2, RequestKeeps, ProcessKeeps, OthersKeep DEF Next, System, Outside
    <3> QED BY <3>1 DEF Kept
  <2> QED BY <2>1, <2>2
<1> QED BY <1>1, TypeCorrect, PTL DEF Spec, DownloadedIsKept

=============================================================================
