-------------------------- MODULE MCDownloadQueue --------------------------
(* TLC instances of DownloadQueue. *)
EXTENDS DownloadQueue, TLC

CONSTANTS t1, t2, w1, w2, m1

OneTrack == {t1}
TwoTracks == {t1, t2}
OneWorker == {w1}
TwoWorkers == {w1, w2}
OneMatcher == {m1}

CalmRequests == RequestKinds \ Disruptive

\* Rows name tracks and futures by equality only; rowids are numbers and are
\* never permuted.
PoolSymmetry == Permutations(TwoWorkers)
FullSymmetry == Permutations(TwoWorkers) \cup Permutations(TwoTracks)

=============================================================================
