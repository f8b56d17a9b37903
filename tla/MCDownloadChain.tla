-------------------------- MODULE MCDownloadChain ---------------------------
(* Two tracks of one recording, and three kinds of files: the track, a piece *)
(* of it, and an untagged file that only a fingerprint can judge.            *)
EXTENDS DownloadChain

CONSTANTS j1, j2

Right == [tags |-> "right", fits |-> TRUE]
Piece == [tags |-> "right", fits |-> FALSE]
Bare == [tags |-> "none", fits |-> TRUE]

MCJobs == {j1, j2}
MCTwins == {<<j1, j2>>}
MCAudio == {Piece, Bare}
MCTries == [p \in {SpotiFLAC, YtDlp} |-> IF p = SpotiFLAC THEN 2 ELSE 1]
MCEnabled == {{}, {SpotiFLAC, YtDlp}}
MCHeard == [a \in MCAudio |->
    IF a = Bare THEN {{}, {"agrees"}, {"contradicts"}} ELSE {{}}]
=============================================================================
