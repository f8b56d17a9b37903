------------------------------ MODULE MCLibrary ------------------------------
(* Instances of Library for TLC.                                           *)
EXTENDS Library, TLC

CONSTANTS t1, t2, j1, m1

\* One track that providers have in two formats.
OneTrack == {t1}
First == t1 :> 1
Upgrade == t1 :> {"opus", "flac"}

\* Two discs with a track of one number each.
TwoTracks == {t1, t2}
SameNumber == t1 :> 1 @@ t2 :> 1
TwoDiscs == t1 :> 1 @@ t2 :> 2
OneFormat == t1 :> {"opus"} @@ t2 :> {"opus"}

=============================================================================
