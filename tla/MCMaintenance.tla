---------------------------- MODULE MCMaintenance ----------------------------
(* Instances of Maintenance for TLC.                                       *)
EXTENDS Maintenance, TLC

CONSTANTS A, B, s, b1, b2, z

\* An artist with three rows of one album, two of them in one folder, and the
\* album again under the other artist of a collaboration.
Artist4 == <<A, A, A, B, A>>
Exact4 == <<"x", "x", "x", "x", "unmatched">>
Edition4 == <<"x", "x", "x", "x", "unmatched">>
Folder4 == <<"A/x", "A/x", "A/X", "B/x", "A/unmatched">>
Alike4 == {{a, b} : a, b \in 1..4} \ {{a} : a \in 1..4}
Priority4 == <<1, 2, 1, 1, 0>>
Home4 == <<1, 1, 2, 3, 4, 4>>
Song4 == <<s, b1, b2, s, b1, s>>
Own == s :> "s" @@ b1 :> "b1" @@ b2 :> "b2" @@ z :> "z"
Ranks == "flac" :> 5 @@ "mp3" :> 1
AnyExt == {None, "flac", "mp3"}
First4 == <<AnyExt, {"mp3"}, {"flac"}, AnyExt, {"flac"}, {"mp3"}>>
Loose4 == {[dir |-> "A/in", song |-> s, ext |-> "flac"], [dir |-> "A/in", song |-> z, ext |-> "mp3"]}

\* Two songs without a track whose files have one name, in two folders.
Artist1 == <<A, A>>
Names1 == <<"x", "unmatched">>
Folder1 == <<"A/x", "A/unmatched">>
NoPairs == {}
Priority1 == <<1, 0>>
Home1 == <<1>>
Song1 == <<s>>
First1 == <<{None}>>
Untitled == s :> "s" @@ b1 :> "01" @@ z :> "01"
Loose1 == {[dir |-> "A/one", song |-> b1, ext |-> "mp3"], [dir |-> "A/two", song |-> z, ext |-> "mp3"]}

\* Two albums of one name and one folder, whose rows of one song share a file,
\* and a third of that name with other songs, so that the exact pass leaves
\* them; a variant of the name has a copy of its own.
ArtistS == <<A, A, A, A, A>>
ExactS == <<"x", "y", "x", "x", "unmatched">>
FolderS == <<"A/x", "A/y", "A/x", "A/x", "A/unmatched">>
PriorityS == <<1, 2, 1, 1, 0>>
HomeS == <<1, 2, 3, 3, 4>>
SongS == <<s, s, s, b1, b2>>
FirstS == <<{"mp3"}, {"mp3"}, {"mp3"}, {None}, {None}>>
NoLoose == {}

\* Two rows of one album with a song each in its folder, which the exact pass
\* leaves for a third of that name, and a variant of the name with a copy: the
\* one is folded into the variant, or the variant into them, by what the albums
\* have at the time.
ArtistK == <<A, A, A, A, A, A>>
ExactK == <<"x", "h", "a", "x", "x", "unmatched">>
FolderK == <<"A/x", "A/h", "A/a", "A/x", "A/x", "A/unmatched">>
AlikeK == {{a, b} : a, b \in 1..5} \ {{a} : a \in 1..5}
PriorityK == <<1, 2, 2, 1, 1, 0>>
HomeK == <<1, 2, 3, 3, 4, 4, 5>>
SongK == <<b2, b2, s, b1, s, b1, b1>>
FirstK == <<{None}, {None}, {"mp3"}, {None}, {"mp3"}, {None}, {"mp3"}>>

\* Two spellings of one album with four titles each: three are in both, and the
\* fourth of the second has its own.
ArtistM == <<A, A, A>>
ExactM == <<"x", "x", "unmatched">>
FolderM == <<"A/x", "A/X", "A/unmatched">>
PriorityM == <<1, 1, 0>>
HomeM == <<1, 1, 1, 1, 2, 2, 2, 2>>
SongM == <<1, 2, 3, 4, 1, 2, 3, 5>>
NameM == <<"a", "b", "c", "d", "e">>
FirstM == [r \in 1..8 |-> {"mp3"}]

=============================================================================
