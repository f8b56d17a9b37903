----------------------------- MODULE Maintenance -----------------------------
(***************************************************************************)
(* The library maintenance of services/tag_normalization_service.py, a     *)
(* process of its own, beside the web process.  It folds albums that are   *)
(* one release into one, removing the second copy of a song, and then      *)
(* places every file in the folder of its album.  The web process          *)
(* downloads, deletes, synchronises and imports folders                    *)
(* (services/import_service.py) meanwhile.                                 *)
(*                                                                         *)
(* A merge and the placement change files one by one and write the rows at *)
(* the end, in one commit.  SQLite's write lock is held from their first   *)
(* statement that writes: web commits wait for it, or fail.                *)
(***************************************************************************)
EXTENDS Integers, FiniteSets, FiniteSetsExt, Functions

CONSTANTS
    Albums,         \* album ids of the providers' catalog, numbers
    Unmatched,      \* id of "Unmatched Local Tracks" of the artist imported
    ArtistOf, Exact, Edition, Folder,   \* functions on albums: artist, name up
                    \* to case, up to its edition, and the folder
    Alike,          \* pairs of albums whose names count as spellings of one
    Priority,       \* rank of an album by its source and then its type
    Catalog, Spare, \* ids of tracks: of the catalog and for unmatched files
    Home, Song,     \* functions on Catalog
    Blank,          \* songs whose titles have no Latin letter or digit
    Name, Rank,     \* file names of songs, ranks of suffixes
    Loose,          \* files that no row knows of, there at first or not
    FirstExt,       \* the suffixes a track may have at first; None: missing
    None,
    Requests,       \* what happens in the instance
    MaxEvents       \* bound on those
EverAlbum == Albums \cup {Unmatched}
Rows == Catalog \cup Spare
Exts == DOMAIN Rank
Songs == DOMAIN Name

RequestKinds == {"download", "delete", "userRemove", "sync", "drop", "import", "crash"}

\* The folders of files, and what files, paths and rows are.
Dirs == {Folder[a] : a \in EverAlbum} \cup {f.dir : f \in Loose}
File == [dir : Dirs, song : Songs, ext : Exts]
Path == Dirs \X {Name[n] : n \in Songs} \X Exts
Track == [album : EverAlbum, song : Songs, path : Path \cup {None}]
Table == [Rows -> Track \cup {None}]

ASSUME MntAlbums == EverAlbum \subseteq Nat /\ IsFiniteSet(Albums) /\ Unmatched \notin Albums
ASSUME MntRows == Rows \subseteq Nat /\ IsFiniteSet(Rows) /\ Catalog \cap Spare = {}
ASSUME MntCatalog == Home \in [Catalog -> Albums] /\ Song \in [Catalog -> Songs]
ASSUME MntRanks == Priority \in [EverAlbum -> Int] /\ Rank \in [Exts -> Int]
ASSUME MntLoose == Loose \subseteq File /\ IsFiniteSet(Loose)
ASSUME MntNone == None \notin Exts /\ None \notin Path /\ None \notin Track /\ None \notin File
ASSUME MntRequests == Requests \subseteq RequestKinds /\ Blank \subseteq Songs /\ MaxEvents \in Nat

VARIABLES
    albums,     \* the rows of albums
    row,        \* the rows of tracks
    disk,       \* the audio files
    run,        \* the maintenance process
    download,   \* a web download, with the folder it had at its start
    import,     \* a folder import
    healthy,    \* history: the run began on rows and files in accord, and no
                \* web request changed them since
    events      \* events so far

vars == <<albums, row, disk, run, download, import, healthy, events>>

At(f) == <<f.dir, Name[f.song], f.ext>>
On(d, p) == \E f \in d : At(f) = p
Removed(d, p) == {f \in d : At(f) # p}
Put(d, f) == Removed(d, At(f)) \cup {f}

\* is_downloaded and local_path go together here: a path or None.
MissingRow(r) == [album |-> Home[r], song |-> Song[r], path |-> None]
WithPath(R, r, p) == [R EXCEPT ![r] = [@ EXCEPT !.path = p]]
InAlbum(R, r, a) == [R EXCEPT ![r] = [@ EXCEPT !.album = a]]

TracksOf(R, a) == {r \in Rows : R[r] # None /\ R[r].album = a}
Downloaded(R) == {r \in Rows : R[r] # None /\ R[r].path # None}

\* Every track has its album, every row with a path a file of its song there,
\* every file a row, and rows of one file the same folder.
Accounted(A, R, d) ==
    /\ \A r \in Rows : R[r] # None => R[r].album \in A
    /\ \A r \in Downloaded(R) : \E f \in d : At(f) = R[r].path /\ f.song = R[r].song
    /\ \A f \in d : \E r \in Downloaded(R) : R[r].path = At(f)
    /\ \A r, q \in Downloaded(R) :
        R[r].path = R[q].path => Folder[R[r].album] = Folder[R[q].album]

\* No file has two rows.  Two albums of one folder may bring that about.
Unshared(R) == \A r, q \in Downloaded(R) : R[r].path = R[q].path => r = q

-----------------------------------------------------------------------------
\* Which albums are one release

\* _norm: a title in another script normalises to the empty text.
Key(song) == IF song \in Blank THEN "" ELSE song
Keys(R, a) == {Key(R[r].song) : r \in TracksOf(R, a)}

\* _compatible: at least three quarters of the smaller set are shared.
Compatible(A, B) ==
    /\ A # {} /\ B # {}
    /\ \E n \in {Cardinality(A), Cardinality(B)} :
        n <= Cardinality(A) /\ n <= Cardinality(B) /\ 4 * Cardinality(A \cap B) >= 3 * n

\* _pick_canonical: more titles, then more downloads, then the better source
\* and type, then the older row.
Prefers(R, a, b) ==
    LET Titles(x) == Cardinality(Keys(R, x))
        Files(x) == Cardinality(TracksOf(R, x) \cap Downloaded(R))
    IN  \/ Titles(a) > Titles(b)
        \/ Titles(a) = Titles(b) /\ Files(a) > Files(b)
        \/ /\ Titles(a) = Titles(b) /\ Files(a) = Files(b)
           /\ Priority[a] > Priority[b] \/ (Priority[a] = Priority[b] /\ a < b)
Canonical(R, S) == CHOOSE c \in S : \A a \in S \ {c} : Prefers(R, c, a)

Groups == {<<ArtistOf[a], Exact[a]>> : a \in albums}
InGroup(g) == {a \in albums : <<ArtistOf[a], Exact[a]>> = g}

SameRelease(a, b) == {a, b} \in Alike /\ Compatible(Keys(row, a), Keys(row, b))

\* Pairs of one artist, in pass 2; across artists, with at least two titles
\* each, in pass 3.
Pairs == {p \in (albums \ {Unmatched}) \X (albums \ {Unmatched}) :
            p[1] < p[2] /\ SameRelease(p[1], p[2])}
FuzzyPairs == {p \in Pairs : ArtistOf[p[1]] = ArtistOf[p[2]]}
CrossPairs == {p \in Pairs :
    /\ ArtistOf[p[1]] # ArtistOf[p[2]] /\ Edition[p[1]] = Edition[p[2]]
    /\ \A a \in {p[1], p[2]} : Cardinality(Keys(row, a)) >= 2}
FirstPair(P) ==
    LET i == Min({p[1] : p \in P})
    IN  <<i, Min({p[2] : p \in {q \in P : q[1] = i}})>>

-----------------------------------------------------------------------------
\* The maintenance process

Off == [pc |-> "off"]
Pass(pc, todo) == [pc |-> pc, todo |-> todo]

\* A merge: the rows as loaded, as the session has them now, the tracks still
\* to fold, those moved since the last flush, and those that an album takes
\* along when it goes.
MergeOf(S, back) ==
    LET c == Canonical(row, S)
    IN  [pc |-> "merge", back |-> back, canon |-> c, others |-> S \ {c},
         queue |-> UNION {TracksOf(row, a) : a \in S \ {c}}, unflushed |-> {},
         seen |-> row, new |-> row, gone |-> {}, locked |-> FALSE]

\* They are folded album by album, and by their ids.
Turn ==
    LET a == Min({run.seen[r].album : r \in run.queue})
    IN  Min({r \in run.queue : run.seen[r].album = a})

Locked == run.pc \in {"merge", "place"} /\ run.locked

\* An UPDATE that matches no row raises StaleDataError, and the run is over.
Stale(m) ==
    \E r \in Rows \ m.gone : m.new[r] # None /\ m.new[r] # m.seen[r] /\ row[r] = None

FlushedAlbums(m) ==
    [r \in Rows |-> IF row[r] = None \/ r \in m.gone \/ m.new[r] = None THEN None
                    ELSE [row[r] EXCEPT !.album = m.new[r].album]]

\* A flush writes the columns that differ from the loaded ones.
Flushed(m) ==
    [r \in Rows |->
        IF row[r] = None \/ r \in m.gone \/ (m.seen[r] # None /\ m.new[r] = None) THEN None
        ELSE IF m.seen[r] = None THEN row[r]
        ELSE [album |-> IF m.new[r].album # m.seen[r].album THEN m.new[r].album ELSE row[r].album,
              song |-> row[r].song,
              path |-> IF m.new[r].path # m.seen[r].path THEN m.new[r].path ELSE row[r].path]]

\* The flock lets one run in.
Start ==
    /\ run = Off
    /\ run' = Pass("exact", Groups)
    /\ healthy' = (Accounted(albums, row, disk) /\ Unshared(row))
    /\ UNCHANGED <<albums, row, disk, download, import, events>>

\* Pass 1: albums of an artist with one name, all of them or none.
MergeExact ==
    /\ run.pc = "exact"
    /\ \E g \in run.todo :
        LET S == InGroup(g)
            back == Pass("exact", run.todo \ {g})
        IN  run' = IF /\ Cardinality(S) > 1 /\ Unmatched \notin S
                      /\ \A a \in S : Compatible(Keys(row, a), Keys(row, Canonical(row, S)))
                   THEN MergeOf(S, back) ELSE back
    /\ UNCHANGED <<albums, row, disk, download, import, healthy, events>>

\* Passes 2 and 3 start over after each merge.
MergePair(pc, P) ==
    /\ run.pc = pc /\ P # {}
    /\ LET p == FirstPair(P) IN run' = MergeOf({p[1], p[2]}, Pass(pc, {}))
    /\ UNCHANGED <<albums, row, disk, download, import, healthy, events>>

\* The next pass, and after the last one the placement, with every downloaded
\* track as it is now.
NextPass ==
    /\ \/ run.pc = "exact" /\ run.todo = {} /\ run' = Pass("fuzzy", {})
       \/ run.pc = "fuzzy" /\ FuzzyPairs = {} /\ run' = Pass("cross", {})
       \/ /\ run.pc = "cross" /\ CrossPairs = {}
          /\ run' = [pc |-> "place", todo |-> Downloaded(row),
                     seen |-> row, new |-> row, gone |-> {}, locked |-> FALSE]
    /\ UNCHANGED <<albums, row, disk, download, import, healthy, events>>

\* The canonical album's track with the title of r, never for a blank one.
Twins(r) == {q \in TracksOf(run.new, run.canon) :
    run.new[r].song \notin Blank /\ run.new[q].song = run.new[r].song}

\* With its last track folded album a goes.  Its delete cascade looks up in the
\* table, without a flush, which tracks it has: also those that have moved and
\* are not flushed, which go with it and remain in the session only.  The
\* tracks of the next album are read after a flush.
AlbumFolded(m, a) ==
    LET taken == TracksOf(Flushed(m), a) \cup (m.unflushed \cap TracksOf(row, a))
        folded == [m EXCEPT !.gone = @ \cup taken, !.unflushed = {}]
    IN  IF \E r \in m.queue : m.seen[r].album = a THEN m
        ELSE IF m.queue = {} THEN folded
        ELSE IF Stale(folded) THEN Off ELSE [folded EXCEPT !.locked = TRUE]

\* A title the canonical album does not have moves to it, in the session.
MoveTrack ==
    /\ run.pc = "merge" /\ run.queue # {}
    /\ Twins(Turn) = {}
    /\ run' = AlbumFolded([run EXCEPT !.queue = @ \ {Turn},
                                      !.unflushed = @ \cup {Turn},
                                      !.new = InAlbum(@, Turn, run.canon)],
                          run.seen[Turn].album)
    /\ UNCHANGED <<albums, row, disk, download, import, healthy, events>>

Better(p, q) == Rank[p[3]] > Rank[q[3]]

\* What becomes of the path of the kept row and of the files when a row with
\* path p is folded into one with path k: a missing file is adopted; of two
\* the better stays, the kept row's in a tie, and nobody looks whether it is
\* there.
FoldPathsBlindly(p, k) ==
    IF p = None THEN [keep |-> k, remove |-> None]
    ELSE IF k = None THEN [keep |-> p, remove |-> None]
    ELSE IF Better(p, k) THEN [keep |-> p, remove |-> k]
    ELSE [keep |-> k, remove |-> p]

FoldPaths(p, k) ==
    IF p = None \/ p = k THEN [keep |-> k, remove |-> None]
    ELSE IF k = None THEN [keep |-> p, remove |-> None]
    ELSE IF Better(p, k) THEN [keep |-> p, remove |-> k]
    ELSE [keep |-> k, remove |-> p]

\* A title both have is dropped, with its jobs, whose deletion flushes.
DropTrack ==
    /\ run.pc = "merge" /\ run.queue # {}
    /\ Twins(Turn) # {}
    /\ LET r == Turn
           q == Max(Twins(r))
           fold == FoldPaths(run.new[r].path, run.new[q].path)
           m == [run EXCEPT !.queue = @ \ {r}, !.unflushed = {}, !.locked = TRUE,
                            !.new = [WithPath(@, q, fold.keep) EXCEPT ![r] = None]]
       IN  /\ disk' = Removed(disk, fold.remove)
           /\ run' = IF Stale(m) THEN Off ELSE AlbumFolded(m, run.seen[r].album)
    /\ UNCHANGED <<albums, row, download, import, healthy, events>>

CommitForgotten ==
    /\ run.pc = "merge" /\ run.queue = {}
    /\ run' = IF Stale(run) THEN Off ELSE run.back
    /\ UNCHANGED <<albums, row, disk, download, import, healthy, events>>

\* The last flush and the commit.  A track inserted since its album's cascade
\* is left without one.  When the canonical album is gone, its new totals may be
\* an UPDATE without a row.
MergeCommit ==
    /\ run.pc = "merge" /\ run.queue = {}
    /\ \/ /\ Stale(run) \/ run.canon \notin albums
          /\ run' = Off
          /\ UNCHANGED <<albums, row>>
       \/ /\ ~Stale(run)
          /\ run' = run.back
          /\ albums' = albums \ run.others
          /\ row' = Flushed(run)
    /\ UNCHANGED <<disk, download, import, healthy, events>>

\* A file out of place is moved, or removed when one of its name is there.
PlacedFlat(p, a) == <<ArtistOf[a], p[2], p[3]>>

Placed(p, a) == <<Folder[a], p[2], p[3]>>

Place(r) ==
    /\ run.pc = "place" /\ r \in run.todo
    /\ LET t == run.new[r]
           rest == [run EXCEPT !.todo = @ \ {r}]
           to == Placed(t.path, t.album)
       IN  IF \/ ~On(disk, t.path) \/ t.album \notin albums \/ to = t.path
           THEN run' = rest /\ UNCHANGED disk
           ELSE /\ disk' = IF On(disk, to) THEN Removed(disk, t.path)
                           ELSE {IF At(f) = t.path THEN [f EXCEPT !.dir = Folder[t.album]] ELSE f :
                                    f \in disk}
                /\ LET m == [rest EXCEPT !.new = WithPath(@, r, to), !.locked = TRUE]
                   IN  run' = IF Stale(m) THEN Off ELSE m
    /\ UNCHANGED <<albums, row, download, import, healthy, events>>

PlaceCommit ==
    /\ run.pc = "place" /\ run.todo = {}
    /\ row' = IF Stale(run) THEN row ELSE Flushed(run)
    /\ run' = Off
    /\ UNCHANGED <<albums, disk, download, import, healthy, events>>

-----------------------------------------------------------------------------
\* The web process and the user

Event(kind) == kind \in Requests /\ events < MaxEvents /\ events' = events + 1

\* A web commit waits for the write lock.  Waiting blocks the whole process.
Blocked == import # None /\ import.pc = "matched"

\* The process is killed, or a write finds the database locked.
Crash ==
    /\ run # Off /\ "crash" \in Requests
    /\ run' = Off /\ healthy' = FALSE
    /\ UNCHANGED <<albums, row, disk, download, import, events>>

DownloadStart(r) ==
    /\ download = None /\ ~Blocked
    /\ row[r] # None /\ row[r].path = None /\ Event("download")
    /\ download' = [track |-> r, song |-> row[r].song, dir |-> Folder[row[r].album]]
    /\ UNCHANGED <<albums, row, disk, run, import, healthy>>

\* The file is put in place first; without its row, or when the lock is held
\* too long, nothing records it.
DownloadDone(ext) ==
    /\ download # None /\ ~Blocked
    /\ LET f == [dir |-> download.dir, song |-> download.song, ext |-> ext] IN
        /\ disk' = Put(disk, f)
        /\ row' = IF row[download.track] = None \/ Locked THEN row
                  ELSE WithPath(row, download.track, At(f))
    /\ download' = None /\ healthy' = FALSE
    /\ UNCHANGED <<albums, run, import, events>>

\* DELETE /api/track, with or without its file.
DeleteTrack(r, files) ==
    /\ row[r] # None /\ row[r].path # None /\ ~Blocked /\ Event("delete")
    /\ disk' = IF files THEN Removed(disk, row[r].path) ELSE disk
    /\ row' = IF Locked THEN row ELSE WithPath(row, r, None)
    /\ healthy' = FALSE
    /\ UNCHANGED <<albums, run, download, import>>

\* The user removes a file.  The watcher marks its rows missing unless a
\* maintenance run is active.
UserRemoves(f) ==
    /\ f \in disk /\ ~Blocked /\ Event("userRemove")
    /\ disk' = disk \ {f}
    /\ row' = IF run # Off THEN row
              ELSE [r \in Rows |-> IF row[r] # None /\ row[r].path = At(f)
                                   THEN [row[r] EXCEPT !.path = None] ELSE row[r]]
    /\ healthy' = FALSE
    /\ UNCHANGED <<albums, run, download, import>>

\* Albums the provider has and the database has not come back with their
\* tracks.  Tracks that a merge moved would be inserted anew; the model has
\* no second id for them.
TracksAtHome(a) == {r \in Catalog : Home[r] = a}
Insertable(a) ==
    \A r \in TracksAtHome(a) : row[r] = None \/ (a \in albums /\ row[r].album = a)
Inserted(S) ==
    [r \in Rows |-> IF r \in Catalog /\ row[r] = None /\ Home[r] \in S
                    THEN MissingRow(r) ELSE row[r]]

SyncAlbum(a) ==
    /\ a \notin albums /\ Insertable(a) /\ ~Locked /\ ~Blocked /\ Event("sync")
    /\ albums' = albums \cup {a} /\ row' = Inserted({a}) /\ healthy' = FALSE
    /\ UNCHANGED <<disk, run, download, import>>

\* DELETE /api/album; the directory goes before the row, and goes whole.
DropAlbum(a, files) ==
    /\ a \in albums /\ ~Blocked /\ Event("drop")
    /\ disk' = IF files THEN {f \in disk : f.dir # Folder[a]} ELSE disk
    /\ IF Locked THEN UNCHANGED <<albums, row>>
       ELSE /\ albums' = albums \ {a}
            /\ row' = [r \in Rows |-> IF r \in TracksOf(row, a) THEN None ELSE row[r]]
    /\ healthy' = FALSE
    /\ UNCHANGED <<run, download, import>>

\* The folder import: the files are listed before the network calls ...
Mine(a) == ArtistOf[a] = ArtistOf[Unmatched]
Folders == {f.dir : f \in Loose} \cup {Folder[a] : a \in {b \in EverAlbum : Mine(b)}}

ImportList ==
    /\ import = None /\ Event("import")
    /\ import' = [pc |-> "listed", files |-> {f \in disk : f.dir \in Folders}]
    /\ UNCHANGED <<albums, row, disk, run, download, healthy>>

\* ... the discography is inserted and committed ...
ImportIndex ==
    /\ import # None /\ import.pc = "listed" /\ ~Locked
    /\ LET S == {a \in Albums : Mine(a)} IN
        /\ \A a \in S : Insertable(a)
        /\ albums' = albums \cup S /\ row' = Inserted(S)
    /\ import' = [import EXCEPT !.pc = "indexed"] /\ healthy' = FALSE
    /\ UNCHANGED <<disk, run, download, events>>

\* ... and each file looks for its track, first in the album of its folder.
\* Only the tracks of the discography are looked up, by their titles.
Candidates(f) == {r \in Catalog : Mine(Home[r]) /\ f.song \notin Blank /\ Song[r] = f.song}
Targets(f) ==
    LET C == Candidates(f)
        near == {r \in C : Folder[Home[r]] = f.dir}
    IN  IF near # {} THEN {Max(near)} ELSE IF C # {} THEN {Min(C)} ELSE {}
OpenTrack(r) == row[r].path = None \/ ~On(disk, row[r].path)
NewFile(f) ==
    Targets(f) = {} /\ ~\E r \in TracksOf(row, Unmatched) : row[r].path = At(f)
Wanted(f) == NewFile(f) \/ \E r \in Targets(f) : row[r] # None /\ OpenTrack(r)
Vanished(f) == \E r \in Targets(f) : row[r] = None

\* New rows get ids that are free.
UnmatchedRow(f) == [album |-> Unmatched, song |-> f.song, path |-> At(f)]
FreeIds == {r \in Spare : row[r] = None}
NewIds(files) == CHOOSE ids \in [files -> FreeIds] : IsInjective(ids)

\* The first file takes an open track; the rest of its files change nothing.
ImportMatch ==
    /\ import # None /\ import.pc = "indexed"
    /\ LET files == import.files
           open == {r \in Catalog : row[r] # None /\ OpenTrack(r) /\
                        \E f \in files : r \in Targets(f)}
           new == {f \in files : NewFile(f)}
       IN  /\ ~\E f \in files : Vanished(f)
           /\ new \subseteq disk
           /\ Cardinality(new) <= Cardinality(FreeIds)
           /\ \E claim \in [open -> files \cap disk] :
                /\ \A r \in open : r \in Targets(claim[r])
                /\ import' = [pc |-> "matched", new |-> new,
                              claim |-> [r \in Catalog |-> IF r \in open THEN claim[r] ELSE None]]
    /\ UNCHANGED <<albums, row, disk, run, download, healthy, events>>

\* A listed file that is gone has no size, and a track that is gone no
\* columns: the matching is given up.
ImportFails ==
    /\ import # None /\ import.pc = "indexed"
    /\ \E f \in import.files : Vanished(f) \/ (f \notin disk /\ Wanted(f))
    /\ import' = None
    /\ UNCHANGED <<albums, row, disk, run, download, healthy, events>>

ImportCommit ==
    /\ import # None /\ import.pc = "matched" /\ ~Locked
    /\ import' = None /\ healthy' = FALSE
    /\ IF \E r \in Catalog : import.claim[r] # None /\ row[r] = None
       THEN UNCHANGED <<albums, row>>
       ELSE /\ row' = [r \in Rows |->
                IF r \in Catalog /\ import.claim[r] # None THEN [row[r] EXCEPT !.path = At(import.claim[r])]
                ELSE IF \E f \in import.new : NewIds(import.new)[f] = r
                THEN UnmatchedRow(CHOOSE f \in import.new : NewIds(import.new)[f] = r)
                ELSE row[r]]
            /\ albums' = IF import.new = {} THEN albums ELSE albums \cup {Unmatched}
    /\ UNCHANGED <<disk, run, download, events>>

-----------------------------------------------------------------------------

Init ==
    /\ albums = Albums
    /\ \E ext \in [Catalog -> Exts \cup {None}], loose \in {{}, Loose} :
        LET FileOf(r) == [dir |-> Folder[Home[r]], song |-> Song[r], ext |-> ext[r]]
            Has(r) == ext[r] # None
        IN  /\ \A r \in Catalog : ext[r] \in FirstExt[r]
            /\ row = [r \in Rows |->
                IF r \in Spare THEN None
                ELSE IF Has(r) THEN [MissingRow(r) EXCEPT !.path = At(FileOf(r))]
                ELSE MissingRow(r)]
            /\ disk = {FileOf(r) : r \in {q \in Catalog : Has(q)}} \cup loose
            /\ \A f, g \in disk : At(f) = At(g) => f = g
    /\ run = Off /\ download = None /\ import = None
    /\ healthy = FALSE /\ events = 0

\* What a run does once it has begun.
Work ==
    \/ MergeExact \/ MergePair("fuzzy", FuzzyPairs) \/ MergePair("cross", CrossPairs)
    \/ NextPass \/ MoveTrack \/ DropTrack \/ MergeCommit
    \/ \E r \in Rows : Place(r)
    \/ PlaceCommit

Web ==
    \/ \E r \in Rows : DownloadStart(r) \/ \E files \in BOOLEAN : DeleteTrack(r, files)
    \/ \E ext \in Exts : DownloadDone(ext)
    \/ \E f \in disk : UserRemoves(f)
    \/ \E a \in EverAlbum : \E files \in BOOLEAN : DropAlbum(a, files)
    \/ \E a \in Albums : SyncAlbum(a)
    \/ ImportList \/ ImportIndex \/ ImportMatch \/ ImportFails \/ ImportCommit

Next == Start \/ Work \/ Crash \/ Web

Spec == Init /\ [][Next]_vars

-----------------------------------------------------------------------------
\* Properties

AllGroups == {<<ArtistOf[a], Exact[a]>> : a \in EverAlbum}
Passes == [pc : {"exact", "fuzzy", "cross"}, todo : SUBSET AllGroups]
Merges == [pc : {"merge"}, back : Passes, canon : EverAlbum, others : SUBSET EverAlbum,
           queue : SUBSET Rows, unflushed : SUBSET Rows,
           seen : Table, new : Table, gone : SUBSET Rows, locked : BOOLEAN]
Placements == [pc : {"place"}, todo : SUBSET Rows,
               seen : Table, new : Table, gone : SUBSET Rows, locked : BOOLEAN]
Imports == [pc : {"listed", "indexed"}, files : SUBSET File]
           \cup [pc : {"matched"}, claim : [Catalog -> File \cup {None}],
                 new : SUBSET File]

\* Every variable has its type, tracks of the catalog stay out of "Unmatched
\* Local Tracks" and unmatched ones in it, and no two files have one path.
TypeOK ==
    /\ albums \subseteq EverAlbum
    /\ row \in Table
    /\ \A r \in Rows : row[r] # None => (row[r].album = Unmatched <=> r \in Spare)
    /\ disk \subseteq File
    /\ \A f, g \in disk : At(f) = At(g) => f = g
    /\ run \in {Off} \cup Passes \cup Merges \cup Placements
    /\ download \in [track : Rows, song : Songs, dir : Dirs] \cup {None}
    /\ import \in Imports \cup {None}
    /\ healthy \in BOOLEAN /\ events \in 0..MaxEvents

\* A merge removes a file only when another of its song and at least of its
\* quality remains.  The exception is a row that names a file which is gone:
\* somebody removed it, an earlier run was killed after it removed it, or it
\* went with another row of the same file.  A run that began with one row for
\* each file meets no such row unless a web request comes in between.
\* (_merge_album_into: "Keep the higher-quality file and delete the other".)
MergeKeepsAudio ==
    [][\A f \in disk \ disk' : run.pc = "merge" /\ run' # run =>
        \/ \E g \in disk' : g.song = f.song /\ Rank[g.ext] >= Rank[f.ext]
        \/ /\ ~healthy
           /\ \E r \in Downloaded(run.new) :
                run.new[r].song = f.song /\ ~On(disk, run.new[r].path)]_vars

\* No track's file is to go where the file of another one is or is to go.
Target(t) == Placed(t.path, t.album)
Apart(R) ==
    \A r, q \in Downloaded(R) : r # q => Target(R[r]) \notin {R[q].path, Target(R[q])}

\* When a run that began on a library in accord comes to its end, no web
\* request having changed anything since, every track has its album, and every
\* downloaded one a file of its song, its own, in the folder of its album: what
\* the commits of the merges and the one commit after all the moves leave
\* agrees with the files.  The exceptions are tracks whose files have one name
\* and meet in a folder (two untitled ones of an album, say, or two albums that
\* share a folder), and songs whose files have one name (PlaceKeepsAudio).
\* Nothing is said of files without a row, which merges leave behind
\* (MergeFoldsEveryTrack).
RunSettles ==
    [][(run.pc = "place" /\ run.todo = {} /\ run' = Off /\ healthy' /\ Apart(run.seen)) =>
        /\ \A r \in Rows : row'[r] # None => row'[r].album \in albums'
        /\ Unshared(row')
        /\ \A r \in Downloaded(row') :
            /\ row'[r].path[1] = Folder[row'[r].album]
            /\ \E f \in disk' : At(f) = row'[r].path /\ f.song = row'[r].song]_vars

\* A run comes to its end: whatever the web process does between two of its
\* steps, each step leaves less to do, by the albums, the passes, what the pass
\* has still to look at and the tracks still to fold.  An album that the web
\* process inserts is all that adds to it.
Left ==
    LET most == Cardinality(Rows) + Cardinality(EverAlbum) + 2
        merging == run.pc = "merge"
        pass == IF merging THEN run.back ELSE run
        others == IF merging THEN run.others ELSE {}
        passes == CASE pass.pc = "exact" -> 3 [] pass.pc = "fuzzy" -> 2
                    [] pass.pc = "cross" -> 1 [] pass.pc = "place" -> 0
        inTurn == IF merging THEN Cardinality(run.queue) ELSE most - 1
    IN  ((4 * Cardinality(albums \cup others) + passes) * most
            + Cardinality(pass.todo)) * most + inTurn
RunShrinks == [][(run # Off /\ run' # Off /\ run' # run) => Left' < Left]_vars

\* A merge leaves a copy as good as the one that it removes.
\* (_merge_album_into: "Keep the higher-quality file and delete the other copy".)
MergeKeepsTheBetter ==
    [][run.pc = "merge" /\ run' # run =>
        \A f \in disk \ disk' :
            \E g \in disk' : g.song = f.song /\ Rank[g.ext] >= Rank[f.ext]]_vars

\* A merge that nobody disturbed keeps a row of each song: in the canonical
\* album, also for the titles which only the other albums had.
\* (_merge_album_into: "Fold every track of `other` into `canonical` (dup titles
\* are dropped, along with their duplicate files), then delete the `other` album
\* row.")
MergeFoldsEveryTrack ==
    [][(run.pc = "merge" /\ run' = run.back /\ healthy) =>
        \A r \in Rows : (run.seen[r] # None /\ run.seen[r].album \in run.others) =>
            \E q \in TracksOf(row', run.canon) : row'[q].song = run.seen[r].song]_vars

\* The placement leaves every song on disk.  (normalize_album_tags: "move stray
\* files into their correct album folder".)
PlaceKeepsAudio ==
    [][run.pc = "place" /\ run' # run =>
        \A f \in disk : \E g \in disk' : g.song = f.song]_vars
=============================================================================
