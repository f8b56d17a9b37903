-------------------------- MODULE Maintenance_proofs --------------------------
(***************************************************************************)
(* That a maintenance run keeps the library well typed, comes to its end   *)
(* and, where files have names of their own, keeps the better copy of a    *)
(* song and leaves the library settled, whatever the web process does.     *)
(***************************************************************************)
EXTENDS Maintenance, Extremes_proofs, FiniteSetTheorems, TLAPS
-----------------------------------------------------------------------------
\* The inductive invariant

\* A row of the catalog has the song of its id, and its file that song's name.
Owned(r, x) ==
    x # None =>
        /\ x.album = Unmatched <=> r \in Spare
        /\ r \in Catalog =>
            x.song = Song[r] /\ (x.path # None => x.path[2] = Name[Song[r]])

Sound(R) == R \in Table /\ \A r \in Rows : Owned(r, R[r])

\* The tracks still to fold are in the session, in albums that will go.
MergeSound(m) ==
    /\ Sound(m.seen) /\ Sound(m.new)
    /\ m.canon # Unmatched /\ m.canon \notin m.others
    /\ m.others # {} /\ Unmatched \notin m.others
    /\ \A r \in m.queue :
        /\ m.seen[r] # None /\ m.seen[r].album \in m.others
        /\ m.new[r] # None /\ m.new[r].album \in m.others

PlaceSound(m) == Sound(m.seen) /\ Sound(m.new) /\ m.todo \subseteq Downloaded(m.new)

RunSound(m) == (m.pc = "merge" => MergeSound(m)) /\ (m.pc = "place" => PlaceSound(m))

\* A download and an import bring files of the songs that their rows stand
\* for, and there are ids for the new rows.
Fetched(d) == d # None /\ d.track \in Catalog => d.song = Song[d.track]
Claimed(i) ==
    i # None /\ i.pc = "matched" =>
        /\ \A r \in Catalog : i.claim[r] # None => i.claim[r].song = Song[r]
        /\ IsFiniteSet(i.new) /\ Cardinality(i.new) <= Cardinality(FreeIds)

\* While a run that began in accord merges, each row it has names a file that
\* is there, and no other row names it.
Present(R, d) == Unshared(R) /\ \A r \in Downloaded(R) : On(d, R[r].path)
InAccord ==
    healthy =>
        /\ run.pc \in {"exact", "fuzzy", "cross"} => Present(row, disk)
        /\ run.pc = "merge" => run.seen = row /\ Present(run.new, disk)

\* No two files have one path.
DiskSound(d) ==
    d \subseteq File /\ IsFiniteSet(d) /\ \A f, g \in d : At(f) = At(g) => f = g

MntInv == /\ TypeOK /\ Sound(row) /\ DiskSound(disk)
          /\ RunSound(run) /\ Fetched(download) /\ Claimed(import) /\ InAccord

-----------------------------------------------------------------------------
\* Least and greatest ids

LEMMA RowsAndAlbums ==
    /\ IsFiniteSet(Rows) /\ IsFiniteSet(EverAlbum) /\ Rows \subseteq Nat /\ EverAlbum \subseteq Nat
    /\ Unmatched \in EverAlbum /\ Albums \subseteq EverAlbum
    /\ Catalog \subseteq Rows /\ Spare \subseteq Rows
<1>1. IsFiniteSet(EverAlbum)
  BY MntAlbums, FS_Singleton, FS_Union DEF EverAlbum
<1> QED BY <1>1, MntRows, MntAlbums DEF EverAlbum, Rows

LEMMA LeastOfIds ==
    ASSUME NEW S, S # {}, S \subseteq Rows \/ S \subseteq EverAlbum
    PROVE  Min(S) \in S /\ Max(S) \in S
<1>1. \A n \in S : n \in Nat
  BY RowsAndAlbums
<1>2. IsFiniteSet(S)
  BY RowsAndAlbums, FS_Subset
<1>3. S \in SUBSET Int
  BY <1>1
<1> QED BY <1>2, <1>3, MinOfNumbers, MaxOfNumbers

LEMMA FirstPairIn ==
    ASSUME NEW P, P # {}, P \subseteq EverAlbum \X EverAlbum
    PROVE  FirstPair(P) \in P
<1> DEFINE I == {p[1] : p \in P}
           i == Min(I)
           J == {p[2] : p \in {q \in P : q[1] = i}}
<1>1. I # {} /\ I \subseteq EverAlbum
  OBVIOUS
<1>2. i \in I
  <2> HIDE DEF I
  <2> QED BY <1>1, LeastOfIds
<1>3. J # {} /\ J \subseteq EverAlbum
  <2> HIDE DEF i
  <2> QED BY <1>2
<1>4. Min(J) \in J
  <2> HIDE DEF J
  <2> QED BY <1>3, LeastOfIds
<1>5. PICK q \in P : q[1] = i /\ q[2] = Min(J)
  <2> DEFINE n == Min(J)
  <2>1. n \in J
    BY <1>4
  <2> HIDE DEF n, i
  <2>2. \E q \in P : q[1] = i /\ q[2] = n
    BY <2>1
  <2> QED BY <2>2 DEF n
<1>6. FirstPair(P) = <<i, Min(J)>>
  BY DEF FirstPair
<1>7. q = <<q[1], q[2]>>
  OBVIOUS
<1> HIDE DEF i, J
<1> QED BY <1>5, <1>6, <1>7

LEMMA SomeLargest ==
    ASSUME NEW S, IsFiniteSet(S), S # {}, NEW g, \A a \in S : g[a] \in Int
    PROVE  \E a \in S : \A b \in S : g[b] <= g[a]
<1> DEFINE V == {g[a] : a \in S}
<1>1. V \in SUBSET Int /\ V # {}
  OBVIOUS
<1>2. IsFiniteSet(V)
  <2> DEFINE h == [a \in S |-> g[a]]
  <2>1. h \in Surjection(S, V)
    BY DEF Surjection
  <2> HIDE DEF V, h
  <2> QED BY <2>1, FS_Surjection
<1>3. Max(V) \in V /\ \A v \in V : Max(V) >= v
  <2> HIDE DEF V
  <2> QED BY <1>1, <1>2, MaxOfNumbers
<1>4. PICK a \in S : g[a] = Max(V)
  BY <1>3
<1>5. \A b \in S : g[b] \in V
  OBVIOUS
<1> HIDE DEF V
<1> QED BY <1>1, <1>3, <1>4, <1>5

LEMMA TracksFinite ==
    ASSUME NEW R, NEW a
    PROVE  /\ TracksOf(R, a) \subseteq Rows /\ Downloaded(R) \subseteq Rows
           /\ IsFiniteSet(TracksOf(R, a)) /\ IsFiniteSet(Keys(R, a))
<1>1. TracksOf(R, a) \subseteq Rows /\ Downloaded(R) \subseteq Rows
  BY DEF TracksOf, Downloaded
<1>2. IsFiniteSet(TracksOf(R, a))
  BY <1>1, RowsAndAlbums, FS_Subset
<1>3. IsFiniteSet(Keys(R, a))
  <2> DEFINE h == [r \in TracksOf(R, a) |-> Key(R[r].song)]
  <2>1. h \in Surjection(TracksOf(R, a), Keys(R, a))
    BY DEF Surjection, Keys
  <2> HIDE DEF h
  <2> QED BY <1>2, <2>1, FS_Surjection
<1> QED BY <1>1, <1>2, <1>3

\* Of some albums one is preferred to all the others: more titles, then more
\* files, then the higher priority, then the lower id.
LEMMA CanonicalIn ==
    ASSUME NEW R, NEW S, S # {}, S \subseteq EverAlbum
    PROVE  Canonical(R, S) \in S
<1> DEFINE titles == [a \in EverAlbum |-> Cardinality(Keys(R, a))]
           files == [a \in EverAlbum |-> Cardinality(TracksOf(R, a) \cap Downloaded(R))]
           Best(T, g) == {a \in T : \A b \in T : g[b] <= g[a]}
           S1 == Best(S, titles)
           S2 == Best(S1, files)
           S3 == Best(S2, Priority)
           c == Min(S3)
<1>1. \A a \in EverAlbum : titles[a] \in Int /\ files[a] \in Int /\ Priority[a] \in Int /\ a \in Int
  <2> SUFFICES ASSUME NEW a \in EverAlbum
               PROVE  titles[a] \in Int /\ files[a] \in Int /\ Priority[a] \in Int /\ a \in Int
    OBVIOUS
  <2>1. Cardinality(Keys(R, a)) \in Nat
    BY TracksFinite, FS_CardinalityType
  <2>2. Cardinality(TracksOf(R, a) \cap Downloaded(R)) \in Nat
    BY TracksFinite, FS_Intersection, FS_CardinalityType
  <2>3. a \in Nat /\ Priority[a] \in Int
    BY RowsAndAlbums, MntRanks
  <2> QED BY <2>1, <2>2, <2>3
<1>2. ASSUME NEW T, T # {}, T \subseteq EverAlbum, NEW g, \A a \in EverAlbum : g[a] \in Int
      PROVE  Best(T, g) # {} /\ Best(T, g) \subseteq T
  <2>1. IsFiniteSet(T)
    BY <1>2, RowsAndAlbums, FS_Subset
  <2>2. \E a \in T : \A b \in T : g[b] <= g[a]
    BY <1>2, <2>1, SomeLargest
  <2> QED BY <2>2
<1>a. \A a \in EverAlbum : titles[a] = Cardinality(Keys(R, a))
                           /\ files[a] = Cardinality(TracksOf(R, a) \cap Downloaded(R))
  OBVIOUS
<1> HIDE DEF titles, files
<1>3. S1 # {} /\ S1 \subseteq EverAlbum
  <2> HIDE DEF Best
  <2> QED BY <1>1, <1>2
<1>4. S2 # {} /\ S2 \subseteq S1
  <2> HIDE DEF Best, S1
  <2> QED BY <1>1, <1>2, <1>3
<1>5. S3 # {} /\ S3 \subseteq S2
  <2> HIDE DEF Best, S2
  <2> QED BY <1>1, <1>2, <1>3, <1>4
<1>6. S3 \subseteq EverAlbum /\ S2 \subseteq EverAlbum
  BY <1>3, <1>4, <1>5
<1>7. c \in S3 /\ \A a \in S3 : c <= a
  <2>1. \A a \in S3 : a \in Nat
    BY <1>6, RowsAndAlbums
  <2>2. IsFiniteSet(S3)
    <3> HIDE DEF S3
    <3> QED BY <1>6, RowsAndAlbums, FS_Subset
  <2>3. S3 \in SUBSET Int
    BY <2>1
  <2> HIDE DEF S3
  <2> QED BY <1>5, <2>2, <2>3, MinOfNumbers
<1>8. c \in S /\ c \in S1 /\ c \in S2 /\ c \in EverAlbum
  <2> HIDE DEF c
  <2>1. c \in S1 /\ c \in S2
    BY <1>4, <1>5, <1>7
  <2> QED BY <2>1
<1>9. ASSUME NEW a \in S \ {c} PROVE Prefers(R, c, a)
  <2> HIDE DEF c
  <2>0. a \in EverAlbum /\ a \in S /\ a # c
    OBVIOUS
  <2>1. titles[a] <= titles[c]
    BY <1>8, <2>0
  <2>2. CASE titles[a] < titles[c]
    BY <2>2, <1>1, <1>8, <1>a, <2>0 DEF Prefers
  <2>3. CASE titles[a] = titles[c]
    <3>1. a \in S1
      BY <2>0, <2>3, <1>8
    <3>2. files[a] <= files[c]
      BY <3>1, <1>8
    <3>3. CASE files[a] < files[c]
      BY <2>3, <3>3, <1>1, <1>8, <1>a, <2>0 DEF Prefers
    <3>4. CASE files[a] = files[c]
      <4>1. a \in S2
        BY <3>1, <3>4, <1>8
      <4>2. Priority[a] <= Priority[c]
        BY <4>1, <1>7
      <4>3. CASE Priority[a] < Priority[c]
        BY <2>3, <3>4, <4>3, <1>1, <1>8, <1>a, <2>0 DEF Prefers
      <4>4. CASE Priority[a] = Priority[c]
        <5>1. a \in S3
          BY <4>1, <4>4, <1>7
        <5>2. c < a
          <6>1. c <= a
            BY <5>1, <1>7
          <6> QED BY <6>1, <1>1, <1>8, <2>0
        <5> QED BY <5>2, <2>3, <3>4, <4>4, <1>8, <1>a, <2>0 DEF Prefers
      <4> QED BY <4>2, <4>3, <4>4, <1>1, <1>8, <2>0
    <3> QED BY <3>2, <3>3, <3>4, <1>1, <1>8, <2>0
  <2> QED BY <2>1, <2>2, <2>3, <1>1, <1>8, <2>0
<1>10. \E x \in S : \A a \in S \ {x} : Prefers(R, x, a)
  BY <1>8, <1>9
<1> QED BY <1>10 DEF Canonical

\* There are enough free ids for the new rows of an import.
LEMMA NewIdsIn ==
    ASSUME NEW files, IsFiniteSet(files), Cardinality(files) <= Cardinality(FreeIds)
    PROVE  NewIds(files) \in [files -> FreeIds] /\ IsInjective(NewIds(files))
<1>1. IsFiniteSet(FreeIds)
  BY RowsAndAlbums, FS_Subset DEF FreeIds
<1> DEFINE m == Cardinality(files)
           n == Cardinality(FreeIds)
<1>2. m \in Nat /\ n \in Nat /\ m <= n
  BY <1>1, FS_CardinalityType
<1>3. PICK f \in Bijection(1..m, files) : TRUE
  BY FS_CardinalityType DEF ExistsBijection
<1>4. PICK g \in Bijection(1..n, FreeIds) : TRUE
  BY <1>1, FS_CardinalityType DEF ExistsBijection
<1> HIDE DEF m, n
<1>5. /\ f \in [1..m -> files] /\ \A i, j \in 1..m : f[i] = f[j] => i = j
      /\ \A x \in files : \E i \in 1..m : f[i] = x
  BY <1>3 DEF Bijection, Injection, Surjection, IsInjective
<1>6. g \in [1..n -> FreeIds] /\ \A i, j \in 1..n : g[i] = g[j] => i = j
  BY <1>4 DEF Bijection, Injection, Surjection, IsInjective
<1> DEFINE at == [x \in files |-> CHOOSE i \in 1..m : f[i] = x]
           ids == [x \in files |-> g[at[x]]]
<1>7. \A x \in files : at[x] \in 1..m /\ f[at[x]] = x
  BY <1>5
<1>8. \A x \in files : at[x] \in 1..n
  BY <1>2, <1>7
<1> HIDE DEF at
<1>9. ids \in [files -> FreeIds] /\ \A x, y \in files : ids[x] = ids[y] => x = y
  BY <1>6, <1>7, <1>8
<1>10. ids \in [files -> FreeIds] /\ IsInjective(ids)
  BY <1>9 DEF IsInjective
<1> HIDE DEF ids
<1>11. \E h \in [files -> FreeIds] : IsInjective(h)
  BY <1>10
<1> QED BY <1>11 DEF NewIds

-----------------------------------------------------------------------------
\* Files, paths and tables

LEMMA FilePath ==
    ASSUME NEW f \in File
    PROVE  /\ At(f) \in Path /\ At(f) # None /\ f # None
           /\ At(f)[1] = f.dir /\ At(f)[2] = Name[f.song] /\ At(f)[3] = f.ext
           /\ f.dir \in Dirs /\ f.song \in Songs /\ f.ext \in Exts
<1>1. f.dir \in Dirs /\ f.song \in Songs /\ f.ext \in Exts
  BY DEF File
<1>2. At(f) \in Path
  BY <1>1 DEF At, Path
<1> QED BY <1>1, <1>2, MntNone DEF At

LEMMA PathParts ==
    ASSUME NEW p \in Path
    PROVE  /\ p = <<p[1], p[2], p[3]>> /\ p # None
           /\ p[1] \in Dirs /\ p[2] \in {Name[n] : n \in Songs} /\ p[3] \in Exts
BY MntNone DEF Path

LEMMA AlbumFolder ==
    ASSUME NEW a \in EverAlbum
    PROVE  Folder[a] \in Dirs
BY DEF Dirs

LEMMA TableRow ==
    ASSUME NEW R, Sound(R), NEW r \in Rows, R[r] # None
    PROVE  /\ R[r] \in Track /\ Owned(r, R[r])
           /\ R[r].album \in EverAlbum /\ R[r].song \in Songs /\ R[r].path \in Path \cup {None}
BY DEF Sound, Table, Track

\* A row with another path, or in another album.
LEMMA NewPath ==
    ASSUME NEW r \in Rows, NEW x \in Track, Owned(r, x), NEW p \in Path \cup {None},
           (r \in Catalog /\ p # None) => p[2] = Name[Song[r]],
           NEW y, y = [x EXCEPT !.path = p]
    PROVE  /\ y \in Track /\ Owned(r, y) /\ y # None
           /\ y.album = x.album /\ y.song = x.song /\ y.path = p
<1>1. y = [album |-> x.album, song |-> x.song, path |-> p]
  BY DEF Track
<1>2. y \in Track /\ y # None /\ x # None
  BY <1>1, MntNone DEF Track
<1> QED BY <1>1, <1>2 DEF Owned

LEMMA NewAlbum ==
    ASSUME NEW r \in Rows, NEW x \in Track, Owned(r, x), NEW a \in EverAlbum,
           a = Unmatched <=> r \in Spare,
           NEW y, y = [x EXCEPT !.album = a]
    PROVE  /\ y \in Track /\ Owned(r, y) /\ y # None
           /\ y.album = a /\ y.song = x.song /\ y.path = x.path
<1>1. y = [album |-> a, song |-> x.song, path |-> x.path]
  BY DEF Track
<1>2. y \in Track /\ y # None /\ x # None
  BY <1>1, MntNone DEF Track
<1> QED BY <1>1, <1>2 DEF Owned

\* A table in which one row changed.
LEMMA OneRowSound ==
    ASSUME NEW R, Sound(R), NEW r \in Rows, NEW x \in Track \cup {None}, Owned(r, x),
           NEW T, T = [q \in Rows |-> T[q]], T[r] = x, \A q \in Rows \ {r} : T[q] = R[q]
    PROVE  Sound(T)
<1>1. \A q \in Rows : T[q] \in Track \cup {None} /\ Owned(q, T[q])
  BY DEF Sound, Table
<1>2. T \in Table
  BY <1>1 DEF Table
<1> QED BY <1>1, <1>2 DEF Sound

\* T is the sound table R with another path in row r.
Repathed(T, R, r, p) ==
    /\ Sound(T) /\ \A q \in Rows \ {r} : T[q] = R[q]
    /\ T[r] # None /\ T[r].album = R[r].album /\ T[r].song = R[r].song /\ T[r].path = p

LEMMA WithPathSound ==
    ASSUME NEW R, Sound(R), NEW r \in Rows, R[r] # None, NEW p \in Path \cup {None},
           (r \in Catalog /\ p # None) => p[2] = Name[Song[r]],
           NEW T, T = WithPath(R, r, p)
    PROVE  Repathed(T, R, r, p)
<1> DEFINE y == [R[r] EXCEPT !.path = p]
<1>1. R[r] \in Track /\ Owned(r, R[r])
  BY TableRow
<1>2. /\ y \in Track /\ Owned(r, y) /\ y # None
      /\ y.album = R[r].album /\ y.song = R[r].song /\ y.path = p
  BY <1>1, NewPath
<1>3. T = [R EXCEPT ![r] = [@ EXCEPT !.path = p]]
  BY DEF WithPath
<1>4. R = [q \in Rows |-> R[q]]
  BY DEF Sound, Table
<1>5. T = [q \in Rows |-> IF q = r THEN y ELSE R[q]]
  BY <1>3, <1>4
<1> HIDE DEF y
<1>6. T = [q \in Rows |-> T[q]] /\ T[r] = y /\ \A q \in Rows \ {r} : T[q] = R[q]
  BY <1>5
<1>7. y \in Track \cup {None} /\ Owned(r, y)
  BY <1>2
<1>8. Sound(T)
  BY <1>6, <1>7, OneRowSound
<1> QED BY <1>2, <1>6, <1>8 DEF Repathed

\* No None is a row, so a table of rows stays sound when rows go.
LEMMA NoneIsSound ==
    ASSUME NEW R, Sound(R), NEW T, T \in [Rows -> Track \cup {None}],
           \A r \in Rows : T[r] = None \/ T[r] = R[r]
    PROVE  Sound(T)
BY DEF Sound, Table, Owned

LEMMA TableSound ==
    ASSUME NEW T, T = [r \in Rows |-> T[r]],
           \A r \in Rows : T[r] \in Track \cup {None} /\ Owned(r, T[r])
    PROVE  Sound(T)
BY DEF Sound, Table

LEMMA MissingSound ==
    ASSUME NEW r \in Catalog
    PROVE  /\ MissingRow(r) \in Track /\ Owned(r, MissingRow(r))
           /\ MissingRow(r).album = Home[r] /\ MissingRow(r).song = Song[r]
           /\ MissingRow(r).path = None
<1>1. Home[r] \in Albums /\ Song[r] \in Songs /\ r \notin Spare /\ Home[r] \in EverAlbum
  BY MntCatalog, MntRows DEF EverAlbum
<1> QED BY <1>1, MntAlbums DEF MissingRow, Track, Owned

LEMMA RemovedFiles ==
    ASSUME NEW p
    PROVE  /\ Removed(disk, p) \subseteq disk
           /\ \A f \in disk \ Removed(disk, p) : At(f) = p
           /\ \A q : q # p /\ On(disk, q) => On(Removed(disk, p), q)
BY DEF Removed, On

-----------------------------------------------------------------------------
\* The maintenance process, as values

LEMMA RunTypes ==
    ASSUME TypeOK
    PROVE  /\ run.pc \in {"exact", "fuzzy", "cross"} => run \in Passes
           /\ run.pc = "merge" => run \in Merges
           /\ run.pc = "place" => run \in Placements
           /\ run.pc \in {"off", "exact", "fuzzy", "cross", "merge", "place"}
           /\ run.pc = "off" => run = Off
<1>1. CASE run = Off
  BY <1>1 DEF Off
<1>2. CASE run \in Passes
  BY <1>2 DEF Passes
<1>3. CASE run \in Merges
  BY <1>3 DEF Merges
<1>4. CASE run \in Placements
  BY <1>4 DEF Placements
<1> QED BY <1>1, <1>2, <1>3, <1>4 DEF TypeOK

LEMMA MergeFields ==
    ASSUME NEW m \in Merges
    PROVE  /\ m.pc = "merge" /\ m.back \in Passes /\ m.canon \in EverAlbum
           /\ m.others \subseteq EverAlbum /\ m.queue \subseteq Rows /\ m.unflushed \subseteq Rows
           /\ m.seen \in Table /\ m.new \in Table /\ m.gone \subseteq Rows /\ m.locked \in BOOLEAN
           /\ m = [pc |-> "merge", back |-> m.back, canon |-> m.canon, others |-> m.others,
                   queue |-> m.queue, unflushed |-> m.unflushed, seen |-> m.seen,
                   new |-> m.new, gone |-> m.gone, locked |-> m.locked]
BY DEF Merges

LEMMA PlacementFields ==
    ASSUME NEW m \in Placements
    PROVE  /\ m.pc = "place" /\ m.todo \subseteq Rows
           /\ m.seen \in Table /\ m.new \in Table /\ m.gone \subseteq Rows /\ m.locked \in BOOLEAN
           /\ m = [pc |-> "place", todo |-> m.todo, seen |-> m.seen, new |-> m.new,
                   gone |-> m.gone, locked |-> m.locked]
BY DEF Placements

LEMMA MergeOfSound ==
    ASSUME MntInv, NEW S, S \subseteq EverAlbum, Unmatched \notin S,
           NEW a \in S, NEW b \in S, a # b, NEW back \in Passes,
           NEW m, m = MergeOf(S, back)
    PROVE  /\ m \in Merges /\ MergeSound(m)
           /\ m.seen = row /\ m.new = row /\ m.back = back
           /\ m.canon \in S /\ m.others \subseteq S
           /\ \A r \in Rows : row[r] # None /\ row[r].album \in m.others => r \in m.queue
<1> DEFINE c == Canonical(row, S)
           others == S \ {c}
           queue == UNION {TracksOf(row, x) : x \in others}
<1>1. c \in S
  BY CanonicalIn
<1> HIDE DEF c
<1>2. others # {} /\ others \subseteq EverAlbum /\ c \in EverAlbum
  BY <1>1
<1>3. \A r \in queue : r \in Rows /\ row[r] # None /\ row[r].album \in others
  <2> HIDE DEF others
  <2> QED BY DEF TracksOf
<1>4. m = [pc |-> "merge", back |-> back, canon |-> c, others |-> others,
           queue |-> queue, unflushed |-> {}, seen |-> row, new |-> row, gone |-> {},
           locked |-> FALSE]
  BY DEF MergeOf, c
<1>5. c \notin others /\ c # Unmatched /\ Unmatched \notin others /\ others \subseteq S
  BY <1>1
<1>11. \A r \in Rows : row[r] # None /\ row[r].album \in others => r \in queue
  BY DEF TracksOf
<1> HIDE DEF others, queue
<1>6. row \in Table /\ Sound(row)
  BY DEF MntInv, TypeOK
<1>7. queue \subseteq Rows
  BY <1>3
<1>8. m \in Merges
  BY <1>2, <1>4, <1>6, <1>7 DEF Merges
<1>9. /\ m.canon = c /\ m.others = others /\ m.queue = queue /\ m.seen = row /\ m.new = row
      /\ m.back = back
  BY <1>4
<1>10. MergeSound(m)
  BY <1>2, <1>3, <1>5, <1>6, <1>9 DEF MergeSound
<1> QED BY <1>1, <1>5, <1>8, <1>9, <1>10, <1>11

LEMMA TurnIn ==
    ASSUME run \in Merges, MergeSound(run), run.queue # {}
    PROVE  Turn \in run.queue /\ Turn \in Rows
<1> DEFINE A == {run.seen[r].album : r \in run.queue}
           a == Min(A)
           Q == {r \in run.queue : run.seen[r].album = a}
<1>1. run.queue \subseteq Rows /\ run.others \subseteq EverAlbum
  BY MergeFields
<1>2. A # {} /\ A \subseteq EverAlbum
  BY <1>1 DEF MergeSound
<1>3. a \in A
  <2> HIDE DEF A
  <2> QED BY <1>2, LeastOfIds
<1>4. Q # {} /\ Q \subseteq Rows
  <2> HIDE DEF a
  <2> QED BY <1>1, <1>3
<1>5. Min(Q) \in Q
  <2> HIDE DEF Q
  <2> QED BY <1>4, LeastOfIds
<1>6. Turn = Min(Q)
  BY DEF Turn
<1> HIDE DEF a
<1> QED BY <1>1, <1>5, <1>6

LEMMA Folded ==
    ASSUME NEW p \in Path \cup {None}, NEW k \in Path \cup {None},
           NEW fold, fold = FoldPaths(p, k)
    PROVE  /\ fold.keep \in {p, k} /\ fold.remove \in {p, k, None}
           /\ fold.remove # None =>
                /\ p # None /\ k # None /\ p # k
                /\ {fold.keep, fold.remove} = {p, k} /\ fold.keep # fold.remove
                /\ Rank[fold.keep[3]] >= Rank[fold.remove[3]]
<1>1. p # None /\ k # None => Rank[p[3]] \in Int /\ Rank[k[3]] \in Int
  BY PathParts, MntRanks
<1>2. CASE p = None \/ p = k \/ k = None
  BY <1>2 DEF FoldPaths
<1>3. CASE p # None /\ p # k /\ k # None /\ Better(p, k)
  <2>1. fold = [keep |-> p, remove |-> k]
    BY <1>3 DEF FoldPaths
  <2> QED BY <1>1, <1>3, <2>1 DEF Better
<1>4. CASE p # None /\ p # k /\ k # None /\ ~Better(p, k)
  <2>1. fold = [keep |-> k, remove |-> p]
    BY <1>4 DEF FoldPaths
  <2>2. Rank[k[3]] >= Rank[p[3]]
    BY <1>1, <1>4 DEF Better
  <2> QED BY <1>4, <2>1, <2>2
<1> QED BY <1>2, <1>3, <1>4

\* Only tracks of the catalog are folded, into tracks of the catalog.
LEMMA FoldsCatalog ==
    ASSUME NEW m \in Merges, MergeSound(m), NEW r \in m.queue
    PROVE  /\ r \in Catalog /\ m.new[r] # None /\ r \in Rows
           /\ \A q \in TracksOf(m.new, m.canon) :
                /\ q \in Catalog /\ q # r /\ q \notin m.queue /\ q \in Rows
                /\ m.new[q] # None /\ m.new[q].album = m.canon
<1>1. r \in Rows /\ Rows = Catalog \cup Spare
  BY MergeFields DEF Rows
<1>2. m.new[r] # None /\ Owned(r, m.new[r]) /\ m.new[r].album # Unmatched
  BY <1>1 DEF MergeSound, Sound
<1>3. r \in Catalog
  BY <1>1, <1>2 DEF Owned
<1>4. ASSUME NEW q \in TracksOf(m.new, m.canon)
      PROVE  /\ q \in Catalog /\ q # r /\ q \notin m.queue /\ q \in Rows
             /\ m.new[q] # None /\ m.new[q].album = m.canon
  <2>1. q \in Rows /\ m.new[q] # None /\ m.new[q].album = m.canon
    BY DEF TracksOf
  <2>2. Owned(q, m.new[q]) /\ m.canon # Unmatched /\ m.canon \notin m.others
    BY <2>1 DEF MergeSound, Sound
  <2>3. q \in Catalog
    BY <1>1, <2>1, <2>2 DEF Owned
  <2>4. q \notin m.queue /\ q # r
    BY <2>1, <2>2 DEF MergeSound
  <2> QED BY <2>1, <2>3, <2>4
<1> QED BY <1>1, <1>2, <1>3, <1>4

\* The merge after a track has moved, and after it was dropped.
Moved(m, r) ==
    [m EXCEPT !.queue = @ \ {r}, !.unflushed = @ \cup {r}, !.new = InAlbum(@, r, m.canon)]
Dropped(m, r, q, keep) ==
    [m EXCEPT !.queue = @ \ {r}, !.unflushed = {}, !.locked = TRUE,
              !.new = [WithPath(@, q, keep) EXCEPT ![r] = None]]

LEMMA MoveSound ==
    ASSUME NEW m \in Merges, MergeSound(m), NEW r \in m.queue,
           NEW n, n = Moved(m, r)
    PROVE  /\ n \in Merges /\ MergeSound(n)
           /\ n.pc = "merge" /\ n.back = m.back /\ n.canon = m.canon /\ n.others = m.others
           /\ n.queue = m.queue \ {r} /\ n.seen = m.seen
           /\ \A q \in Rows : /\ n.new[q] = None <=> m.new[q] = None
                              /\ n.new[q] # None => /\ n.new[q].path = m.new[q].path
                                                    /\ n.new[q].song = m.new[q].song
           /\ n.new[r].album = m.canon /\ \A q \in Rows \ {r} : n.new[q] = m.new[q]
<1> DEFINE y == [m.new[r] EXCEPT !.album = m.canon]
           T == [q \in Rows |-> IF q = r THEN y ELSE m.new[q]]
<1>1. r \in Rows /\ r \in Catalog /\ m.new[r] # None
  BY FoldsCatalog
<1>2. Sound(m.new) /\ m.canon \in EverAlbum /\ m.canon # Unmatched /\ r \notin Spare
  BY <1>1, MergeFields, MntRows DEF MergeSound
<1>3. m.new[r] \in Track /\ Owned(r, m.new[r])
  BY <1>1, <1>2, TableRow
<1>4. /\ y \in Track /\ Owned(r, y) /\ y # None
      /\ y.album = m.canon /\ y.song = m.new[r].song /\ y.path = m.new[r].path
  BY <1>2, <1>3, <1>1, NewAlbum
<1>5. m.new = [q \in Rows |-> m.new[q]]
  BY <1>2 DEF Sound, Table
<1>6. InAlbum(m.new, r, m.canon) = T
  <2>1. InAlbum(m.new, r, m.canon) = [m.new EXCEPT ![r] = [@ EXCEPT !.album = m.canon]]
    BY DEF InAlbum
  <2> QED BY <1>5, <2>1
<1>7. n = [pc |-> "merge", back |-> m.back, canon |-> m.canon, others |-> m.others,
           queue |-> m.queue \ {r}, unflushed |-> m.unflushed \cup {r}, seen |-> m.seen,
           new |-> T, gone |-> m.gone, locked |-> m.locked]
  <2> HIDE DEF T
  <2>1. n = [pc |-> "merge", back |-> m.back, canon |-> m.canon, others |-> m.others,
             queue |-> m.queue \ {r}, unflushed |-> m.unflushed \cup {r}, seen |-> m.seen,
             new |-> InAlbum(m.new, r, m.canon), gone |-> m.gone, locked |-> m.locked]
    BY DEF Merges, Moved
  <2> QED BY <2>1, <1>6
<1> HIDE DEF y
<1>8. T = [q \in Rows |-> T[q]] /\ T[r] = y /\ \A q \in Rows \ {r} : T[q] = m.new[q]
  BY <1>1
<1> HIDE DEF T
<1>9. y \in Track \cup {None} /\ Owned(r, y)
  BY <1>4
<1>10. Sound(T)
  BY <1>1, <1>2, <1>8, <1>9, OneRowSound
<1>11. \A q \in m.queue \ {r} : T[q] = m.new[q]
  BY <1>8, MergeFields
<1>12. /\ n \in Merges /\ MergeSound(n)
       /\ n.pc = "merge" /\ n.back = m.back /\ n.canon = m.canon /\ n.others = m.others
       /\ n.queue = m.queue \ {r} /\ n.seen = m.seen /\ n.new = T
  <2>1. /\ m.queue \ {r} \subseteq Rows /\ T \in Table /\ m.locked \in BOOLEAN
        /\ m.unflushed \cup {r} \subseteq Rows /\ m.gone \subseteq Rows
    BY <1>1, <1>10, MergeFields DEF Sound
  <2>2. /\ n \in Merges /\ n.pc = "merge" /\ n.back = m.back /\ n.canon = m.canon
        /\ n.others = m.others /\ n.queue = m.queue \ {r} /\ n.seen = m.seen /\ n.new = T
    <3>1. /\ n.pc = "merge" /\ n.back = m.back /\ n.canon = m.canon
          /\ n.others = m.others /\ n.queue = m.queue \ {r} /\ n.seen = m.seen /\ n.new = T
      BY <1>7
    <3>2. /\ m.back \in Passes /\ m.canon \in EverAlbum /\ m.others \subseteq EverAlbum
          /\ m.seen \in Table
      BY MergeFields
    <3>3. n \in Merges
      BY <1>7, <2>1, <3>2 DEF Merges
    <3> QED BY <3>1, <3>3
  <2>3. Sound(n.new) /\ \A x \in m.queue \ {r} : n.new[x] = m.new[x]
    BY <1>10, <1>11, <2>2
  <2>4. MergeSound(n)
    BY <2>2, <2>3 DEF MergeSound
  <2> QED BY <2>2, <2>4
<1> QED BY <1>1, <1>4, <1>8, <1>12

\* The merge m after the row r was folded into q, which keeps the path keep.
AfterDrop(n, m, r, q, keep) ==
    /\ n \in Merges /\ MergeSound(n)
    /\ n.pc = "merge" /\ n.back = m.back /\ n.canon = m.canon /\ n.others = m.others
    /\ n.queue = m.queue \ {r} /\ n.seen = m.seen
    /\ n.new[r] = None /\ n.new[q] # None /\ n.new[q].path = keep
    /\ n.new[q].album = m.new[q].album /\ n.new[q].song = m.new[q].song
    /\ \A x \in Rows \ {r, q} : n.new[x] = m.new[x]

LEMMA DropSound ==
    ASSUME NEW m \in Merges, MergeSound(m), NEW r \in m.queue,
           NEW q \in TracksOf(m.new, m.canon), m.new[q].song = m.new[r].song,
           NEW fold, fold = FoldPaths(m.new[r].path, m.new[q].path),
           NEW n, n = Dropped(m, r, q, fold.keep)
    PROVE  AfterDrop(n, m, r, q, fold.keep)
<1> DEFINE U == WithPath(m.new, q, fold.keep)
           T == [U EXCEPT ![r] = None]
<1>1. /\ r \in Rows /\ r \in Catalog /\ m.new[r] # None
      /\ q \in Catalog /\ q # r /\ q \notin m.queue /\ q \in Rows /\ m.new[q] # None
  BY FoldsCatalog
<1>2. Sound(m.new)
  BY DEF MergeSound
<1>3. /\ m.new[r].path \in Path \cup {None} /\ m.new[q].path \in Path \cup {None}
      /\ Owned(r, m.new[r]) /\ Owned(q, m.new[q])
  BY <1>1, <1>2, TableRow
<1>4. fold.keep \in {m.new[r].path, m.new[q].path}
  BY <1>3, Folded
<1>5. Song[r] = Song[q] /\ (fold.keep # None => fold.keep[2] = Name[Song[q]])
  BY <1>1, <1>3, <1>4 DEF Owned
<1>6. fold.keep \in Path \cup {None}
  BY <1>3, <1>4
<1>7. /\ Sound(U) /\ (\A x \in Rows \ {q} : U[x] = m.new[x])
      /\ U[q] # None /\ U[q].path = fold.keep
      /\ U[q].album = m.new[q].album /\ U[q].song = m.new[q].song
  <2>1. q \in Rows /\ m.new[q] # None /\ U = WithPath(m.new, q, fold.keep)
    BY <1>1
  <2>2. q \in Catalog /\ fold.keep # None => fold.keep[2] = Name[Song[q]]
    BY <1>5
  <2> HIDE DEF U
  <2>3. Repathed(U, m.new, q, fold.keep)
    BY <1>2, <1>6, <2>1, <2>2, WithPathSound
  <2> QED BY <2>3 DEF Repathed
<1>8. n = [pc |-> "merge", back |-> m.back, canon |-> m.canon, others |-> m.others,
           queue |-> m.queue \ {r}, unflushed |-> {}, seen |-> m.seen, new |-> T,
           gone |-> m.gone, locked |-> TRUE]
  <2> HIDE DEF T
  <2>1. n = [m EXCEPT !.queue = @ \ {r}, !.unflushed = {}, !.locked = TRUE, !.new = T]
    BY DEF T, Dropped
  <2> QED BY <2>1 DEF Merges
<1> HIDE DEF U
<1>9. /\ T \in [Rows -> Track \cup {None}] /\ T[r] = None
      /\ \A x \in Rows \ {r} : T[x] = U[x]
  BY <1>1, <1>7 DEF Sound, Table
<1> HIDE DEF T
<1>10. \A x \in Rows : T[x] = None \/ T[x] = U[x]
  BY <1>9
<1>11. Sound(T)
  BY <1>7, <1>9, <1>10, NoneIsSound
<1>12. \A x \in m.queue \ {r} : T[x] = m.new[x]
  BY <1>1, <1>7, <1>9, MergeFields
<1>13. /\ n \in Merges /\ MergeSound(n)
       /\ n.pc = "merge" /\ n.back = m.back /\ n.canon = m.canon /\ n.others = m.others
       /\ n.queue = m.queue \ {r} /\ n.seen = m.seen /\ n.new = T
  <2>1. m.queue \ {r} \subseteq Rows /\ T \in Table /\ m.gone \subseteq Rows /\ TRUE \in BOOLEAN
    BY <1>11, MergeFields DEF Sound
  <2>2. /\ n \in Merges /\ n.pc = "merge" /\ n.back = m.back /\ n.canon = m.canon
        /\ n.others = m.others /\ n.queue = m.queue \ {r} /\ n.seen = m.seen /\ n.new = T
    <3>1. /\ n.pc = "merge" /\ n.back = m.back /\ n.canon = m.canon
          /\ n.others = m.others /\ n.queue = m.queue \ {r} /\ n.seen = m.seen /\ n.new = T
      BY <1>8
    <3>2. /\ m.back \in Passes /\ m.canon \in EverAlbum /\ m.others \subseteq EverAlbum
          /\ m.seen \in Table
      BY MergeFields
    <3>3. n \in Merges
      BY <1>8, <2>1, <3>2 DEF Merges
    <3> QED BY <3>1, <3>3
  <2>3. /\ Sound(n.new) /\ Sound(n.seen)
        /\ \A x \in n.queue : x \in m.queue /\ n.new[x] = m.new[x]
    BY <1>11, <1>12, <2>2 DEF MergeSound
  <2>4. MergeSound(n)
    <3>1. /\ n.canon # Unmatched /\ n.canon \notin n.others
          /\ n.others # {} /\ Unmatched \notin n.others
      BY <2>2 DEF MergeSound
    <3>2. \A x \in m.queue : /\ m.seen[x] # None /\ m.seen[x].album \in m.others
                            /\ m.new[x] # None /\ m.new[x].album \in m.others
      BY DEF MergeSound
    <3>3. n.seen = m.seen /\ n.others = m.others
      BY <2>2
    <3>4. \A x \in n.queue : /\ n.seen[x] # None /\ n.seen[x].album \in n.others
                            /\ n.new[x] # None /\ n.new[x].album \in n.others
      BY <2>3, <3>2, <3>3
    <3> QED BY <2>3, <3>1, <3>4 DEF MergeSound
  <2> QED BY <2>2, <2>4
<1>14. T[q] = U[q] /\ \A x \in Rows \ {r, q} : T[x] = m.new[x]
  BY <1>1, <1>7, <1>9
<1> QED BY <1>7, <1>9, <1>13, <1>14 DEF AfterDrop

\* A merge of which other tracks are gone, or that holds the lock.
SameMerge(n, m) ==
    /\ n.back = m.back /\ n.canon = m.canon /\ n.others = m.others
    /\ n.queue = m.queue /\ n.seen = m.seen /\ n.new = m.new

LEMMA GoneSound ==
    ASSUME NEW m \in Merges, NEW g, g \subseteq Rows,
           NEW n, n = [m EXCEPT !.gone = g, !.unflushed = {}]
    PROVE  n \in Merges /\ SameMerge(n, m) /\ n.gone = g
<1>1. n = [pc |-> "merge", back |-> m.back, canon |-> m.canon, others |-> m.others,
           queue |-> m.queue, unflushed |-> {}, seen |-> m.seen, new |-> m.new,
           gone |-> g, locked |-> m.locked]
  BY DEF Merges
<1>2. /\ m.back \in Passes /\ m.canon \in EverAlbum /\ m.others \subseteq EverAlbum
      /\ m.queue \subseteq Rows /\ m.seen \in Table /\ m.new \in Table /\ m.locked \in BOOLEAN
  BY MergeFields
<1>3. n \in Merges
  BY <1>1, <1>2 DEF Merges
<1> QED BY <1>1, <1>3 DEF SameMerge

LEMMA LockedSound ==
    ASSUME NEW m \in Merges, NEW n, n = [m EXCEPT !.locked = TRUE]
    PROVE  n \in Merges /\ SameMerge(n, m) /\ n.gone = m.gone
<1>1. n = [pc |-> "merge", back |-> m.back, canon |-> m.canon, others |-> m.others,
           queue |-> m.queue, unflushed |-> m.unflushed, seen |-> m.seen, new |-> m.new,
           gone |-> m.gone, locked |-> TRUE]
  BY DEF Merges
<1>2. /\ m.back \in Passes /\ m.canon \in EverAlbum /\ m.others \subseteq EverAlbum
      /\ m.queue \subseteq Rows /\ m.unflushed \subseteq Rows
      /\ m.seen \in Table /\ m.new \in Table /\ m.gone \subseteq Rows
  BY MergeFields
<1>3. n \in Merges
  BY <1>1, <1>2 DEF Merges
<1> QED BY <1>1, <1>3 DEF SameMerge

\* The merge after the album of the track in turn: it may have gone.
LEMMA FoldedSound ==
    ASSUME NEW m \in Merges, MergeSound(m), NEW a, NEW n, n = AlbumFolded(m, a), n # Off
    PROVE  /\ n \in Merges /\ MergeSound(n)
           /\ n.pc = "merge" /\ n.back = m.back /\ n.canon = m.canon /\ n.others = m.others
           /\ n.queue = m.queue /\ n.seen = m.seen /\ n.new = m.new /\ m.gone \subseteq n.gone
<1> DEFINE taken == TracksOf(Flushed(m), a) \cup (m.unflushed \cap TracksOf(row, a))
           gone == m.gone \cup taken
           folded == [m EXCEPT !.gone = gone, !.unflushed = {}]
           held == [folded EXCEPT !.locked = TRUE]
<1>1. n \in {m, folded, held}
  BY DEF AlbumFolded
<1>2. gone \subseteq Rows /\ m.gone \subseteq gone
  BY TracksFinite, MergeFields
<1> HIDE DEF gone
<1>3. folded \in Merges /\ SameMerge(folded, m) /\ folded.gone = gone
  BY <1>2, GoneSound
<1> HIDE DEF folded
<1>4. held \in Merges /\ SameMerge(held, folded) /\ held.gone = gone
  BY <1>3, LockedSound
<1> HIDE DEF held
<1>5. n \in Merges /\ SameMerge(n, m) /\ m.gone \subseteq n.gone
  BY <1>1, <1>2, <1>3, <1>4 DEF SameMerge
<1>6. /\ n.pc = "merge" /\ n.back = m.back /\ n.canon = m.canon /\ n.others = m.others
      /\ n.queue = m.queue /\ n.seen = m.seen /\ n.new = m.new
  BY <1>5, MergeFields DEF SameMerge
<1>7. MergeSound(n)
  BY <1>6 DEF MergeSound
<1> QED BY <1>5, <1>6, <1>7

\* What a flush leaves is a row, and it brings none back.
LEMMA FlushedSound ==
    ASSUME Sound(row), NEW m, Sound(m.seen), Sound(m.new)
    PROVE  Sound(Flushed(m)) /\ \A r \in Rows : row[r] = None => Flushed(m)[r] = None
<1> DEFINE T == Flushed(m)
<1>1. ASSUME NEW r \in Rows
      PROVE  /\ T[r] \in Track \cup {None} /\ Owned(r, T[r])
             /\ row[r] = None => T[r] = None
  <2>1. CASE row[r] = None \/ r \in m.gone \/ (m.seen[r] # None /\ m.new[r] = None)
    BY <2>1 DEF Flushed, Owned
  <2>2. CASE row[r] # None /\ r \notin m.gone /\ m.seen[r] = None
    <3>1. T[r] = row[r]
      BY <2>2 DEF Flushed
    <3> QED BY <2>2, <3>1, TableRow
  <2>3. CASE row[r] # None /\ r \notin m.gone /\ m.seen[r] # None /\ m.new[r] # None
    <3> DEFINE a == IF m.new[r].album # m.seen[r].album THEN m.new[r].album ELSE row[r].album
               p == IF m.new[r].path # m.seen[r].path THEN m.new[r].path ELSE row[r].path
    <3>1. T[r] = [album |-> a, song |-> row[r].song, path |-> p]
      BY <2>3 DEF Flushed
    <3>2. /\ row[r] \in Track /\ Owned(r, row[r]) /\ m.new[r] \in Track /\ Owned(r, m.new[r])
          /\ row[r].album \in EverAlbum /\ row[r].song \in Songs
          /\ row[r].path \in Path \cup {None}
          /\ m.new[r].album \in EverAlbum /\ m.new[r].path \in Path \cup {None}
      BY <2>3, TableRow
    <3>3. a \in EverAlbum /\ p \in Path \cup {None}
      BY <3>2
    <3>4. a = Unmatched <=> r \in Spare
      BY <2>3, <3>2 DEF Owned
    <3>5. r \in Catalog /\ p # None => p[2] = Name[Song[r]]
      BY <2>3, <3>2 DEF Owned
    <3>6. r \in Catalog => row[r].song = Song[r]
      BY <2>3, <3>2 DEF Owned
    <3> HIDE DEF a, p
    <3>7. T[r] \in Track
      BY <3>1, <3>2, <3>3 DEF Track
    <3> QED BY <2>3, <3>1, <3>4, <3>5, <3>6, <3>7 DEF Owned
  <2> QED BY <2>1, <2>2, <2>3
<1>2. T = [r \in Rows |-> T[r]]
  BY DEF Flushed
<1> HIDE DEF T
<1>3. Sound(T)
  BY <1>1, <1>2, TableSound
<1> QED BY <1>1, <1>3 DEF T

-----------------------------------------------------------------------------
\* What the steps keep

LEMMA FewerFiles ==
    ASSUME NEW d, DiskSound(d), NEW e, e \subseteq d
    PROVE  DiskSound(e)
BY FS_Subset DEF DiskSound

LEMMA PresentWhere ==
    ASSUME NEW R, NEW d, Present(R, d), NEW T,
           \A r \in Downloaded(T) : r \in Downloaded(R) /\ T[r].path = R[r].path
    PROVE  Present(T, d)
BY DEF Present, Unshared

LEMMA ClaimKept ==
    ASSUME Claimed(import), import' = import, \A r \in Spare : row[r] = None => row'[r] = None
    PROVE  Claimed(import)'
<1>1. CASE ~(import # None /\ import.pc = "matched")
  BY <1>1 DEF Claimed
<1>2. CASE import # None /\ import.pc = "matched"
  <2>1. FreeIds \subseteq FreeIds' /\ IsFiniteSet(FreeIds')
    <3>1. FreeIds' \subseteq Rows
      BY RowsAndAlbums DEF FreeIds
    <3>2. IsFiniteSet(FreeIds')
      BY <3>1, RowsAndAlbums, FS_Subset
    <3> QED BY <3>2 DEF FreeIds
  <2>2. /\ IsFiniteSet(import.new) /\ Cardinality(import.new) <= Cardinality(FreeIds)
        /\ IsFiniteSet(FreeIds)
    BY <1>2, <2>1, FS_Subset DEF Claimed
  <2>3. Cardinality(FreeIds) <= Cardinality(FreeIds')
    BY <2>1, FS_Subset
  <2>4. Cardinality(import.new) \in Nat /\ Cardinality(FreeIds) \in Nat /\ Cardinality(FreeIds') \in Nat
    BY <2>1, <2>2, FS_CardinalityType
  <2>5. IsFiniteSet(import'.new) /\ Cardinality(import'.new) <= Cardinality(FreeIds')
    BY <2>2, <2>3, <2>4
  <2>6. \A r \in Catalog : import'.claim[r] # None => import'.claim[r].song = Song[r]
    BY <1>2 DEF Claimed
  <2> QED BY <2>5, <2>6 DEF Claimed
<1> QED BY <1>1, <1>2

RunTyped(m) == m \in {Off} \cup Passes \cup Merges \cup Placements

\* What a step of the maintenance process has to show, and one of the web
\* process.
LEMMA RunStep ==
    ASSUME MntInv, albums' \subseteq EverAlbum, Sound(row'), DiskSound(disk'),
           RunTyped(run'), RunSound(run'), healthy' \in BOOLEAN, InAccord',
           \A r \in Spare : row[r] = None => row'[r] = None,
           UNCHANGED <<download, import, events>>
    PROVE  MntInv'
<1>1. Claimed(import)'
  BY ClaimKept DEF MntInv
<1>2. Fetched(download)'
  BY DEF MntInv, Fetched
<1>3. row' \in Table /\ \A r \in Rows : row'[r] # None => (row'[r].album = Unmatched <=> r \in Spare)
  BY DEF Sound, Owned
<1>4. disk' \subseteq File /\ \A f, g \in disk' : At(f) = At(g) => f = g
  BY DEF DiskSound
<1>5. TypeOK'
  BY <1>3, <1>4 DEF MntInv, TypeOK, RunTyped
<1> QED BY <1>1, <1>2, <1>5 DEF MntInv

LEMMA WebStep ==
    ASSUME MntInv, run' = run, albums' \subseteq EverAlbum, Sound(row'), DiskSound(disk'),
           download' \in [track : Rows, song : Songs, dir : Dirs] \cup {None}, Fetched(download'),
           import' \in Imports \cup {None}, Claimed(import)', events' \in 0..MaxEvents,
           healthy' = FALSE \/ UNCHANGED <<row, disk, healthy>>
    PROVE  MntInv'
<1>1. healthy' \in BOOLEAN
  BY DEF MntInv, TypeOK
<1>2. InAccord'
  BY DEF MntInv, InAccord
<1>3. row' \in Table /\ \A r \in Rows : row'[r] # None => (row'[r].album = Unmatched <=> r \in Spare)
  BY DEF Sound, Owned
<1>4. disk' \subseteq File /\ \A f, g \in disk' : At(f) = At(g) => f = g
  BY DEF DiskSound
<1>5. TypeOK'
  BY <1>1, <1>3, <1>4 DEF MntInv, TypeOK
<1>6. RunSound(run)'
  BY DEF MntInv, RunSound
<1> QED BY <1>2, <1>5, <1>6 DEF MntInv

LEMMA TwoOf ==
    ASSUME NEW S, IsFiniteSet(S), Cardinality(S) > 1
    PROVE  \E a, b \in S : a # b
<1>1. S # {}
  BY FS_EmptySet
<1>2. PICK a \in S : TRUE
  BY <1>1
<1>3. S # {a}
  BY FS_Singleton
<1> QED BY <1>2, <1>3

LEMMA GroupsTyped ==
    ASSUME albums \subseteq EverAlbum
    PROVE  /\ Groups \subseteq AllGroups
           /\ \A todo \in SUBSET AllGroups : \A pc \in {"exact", "fuzzy", "cross"} :
                Pass(pc, todo) \in Passes /\ Pass(pc, todo).pc = pc
           /\ IsFiniteSet(albums)
<1>1. IsFiniteSet(albums)
  BY RowsAndAlbums, FS_Subset
<1> QED BY <1>1 DEF Groups, AllGroups, Pass, Passes

LEMMA PassIsRun ==
    ASSUME NEW m \in Passes
    PROVE  RunTyped(m) /\ RunSound(m) /\ m.pc \in {"exact", "fuzzy", "cross"} /\ m.pc # "merge"
BY DEF Passes, RunTyped, RunSound

LEMMA OffIsRun == RunTyped(Off) /\ RunSound(Off) /\ Off.pc = "off"
BY DEF Off, RunTyped, RunSound

LEMMA Starts ==
    ASSUME MntInv, Start
    PROVE  MntInv'
<1>1. albums \subseteq EverAlbum /\ Sound(row) /\ DiskSound(disk)
  BY DEF MntInv, TypeOK
<1>2. run' = Pass("exact", Groups) /\ UNCHANGED <<albums, row, disk, download, import, events>>
      /\ healthy' = (Accounted(albums, row, disk) /\ Unshared(row))
  BY DEF Start
<1>3. run' \in Passes
  BY <1>1, <1>2, GroupsTyped
<1>4. RunTyped(run') /\ RunSound(run') /\ run'.pc # "merge"
  BY <1>3, PassIsRun
<1>5. Accounted(albums, row, disk) /\ Unshared(row) => Present(row, disk)
  BY DEF Accounted, Present, On
<1>6. healthy' \in BOOLEAN /\ (healthy' => Present(row, disk))
  BY <1>2, <1>5
<1>7. InAccord'
  BY <1>2, <1>4, <1>6 DEF InAccord
<1> QED BY <1>1, <1>2, <1>4, <1>6, <1>7, RunStep

-----------------------------------------------------------------------------
\* The steps of the maintenance process

\* A step that changes nothing but the run.
LEMMA RunOnly ==
    ASSUME MntInv, UNCHANGED <<albums, row, disk, download, import, healthy, events>>,
           RunTyped(run'), RunSound(run'), InAccord'
    PROVE  MntInv'
<1>1. albums' \subseteq EverAlbum /\ Sound(row') /\ DiskSound(disk') /\ healthy' \in BOOLEAN
  BY DEF MntInv, TypeOK
<1> QED BY <1>1, RunStep

\* A run that a StaleDataError ends.
LEMMA RunOff ==
    ASSUME MntInv, UNCHANGED <<albums, row, disk, download, import, healthy, events>>, run' = Off
    PROVE  MntInv'
<1>1. RunTyped(run') /\ RunSound(run') /\ run'.pc = "off"
  BY OffIsRun
<1>2. InAccord'
  BY <1>1 DEF InAccord
<1> QED BY <1>1, <1>2, RunOnly

\* A merge that a pass begins.
LEMMA MergeBegins ==
    ASSUME MntInv, run.pc \in {"exact", "fuzzy", "cross"},
           UNCHANGED <<albums, row, disk, download, import, healthy, events>>,
           NEW S, S \subseteq EverAlbum, Unmatched \notin S,
           NEW a \in S, NEW b \in S, a # b, NEW back \in Passes, run' = MergeOf(S, back)
    PROVE  MntInv'
<1>1. run' \in Merges /\ MergeSound(run') /\ run'.seen = row /\ run'.new = row
  BY MergeOfSound
<1>2. run'.pc = "merge" /\ RunTyped(run')
  BY <1>1, MergeFields DEF RunTyped
<1>3. RunSound(run')
  BY <1>1, <1>2 DEF RunSound
<1>4. InAccord'
  BY <1>1, <1>2 DEF MntInv, InAccord
<1> QED BY <1>2, <1>3, <1>4, RunOnly

LEMMA PassGoesOn ==
    ASSUME MntInv, run.pc \in {"exact", "fuzzy", "cross"},
           UNCHANGED <<albums, row, disk, download, import, healthy, events>>,
           run' \in Passes
    PROVE  MntInv'
<1>1. RunTyped(run') /\ RunSound(run') /\ run'.pc \in {"exact", "fuzzy", "cross"} /\ run'.pc # "merge"
  BY PassIsRun
<1>2. InAccord'
  BY <1>1 DEF MntInv, InAccord
<1> QED BY <1>1, <1>2, RunOnly

\* A pass begins a merge of albums that are there.
Beginning ==
    \E S \in SUBSET albums : \E a, b \in S : \E back \in Passes :
        a # b /\ Unmatched \notin S /\ run' = MergeOf(S, back)

LEMMA ExactBegins ==
    ASSUME MntInv, MergeExact
    PROVE  /\ run.pc \in {"exact", "fuzzy", "cross"} /\ (run' \in Passes \/ Beginning)
           /\ UNCHANGED <<albums, row, disk, download, import, healthy, events>>
<1>1. run.pc = "exact" /\ UNCHANGED <<albums, row, disk, download, import, healthy, events>>
  BY DEF MergeExact
<1>2. run \in Passes /\ albums \subseteq EverAlbum
  BY <1>1, RunTypes DEF MntInv, TypeOK
<1>3. PICK g \in run.todo :
        \/ /\ Cardinality(InGroup(g)) > 1 /\ Unmatched \notin InGroup(g)
           /\ run' = MergeOf(InGroup(g), Pass("exact", run.todo \ {g}))
        \/ run' = Pass("exact", run.todo \ {g})
  BY DEF MergeExact
<1> DEFINE S == InGroup(g)
           back == Pass("exact", run.todo \ {g})
<1>4. run.todo \ {g} \in SUBSET AllGroups
  BY <1>2 DEF Passes
<1>5. back \in Passes
  BY <1>2, <1>4, GroupsTyped
<1>6. S \subseteq albums
  BY DEF InGroup
<1> HIDE DEF S, back
<1>7. CASE run' = back
  BY <1>1, <1>5, <1>7
<1>8. CASE Cardinality(S) > 1 /\ Unmatched \notin S /\ run' = MergeOf(S, back)
  <2>1. IsFiniteSet(S)
    BY <1>2, <1>6, GroupsTyped, FS_Subset
  <2>2. \E a, b \in S : a # b
    BY <1>8, <2>1, TwoOf
  <2>3. Beginning
    BY <1>5, <1>6, <1>8, <2>2 DEF Beginning
  <2> QED BY <1>1, <2>3
<1> QED BY <1>3, <1>7, <1>8 DEF S, back

LEMMA PairBegins ==
    ASSUME MntInv, NEW pc \in {"fuzzy", "cross"}, NEW P \in {FuzzyPairs, CrossPairs},
           MergePair(pc, P)
    PROVE  /\ run.pc \in {"exact", "fuzzy", "cross"} /\ Beginning
           /\ UNCHANGED <<albums, row, disk, download, import, healthy, events>>
<1>1. /\ run.pc = pc /\ P # {} /\ UNCHANGED <<albums, row, disk, download, import, healthy, events>>
      /\ run' = MergeOf({FirstPair(P)[1], FirstPair(P)[2]}, Pass(pc, {}))
  BY DEF MergePair
<1>2. albums \subseteq EverAlbum
  BY DEF MntInv, TypeOK
<1>3. P \subseteq Pairs
  BY DEF FuzzyPairs, CrossPairs
<1>4. Pairs \subseteq EverAlbum \X EverAlbum
  BY <1>2 DEF Pairs
<1>5. FirstPair(P) \in P
  BY <1>1, <1>3, <1>4, FirstPairIn
<1> DEFINE a == FirstPair(P)[1]
           b == FirstPair(P)[2]
<1>6. /\ a \in albums /\ b \in albums /\ a # Unmatched /\ b # Unmatched /\ a < b
  BY <1>3, <1>5 DEF Pairs
<1> HIDE DEF a, b
<1>7. a \in Nat /\ b \in Nat /\ a # b
  BY <1>2, <1>6, RowsAndAlbums
<1>8. Pass(pc, {}) \in Passes
  BY <1>2, GroupsTyped
<1>9. run' = MergeOf({a, b}, Pass(pc, {}))
  BY <1>1 DEF a, b
<1>10. {a, b} \in SUBSET albums /\ Unmatched \notin {a, b} /\ a \in {a, b} /\ b \in {a, b}
  BY <1>6
<1>11. Beginning
  BY <1>7, <1>8, <1>9, <1>10 DEF Beginning
<1> QED BY <1>1, <1>11

\* The first steps of the passes.
LEMMA PassesWork ==
    ASSUME MntInv, run.pc \in {"exact", "fuzzy", "cross"}, run' \in Passes \/ Beginning,
           UNCHANGED <<albums, row, disk, download, import, healthy, events>>
    PROVE  MntInv'
<1>1. CASE run' \in Passes
  BY <1>1, PassGoesOn
<1>2. CASE Beginning
  <2>1. PICK S \in SUBSET albums : \E a, b \in S : \E back \in Passes :
            a # b /\ Unmatched \notin S /\ run' = MergeOf(S, back)
    BY <1>2 DEF Beginning
  <2>2. S \subseteq EverAlbum
    BY DEF MntInv, TypeOK
  <2> QED BY <2>1, <2>2, MergeBegins
<1> QED BY <1>1, <1>2

LEMMA NextPasses ==
    ASSUME MntInv, NextPass
    PROVE  MntInv'
<1>1. UNCHANGED <<albums, row, disk, download, import, healthy, events>>
      /\ run.pc \in {"exact", "fuzzy", "cross"}
  BY DEF NextPass
<1>2. albums \subseteq EverAlbum /\ Sound(row)
  BY DEF MntInv, TypeOK
<1>3. CASE run' = Pass("fuzzy", {}) \/ run' = Pass("cross", {})
  <2>1. run' \in Passes
    BY <1>2, <1>3, GroupsTyped
  <2> QED BY <1>1, <2>1, PassGoesOn
<1>4. CASE run' = [pc |-> "place", todo |-> Downloaded(row), seen |-> row, new |-> row,
                   gone |-> {}, locked |-> FALSE]
  <2>1. Downloaded(row) \subseteq Rows /\ row \in Table
    BY <1>2, TracksFinite DEF Sound
  <2>2. run' \in Placements
    BY <1>4, <2>1 DEF Placements
  <2>3. run'.pc = "place" /\ run'.todo = Downloaded(row) /\ run'.seen = row /\ run'.new = row
    BY <1>4
  <2>4. RunTyped(run') /\ RunSound(run')
    BY <1>2, <2>2, <2>3 DEF RunTyped, RunSound, PlaceSound
  <2>5. InAccord'
    BY <2>3 DEF InAccord
  <2> QED BY <1>1, <2>4, <2>5, RunOnly
<1> QED BY <1>3, <1>4 DEF NextPass

LEMMA TracksMove ==
    ASSUME MntInv, MoveTrack
    PROVE  MntInv'
<1> DEFINE r == Turn
<1>1. /\ run.pc = "merge" /\ run.queue # {}
      /\ UNCHANGED <<albums, row, disk, download, import, healthy, events>>
      /\ run' = AlbumFolded(Moved(run, r), run.seen[r].album)
  BY DEF MoveTrack, Moved
<1>2. run \in Merges /\ MergeSound(run)
  BY <1>1, RunTypes DEF MntInv, RunSound
<1>3. r \in run.queue
  BY <1>1, <1>2, TurnIn
<1> HIDE DEF r
<1> DEFINE n == Moved(run, r)
<1>4. /\ n \in Merges /\ MergeSound(n) /\ n.seen = run.seen
      /\ \A q \in Rows : /\ n.new[q] = None <=> run.new[q] = None
                         /\ n.new[q] # None => n.new[q].path = run.new[q].path
  BY <1>2, <1>3, MoveSound
<1>5. run' = AlbumFolded(n, run.seen[r].album)
  BY <1>1
<1> HIDE DEF n
<1>6. CASE run' = Off
  BY <1>1, <1>6, RunOff
<1>7. CASE run' # Off
  <2>1. /\ run' \in Merges /\ MergeSound(run') /\ run'.pc = "merge"
        /\ run'.seen = run.seen /\ run'.new = n.new
    BY <1>4, <1>5, <1>7, FoldedSound
  <2>2. RunTyped(run') /\ RunSound(run')
    BY <2>1 DEF RunTyped, RunSound
  <2>3. \A q \in Downloaded(run'.new) :
            q \in Downloaded(run.new) /\ run'.new[q].path = run.new[q].path
    BY <1>4, <2>1 DEF Downloaded
  <2>4. healthy => Present(run'.new, disk)
    BY <1>1, <2>3, PresentWhere DEF MntInv, InAccord
  <2>5. InAccord'
    BY <1>1, <2>1, <2>4 DEF MntInv, InAccord
  <2> QED BY <1>1, <2>2, <2>5, RunOnly
<1> QED BY <1>6, <1>7

\* The row in turn and its twin.
LEMMA TwinsMeet ==
    ASSUME run \in Merges, MergeSound(run), run.queue # {}, Twins(Turn) # {},
           NEW q, q = Max(Twins(Turn))
    PROVE  /\ Turn \in run.queue /\ q \in Twins(Turn) /\ q \in TracksOf(run.new, run.canon)
           /\ run.new[q].song = run.new[Turn].song
<1>1. Twins(Turn) \subseteq Rows
  BY TracksFinite DEF Twins
<1>2. q \in Twins(Turn)
  BY <1>1, LeastOfIds
<1> QED BY <1>2, TurnIn DEF Twins

LEMMA PresentAfterFold ==
    ASSUME NEW R, NEW T, NEW r \in Rows, NEW q \in Rows, q # r, R[r] # None, R[q] # None,
           R[r].path \in Path \cup {None}, R[q].path \in Path \cup {None},
           NEW fold, fold = FoldPaths(R[r].path, R[q].path),
           T[r] = None, T[q] # None, T[q].path = fold.keep,
           \A x \in Rows \ {r, q} : T[x] = R[x],
           Present(R, disk)
    PROVE  Present(T, Removed(disk, fold.remove))
<1>1. /\ fold.keep \in {R[r].path, R[q].path} /\ fold.remove \in {R[r].path, R[q].path, None}
      /\ fold.remove # None => /\ R[r].path # None /\ R[q].path # None
                               /\ fold.keep # fold.remove
  <2> DEFINE p == R[r].path
             k == R[q].path
  <2>1. p \in Path \cup {None} /\ k \in Path \cup {None} /\ fold = FoldPaths(p, k)
    OBVIOUS
  <2> HIDE DEF p, k
  <2>2. /\ fold.keep \in {p, k} /\ fold.remove \in {p, k, None}
        /\ fold.remove # None => p # None /\ k # None /\ fold.keep # fold.remove
    BY <2>1, Folded
  <2> QED BY <2>2 DEF p, k
<1>2. ASSUME NEW x \in Downloaded(T)
      PROVE  /\ T[x].path # fold.remove /\ On(disk, T[x].path)
             /\ x # r /\ x \in Rows
             /\ x # q => x \in Downloaded(R) /\ T[x].path = R[x].path
                         /\ R[x].path # R[r].path /\ R[x].path # R[q].path
  <2>1. x \in Rows /\ T[x] # None /\ T[x].path # None /\ x # r
    BY DEF Downloaded
  <2>2. CASE x = q
    <3>1. T[x].path # fold.remove
      BY <1>1, <2>1, <2>2
    <3>2. \E y \in Downloaded(R) : R[y].path = T[x].path
      BY <1>1, <2>1, <2>2 DEF Downloaded
    <3>3. On(disk, T[x].path)
      BY <3>2 DEF Present
    <3> QED BY <2>1, <2>2, <3>1, <3>3
  <2>3. CASE x # q
    <3>1. T[x] = R[x] /\ x \in Downloaded(R)
      BY <2>1, <2>3 DEF Downloaded
    <3>2. R[x].path # R[r].path
      BY <2>1, <3>1 DEF Present, Unshared, Downloaded
    <3>3. R[x].path # R[q].path
      BY <2>3, <3>1 DEF Present, Unshared, Downloaded
    <3>4. On(disk, R[x].path) /\ R[x].path # None
      BY <3>1 DEF Present, Downloaded
    <3> QED BY <1>1, <2>1, <3>1, <3>2, <3>3, <3>4
  <2> QED BY <2>2, <2>3
<1>3. \A x \in Downloaded(T) : On(Removed(disk, fold.remove), T[x].path)
  BY <1>2, RemovedFiles
<1>4. ASSUME NEW x \in Downloaded(T), NEW y \in Downloaded(T), T[x].path = T[y].path
      PROVE  x = y
  <2>1. CASE x = q
    BY <1>1, <1>2, <1>4, <2>1
  <2>2. CASE y = q
    BY <1>1, <1>2, <1>4, <2>2
  <2>3. CASE x # q /\ y # q
    BY <1>2, <1>4, <2>3 DEF Present, Unshared
  <2> QED BY <2>1, <2>2, <2>3
<1> QED BY <1>3, <1>4 DEF Present, Unshared

\* What a step of DropTrack does.
LEMMA DropsOne ==
    ASSUME MntInv, DropTrack,
           NEW q, q = Max(Twins(Turn)),
           NEW fold, fold = FoldPaths(run.new[Turn].path, run.new[q].path),
           NEW n, n = Dropped(run, Turn, q, fold.keep)
    PROVE  /\ run \in Merges /\ MergeSound(run) /\ run.pc = "merge" /\ run.queue # {}
           /\ Turn \in run.queue /\ q \in Twins(Turn) /\ q \in TracksOf(run.new, run.canon)
           /\ run.new[q].song = run.new[Turn].song
           /\ disk' = Removed(disk, fold.remove)
           /\ run' \in {Off, AlbumFolded(n, run.seen[Turn].album)}
           /\ UNCHANGED <<albums, row, download, import, healthy, events>>
<1>1. run.pc = "merge" /\ run.queue # {} /\ Twins(Turn) # {}
      /\ UNCHANGED <<albums, row, download, import, healthy, events>>
  BY DEF DropTrack
<1>2. run \in Merges /\ MergeSound(run)
  BY <1>1, RunTypes DEF MntInv, RunSound
<1>3. /\ Turn \in run.queue /\ q \in Twins(Turn) /\ q \in TracksOf(run.new, run.canon)
      /\ run.new[q].song = run.new[Turn].song
  BY <1>1, <1>2, TwinsMeet
<1>4. disk' = Removed(disk, fold.remove)
  BY DEF DropTrack
<1>5. run' \in {Off, AlbumFolded(n, run.seen[Turn].album)}
  BY DEF DropTrack, Dropped
<1> QED BY <1>1, <1>2, <1>3, <1>4, <1>5

LEMMA TracksDrop ==
    ASSUME MntInv, DropTrack
    PROVE  MntInv'
<1> DEFINE r == Turn
           q == Max(Twins(r))
           fold == FoldPaths(run.new[r].path, run.new[q].path)
           n == Dropped(run, r, q, fold.keep)
<1>1. /\ run \in Merges /\ MergeSound(run) /\ run.pc = "merge"
      /\ r \in run.queue /\ q \in Twins(r) /\ q \in TracksOf(run.new, run.canon)
      /\ run.new[q].song = run.new[r].song
      /\ disk' = Removed(disk, fold.remove)
      /\ run' \in {Off, AlbumFolded(n, run.seen[r].album)}
      /\ UNCHANGED <<albums, row, download, import, healthy, events>>
  BY DropsOne
<1>2. fold = FoldPaths(run.new[r].path, run.new[q].path) /\ n = Dropped(run, r, q, fold.keep)
  OBVIOUS
<1> HIDE DEF r, q, fold, n
<1>3. albums' \subseteq EverAlbum /\ Sound(row') /\ healthy' \in BOOLEAN
      /\ DiskSound(disk) /\ UNCHANGED <<row, download, import, events>>
  BY <1>1 DEF MntInv, TypeOK
<1>4. DiskSound(disk')
  BY <1>1, <1>3, RemovedFiles, FewerFiles
<1>5. CASE run' = Off
  <2>1. RunTyped(run') /\ RunSound(run') /\ run'.pc = "off"
    BY <1>5, OffIsRun
  <2>2. InAccord'
    BY <2>1 DEF InAccord
  <2> QED BY <1>3, <1>4, <2>1, <2>2, RunStep
<1>6. CASE run' # Off
  <2>1. /\ n \in Merges /\ MergeSound(n) /\ n.pc = "merge" /\ n.seen = run.seen
        /\ n.new[r] = None /\ n.new[q] # None /\ n.new[q].path = fold.keep
        /\ \A x \in Rows \ {r, q} : n.new[x] = run.new[x]
    <3>1. /\ run \in Merges /\ MergeSound(run) /\ r \in run.queue
          /\ q \in TracksOf(run.new, run.canon) /\ run.new[q].song = run.new[r].song
      BY <1>1
    <3>2. fold = FoldPaths(run.new[r].path, run.new[q].path)
      BY <1>2
    <3>3. n = Dropped(run, r, q, fold.keep)
      BY <1>2
    <3>4. AfterDrop(n, run, r, q, fold.keep)
      BY <3>1, <3>2, <3>3, DropSound
    <3> QED BY <3>4 DEF AfterDrop
  <2>2. /\ run' \in Merges /\ MergeSound(run') /\ run'.pc = "merge"
        /\ run'.seen = run.seen /\ run'.new = n.new
    BY <1>1, <1>6, <2>1, FoldedSound
  <2>3. /\ r \in Rows /\ q \in Rows /\ q # r /\ run.new[r] # None /\ run.new[q] # None
        /\ Sound(run.new)
    BY <1>1, FoldsCatalog DEF MergeSound
  <2>4. run.new[r].path \in Path \cup {None} /\ run.new[q].path \in Path \cup {None}
    BY <2>3, TableRow
  <2>5. Present(run.new, disk) => Present(n.new, Removed(disk, fold.remove))
    BY <1>2, <2>1, <2>3, <2>4, PresentAfterFold
  <2>6. healthy => run.seen = row /\ Present(run.new, disk)
    BY <1>1 DEF MntInv, InAccord
  <2>7. InAccord'
    BY <1>1, <2>2, <2>5, <2>6 DEF InAccord
  <2>8. RunTyped(run') /\ RunSound(run')
    BY <2>2 DEF RunTyped, RunSound
  <2> QED BY <1>3, <1>4, <2>7, <2>8, RunStep
<1> QED BY <1>5, <1>6

\* When nobody changed the rows, a flush writes what the session has.
LEMMA FlushedAlone ==
    ASSUME NEW m, m.seen = row, Sound(row), NEW r \in Rows, Flushed(m)[r] # None
    PROVE  /\ m.new[r] # None /\ row[r] # None
           /\ Flushed(m)[r].album = m.new[r].album /\ Flushed(m)[r].song = row[r].song
           /\ Flushed(m)[r].path = m.new[r].path
BY DEF Flushed

LEMMA MergesCommit ==
    ASSUME MntInv, MergeCommit
    PROVE  MntInv'
<1>1. run.pc = "merge" /\ UNCHANGED <<disk, download, import, healthy, events>>
  BY DEF MergeCommit
<1>2. run \in Merges /\ MergeSound(run)
  BY <1>1, RunTypes DEF MntInv, RunSound
<1>3. /\ albums \subseteq EverAlbum /\ Sound(row) /\ DiskSound(disk') /\ healthy' \in BOOLEAN
  BY <1>1 DEF MntInv, TypeOK
<1>4. CASE run' = Off /\ UNCHANGED <<albums, row>>
  <2>1. RunTyped(run') /\ RunSound(run') /\ run'.pc = "off"
    BY <1>4, OffIsRun
  <2>2. InAccord'
    BY <2>1 DEF InAccord
  <2> QED BY <1>1, <1>3, <1>4, <2>1, <2>2, RunStep
<1>5. CASE run' = run.back /\ albums' = albums \ run.others /\ row' = Flushed(run)
  <2>1. Sound(run.seen) /\ Sound(run.new)
    BY <1>2 DEF MergeSound
  <2>2. Sound(Flushed(run)) /\ \A r \in Rows : row[r] = None => Flushed(run)[r] = None
    BY <1>3, <2>1, FlushedSound
  <2>3. Sound(row')
    BY <1>5, <2>2
  <2>6. run' \in Passes
    BY <1>2, <1>5, MergeFields
  <2>7. RunTyped(run') /\ RunSound(run') /\ run'.pc # "merge"
    BY <2>6, PassIsRun
  <2>8. healthy => run.seen = row /\ Present(run.new, disk)
    BY <1>1 DEF MntInv, InAccord
  <2>9. ASSUME healthy, NEW r \in Downloaded(row')
        PROVE  r \in Downloaded(run.new) /\ row'[r].path = run.new[r].path
    <3>1. r \in Rows /\ row'[r] # None /\ row'[r].path # None
      BY DEF Downloaded
    <3>2. row'[r] = Flushed(run)[r] /\ Flushed(run)[r] # None
      BY <1>5, <3>1
    <3>3. run.new[r] # None /\ row'[r].path = run.new[r].path
      BY <1>3, <2>8, <2>9, <3>1, <3>2, FlushedAlone
    <3> QED BY <3>1, <3>3 DEF Downloaded
  <2>10. healthy => Present(row', disk)
    BY <2>8, <2>9, PresentWhere
  <2>11. InAccord'
    BY <1>1, <2>7, <2>10 DEF InAccord
  <2>12. albums' \subseteq EverAlbum /\ \A r \in Spare : row[r] = None => row'[r] = None
    BY <1>3, <1>5, <2>2, RowsAndAlbums
  <2> QED BY <1>1, <1>3, <2>3, <2>7, <2>11, <2>12, RunStep
<1> QED BY <1>4, <1>5 DEF MergeCommit

\* A file that goes to another folder.
LEMMA FileMoves ==
    ASSUME DiskSound(disk), NEW p \in Path, NEW dir \in Dirs,
           NEW to, to = <<dir, p[2], p[3]>>, ~On(disk, to),
           NEW e, e = {IF At(f) = p THEN [f EXCEPT !.dir = dir] ELSE f : f \in disk}
    PROVE  DiskSound(e)
<1> DEFINE h == [f \in disk |-> IF At(f) = p THEN [f EXCEPT !.dir = dir] ELSE f]
<1>1. ASSUME NEW f \in disk
      PROVE  /\ h[f] \in File
             /\ At(f) = p => At(h[f]) = to
             /\ At(f) # p => h[f] = f
  <2>1. f \in File
    BY DEF DiskSound
  <2>2. CASE At(f) # p
    BY <2>1, <2>2
  <2>3. CASE At(f) = p
    <3>1. h[f] = [dir |-> dir, song |-> f.song, ext |-> f.ext]
      BY <2>1, <2>3 DEF File
    <3>2. h[f] \in File
      BY <2>1, <3>1, FilePath DEF File
    <3>3. At(h[f]) = <<dir, Name[f.song], f.ext>>
      BY <3>1 DEF At
    <3>4. p[2] = Name[f.song] /\ p[3] = f.ext
      BY <2>1, <2>3, FilePath
    <3> QED BY <2>3, <3>2, <3>3, <3>4
  <2> QED BY <2>2, <2>3
<1>2. e = {h[f] : f \in disk}
  OBVIOUS
<1>3. h \in Surjection(disk, e)
  BY <1>2 DEF Surjection
<1> HIDE DEF h
<1>4. IsFiniteSet(e)
  BY <1>3, FS_Surjection DEF DiskSound
<1>5. e \subseteq File
  BY <1>1, <1>2
<1>6. ASSUME NEW f \in disk, NEW g \in disk, At(h[f]) = At(h[g])
      PROVE  h[f] = h[g]
  <2>1. (At(f) = At(g) => f = g) /\ At(f) # to /\ At(g) # to
    BY DEF DiskSound, On
  <2> QED BY <1>1, <1>6, <2>1
<1>7. \A f, g \in e : At(f) = At(g) => f = g
  BY <1>2, <1>6
<1> QED BY <1>4, <1>5, <1>7 DEF DiskSound

\* The placement after a track went to another path.
Rehomed(m, r, to) == [m EXCEPT !.todo = @ \ {r}, !.new = WithPath(@, r, to), !.locked = TRUE]
Skipped(m, r) == [m EXCEPT !.todo = @ \ {r}]

LEMMA SkippedSound ==
    ASSUME NEW m \in Placements, PlaceSound(m), NEW r, NEW n, n = Skipped(m, r)
    PROVE  n \in Placements /\ PlaceSound(n) /\ n.pc = "place"
<1>1. n = [pc |-> "place", todo |-> m.todo \ {r}, seen |-> m.seen, new |-> m.new,
           gone |-> m.gone, locked |-> m.locked]
  BY DEF Placements, Skipped
<1>2. /\ m.todo \subseteq Rows /\ m.seen \in Table /\ m.new \in Table
      /\ m.gone \subseteq Rows /\ m.locked \in BOOLEAN
  BY PlacementFields
<1>3. n.pc = "place" /\ n.todo = m.todo \ {r} /\ n.seen = m.seen /\ n.new = m.new
  BY <1>1
<1>4. n \in Placements
  BY <1>1, <1>2 DEF Placements
<1>5. PlaceSound(n)
  BY <1>3 DEF PlaceSound
<1> QED BY <1>3, <1>4, <1>5

LEMMA RehomedSound ==
    ASSUME NEW m \in Placements, PlaceSound(m), NEW r \in m.todo,
           NEW to \in Path, to[2] = m.new[r].path[2],
           NEW n, n = Rehomed(m, r, to)
    PROVE  n \in Placements /\ PlaceSound(n) /\ n.pc = "place"
<1> DEFINE T == WithPath(m.new, r, to)
<1>1. /\ r \in Rows /\ m.new[r] # None /\ m.new[r].path # None /\ Sound(m.new)
  BY DEF PlaceSound, Downloaded
<1>2. Owned(r, m.new[r]) /\ to # None
  BY <1>1, PathParts DEF Sound
<1>3. (r \in Catalog /\ to # None) => to[2] = Name[Song[r]]
  BY <1>1, <1>2 DEF Owned
<1>4. /\ Sound(T) /\ T[r] # None /\ T[r].path = to
      /\ \A q \in Rows \ {r} : T[q] = m.new[q]
  <2>1. to \in Path \cup {None}
    OBVIOUS
  <2>2. Repathed(T, m.new, r, to)
    BY <1>1, <1>3, <2>1, WithPathSound
  <2> QED BY <2>2 DEF Repathed
<1>5. n = [pc |-> "place", todo |-> m.todo \ {r}, seen |-> m.seen, new |-> T,
           gone |-> m.gone, locked |-> TRUE]
  BY DEF Placements, Rehomed
<1> HIDE DEF T
<1>6. /\ m.todo \subseteq Rows /\ m.seen \in Table /\ T \in Table
      /\ m.gone \subseteq Rows /\ TRUE \in BOOLEAN
  BY <1>4, PlacementFields DEF Sound
<1>7. n.pc = "place" /\ n.todo = m.todo \ {r} /\ n.seen = m.seen /\ n.new = T
  BY <1>5
<1>8. n \in Placements
  BY <1>5, <1>6 DEF Placements
<1>9. m.todo \ {r} \subseteq Downloaded(T)
  BY <1>4 DEF PlaceSound, Downloaded
<1>10. PlaceSound(n)
  BY <1>4, <1>7, <1>9 DEF PlaceSound
<1> QED BY <1>7, <1>8, <1>10

\* The path of a track in its place, of the same name.
LEMMA PlacedPath ==
    ASSUME NEW p \in Path, NEW a \in EverAlbum
    PROVE  /\ Placed(p, a) \in Path /\ Placed(p, a)[2] = p[2]
           /\ Placed(p, a) = <<Folder[a], p[2], p[3]>> /\ Folder[a] \in Dirs
BY PathParts, AlbumFolder DEF Placed, Path

\* What a step of Place does.
LEMMA PlacesOne ==
    ASSUME NEW r \in Rows, Place(r),
           NEW to, to = Placed(run.new[r].path, run.new[r].album),
           NEW moved, moved = {IF At(f) = run.new[r].path
                               THEN [f EXCEPT !.dir = Folder[run.new[r].album]] ELSE f : f \in disk}
    PROVE  /\ run.pc = "place" /\ r \in run.todo
           /\ UNCHANGED <<albums, row, download, import, healthy, events>>
           /\ \/ /\ run' = Skipped(run, r) /\ disk' = disk
                 /\ \/ ~On(disk, run.new[r].path)
                    \/ run.new[r].album \notin albums \/ to = run.new[r].path
              \/ /\ run' \in {Off, Rehomed(run, r, to)} /\ to # run.new[r].path
                 /\ \/ disk' = Removed(disk, run.new[r].path) /\ On(disk, to)
                    \/ disk' = moved /\ ~On(disk, to)
<1> DEFINE out == \/ ~On(disk, run.new[r].path)
                  \/ run.new[r].album \notin albums \/ to = run.new[r].path
           m == [[run EXCEPT !.todo = @ \ {r}] EXCEPT !.new = WithPath(@, r, to), !.locked = TRUE]
<1>1. /\ run.pc = "place" /\ r \in run.todo
      /\ UNCHANGED <<albums, row, download, import, healthy, events>>
  BY DEF Place
<1>2. CASE out
  <2>1. run' = Skipped(run, r) /\ disk' = disk
    BY <1>2 DEF Place, Skipped
  <2> QED BY <1>1, <1>2, <2>1
<1>3. CASE ~out
  <2>1. /\ disk' = IF On(disk, to) THEN Removed(disk, run.new[r].path) ELSE moved
        /\ run' = IF Stale(m) THEN Off ELSE m
    BY <1>3 DEF Place
  <2>2. Rehomed(run, r, to) = m
    BY DEF Rehomed
  <2> HIDE DEF m
  <2>3. run' \in {Off, Rehomed(run, r, to)}
    BY <2>1, <2>2
  <2> QED BY <1>1, <1>3, <2>1, <2>3
<1> QED BY <1>2, <1>3

LEMMA Places ==
    ASSUME MntInv, NEW r \in Rows, Place(r)
    PROVE  MntInv'
<1> DEFINE to == Placed(run.new[r].path, run.new[r].album)
           moved == {IF At(f) = run.new[r].path
                     THEN [f EXCEPT !.dir = Folder[run.new[r].album]] ELSE f : f \in disk}
<1>1. /\ run.pc = "place" /\ r \in run.todo
      /\ UNCHANGED <<albums, row, download, import, healthy, events>>
      /\ \/ run' = Skipped(run, r) /\ disk' = disk
         \/ /\ run' \in {Off, Rehomed(run, r, to)}
            /\ disk' = Removed(disk, run.new[r].path) \/ (disk' = moved /\ ~On(disk, to))
  BY PlacesOne
<1>2. run \in Placements /\ PlaceSound(run)
  BY <1>1, RunTypes DEF MntInv, RunSound
<1>3. /\ r \in Rows /\ run.new[r] # None /\ run.new[r].path # None /\ Sound(run.new)
  BY <1>1, <1>2 DEF PlaceSound, Downloaded
<1>4. run.new[r].path \in Path /\ run.new[r].album \in EverAlbum
  BY <1>3, TableRow
<1>5. /\ to \in Path /\ to[2] = run.new[r].path[2]
      /\ to = <<Folder[run.new[r].album], run.new[r].path[2], run.new[r].path[3]>>
      /\ Folder[run.new[r].album] \in Dirs
  BY <1>4, PlacedPath
<1>6. albums' \subseteq EverAlbum /\ Sound(row') /\ DiskSound(disk) /\ healthy' \in BOOLEAN
  BY <1>1 DEF MntInv, TypeOK
<1> HIDE DEF to
<1>7. ~On(disk, to) => DiskSound(moved)
  BY <1>4, <1>5, <1>6, FileMoves
<1> HIDE DEF moved
<1>8. DiskSound(disk')
  BY <1>1, <1>6, <1>7, RemovedFiles, FewerFiles
<1>9. RunTyped(run') /\ RunSound(run') /\ run'.pc \in {"off", "place"}
  <2>1. CASE run' = Off
    BY <2>1, OffIsRun
  <2>2. CASE run' # Off
    <3>1. run' \in Placements /\ PlaceSound(run') /\ run'.pc = "place"
      <4>1. CASE run' = Skipped(run, r)
        BY <1>2, <4>1, SkippedSound
      <4>2. CASE run' = Rehomed(run, r, to)
        BY <1>1, <1>2, <1>5, <4>2, RehomedSound
      <4> QED BY <1>1, <2>2, <4>1, <4>2
    <3> QED BY <3>1 DEF RunTyped, RunSound
  <2> QED BY <2>1, <2>2
<1>10. InAccord'
  BY <1>9 DEF InAccord
<1> QED BY <1>1, <1>6, <1>8, <1>9, <1>10, RunStep

LEMMA PlacesCommit ==
    ASSUME MntInv, PlaceCommit
    PROVE  MntInv'
<1>1. /\ run.pc = "place" /\ run' = Off
      /\ UNCHANGED <<albums, disk, download, import, healthy, events>>
      /\ row' = row \/ row' = Flushed(run)
  BY DEF PlaceCommit
<1>2. run \in Placements /\ PlaceSound(run)
  BY <1>1, RunTypes DEF MntInv, RunSound
<1>3. /\ albums' \subseteq EverAlbum /\ Sound(row) /\ DiskSound(disk') /\ healthy' \in BOOLEAN
  BY <1>1 DEF MntInv, TypeOK
<1>4. Sound(row') /\ \A r \in Spare : row[r] = None => row'[r] = None
  BY <1>1, <1>2, <1>3, FlushedSound, RowsAndAlbums DEF PlaceSound
<1>5. RunTyped(run') /\ RunSound(run') /\ run'.pc = "off"
  BY <1>1, OffIsRun
<1>6. InAccord'
  BY <1>5 DEF InAccord
<1> QED BY <1>1, <1>3, <1>4, <1>5, <1>6, RunStep

LEMMA Crashes ==
    ASSUME MntInv, Crash
    PROVE  MntInv'
<1>1. run' = Off /\ healthy' = FALSE /\ UNCHANGED <<albums, row, disk, download, import, events>>
  BY DEF Crash
<1>2. /\ albums' \subseteq EverAlbum /\ Sound(row') /\ DiskSound(disk') /\ healthy' \in BOOLEAN
      /\ \A r \in Spare : row[r] = None => row'[r] = None
  BY <1>1 DEF MntInv, TypeOK
<1>3. RunTyped(run') /\ RunSound(run')
  BY <1>1, OffIsRun
<1>4. InAccord'
  BY <1>1 DEF InAccord
<1> QED BY <1>1, <1>2, <1>3, <1>4, RunStep

-----------------------------------------------------------------------------
\* The steps of the web process

LEMMA EventCounts ==
    ASSUME MntInv, NEW kind, Event(kind)
    PROVE  events' \in 0..MaxEvents
<1>1. events \in 0..MaxEvents /\ MaxEvents \in Nat
  BY MntRequests DEF MntInv, TypeOK
<1> QED BY <1>1 DEF Event

\* A step that leaves the import and the download alone.
LEMMA TablesOnly ==
    ASSUME MntInv, UNCHANGED <<run, download, import>>, events' \in 0..MaxEvents, healthy' = FALSE,
           albums' \subseteq EverAlbum, Sound(row'), DiskSound(disk'),
           \A r \in Spare : row[r] = None => row'[r] = None
    PROVE  MntInv'
<1>1. Claimed(import)' /\ Fetched(download') /\ import' \in Imports \cup {None}
      /\ download' \in [track : Rows, song : Songs, dir : Dirs] \cup {None}
  BY ClaimKept DEF MntInv, TypeOK
<1> QED BY <1>1, WebStep

LEMMA DownloadsStart ==
    ASSUME MntInv, NEW r \in Rows, DownloadStart(r)
    PROVE  MntInv'
<1>1. /\ row[r] # None /\ UNCHANGED <<albums, row, disk, run, import, healthy>>
      /\ download' = [track |-> r, song |-> row[r].song, dir |-> Folder[row[r].album]]
      /\ Event("download")
  BY DEF DownloadStart
<1>2. events' \in 0..MaxEvents
  BY <1>1, EventCounts
<1>3. albums' \subseteq EverAlbum /\ Sound(row) /\ DiskSound(disk') /\ import' \in Imports \cup {None}
  BY <1>1 DEF MntInv, TypeOK
<1>4. /\ Owned(r, row[r]) /\ row[r].album \in EverAlbum /\ row[r].song \in Songs
  BY <1>1, <1>3, TableRow
<1>5. Folder[row[r].album] \in Dirs
  BY <1>4, AlbumFolder
<1>6. download' \in [track : Rows, song : Songs, dir : Dirs] /\ Fetched(download')
  BY <1>1, <1>4, <1>5 DEF Fetched, Owned
<1>7. Claimed(import)'
  BY <1>1, ClaimKept DEF MntInv
<1> QED BY <1>1, <1>2, <1>3, <1>6, <1>7, WebStep

LEMMA PutSound ==
    ASSUME NEW d, DiskSound(d), NEW f \in File
    PROVE  DiskSound(Put(d, f))
<1>1. Removed(d, At(f)) \subseteq d /\ \A g \in Removed(d, At(f)) : At(g) # At(f)
  BY DEF Removed
<1>2. IsFiniteSet(Removed(d, At(f)) \cup {f})
  BY <1>1, FS_Subset, FS_Singleton, FS_Union DEF DiskSound
<1> QED BY <1>1, <1>2 DEF DiskSound, Put

LEMMA DownloadsDone ==
    ASSUME MntInv, NEW ext \in Exts, DownloadDone(ext)
    PROVE  MntInv'
<1> DEFINE f == [dir |-> download.dir, song |-> download.song, ext |-> ext]
           t == download.track
<1>1. /\ download # None /\ download' = None /\ healthy' = FALSE
      /\ UNCHANGED <<albums, run, import, events>>
      /\ disk' = Put(disk, f)
      /\ row' = row \/ (row[t] # None /\ row' = WithPath(row, t, At(f)))
  BY DEF DownloadDone
<1>2. /\ albums' \subseteq EverAlbum /\ Sound(row) /\ DiskSound(disk) /\ import' \in Imports \cup {None}
      /\ events' \in 0..MaxEvents
  BY <1>1 DEF MntInv, TypeOK
<1>3. download \in [track : Rows, song : Songs, dir : Dirs] /\ Fetched(download)
  BY <1>1 DEF MntInv, TypeOK
<1>4. t \in Rows /\ f \in File /\ f.song = download.song
  BY <1>3 DEF File
<1>5. t \in Catalog => f.song = Song[t]
  BY <1>1, <1>3, <1>4 DEF Fetched
<1> HIDE DEF f, t
<1>6. At(f) \in Path /\ At(f)[2] = Name[f.song]
  BY <1>4, FilePath
<1>7. DiskSound(disk')
  BY <1>1, <1>2, <1>4, PutSound
<1>8. Sound(row') /\ \A r \in Spare : row[r] = None => row'[r] = None
  <2>1. CASE row' = row
    BY <1>2, <2>1
  <2>2. CASE row[t] # None /\ row' = WithPath(row, t, At(f))
    <3>1. At(f) \in Path \cup {None} /\ (t \in Catalog /\ At(f) # None => At(f)[2] = Name[Song[t]])
      BY <1>5, <1>6
    <3>2. Repathed(row', row, t, At(f))
      BY <1>2, <1>4, <2>2, <3>1, WithPathSound
    <3>3. Sound(row') /\ \A q \in Rows \ {t} : row'[q] = row[q]
      BY <3>2 DEF Repathed
    <3> QED BY <2>2, <3>3, RowsAndAlbums
  <2> QED BY <1>1, <2>1, <2>2
<1>9. download' \in [track : Rows, song : Songs, dir : Dirs] \cup {None} /\ Fetched(download')
  BY <1>1 DEF Fetched
<1>10. Claimed(import)'
  BY <1>1, <1>8, ClaimKept DEF MntInv
<1> QED BY <1>1, <1>2, <1>7, <1>8, <1>9, <1>10, WebStep

LEMMA TracksDeleted ==
    ASSUME MntInv, NEW r \in Rows, NEW files \in BOOLEAN, DeleteTrack(r, files)
    PROVE  MntInv'
<1>1. /\ row[r] # None /\ Event("delete") /\ healthy' = FALSE
      /\ UNCHANGED <<albums, run, download, import>>
      /\ disk' = disk \/ disk' = Removed(disk, row[r].path)
      /\ row' = row \/ row' = WithPath(row, r, None)
  BY DEF DeleteTrack
<1>2. events' \in 0..MaxEvents
  BY <1>1, EventCounts
<1>3. albums' \subseteq EverAlbum /\ Sound(row) /\ DiskSound(disk)
  BY <1>1 DEF MntInv, TypeOK
<1>4. DiskSound(disk')
  BY <1>1, <1>3, RemovedFiles, FewerFiles
<1>5. Sound(row') /\ \A q \in Spare : row[q] = None => row'[q] = None
  <2>1. CASE row' = row
    BY <1>3, <2>1
  <2>2. CASE row' = WithPath(row, r, None)
    <3>1. None \in Path \cup {None} /\ (r \in Catalog /\ None # None => None[2] = Name[Song[r]])
      OBVIOUS
    <3>2. Repathed(row', row, r, None)
      BY <1>1, <1>3, <2>2, <3>1, WithPathSound
    <3>3. Sound(row') /\ \A q \in Rows \ {r} : row'[q] = row[q]
      BY <3>2 DEF Repathed
    <3> QED BY <1>1, <3>3, RowsAndAlbums
  <2> QED BY <1>1, <2>1, <2>2
<1> QED BY <1>1, <1>2, <1>3, <1>4, <1>5, TablesOnly

LEMMA FilesRemoved ==
    ASSUME MntInv, NEW f \in disk, UserRemoves(f)
    PROVE  MntInv'
<1>1. /\ Event("userRemove") /\ healthy' = FALSE /\ UNCHANGED <<albums, run, download, import>>
      /\ disk' = disk \ {f}
      /\ \/ row' = row
         \/ row' = [r \in Rows |-> IF row[r] # None /\ row[r].path = At(f)
                                   THEN [row[r] EXCEPT !.path = None] ELSE row[r]]
  BY DEF UserRemoves
<1>2. events' \in 0..MaxEvents
  BY <1>1, EventCounts
<1>3. albums' \subseteq EverAlbum /\ Sound(row) /\ DiskSound(disk)
  BY <1>1 DEF MntInv, TypeOK
<1>4. DiskSound(disk')
  BY <1>1, <1>3, FewerFiles
<1>5. Sound(row') /\ \A q \in Spare : row[q] = None => row'[q] = None
  <2>1. CASE row' = row
    BY <1>3, <2>1
  <2>2. CASE row' = [r \in Rows |-> IF row[r] # None /\ row[r].path = At(f)
                                    THEN [row[r] EXCEPT !.path = None] ELSE row[r]]
    <3>1. ASSUME NEW r \in Rows
          PROVE  /\ row'[r] \in Track \cup {None} /\ Owned(r, row'[r])
                 /\ row[r] = None => row'[r] = None
      <4>1. CASE row[r] # None /\ row[r].path = At(f)
        <5>1. row'[r] = [row[r] EXCEPT !.path = None]
          BY <2>2, <4>1
        <5>2. row[r] \in Track /\ Owned(r, row[r])
          BY <1>3, <4>1, TableRow
        <5>3. None \in Path \cup {None} /\ (r \in Catalog /\ None # None => None[2] = Name[Song[r]])
          OBVIOUS
        <5>4. row'[r] \in Track /\ Owned(r, row'[r])
          BY <5>1, <5>2, <5>3, NewPath
        <5> QED BY <4>1, <5>4
      <4>2. CASE ~(row[r] # None /\ row[r].path = At(f))
        BY <1>3, <2>2, <4>2 DEF Sound, Table
      <4> QED BY <4>1, <4>2
    <3>2. row' = [r \in Rows |-> row'[r]]
      BY <2>2
    <3> QED BY <3>1, <3>2, TableSound, RowsAndAlbums
  <2> QED BY <1>1, <2>1, <2>2
<1> QED BY <1>1, <1>2, <1>3, <1>4, <1>5, TablesOnly

LEMMA InsertedSound ==
    ASSUME Sound(row), NEW S
    PROVE  Sound(Inserted(S)) /\ \A r \in Spare : Inserted(S)[r] = row[r]
<1> DEFINE T == Inserted(S)
<1>1. ASSUME NEW r \in Rows
      PROVE  T[r] \in Track \cup {None} /\ Owned(r, T[r]) /\ (r \in Spare => T[r] = row[r])
  <2>1. CASE r \in Catalog /\ row[r] = None /\ Home[r] \in S
    <3>1. T[r] = MissingRow(r)
      BY <2>1 DEF Inserted
    <3> QED BY <2>1, <3>1, MissingSound, MntRows
  <2>2. CASE ~(r \in Catalog /\ row[r] = None /\ Home[r] \in S)
    <3>1. T[r] = row[r]
      BY <2>2 DEF Inserted
    <3> QED BY <3>1 DEF Sound, Table
  <2> QED BY <2>1, <2>2
<1>2. T = [r \in Rows |-> T[r]]
  BY DEF Inserted
<1> HIDE DEF T
<1>3. Sound(T)
  BY <1>1, <1>2, TableSound
<1> QED BY <1>1, <1>3, RowsAndAlbums DEF T

LEMMA AlbumsSync ==
    ASSUME MntInv, NEW a \in Albums, SyncAlbum(a)
    PROVE  MntInv'
<1>1. /\ Event("sync") /\ healthy' = FALSE /\ UNCHANGED <<disk, run, download, import>>
      /\ albums' = albums \cup {a} /\ row' = Inserted({a})
  BY DEF SyncAlbum
<1>2. events' \in 0..MaxEvents
  BY <1>1, EventCounts
<1>3. albums' \subseteq EverAlbum /\ Sound(row) /\ DiskSound(disk')
  BY <1>1, RowsAndAlbums DEF MntInv, TypeOK
<1>4. Sound(row') /\ \A q \in Spare : row[q] = None => row'[q] = None
  BY <1>1, <1>3, InsertedSound
<1> QED BY <1>1, <1>2, <1>3, <1>4, TablesOnly

LEMMA AlbumsDropped ==
    ASSUME MntInv, NEW a \in EverAlbum, NEW files \in BOOLEAN, DropAlbum(a, files)
    PROVE  MntInv'
<1>1. /\ Event("drop") /\ healthy' = FALSE /\ UNCHANGED <<run, download, import>>
      /\ disk' \subseteq disk
      /\ albums' \subseteq albums
      /\ row' = row \/ row' = [r \in Rows |-> IF r \in TracksOf(row, a) THEN None ELSE row[r]]
  BY DEF DropAlbum
<1>2. events' \in 0..MaxEvents
  BY <1>1, EventCounts
<1>3. albums' \subseteq EverAlbum /\ Sound(row) /\ DiskSound(disk)
  BY <1>1 DEF MntInv, TypeOK
<1>4. DiskSound(disk')
  BY <1>1, <1>3, FewerFiles
<1>5. Sound(row') /\ \A q \in Spare : row[q] = None => row'[q] = None
  <2>1. CASE row' = row
    BY <1>3, <2>1
  <2>2. CASE row' = [r \in Rows |-> IF r \in TracksOf(row, a) THEN None ELSE row[r]]
    <3>1. row' \in [Rows -> Track \cup {None}] /\ \A r \in Rows : row'[r] = None \/ row'[r] = row[r]
      BY <1>3, <2>2 DEF Sound, Table
    <3> QED BY <1>3, <3>1, NoneIsSound, RowsAndAlbums
  <2> QED BY <1>1, <2>1, <2>2
<1> QED BY <1>1, <1>2, <1>3, <1>4, <1>5, TablesOnly

LEMMA FilesListed ==
    ASSUME MntInv, ImportList
    PROVE  MntInv'
<1> DEFINE files == {f \in disk : f.dir \in Folders}
<1>1. /\ Event("import") /\ import' = [pc |-> "listed", files |-> files]
      /\ UNCHANGED <<albums, row, disk, run, download, healthy>>
  BY DEF ImportList
<1>2. events' \in 0..MaxEvents
  BY <1>1, EventCounts
<1>3. /\ albums' \subseteq EverAlbum /\ Sound(row') /\ DiskSound(disk') /\ Fetched(download')
      /\ download' \in [track : Rows, song : Songs, dir : Dirs] \cup {None}
  BY <1>1 DEF MntInv, TypeOK
<1>4. files \subseteq File
  BY DEF MntInv, TypeOK
<1> HIDE DEF files
<1>5. import' \in Imports /\ import'.pc = "listed"
  BY <1>1, <1>4 DEF Imports
<1>6. Claimed(import)'
  BY <1>5 DEF Claimed
<1> QED BY <1>1, <1>2, <1>3, <1>5, <1>6, WebStep

\* The import as it was typed, in each of its states.
LEMMA ImportTypes ==
    ASSUME TypeOK, import # None
    PROVE  /\ import.pc \in {"listed", "indexed"} =>
                import \in [pc : {"listed", "indexed"}, files : SUBSET File]
           /\ import.pc = "matched" =>
                import \in [pc : {"matched"}, claim : [Catalog -> File \cup {None}], new : SUBSET File]
BY DEF TypeOK, Imports

LEMMA ImportIndexes ==
    ASSUME MntInv, ImportIndex
    PROVE  MntInv'
<1> DEFINE S == {a \in Albums : Mine(a)}
<1>1. /\ import # None /\ import.pc = "listed" /\ healthy' = FALSE
      /\ UNCHANGED <<disk, run, download, events>>
      /\ albums' = albums \cup S /\ row' = Inserted(S)
      /\ import' = [import EXCEPT !.pc = "indexed"]
  BY DEF ImportIndex
<1>2. S \subseteq EverAlbum
  BY RowsAndAlbums
<1> HIDE DEF S
<1>3. /\ albums' \subseteq EverAlbum /\ Sound(row) /\ DiskSound(disk') /\ Fetched(download')
      /\ download' \in [track : Rows, song : Songs, dir : Dirs] \cup {None}
      /\ events' \in 0..MaxEvents
  BY <1>1, <1>2 DEF MntInv, TypeOK
<1>4. Sound(row')
  BY <1>1, <1>3, InsertedSound
<1>5. import \in [pc : {"listed", "indexed"}, files : SUBSET File]
  BY <1>1, ImportTypes DEF MntInv
<1>6. import' = [pc |-> "indexed", files |-> import.files] /\ import.files \subseteq File
  BY <1>1, <1>5
<1>7. import' \in Imports /\ import'.pc = "indexed"
  BY <1>6 DEF Imports
<1>8. Claimed(import)'
  BY <1>7 DEF Claimed
<1> QED BY <1>1, <1>3, <1>4, <1>7, <1>8, WebStep

\* A file is for tracks of its song.
LEMMA TargetsOfSong ==
    ASSUME NEW f, NEW r \in Targets(f)
    PROVE  r \in Catalog /\ Song[r] = f.song
<1> DEFINE C == Candidates(f)
           near == {q \in C : Folder[Home[q]] = f.dir}
<1>1. C \subseteq Rows /\ near \subseteq C /\ \A q \in C : q \in Catalog /\ Song[q] = f.song
  BY RowsAndAlbums DEF Candidates
<1>2. \/ near # {} /\ r = Max(near)
      \/ C # {} /\ r = Min(C)
  <2>1. Targets(f) = IF near # {} THEN {Max(near)} ELSE IF C # {} THEN {Min(C)} ELSE {}
    BY DEF Targets
  <2> HIDE DEF near, C
  <2> QED BY <2>1
<1> HIDE DEF near, C
<1>3. r \in C
  <2>1. CASE near # {} /\ r = Max(near)
    BY <1>1, <2>1, LeastOfIds
  <2>2. CASE C # {} /\ r = Min(C)
    BY <1>1, <2>2, LeastOfIds
  <2> QED BY <1>2, <2>1, <2>2
<1> QED BY <1>1, <1>3

LEMMA ImportMatches ==
    ASSUME MntInv, ImportMatch
    PROVE  MntInv'
<1> DEFINE files == import.files
           open == {r \in Catalog : row[r] # None /\ OpenTrack(r) /\
                        \E f \in files : r \in Targets(f)}
           new == {f \in files : NewFile(f)}
<1>1. /\ import # None /\ import.pc = "indexed" /\ new \subseteq disk
      /\ Cardinality(new) <= Cardinality(FreeIds)
      /\ UNCHANGED <<albums, row, disk, run, download, healthy, events>>
  BY DEF ImportMatch
<1>2. PICK claim \in [open -> files \cap disk] :
        /\ \A r \in open : r \in Targets(claim[r])
        /\ import' = [pc |-> "matched", new |-> new,
                      claim |-> [r \in Catalog |-> IF r \in open THEN claim[r] ELSE None]]
  BY DEF ImportMatch
<1>3. open \subseteq Catalog /\ new \subseteq files
  OBVIOUS
<1> HIDE DEF open, new
<1> DEFINE c == [r \in Catalog |-> IF r \in open THEN claim[r] ELSE None]
<1>4. /\ albums' \subseteq EverAlbum /\ Sound(row') /\ DiskSound(disk) /\ disk' = disk
      /\ Fetched(download')
      /\ download' \in [track : Rows, song : Songs, dir : Dirs] \cup {None}
      /\ events' \in 0..MaxEvents
  BY <1>1 DEF MntInv, TypeOK
<1>5. disk \subseteq File /\ IsFiniteSet(new) /\ new \subseteq File
  BY <1>1, <1>4, FS_Subset DEF DiskSound
<1>6. c \in [Catalog -> File \cup {None}]
  BY <1>2, <1>5
<1>7. \A r \in Catalog : c[r] # None => c[r].song = Song[r]
  <2> SUFFICES ASSUME NEW r \in Catalog, c[r] # None PROVE c[r].song = Song[r]
    OBVIOUS
  <2>1. r \in open /\ c[r] = claim[r]
    OBVIOUS
  <2>2. r \in Targets(c[r])
    BY <1>2, <2>1
  <2> QED BY <2>2, TargetsOfSong
<1>8. import' = [pc |-> "matched", new |-> new, claim |-> c]
  BY <1>2
<1> HIDE DEF c
<1>9. import' \in Imports /\ import'.pc = "matched" /\ import'.new = new /\ import'.claim = c
  BY <1>5, <1>6, <1>8 DEF Imports
<1>10. FreeIds' = FreeIds
  BY <1>1 DEF FreeIds
<1>11. Claimed(import)'
  BY <1>1, <1>5, <1>7, <1>9, <1>10 DEF Claimed
<1> QED BY <1>1, <1>4, <1>9, <1>11, WebStep

LEMMA ImportEnds ==
    ASSUME MntInv, ImportFails
    PROVE  MntInv'
<1>1. import' = None /\ UNCHANGED <<albums, row, disk, run, download, healthy, events>>
  BY DEF ImportFails
<1>2. /\ albums' \subseteq EverAlbum /\ Sound(row') /\ DiskSound(disk') /\ Fetched(download')
      /\ download' \in [track : Rows, song : Songs, dir : Dirs] \cup {None}
      /\ events' \in 0..MaxEvents
  BY <1>1 DEF MntInv, TypeOK
<1>3. Claimed(import)' /\ import' \in Imports \cup {None}
  BY <1>1 DEF Claimed
<1> QED BY <1>1, <1>2, <1>3, WebStep

LEMMA ImportsCommit ==
    ASSUME MntInv, ImportCommit
    PROVE  MntInv'
<1> DEFINE New(r) == \E f \in import.new : NewIds(import.new)[f] = r
           Of(r) == CHOOSE f \in import.new : NewIds(import.new)[f] = r
<1>1. /\ import # None /\ import.pc = "matched" /\ import' = None /\ healthy' = FALSE
      /\ UNCHANGED <<disk, run, download, events>>
  BY DEF ImportCommit
<1>2. \/ UNCHANGED <<albums, row>>
      \/ /\ \A r \in Catalog : import.claim[r] # None => row[r] # None
         /\ row' = [r \in Rows |->
                IF r \in Catalog /\ import.claim[r] # None
                THEN [row[r] EXCEPT !.path = At(import.claim[r])]
                ELSE IF New(r) THEN UnmatchedRow(Of(r)) ELSE row[r]]
         /\ albums' \subseteq albums \cup {Unmatched}
  BY DEF ImportCommit
<1>3. import \in [pc : {"matched"}, claim : [Catalog -> File \cup {None}], new : SUBSET File]
  BY <1>1, ImportTypes DEF MntInv
<1>4. /\ \A r \in Catalog : import.claim[r] # None => import.claim[r].song = Song[r]
      /\ NewIds(import.new) \in [import.new -> FreeIds]
  BY <1>1, NewIdsIn DEF MntInv, Claimed
<1>5. /\ albums \subseteq EverAlbum /\ Sound(row) /\ DiskSound(disk') /\ Fetched(download')
      /\ download' \in [track : Rows, song : Songs, dir : Dirs] \cup {None}
      /\ events' \in 0..MaxEvents
  BY <1>1 DEF MntInv, TypeOK
<1>6. \A r \in Rows : New(r) => Of(r) \in import.new /\ NewIds(import.new)[Of(r)] = r
  OBVIOUS
<1> HIDE DEF New, Of
<1>7. Sound(row')
  <2>1. CASE UNCHANGED row
    BY <1>5, <2>1
  <2>2. CASE ~UNCHANGED row
    <3>1. ASSUME NEW r \in Rows
          PROVE  row'[r] \in Track \cup {None} /\ Owned(r, row'[r])
      <4>1. CASE r \in Catalog /\ import.claim[r] # None
        <5>1. row[r] # None /\ row'[r] = [row[r] EXCEPT !.path = At(import.claim[r])]
          BY <1>2, <2>2, <4>1
        <5>2. row[r] \in Track /\ Owned(r, row[r])
          BY <1>5, <5>1, TableRow
        <5>3. import.claim[r] \in File /\ import.claim[r].song = Song[r]
          BY <1>3, <1>4, <4>1
        <5>4. At(import.claim[r]) \in Path \cup {None}
              /\ At(import.claim[r])[2] = Name[Song[r]]
          BY <5>3, FilePath
        <5> QED BY <5>1, <5>2, <5>4, NewPath
      <4>2. CASE ~(r \in Catalog /\ import.claim[r] # None) /\ New(r)
        <5>1. row'[r] = UnmatchedRow(Of(r))
          BY <1>2, <2>2, <4>2
        <5>2. Of(r) \in import.new /\ r \in Spare /\ Of(r) \in File
          BY <1>3, <1>4, <1>6, <4>2 DEF FreeIds
        <5>3. At(Of(r)) \in Path /\ Of(r).song \in Songs
          BY <5>2, FilePath
        <5>4. UnmatchedRow(Of(r)) = [album |-> Unmatched, song |-> Of(r).song, path |-> At(Of(r))]
          BY DEF UnmatchedRow
        <5>5. UnmatchedRow(Of(r)) \in Track /\ UnmatchedRow(Of(r)).album = Unmatched
          BY <5>3, <5>4, RowsAndAlbums DEF Track
        <5> QED BY <5>1, <5>2, <5>5, MntRows DEF Owned
      <4>3. CASE ~(r \in Catalog /\ import.claim[r] # None) /\ ~New(r)
        BY <1>2, <1>5, <2>2, <4>3 DEF Sound, Table
      <4> QED BY <4>1, <4>2, <4>3
    <3>2. row' = [r \in Rows |-> row'[r]]
      BY <1>2, <2>2
    <3> QED BY <3>1, <3>2, TableSound
  <2> QED BY <2>1, <2>2
<1>8. albums' \subseteq EverAlbum
  BY <1>2, <1>5, RowsAndAlbums
<1>9. Claimed(import)' /\ import' \in Imports \cup {None}
  BY <1>1 DEF Claimed
<1> QED BY <1>1, <1>5, <1>7, <1>8, <1>9, WebStep

-----------------------------------------------------------------------------
\* Init

LEMMA Begins ==
    ASSUME Init
    PROVE  MntInv
<1>1. /\ albums = Albums /\ run = Off /\ download = None /\ import = None
      /\ healthy = FALSE /\ events = 0
      /\ \A f, g \in disk : At(f) = At(g) => f = g
  BY DEF Init
<1> DEFINE FileOf(e, r) == [dir |-> Folder[Home[r]], song |-> Song[r], ext |-> e[r]]
<1>2. PICK ext \in [Catalog -> Exts \cup {None}] :
        /\ row = [r \in Rows |->
                    IF r \in Spare THEN None
                    ELSE IF ext[r] # None THEN [MissingRow(r) EXCEPT !.path = At(FileOf(ext, r))]
                    ELSE MissingRow(r)]
        /\ disk \subseteq {FileOf(ext, r) : r \in {q \in Catalog : ext[q] # None}} \cup Loose
  BY DEF Init
<1>3. ASSUME NEW r \in Catalog, ext[r] # None
      PROVE  FileOf(ext, r) \in File /\ At(FileOf(ext, r)) \in Path
             /\ At(FileOf(ext, r))[2] = Name[Song[r]]
  <2>1. Folder[Home[r]] \in Dirs /\ Song[r] \in Songs /\ ext[r] \in Exts
    BY <1>3, MntCatalog, RowsAndAlbums, AlbumFolder
  <2>2. FileOf(ext, r) \in File /\ FileOf(ext, r).song = Song[r]
    BY <2>1 DEF File
  <2> HIDE DEF FileOf
  <2> QED BY <2>2, FilePath
<1>4. disk \subseteq File
  BY <1>2, <1>3, MntLoose
<1>5. IsFiniteSet(disk)
  <2> DEFINE C == {q \in Catalog : ext[q] # None}
             h == [r \in C |-> FileOf(ext, r)]
             D == {FileOf(ext, r) : r \in C}
  <2>1. h \in Surjection(C, D)
    BY DEF Surjection
  <2>2. IsFiniteSet(C)
    BY RowsAndAlbums, FS_Subset
  <2> HIDE DEF h, C
  <2>3. IsFiniteSet(D)
    <3> HIDE DEF D
    <3> QED BY <2>1, <2>2, FS_Surjection
  <2>4. IsFiniteSet(D \cup Loose)
    BY <2>3, MntLoose, FS_Union
  <2> QED BY <1>2, <2>4, FS_Subset DEF C
<1> HIDE DEF FileOf
<1>6. ASSUME NEW r \in Rows
      PROVE  row[r] \in Track \cup {None} /\ Owned(r, row[r])
  <2>1. CASE r \in Spare
    <3>1. row[r] = None
      BY <1>2, <2>1
    <3> QED BY <3>1 DEF Owned
  <2>2. CASE r \in Catalog /\ ext[r] # None
    <3>1. row[r] = [MissingRow(r) EXCEPT !.path = At(FileOf(ext, r))]
      BY <1>2, <2>2, MntRows
    <3>2. MissingRow(r) \in Track /\ Owned(r, MissingRow(r))
      BY <2>2, MissingSound
    <3>3. At(FileOf(ext, r)) \in Path \cup {None} /\ At(FileOf(ext, r))[2] = Name[Song[r]]
      BY <1>3, <2>2
    <3> QED BY <3>1, <3>2, <3>3, NewPath
  <2>3. CASE r \in Catalog /\ ext[r] = None
    <3>1. row[r] = MissingRow(r)
      BY <1>2, <2>3, MntRows
    <3> QED BY <2>3, <3>1, MissingSound
  <2> QED BY <2>1, <2>2, <2>3 DEF Rows
<1>7. row = [r \in Rows |-> row[r]]
  BY <1>2
<1>8. Sound(row)
  BY <1>6, <1>7, TableSound
<1>9. row \in Table /\ \A r \in Rows : row[r] # None => (row[r].album = Unmatched <=> r \in Spare)
  BY <1>8 DEF Sound, Owned
<1>10. events \in 0..MaxEvents /\ albums \subseteq EverAlbum
  BY <1>1, MntRequests, RowsAndAlbums
<1>11. TypeOK
  BY <1>1, <1>4, <1>9, <1>10 DEF TypeOK
<1>12. DiskSound(disk)
  BY <1>1, <1>4, <1>5 DEF DiskSound
<1>13. RunSound(run) /\ Fetched(download) /\ Claimed(import) /\ InAccord
  BY <1>1, OffIsRun DEF Fetched, Claimed, InAccord
<1> QED BY <1>8, <1>11, <1>12, <1>13 DEF MntInv

-----------------------------------------------------------------------------
\* The invariant holds

LEMMA WorkKeeps ==
    ASSUME MntInv, Work
    PROVE  MntInv'
<1>1. CASE MergeExact
  BY <1>1, ExactBegins, PassesWork
<1>2. CASE MergePair("fuzzy", FuzzyPairs)
  BY <1>2, PairBegins, PassesWork
<1>3. CASE MergePair("cross", CrossPairs)
  BY <1>3, PairBegins, PassesWork
<1>4. CASE NextPass
  BY <1>4, NextPasses
<1>5. CASE MoveTrack
  BY <1>5, TracksMove
<1>6. CASE DropTrack
  BY <1>6, TracksDrop
<1>7. CASE MergeCommit
  BY <1>7, MergesCommit
<1>8. ASSUME NEW r \in Rows, Place(r) PROVE MntInv'
  BY <1>8, Places
<1>9. CASE PlaceCommit
  BY <1>9, PlacesCommit
<1> QED BY <1>1, <1>2, <1>3, <1>4, <1>5, <1>6, <1>7, <1>8, <1>9 DEF Work

LEMMA WebKeeps ==
    ASSUME MntInv, Web
    PROVE  MntInv'
<1>1. ASSUME NEW r \in Rows, DownloadStart(r) PROVE MntInv'
  BY <1>1, DownloadsStart
<1>2. ASSUME NEW r \in Rows, NEW files \in BOOLEAN, DeleteTrack(r, files) PROVE MntInv'
  BY <1>2, TracksDeleted
<1>3. ASSUME NEW ext \in Exts, DownloadDone(ext) PROVE MntInv'
  BY <1>3, DownloadsDone
<1>4. ASSUME NEW f \in disk, UserRemoves(f) PROVE MntInv'
  BY <1>4, FilesRemoved
<1>5. ASSUME NEW a \in EverAlbum, NEW files \in BOOLEAN, DropAlbum(a, files) PROVE MntInv'
  BY <1>5, AlbumsDropped
<1>6. ASSUME NEW a \in Albums, SyncAlbum(a) PROVE MntInv'
  BY <1>6, AlbumsSync
<1>7. CASE ImportList
  BY <1>7, FilesListed
<1>8. CASE ImportIndex
  BY <1>8, ImportIndexes
<1>9. CASE ImportMatch
  BY <1>9, ImportMatches
<1>10. CASE ImportFails
  BY <1>10, ImportEnds
<1>11. CASE ImportCommit
  BY <1>11, ImportsCommit
<1> QED BY <1>1, <1>2, <1>3, <1>4, <1>5, <1>6, <1>7, <1>8, <1>9, <1>10, <1>11 DEF Web

LEMMA MntStutters ==
    ASSUME MntInv, UNCHANGED vars
    PROVE  MntInv'
<1>1. /\ albums' = albums /\ row' = row /\ disk' = disk /\ run' = run /\ download' = download
      /\ import' = import /\ healthy' = healthy /\ events' = events
  BY DEF vars
<1>2. /\ albums' \subseteq EverAlbum /\ Sound(row') /\ DiskSound(disk') /\ Fetched(download')
      /\ download' \in [track : Rows, song : Songs, dir : Dirs] \cup {None}
      /\ import' \in Imports \cup {None} /\ events' \in 0..MaxEvents
  BY <1>1 DEF MntInv, TypeOK
<1>3. Claimed(import)'
  BY <1>1, ClaimKept DEF MntInv
<1> QED BY <1>1, <1>2, <1>3, WebStep

\* MntInv holds in every state.
THEOREM MntInvariant == Spec => []MntInv
<1>1. Init => MntInv
  BY Begins
<1>2. MntInv /\ [Next]_vars => MntInv'
  BY Starts, WorkKeeps, Crashes, WebKeeps, MntStutters DEF Next
<1> QED BY <1>1, <1>2, PTL DEF Spec

\* However the maintenance process and the web process interleave, and
\* wherever a run is killed, rows, files and what is loaded of them keep their
\* types, catalog and unmatched tracks do not mix, and no two files share a path.
THEOREM MaintenanceTyped == Spec => []TypeOK
<1>1. MntInv => TypeOK
  BY DEF MntInv
<1> QED BY <1>1, MntInvariant, PTL

-----------------------------------------------------------------------------
\* A merge keeps the better copy

\* The files of one name are of one song.
NamesTell == \A s, t \in Songs : Name[s] = Name[t] => s = t

LEMMA FileOfSong ==
    ASSUME NamesTell, NEW f \in File, NEW r \in Catalog, At(f)[2] = Name[Song[r]]
    PROVE  f.song = Song[r]
<1>1. f.song \in Songs /\ Song[r] \in Songs /\ Name[f.song] = Name[Song[r]]
  BY FilePath, MntCatalog
<1> QED BY <1>1 DEF NamesTell

LEMMA DropKeepsAudio ==
    ASSUME MntInv, NamesTell, DropTrack, NEW f \in disk \ disk'
    PROVE  \/ \E g \in disk' : g.song = f.song /\ Rank[g.ext] >= Rank[f.ext]
           \/ /\ ~healthy
              /\ \E r \in Downloaded(run.new) :
                    run.new[r].song = f.song /\ ~On(disk, run.new[r].path)
<1> DEFINE r == Turn
           q == Max(Twins(r))
           p == run.new[r].path
           k == run.new[q].path
           fold == FoldPaths(p, k)
           n == Dropped(run, r, q, fold.keep)
<1>1. /\ run \in Merges /\ MergeSound(run) /\ run.pc = "merge"
      /\ r \in run.queue /\ q \in TracksOf(run.new, run.canon)
      /\ run.new[q].song = run.new[r].song
      /\ disk' = Removed(disk, fold.remove)
  BY DropsOne
<1>2. fold = FoldPaths(p, k)
  OBVIOUS
<1>3. p = run.new[r].path /\ k = run.new[q].path
  OBVIOUS
<1> HIDE DEF r, q, p, k, fold, n
<1>4. /\ r \in Catalog /\ q \in Catalog /\ r \in Rows /\ q \in Rows
      /\ run.new[r] # None /\ run.new[q] # None /\ Sound(run.new)
  BY <1>1, FoldsCatalog DEF MergeSound
<1>5. /\ p \in Path \cup {None} /\ k \in Path \cup {None}
      /\ Owned(r, run.new[r]) /\ Owned(q, run.new[q])
  BY <1>3, <1>4, TableRow
<1>6. /\ Song[q] = Song[r] /\ run.new[r].song = Song[r] /\ run.new[q].song = Song[r]
      /\ p # None => p[2] = Name[Song[r]]
      /\ k # None => k[2] = Name[Song[r]]
  BY <1>1, <1>3, <1>4, <1>5 DEF Owned
<1>7. f \in File /\ At(f) = fold.remove /\ disk \subseteq File
  BY <1>1, RemovedFiles DEF MntInv, TypeOK
<1>8. fold.remove # None
  BY <1>7, FilePath
<1>9. /\ p # None /\ k # None /\ fold.keep \in {p, k} /\ fold.remove \in {p, k}
      /\ fold.keep # fold.remove /\ Rank[fold.keep[3]] >= Rank[fold.remove[3]]
  BY <1>2, <1>5, <1>8, Folded
<1>10. f.song = Song[r]
  BY <1>4, <1>6, <1>7, <1>9, FileOfSong
<1>11. CASE On(disk, fold.keep)
  <2>1. PICK g \in disk : At(g) = fold.keep
    BY <1>11 DEF On
  <2>2. g \in File /\ g \in disk'
    BY <1>1, <1>7, <1>9, <2>1 DEF Removed
  <2>3. g.song = Song[r]
    BY <1>4, <1>6, <1>9, <2>1, <2>2, FileOfSong
  <2>4. g.ext = fold.keep[3] /\ f.ext = fold.remove[3]
    BY <1>7, <2>1, <2>2, FilePath
  <2> QED BY <1>9, <1>10, <2>2, <2>3, <2>4
<1>12. CASE ~On(disk, fold.keep)
  <2>1. r \in Downloaded(run.new) /\ q \in Downloaded(run.new)
    BY <1>3, <1>4, <1>9 DEF Downloaded
  <2>2. PICK x \in {r, q} : run.new[x].path = fold.keep
    BY <1>3, <1>9
  <2>3. x \in Downloaded(run.new) /\ run.new[x].song = f.song /\ ~On(disk, run.new[x].path)
    BY <1>6, <1>10, <1>12, <2>1, <2>2
  <2>4. ~healthy
    BY <1>1, <2>3 DEF MntInv, InAccord, Present
  <2> QED BY <2>3, <2>4
<1> QED BY <1>11, <1>12

LEMMA WebIsNoRun ==
    ASSUME Web
    PROVE  run' = run
BY DEF Web, DownloadStart, DeleteTrack, DownloadDone, UserRemoves, DropAlbum, SyncAlbum,
       ImportList, ImportIndex, ImportMatch, ImportFails, ImportCommit

LEMMA OnlyDropsRemove ==
    ASSUME Next, run.pc = "merge", run' # run, ~DropTrack
    PROVE  disk' = disk
<1>1. CASE Start
  BY <1>1 DEF Start
<1>2. CASE Crash
  BY <1>2 DEF Crash
<1>3. CASE Web
  BY <1>3, WebIsNoRun
<1>4. CASE Work
  BY <1>4 DEF Work, MergeExact, MergePair, NextPass, MoveTrack, MergeCommit, Place, PlaceCommit
<1> QED BY <1>1, <1>2, <1>3, <1>4 DEF Next

\* Where files of one name are of one song, a merge that removes a file leaves
\* another of its song and at least of its quality, unless a row names a file
\* that is gone; and then the run did not begin on rows and files in accord,
\* or a web request has changed them since.
THEOREM MergesKeepAudio ==
    ASSUME NamesTell
    PROVE  Spec => MergeKeepsAudio
<1>1. MntInv /\ [Next]_vars =>
        [\A f \in disk \ disk' : run.pc = "merge" /\ run' # run =>
            \/ \E g \in disk' : g.song = f.song /\ Rank[g.ext] >= Rank[f.ext]
            \/ /\ ~healthy
               /\ \E r \in Downloaded(run.new) :
                    run.new[r].song = f.song /\ ~On(disk, run.new[r].path)]_vars
  <2> SUFFICES ASSUME MntInv, Next, NEW f \in disk \ disk', run.pc = "merge", run' # run
               PROVE  \/ \E g \in disk' : g.song = f.song /\ Rank[g.ext] >= Rank[f.ext]
                      \/ /\ ~healthy
                         /\ \E r \in Downloaded(run.new) :
                                run.new[r].song = f.song /\ ~On(disk, run.new[r].path)
    OBVIOUS
  <2>1. DropTrack
    BY OnlyDropsRemove
  <2> QED BY <2>1, DropKeepsAudio
<1> QED BY <1>1, MntInvariant, PTL DEF Spec, MergeKeepsAudio

-----------------------------------------------------------------------------
\* A run settles the library

\* Every row has an album of S, and its file the name of its song.
Homed(S, R) == \A r \in Rows : R[r] # None => R[r].album \in S
Titled(R) == \A r \in Downloaded(R) : R[r].path[2] = Name[R[r].song]

\* A merge has rows of the table only, and those that are in an album that
\* goes are still to fold.
Folding(m) ==
    /\ m.canon \in albums
    /\ \A r \in Rows : m.new[r] # None =>
        /\ row[r] # None /\ m.new[r].song = row[r].song
        /\ m.new[r].album \in albums \ m.others \/ r \in m.queue

\* A placement has all the rows of the table; what it is done with is where
\* it is to go, and the rest is as the table has it.
InPlace(S, R, todo) ==
    \A r \in Rows :
        /\ R[r] = None <=> S[r] = None
        /\ R[r] # None =>
            /\ R[r].album = S[r].album /\ R[r].song = S[r].song
            /\ R[r].path = IF r \in todo \/ S[r].path = None
                           THEN S[r].path ELSE Target(S[r])
Placing(m) == m.seen = row /\ m.gone = {} /\ InPlace(row, m.new, m.todo)

\* How a run that began in accord keeps the rows.
InOrder ==
    healthy =>
        /\ run.pc \in {"exact", "fuzzy", "cross"} => Homed(albums, row) /\ Titled(row)
        /\ run.pc = "merge" => Folding(run) /\ Titled(run.new)
        /\ run.pc = "place" /\ Apart(run.seen) =>
            /\ Homed(albums, row) /\ Titled(run.new)
            /\ Placing(run) /\ Present(run.new, disk)

LEMMA StartsInOrder ==
    ASSUME MntInv, Start
    PROVE  InOrder'
<1>1. run' = Pass("exact", Groups) /\ UNCHANGED <<albums, row, disk>>
      /\ healthy' = (Accounted(albums, row, disk) /\ Unshared(row))
  BY DEF Start
<1>2. run'.pc = "exact"
  BY <1>1 DEF Pass
<1>3. ASSUME Accounted(albums, row, disk)
      PROVE  Homed(albums, row) /\ Titled(row)
  <2>1. ASSUME NEW r \in Downloaded(row)
        PROVE  row[r].path[2] = Name[row[r].song]
    <3>1. PICK f \in disk : At(f) = row[r].path /\ f.song = row[r].song
      BY <1>3 DEF Accounted
    <3>2. f \in File
      BY DEF MntInv, TypeOK
    <3> QED BY <3>1, <3>2, FilePath
  <2> QED BY <1>3, <2>1 DEF Accounted, Homed, Titled
<1> QED BY <1>1, <1>2, <1>3 DEF InOrder

LEMMA PassInOrder ==
    ASSUME InOrder, run.pc \in {"exact", "fuzzy", "cross"}, run'.pc \in {"exact", "fuzzy", "cross"},
           UNCHANGED <<albums, row, healthy>>
    PROVE  InOrder'
BY DEF InOrder

LEMMA MergeInOrder ==
    ASSUME MntInv, InOrder, run.pc \in {"exact", "fuzzy", "cross"}, Beginning,
           UNCHANGED <<albums, row, disk, download, import, healthy, events>>
    PROVE  InOrder'
<1>1. PICK S \in SUBSET albums : \E a, b \in S : \E back \in Passes :
        a # b /\ Unmatched \notin S /\ run' = MergeOf(S, back)
  BY DEF Beginning
<1>2. PICK a \in S, b \in S : \E back \in Passes :
        a # b /\ Unmatched \notin S /\ run' = MergeOf(S, back)
  BY <1>1
<1>3. PICK back \in Passes : a # b /\ Unmatched \notin S /\ run' = MergeOf(S, back)
  BY <1>2
<1>4. S \subseteq EverAlbum
  BY DEF MntInv, TypeOK
<1>5. /\ run' \in Merges /\ run'.new = row /\ run'.canon \in S
      /\ \A r \in Rows : row[r] # None /\ row[r].album \in run'.others => r \in run'.queue
  BY <1>3, <1>4, MergeOfSound
<1>6. run'.pc = "merge"
  BY <1>5, MergeFields
<1>7. ASSUME healthy PROVE Folding(run)' /\ Titled(run'.new)
  <2>1. Homed(albums, row) /\ Titled(row)
    BY <1>7 DEF InOrder
  <2>2. run'.canon \in albums
    BY <1>1, <1>5
  <2>3. \A r \in Rows : row[r] # None =>
            row[r].album \in albums \ run'.others \/ r \in run'.queue
    BY <1>5, <2>1 DEF Homed
  <2> QED BY <1>5, <2>1, <2>2, <2>3 DEF Folding
<1> QED BY <1>6, <1>7 DEF InOrder

LEMMA NextInOrder ==
    ASSUME MntInv, InOrder, NextPass
    PROVE  InOrder'
<1>1. /\ UNCHANGED <<albums, row, disk, download, import, healthy, events>>
      /\ run.pc \in {"exact", "fuzzy", "cross"}
  BY DEF NextPass
<1>2. CASE run' = Pass("fuzzy", {}) \/ run' = Pass("cross", {})
  <2>1. run'.pc \in {"exact", "fuzzy", "cross"}
    BY <1>2 DEF Pass
  <2> QED BY <1>1, <2>1, PassInOrder
<1>3. CASE run' = [pc |-> "place", todo |-> Downloaded(row), seen |-> row, new |-> row,
                   gone |-> {}, locked |-> FALSE]
  <2>1. /\ run'.pc = "place" /\ run'.todo = Downloaded(row)
        /\ run'.seen = row /\ run'.new = row /\ run'.gone = {}
    BY <1>3
  <2>2. \A r \in Rows : row[r] # None => r \in Downloaded(row) \/ row[r].path = None
    BY DEF Downloaded
  <2>3. Placing(run)'
    BY <1>1, <2>1, <2>2 DEF Placing, InPlace
  <2>4. healthy => Homed(albums, row) /\ Titled(row) /\ Present(row, disk)
    BY <1>1 DEF InOrder, MntInv, InAccord
  <2> QED BY <1>1, <2>1, <2>3, <2>4 DEF InOrder
<1> QED BY <1>2, <1>3 DEF NextPass

LEMMA OffInOrder ==
    ASSUME run' = Off
    PROVE  InOrder'
BY DEF Off, InOrder

\* A merge that goes on with other rows.
LEMMA FoldInOrder ==
    ASSUME run' \in Merges, run'.canon = run.canon, run'.others = run.others,
           UNCHANGED <<albums, row, healthy>>, healthy => Folding(run),
           NEW r, run'.queue = run.queue \ {r},
           run'.new[r] # None => run'.new[r].album = run.canon,
           run.canon \notin run.others,
           \A q \in Rows : run'.new[q] # None =>
                /\ run.new[q] # None /\ run'.new[q].song = run.new[q].song
                /\ q # r => run'.new[q].album = run.new[q].album,
           healthy => Titled(run'.new)
    PROVE  InOrder'
<1>1. run'.pc = "merge"
  BY MergeFields
<1>2. ASSUME healthy PROVE Folding(run)'
  <2>1. run'.canon \in albums'
    BY <1>2 DEF Folding
  <2>2. ASSUME NEW q \in Rows, run'.new[q] # None
        PROVE  /\ row'[q] # None /\ run'.new[q].song = row'[q].song
               /\ run'.new[q].album \in albums' \ run'.others \/ q \in run'.queue
    <3>1. /\ run.new[q] # None /\ run'.new[q].song = run.new[q].song
          /\ q # r => run'.new[q].album = run.new[q].album
      BY <2>2
    <3>2. /\ row[q] # None /\ run.new[q].song = row[q].song
          /\ run.new[q].album \in albums \ run.others \/ q \in run.queue
      BY <1>2, <3>1 DEF Folding
    <3>3. CASE q = r
      <4>1. run'.new[q].album = run.canon /\ run.canon \in albums
        BY <1>2, <2>2, <3>3 DEF Folding
      <4> QED BY <3>1, <3>2, <4>1
    <3>4. CASE q # r
      BY <3>1, <3>2, <3>4
    <3> QED BY <3>3, <3>4
  <2> QED BY <2>1, <2>2 DEF Folding
<1> QED BY <1>1, <1>2 DEF InOrder

LEMMA MoveInOrder ==
    ASSUME MntInv, InOrder, MoveTrack
    PROVE  InOrder'
<1> DEFINE r == Turn
           n == Moved(run, r)
<1>1. /\ run.pc = "merge" /\ run.queue # {}
      /\ UNCHANGED <<albums, row, disk, download, import, healthy, events>>
      /\ run' = AlbumFolded(n, run.seen[r].album)
  BY DEF MoveTrack, Moved
<1>2. run \in Merges /\ MergeSound(run)
  BY <1>1, RunTypes DEF MntInv, RunSound
<1>3. r \in run.queue
  BY <1>1, <1>2, TurnIn
<1>4. n = Moved(run, r)
  OBVIOUS
<1> HIDE DEF r, n
<1>5. /\ n \in Merges /\ MergeSound(n) /\ n.canon = run.canon /\ n.others = run.others
      /\ n.queue = run.queue \ {r}
  BY <1>2, <1>3, <1>4, MoveSound
<1>6. \A q \in Rows : /\ n.new[q] = None <=> run.new[q] = None
                      /\ n.new[q] # None => /\ n.new[q].path = run.new[q].path
                                            /\ n.new[q].song = run.new[q].song
  BY <1>2, <1>3, <1>4, MoveSound
<1>7. n.new[r].album = run.canon /\ \A q \in Rows \ {r} : n.new[q] = run.new[q]
  BY <1>2, <1>3, <1>4, MoveSound
<1>8. CASE run' = Off
  BY <1>8, OffInOrder
<1>9. CASE run' # Off
  <2>1. /\ run' \in Merges /\ run'.canon = run.canon /\ run'.others = run.others
        /\ run'.queue = run.queue \ {r} /\ run'.new = n.new
    BY <1>1, <1>5, <1>9, FoldedSound
  <2>2. healthy => Folding(run) /\ Titled(run.new)
    BY <1>1 DEF InOrder
  <2>3. healthy => Titled(run'.new)
    <3>1. \A q \in Downloaded(n.new) :
            q \in Downloaded(run.new) /\ n.new[q].path = run.new[q].path
            /\ n.new[q].song = run.new[q].song
      BY <1>6 DEF Downloaded
    <3> QED BY <2>1, <2>2, <3>1 DEF Titled
  <2>4. run.canon \notin run.others
    BY <1>2 DEF MergeSound
  <2>5. \A q \in Rows : run'.new[q] # None =>
            /\ run.new[q] # None /\ run'.new[q].song = run.new[q].song
            /\ q # r => run'.new[q].album = run.new[q].album
    BY <1>6, <1>7, <2>1
  <2>6. run'.new[r].album = run.canon
    BY <1>7, <2>1
  <2> QED BY <1>1, <2>1, <2>2, <2>3, <2>4, <2>5, <2>6, FoldInOrder
<1> QED BY <1>8, <1>9

LEMMA DropInOrder ==
    ASSUME MntInv, InOrder, DropTrack
    PROVE  InOrder'
<1> DEFINE r == Turn
           q == Max(Twins(r))
           p == run.new[r].path
           k == run.new[q].path
           fold == FoldPaths(p, k)
           n == Dropped(run, r, q, fold.keep)
<1>1. /\ run \in Merges /\ MergeSound(run) /\ run.pc = "merge" /\ r \in run.queue
      /\ q \in TracksOf(run.new, run.canon) /\ run.new[q].song = run.new[r].song
      /\ run' \in {Off, AlbumFolded(n, run.seen[r].album)}
      /\ UNCHANGED <<albums, row, healthy>>
  BY DropsOne
<1>2. /\ fold = FoldPaths(run.new[r].path, run.new[q].path)
      /\ n = Dropped(run, r, q, fold.keep) /\ p = run.new[r].path /\ k = run.new[q].path
  OBVIOUS
<1> HIDE DEF r, q, p, k, fold, n
<1>3. AfterDrop(n, run, r, q, fold.keep)
  BY <1>1, <1>2, DropSound
<1>4. /\ n \in Merges /\ MergeSound(n) /\ n.canon = run.canon /\ n.others = run.others
      /\ n.queue = run.queue \ {r}
  BY <1>3 DEF AfterDrop
<1>5. n.new[r] = None /\ n.new[q] # None
  BY <1>3 DEF AfterDrop
<1>6. /\ n.new[q].path = fold.keep /\ n.new[q].album = run.new[q].album
      /\ n.new[q].song = run.new[q].song
  BY <1>3 DEF AfterDrop
<1>7. \A x \in Rows \ {r, q} : n.new[x] = run.new[x]
  BY <1>3 DEF AfterDrop
<1>8. /\ r \in Rows /\ q \in Rows /\ q # r /\ run.new[r] # None /\ run.new[q] # None
      /\ Sound(run.new)
  BY <1>1, FoldsCatalog DEF MergeSound
<1>9. fold.keep \in {p, k}
  <2>1. p \in Path \cup {None} /\ k \in Path \cup {None}
    BY <1>2, <1>8, TableRow
  <2> QED BY <1>2, <2>1, Folded
<1>10. CASE run' = Off
  BY <1>10, OffInOrder
<1>11. CASE run' # Off
  <2>1. /\ run' \in Merges /\ run'.canon = run.canon /\ run'.others = run.others
        /\ run'.queue = run.queue \ {r} /\ run'.new = n.new
    BY <1>1, <1>4, <1>11, FoldedSound
  <2>2. healthy => Folding(run) /\ Titled(run.new)
    BY <1>1 DEF InOrder
  <2>3. ASSUME healthy PROVE Titled(run'.new)
    <3>1. Titled(run.new)
      BY <2>2, <2>3
    <3>2. ASSUME NEW x \in Downloaded(n.new) PROVE n.new[x].path[2] = Name[n.new[x].song]
      <4>1. x \in Rows /\ n.new[x] # None /\ n.new[x].path # None /\ x # r
        BY <1>5 DEF Downloaded
      <4>2. CASE x = q
        <5>1. PICK y \in {r, q} : run.new[y].path = fold.keep
          BY <1>2, <1>9
        <5>2. y \in Downloaded(run.new) /\ run.new[y].song = run.new[q].song
          BY <1>1, <1>6, <1>8, <4>1, <4>2, <5>1 DEF Downloaded
        <5> QED BY <1>6, <3>1, <4>2, <5>1, <5>2 DEF Titled
      <4>3. CASE x # q
        <5>1. n.new[x] = run.new[x]
          BY <1>7, <4>1, <4>3
        <5> QED BY <3>1, <4>1, <5>1 DEF Titled, Downloaded
      <4> QED BY <4>2, <4>3
    <3> QED BY <2>1, <3>2 DEF Titled
  <2>4. run.canon \notin run.others
    BY <1>1 DEF MergeSound
  <2>5. \A x \in Rows : n.new[x] # None =>
            /\ run.new[x] # None /\ n.new[x].song = run.new[x].song
            /\ x # r => n.new[x].album = run.new[x].album
    BY <1>5, <1>6, <1>7, <1>8
  <2>6. run'.new[r] = None
    BY <1>5, <2>1
  <2> QED BY <1>1, <2>1, <2>2, <2>3, <2>4, <2>5, <2>6, FoldInOrder
<1> QED BY <1>10, <1>11

LEMMA CommitInOrder ==
    ASSUME MntInv, InOrder, MergeCommit
    PROVE  InOrder'
<1>1. run.pc = "merge" /\ run.queue = {} /\ UNCHANGED <<disk, download, import, healthy, events>>
  BY DEF MergeCommit
<1>2. run \in Merges
  BY <1>1, RunTypes DEF MntInv
<1>3. CASE run' = Off
  BY <1>3, OffInOrder
<1>4. CASE run' = run.back /\ albums' = albums \ run.others /\ row' = Flushed(run)
  <2>1. run'.pc \in {"exact", "fuzzy", "cross"}
    BY <1>2, <1>4, MergeFields, PassIsRun
  <2>2. ASSUME healthy, NEW r \in Rows, row'[r] # None
        PROVE  /\ row'[r].album \in albums' /\ run.new[r] # None
               /\ row'[r].song = run.new[r].song /\ row'[r].path = run.new[r].path
    <3>1. run.seen = row /\ Sound(row)
      BY <1>1, <2>2 DEF MntInv, InAccord
    <3>2. /\ run.new[r] # None /\ row[r] # None
          /\ row'[r].album = run.new[r].album /\ row'[r].song = row[r].song
          /\ row'[r].path = run.new[r].path
      BY <1>4, <2>2, <3>1, FlushedAlone
    <3>3. Folding(run)
      BY <1>1, <2>2 DEF InOrder
    <3>4. run.new[r].song = row[r].song /\ run.new[r].album \in albums \ run.others
      BY <1>1, <3>2, <3>3 DEF Folding
    <3> QED BY <1>4, <3>2, <3>4
  <2>3. healthy => Homed(albums', row')
    BY <2>2 DEF Homed
  <2>4. ASSUME healthy PROVE Titled(row')
    <3>1. Titled(run.new)
      BY <1>1, <2>4 DEF InOrder
    <3>2. \A r \in Downloaded(row') :
            r \in Downloaded(run.new) /\ row'[r].path = run.new[r].path
            /\ row'[r].song = run.new[r].song
      BY <2>2, <2>4 DEF Downloaded
    <3> QED BY <3>1, <3>2 DEF Titled
  <2> QED BY <1>1, <2>1, <2>3, <2>4 DEF InOrder
<1> QED BY <1>3, <1>4 DEF MergeCommit

\* No other track has the path that the track r went to.
Alone(T, r, to) == \A q \in Downloaded(T) \ {r} : q \in Downloaded(run.new) /\ T[q].path # to

\* The files after those at p went to dir.
Shifted(d, p, dir) == {IF At(f) = p THEN [f EXCEPT !.dir = dir] ELSE f : f \in d}

\* The rows of the placement, with the track r in its place.
LEMMA RowsPlaced ==
    ASSUME Placing(run), Homed(albums, row), Titled(run.new), Apart(row),
           NEW r \in run.todo, r \in Downloaded(run.new),
           NEW to, to = Target(run.new[r]), to # None, to[2] = run.new[r].path[2],
           NEW T, T[r] # None, T[r].album = run.new[r].album,
           T[r].song = run.new[r].song, T[r].path = to,
           \A q \in Rows \ {r} : T[q] = run.new[q],
           NEW todo, todo = run.todo \ {r}
    PROVE  InPlace(row, T, todo) /\ Titled(T) /\ Alone(T, r, to)
<1>1. /\ r \in Rows /\ run.new[r] # None /\ run.new[r].path # None /\ row[r] # None
      /\ run.new[r].album = row[r].album /\ run.new[r].song = row[r].song
      /\ run.new[r].path = row[r].path
  BY DEF Placing, InPlace, Downloaded
<1>2. to = Target(row[r]) /\ r \in Downloaded(row)
  BY <1>1 DEF Target, Downloaded
<1>3. InPlace(row, T, todo)
  <2> SUFFICES ASSUME NEW q \in Rows
               PROVE  /\ T[q] = None <=> row[q] = None
                      /\ T[q] # None =>
                            /\ T[q].album = row[q].album /\ T[q].song = row[q].song
                            /\ T[q].path = IF q \in todo \/ row[q].path = None
                                           THEN row[q].path ELSE Target(row[q])
    BY DEF InPlace
  <2>1. CASE q = r
    BY <1>1, <1>2, <2>1
  <2>2. CASE q # r
    BY <2>2 DEF Placing, InPlace
  <2> QED BY <2>1, <2>2
<1>4. Titled(T)
  <2> SUFFICES ASSUME NEW q \in Downloaded(T)
               PROVE  T[q].path[2] = Name[T[q].song]
    BY DEF Titled
  <2>1. CASE q = r
    BY <2>1 DEF Titled
  <2>2. CASE q # r
    BY <2>2 DEF Titled, Downloaded
  <2> QED BY <2>1, <2>2
<1>5. ASSUME NEW q \in Downloaded(T) \ {r}
      PROVE  q \in Downloaded(run.new) /\ T[q].path # to
  <2>1. q \in Rows /\ T[q] # None /\ T[q].path # None /\ T[q] = run.new[q]
    BY DEF Downloaded
  <2>2. q \in Downloaded(run.new)
    BY <2>1 DEF Downloaded
  <2>3. row[q] # None /\ T[q].path \in {row[q].path, Target(row[q])}
    BY <1>3, <2>1 DEF InPlace
  <2>4. row[q].path # None
    BY <1>3, <2>1 DEF InPlace
  <2>5. q \in Downloaded(row)
    BY <2>1, <2>3, <2>4 DEF Downloaded
  <2>6. to \notin {row[q].path, Target(row[q])}
    BY <1>2, <2>5 DEF Apart
  <2> QED BY <2>2, <2>3, <2>6
<1> QED BY <1>3, <1>4, <1>5 DEF Alone

\* The files, with the one of the track r in its place.
LEMMA FilesPlaced ==
    ASSUME DiskSound(disk), Present(run.new, disk), NEW r \in Downloaded(run.new),
           NEW p \in Path, p = run.new[r].path, NEW dir \in Dirs,
           NEW to, to = <<dir, p[2], p[3]>>, to # p,
           NEW T, T[r] # None, T[r].path = to, \A q \in Rows \ {r} : T[q] = run.new[q],
           Alone(T, r, to),
           NEW d, (d = Removed(disk, p) /\ On(disk, to)) \/ d = Shifted(disk, p, dir)
    PROVE  Present(T, d)
<1>1. Unshared(T)
  BY DEF Present, Unshared, Downloaded, Alone
<1>2. ASSUME NEW q \in Downloaded(T) \ {r}
      PROVE  T[q].path = run.new[q].path /\ run.new[q].path # p /\ On(disk, T[q].path)
  BY DEF Present, Unshared, Downloaded, Alone
<1>3. CASE d = Removed(disk, p) /\ On(disk, to)
  <2>1. \A q \in Downloaded(T) : On(d, T[q].path)
    BY <1>2, <1>3, RemovedFiles
  <2> QED BY <1>1, <2>1 DEF Present
<1>4. CASE d = Shifted(disk, p, dir)
  <2>1. ASSUME NEW q \in Downloaded(T) \ {r}
        PROVE  On(d, T[q].path)
    <3>1. PICK f \in disk : At(f) = T[q].path
      BY <1>2 DEF On
    <3>2. f \in d
      BY <1>2, <1>4, <3>1 DEF Shifted
    <3> QED BY <3>1, <3>2 DEF On
  <2>2. On(d, to)
    <3>1. PICK f \in disk : At(f) = p
      BY DEF Present, On
    <3>2. f \in File
      BY DEF DiskSound
    <3> DEFINE g == [f EXCEPT !.dir = dir]
    <3>3. g \in d
      BY <1>4, <3>1 DEF Shifted
    <3>4. g = [dir |-> dir, song |-> f.song, ext |-> f.ext]
      BY <3>2 DEF File
    <3>5. p[2] = Name[f.song] /\ p[3] = f.ext
      BY <3>1, <3>2, FilePath
    <3> HIDE DEF g
    <3>6. At(g) = to
      BY <3>4, <3>5 DEF At
    <3> QED BY <3>3, <3>6 DEF On
  <2> QED BY <1>1, <2>1, <2>2 DEF Present
<1> QED BY <1>3, <1>4

LEMMA SkippedFields ==
    ASSUME NEW m \in Placements, NEW r, NEW n, n = Skipped(m, r)
    PROVE  n.pc = "place" /\ n.todo = m.todo \ {r} /\ n.seen = m.seen /\ n.new = m.new
           /\ n.gone = m.gone
BY DEF Placements, Skipped

LEMMA RehomedFields ==
    ASSUME NEW m \in Placements, NEW r, NEW to, NEW n, n = Rehomed(m, r, to)
    PROVE  n.pc = "place" /\ n.todo = m.todo \ {r} /\ n.seen = m.seen
           /\ n.new = WithPath(m.new, r, to) /\ n.gone = m.gone
BY DEF Placements, Rehomed

LEMMA PlaceInOrder ==
    ASSUME MntInv, InOrder, NEW r \in Rows, Place(r)
    PROVE  InOrder'
<1> DEFINE to == Placed(run.new[r].path, run.new[r].album)
           moved == {IF At(f) = run.new[r].path
                     THEN [f EXCEPT !.dir = Folder[run.new[r].album]] ELSE f : f \in disk}
<1>1. /\ run.pc = "place" /\ r \in run.todo
      /\ UNCHANGED <<albums, row, download, import, healthy, events>>
      /\ \/ /\ run' = Skipped(run, r) /\ disk' = disk
            /\ \/ ~On(disk, run.new[r].path)
               \/ run.new[r].album \notin albums \/ to = run.new[r].path
         \/ /\ run' \in {Off, Rehomed(run, r, to)} /\ to # run.new[r].path
            /\ \/ disk' = Removed(disk, run.new[r].path) /\ On(disk, to)
               \/ disk' = moved
  BY PlacesOne
<1>2. run \in Placements /\ PlaceSound(run) /\ DiskSound(disk)
  BY <1>1, RunTypes DEF MntInv, RunSound
<1>3. r \in Downloaded(run.new) /\ run.new[r] # None /\ run.new[r].path # None /\ Sound(run.new)
  BY <1>1, <1>2 DEF PlaceSound, Downloaded
<1>4. run.new[r].path \in Path /\ run.new[r].album \in EverAlbum
  BY <1>3, TableRow
<1>5. /\ to \in Path /\ to[2] = run.new[r].path[2]
      /\ to = <<Folder[run.new[r].album], run.new[r].path[2], run.new[r].path[3]>>
      /\ Folder[run.new[r].album] \in Dirs
  BY <1>4, PlacedPath
<1>6. to = Target(run.new[r]) /\ to # None
  BY <1>5, PathParts DEF Target
<1> HIDE DEF to, moved
<1>7. CASE run' = Off
  BY <1>7, OffInOrder
<1>8. CASE run' # Off
  <2>1. /\ run'.pc = "place" /\ run'.todo = run.todo \ {r}
        /\ run'.seen = run.seen /\ run'.gone = run.gone
    BY <1>1, <1>2, <1>8, SkippedFields, RehomedFields
  <2>2. SUFFICES ASSUME healthy, Apart(run.seen)
                 PROVE  Homed(albums, row) /\ Titled(run'.new) /\ Placing(run)'
                        /\ Present(run'.new, disk')
    BY <1>1, <2>1 DEF InOrder
  <2>3. /\ Homed(albums, row) /\ Titled(run.new) /\ Placing(run) /\ Present(run.new, disk)
    BY <1>1, <2>2 DEF InOrder
  <2>4. Apart(row) /\ run.seen = row /\ run.gone = {}
    BY <2>2, <2>3 DEF Placing
  <2>5. On(disk, run.new[r].path) /\ run.new[r].album \in albums
    <3>1. row[r] # None /\ run.new[r].album = row[r].album
      BY <1>3, <2>3 DEF Placing, InPlace
    <3> QED BY <1>3, <2>3, <3>1 DEF Present, Homed
  <2>6. /\ run'.new[r] # None /\ run'.new[r].album = run.new[r].album
        /\ run'.new[r].song = run.new[r].song /\ run'.new[r].path = to
        /\ \A q \in Rows \ {r} : run'.new[q] = run.new[q]
    <3>1. CASE run' = Skipped(run, r)
      <4>1. run'.new = run.new
        BY <1>2, <3>1, SkippedFields
      <4>2. to = run.new[r].path
        <5>1. run' = Rehomed(run, r, to) => run'.locked = TRUE /\ run'.new[r].path = to
          <6>1. (r \in Catalog /\ to # None) => to[2] = Name[Song[r]]
            BY <1>3, <1>5 DEF Sound, Owned
          <6>2. WithPath(run.new, r, to)[r].path = to
            <7>1. to \in Path \cup {None}
              BY <1>5
            <7>2. Repathed(WithPath(run.new, r, to), run.new, r, to)
              BY <1>3, <6>1, <7>1, WithPathSound
            <7> QED BY <7>2 DEF Repathed
          <6>3. run' = Rehomed(run, r, to) => run'.new = WithPath(run.new, r, to)
            BY <1>2, RehomedFields
          <6>4. run' = Rehomed(run, r, to) => run'.locked = TRUE
            BY <1>2 DEF Rehomed, Placements
          <6> QED BY <6>2, <6>3, <6>4
        <5> QED BY <1>1, <1>8, <2>5, <4>1, <5>1
      <4> QED BY <1>3, <4>1, <4>2
    <3>2. CASE run' = Rehomed(run, r, to)
      <4>1. run'.new = WithPath(run.new, r, to)
        BY <1>2, <3>2, RehomedFields
      <4>2. (r \in Catalog /\ to # None) => to[2] = Name[Song[r]]
        BY <1>3, <1>5 DEF Sound, Owned
      <4>3. to \in Path \cup {None}
        BY <1>5
      <4>4. Repathed(run'.new, run.new, r, to)
        BY <1>3, <4>1, <4>2, <4>3, WithPathSound
      <4> QED BY <4>4 DEF Repathed
    <3> QED BY <1>1, <1>8, <3>1, <3>2
  <2>7. /\ InPlace(row, run'.new, run'.todo)
        /\ Titled(run'.new) /\ Alone(run'.new, r, to)
    <3> DEFINE T == run'.new
               todo == run'.todo
    <3>1. /\ T[r] # None /\ T[r].album = run.new[r].album
          /\ T[r].song = run.new[r].song /\ T[r].path = to
          /\ \A q \in Rows \ {r} : T[q] = run.new[q]
      BY <2>6
    <3>2. todo = run.todo \ {r} /\ r \in run.todo
      BY <1>1, <2>1
    <3> HIDE DEF T, todo
    <3>3. InPlace(row, T, todo)
      BY <1>3, <1>5, <1>6, <2>3, <2>4, <3>1, <3>2, RowsPlaced
    <3>4. Titled(T)
      BY <1>3, <1>5, <1>6, <2>3, <2>4, <3>1, <3>2, RowsPlaced
    <3>5. Alone(T, r, to)
      BY <1>3, <1>5, <1>6, <2>3, <2>4, <3>1, <3>2, RowsPlaced
    <3> QED BY <3>3, <3>4, <3>5 DEF T, todo
  <2>8. Placing(run)'
    BY <1>1, <2>1, <2>4, <2>7 DEF Placing
  <2>9. Present(run'.new, disk')
    <3>1. CASE to = run.new[r].path
      <4>1. disk' = disk
        BY <1>1, <3>1
      <4>2. \A q \in Downloaded(run'.new) :
                q \in Downloaded(run.new) /\ run'.new[q].path = run.new[q].path
        BY <1>3, <2>6, <2>7, <3>1 DEF Downloaded, Alone
      <4> QED BY <2>3, <4>1, <4>2, PresentWhere
    <3>2. CASE to # run.new[r].path
      <4> DEFINE p == run.new[r].path
                 dir == Folder[run.new[r].album]
                 T == run'.new
      <4>1. (disk' = Removed(disk, p) /\ On(disk, to)) \/ disk' = moved
        BY <1>1, <2>5, <3>2
      <4>2. moved = Shifted(disk, p, dir)
        BY DEF Shifted, moved
      <4>3. p \in Path /\ dir \in Dirs /\ to = <<dir, p[2], p[3]>> /\ to # p /\ p = run.new[r].path
        BY <1>4, <1>5, <3>2
      <4>4. /\ T[r] # None /\ T[r].path = to /\ \A q \in Rows \ {r} : T[q] = run.new[q]
            /\ Alone(T, r, to)
        BY <2>6, <2>7
      <4> HIDE DEF p, dir, T
      <4>5. Present(run.new, disk) /\ DiskSound(disk) /\ r \in Downloaded(run.new)
        BY <1>2, <1>3, <2>3
      <4>6. Present(T, disk')
        BY <4>1, <4>2, <4>3, <4>4, <4>5, FilesPlaced
      <4> QED BY <4>6 DEF T
    <3> QED BY <3>1, <3>2
  <2> QED BY <2>3, <2>7, <2>8, <2>9
<1> QED BY <1>7, <1>8

LEMMA WebInOrder ==
    ASSUME InOrder, Web
    PROVE  InOrder'
<1>1. healthy' = FALSE \/ UNCHANGED <<albums, row, disk, run, healthy>>
  BY DEF Web, DownloadStart, DeleteTrack, DownloadDone, UserRemoves, DropAlbum, SyncAlbum,
         ImportList, ImportIndex, ImportMatch, ImportFails, ImportCommit
<1>2. CASE healthy' = FALSE
  BY <1>2 DEF InOrder
<1>3. CASE UNCHANGED <<albums, row, disk, run, healthy>>
  BY <1>3 DEF InOrder, Folding, Placing
<1> QED BY <1>1, <1>2, <1>3

LEMMA WorkInOrder ==
    ASSUME MntInv, InOrder, Work
    PROVE  InOrder'
<1>1. ASSUME run.pc \in {"exact", "fuzzy", "cross"}, run' \in Passes \/ Beginning,
             UNCHANGED <<albums, row, disk, download, import, healthy, events>>
      PROVE  InOrder'
  <2>1. CASE run' \in Passes
    BY <1>1, <2>1, PassIsRun, PassInOrder
  <2>2. CASE Beginning
    BY <1>1, <2>2, MergeInOrder
  <2> QED BY <1>1, <2>1, <2>2
<1>2. CASE MergeExact
  BY <1>1, <1>2, ExactBegins
<1>3. CASE MergePair("fuzzy", FuzzyPairs)
  BY <1>1, <1>3, PairBegins
<1>4. CASE MergePair("cross", CrossPairs)
  BY <1>1, <1>4, PairBegins
<1>5. CASE NextPass
  BY <1>5, NextInOrder
<1>6. CASE MoveTrack
  BY <1>6, MoveInOrder
<1>7. CASE DropTrack
  BY <1>7, DropInOrder
<1>8. CASE MergeCommit
  BY <1>8, CommitInOrder
<1>9. ASSUME NEW r \in Rows, Place(r) PROVE InOrder'
  BY <1>9, PlaceInOrder
<1>10. CASE PlaceCommit
  BY <1>10, OffInOrder DEF PlaceCommit
<1> QED BY <1>2, <1>3, <1>4, <1>5, <1>6, <1>7, <1>8, <1>9, <1>10 DEF Work

\* A run that began in accord keeps the rows in order until it ends.
LEMMA OrderKept == Spec => []InOrder
<1>1. Init => InOrder
  BY DEF Init, InOrder
<1>2. MntInv /\ InOrder /\ [Next]_vars => InOrder'
  <2> SUFFICES ASSUME MntInv, InOrder, [Next]_vars
               PROVE  InOrder'
    OBVIOUS
  <2>1. CASE UNCHANGED vars
    BY <2>1 DEF vars, InOrder, Folding, Placing
  <2>2. CASE Crash
    BY <2>2 DEF Crash, InOrder
  <2> QED BY <2>1, <2>2, StartsInOrder, WorkInOrder, WebInOrder DEF Next
<1> QED BY <1>1, <1>2, MntInvariant, PTL DEF Spec

\* What the last commit of a run leaves.
LEMMA RunEnds ==
    ASSUME NamesTell, MntInv, MntInv', InOrder, PlaceCommit, healthy, Apart(run.seen)
    PROVE  /\ \A r \in Rows : row'[r] # None => row'[r].album \in albums'
           /\ Unshared(row')
           /\ \A r \in Downloaded(row') :
                /\ row'[r].path[1] = Folder[row'[r].album]
                /\ \E f \in disk' : At(f) = row'[r].path /\ f.song = row'[r].song
<1>1. /\ run.pc = "place" /\ run.todo = {} /\ UNCHANGED <<albums, disk>>
      /\ row' = IF Stale(run) THEN row ELSE Flushed(run)
  BY DEF PlaceCommit
<1>2. /\ Homed(albums, row) /\ Titled(run.new) /\ Placing(run) /\ Present(run.new, disk)
      /\ Sound(row) /\ Sound(row') /\ disk \subseteq File
  BY <1>1 DEF InOrder, MntInv, TypeOK
<1>3. ~Stale(run)
  BY <1>2 DEF Stale, Placing, InPlace
<1>4. row' = Flushed(run) /\ run.seen = row
  BY <1>1, <1>2, <1>3 DEF Placing
<1>5. ASSUME NEW r \in Rows, row'[r] # None
      PROVE  /\ run.new[r] # None /\ row[r] # None /\ row'[r].album \in albums
             /\ row'[r].album = row[r].album /\ row'[r].song = run.new[r].song
             /\ row'[r].path = run.new[r].path
             /\ row'[r].path = IF row[r].path = None THEN None ELSE Target(row[r])
  <2>1. /\ run.new[r] # None /\ row[r] # None
        /\ row'[r].album = run.new[r].album /\ row'[r].song = row[r].song
        /\ row'[r].path = run.new[r].path
    BY <1>2, <1>4, <1>5, FlushedAlone
  <2>2. /\ run.new[r].album = row[r].album /\ run.new[r].song = row[r].song
        /\ run.new[r].path = IF row[r].path = None THEN None ELSE Target(row[r])
    BY <1>1, <1>2, <2>1 DEF Placing, InPlace
  <2> QED BY <1>2, <2>1, <2>2 DEF Homed
<1>6. \A r \in Downloaded(row') : r \in Downloaded(run.new) /\ row'[r].path = run.new[r].path
  BY <1>5 DEF Downloaded
<1>7. Present(row', disk)
  BY <1>2, <1>6, PresentWhere
<1>8. ASSUME NEW r \in Downloaded(row')
      PROVE  /\ row'[r].path[1] = Folder[row'[r].album]
             /\ \E f \in disk' : At(f) = row'[r].path /\ f.song = row'[r].song
  <2>1. r \in Rows /\ row'[r] # None /\ row'[r].path # None
    BY DEF Downloaded
  <2>2. row'[r].path = <<Folder[row[r].album], row[r].path[2], row[r].path[3]>>
    BY <1>5, <2>1 DEF Target, Placed
  <2>3. row'[r].path[1] = Folder[row'[r].album]
    BY <1>5, <2>1, <2>2
  <2>4. PICK f \in disk : At(f) = row'[r].path
    BY <1>7 DEF Present, On
  <2>5. row'[r].path[2] = Name[row'[r].song]
    BY <1>2, <1>5, <1>6, <2>1 DEF Titled
  <2>6. f \in File /\ row'[r].song \in Songs
    BY <1>2, <2>1, TableRow
  <2>7. f.song \in Songs /\ Name[f.song] = Name[row'[r].song]
    BY <2>4, <2>5, <2>6, FilePath
  <2>8. f.song = row'[r].song
    BY <2>6, <2>7 DEF NamesTell
  <2> QED BY <1>1, <2>3, <2>4, <2>8
<1> QED BY <1>1, <1>5, <1>7, <1>8 DEF Present

\* Where files of one name are of one song, a run that began on rows and files
\* in accord, and that no web request disturbed, ends with every track in an
\* album and every downloaded one with a file of its song, of its own, in the
\* folder of its album, unless files of one name were to meet in a folder.
THEOREM RunsSettle ==
    ASSUME NamesTell
    PROVE  Spec => RunSettles
<1>1. MntInv /\ MntInv' /\ InOrder /\ [Next]_vars =>
        [(run.pc = "place" /\ run.todo = {} /\ run' = Off /\ healthy' /\ Apart(run.seen)) =>
            /\ \A r \in Rows : row'[r] # None => row'[r].album \in albums'
            /\ Unshared(row')
            /\ \A r \in Downloaded(row') :
                /\ row'[r].path[1] = Folder[row'[r].album]
                /\ \E f \in disk' : At(f) = row'[r].path /\ f.song = row'[r].song]_vars
  <2> SUFFICES ASSUME MntInv, MntInv', InOrder, Next, run.pc = "place", run.todo = {},
                      run' = Off, healthy', Apart(run.seen)
               PROVE  /\ \A r \in Rows : row'[r] # None => row'[r].album \in albums'
                      /\ Unshared(row')
                      /\ \A r \in Downloaded(row') :
                            /\ row'[r].path[1] = Folder[row'[r].album]
                            /\ \E f \in disk' : At(f) = row'[r].path /\ f.song = row'[r].song
    OBVIOUS
  <2>1. run # Off
    BY DEF Off
  <2>2. ~Start /\ ~Web /\ ~Crash
    BY <2>1, WebIsNoRun DEF Start, Crash
  <2>3. PlaceCommit
    BY <2>2 DEF Next, Work, MergeExact, MergePair, NextPass, MoveTrack, DropTrack, MergeCommit, Place
  <2>4. healthy
    BY <2>3 DEF PlaceCommit
  <2> QED BY <2>3, <2>4, RunEnds
<1> QED BY <1>1, MntInvariant, OrderKept, PTL DEF Spec, RunSettles

-----------------------------------------------------------------------------
\* A run comes to its end

Most == Cardinality(Rows) + Cardinality(EverAlbum) + 2
PassOf(m) == IF m.pc = "merge" THEN m.back ELSE m
OthersOf(m) == IF m.pc = "merge" THEN m.others ELSE {}
PassesOf(m) ==
    CASE PassOf(m).pc = "exact" -> 3 [] PassOf(m).pc = "fuzzy" -> 2
      [] PassOf(m).pc = "cross" -> 1 [] PassOf(m).pc = "place" -> 0
TodoOf(m) == Cardinality(PassOf(m).todo)
InTurn(m) == IF m.pc = "merge" THEN Cardinality(m.queue) ELSE Most - 1
High(A, m) == 4 * Cardinality(A \cup OthersOf(m)) + PassesOf(m)
Sum3(h, t, i) == (h * Most + t) * Most + i

LEMMA MostIs ==
    /\ Most \in Nat /\ Cardinality(Rows) \in Nat /\ Cardinality(EverAlbum) \in Nat
    /\ Most = Cardinality(Rows) + Cardinality(EverAlbum) + 2
BY RowsAndAlbums, FS_CardinalityType DEF Most

LEMMA LeftIs ==
    /\ Left = Sum3(High(albums, run), TodoOf(run), InTurn(run))
    /\ Left' = Sum3(High(albums', run'), TodoOf(run'), InTurn(run'))
BY DEF Left, Sum3, High, TodoOf, InTurn, PassesOf, OthersOf, PassOf, Most

LEMMA LessTwice ==
    ASSUME NEW M \in Nat, NEW x \in Nat, NEW y \in Nat, NEW i \in 0..(M - 1), NEW j \in 0..(M - 1),
           x < y
    PROVE  x * M + i < y * M + j
<1>1. (x + 1) * M <= y * M
  BY SMTT(30)
<1>2. (x + 1) * M = x * M + M
  BY SMTT(30)
<1>3. x * M \in Nat /\ y * M \in Nat
  OBVIOUS
<1> QED BY <1>1, <1>2, <1>3

\* The order of the measure: the albums and passes, then what the pass has
\* still to look at, then the tracks still to fold.
LEMMA Less ==
    ASSUME NEW h \in Nat, NEW hh \in Nat, NEW t \in 0..(Most - 1), NEW tt \in 0..(Most - 1),
           NEW i \in 0..(Most - 1), NEW ii \in 0..(Most - 1),
           \/ hh < h
           \/ hh = h /\ tt < t
           \/ hh = h /\ tt = t /\ ii < i
    PROVE  Sum3(hh, tt, ii) < Sum3(h, t, i)
<1> DEFINE x == hh * Most + tt
           y == h * Most + t
<1>1. Most \in Nat
  BY MostIs
<1>2. t \in Nat /\ tt \in Nat /\ i \in Nat /\ ii \in Nat
  BY <1>1
<1>3. h * Most \in Nat /\ hh * Most \in Nat
  BY <1>1
<1>4. x \in Nat /\ y \in Nat
  BY <1>2, <1>3
<1>5. x < y \/ (x = y /\ ii < i)
  <2>1. CASE hh < h
    BY <1>1, <2>1, LessTwice
  <2>2. CASE hh = h /\ tt < t
    BY <1>2, <1>3, <2>2
  <2>3. CASE hh = h /\ tt = t /\ ii < i
    BY <2>3
  <2> QED BY <2>1, <2>2, <2>3
<1>6. Sum3(hh, tt, ii) = x * Most + ii /\ Sum3(h, t, i) = y * Most + i
  BY DEF Sum3
<1> HIDE DEF x, y
<1>7. CASE x < y
  BY <1>1, <1>4, <1>6, <1>7, LessTwice
<1>8. CASE x = y /\ ii < i
  <2>1. x * Most \in Nat
    BY <1>1, <1>4
  <2> QED BY <1>2, <1>6, <1>8, <2>1
<1> QED BY <1>5, <1>7, <1>8

LEMMA GroupsFew ==
    ASSUME NEW T, T \subseteq AllGroups
    PROVE  IsFiniteSet(T) /\ Cardinality(T) \in 0..(Most - 1)
<1> DEFINE h == [a \in EverAlbum |-> <<ArtistOf[a], Exact[a]>>]
<1>1. h \in Surjection(EverAlbum, AllGroups)
  BY DEF Surjection, AllGroups
<1> HIDE DEF h
<1>2. IsFiniteSet(AllGroups) /\ Cardinality(AllGroups) <= Cardinality(EverAlbum)
  BY <1>1, RowsAndAlbums, FS_Surjection
<1>3. IsFiniteSet(T) /\ Cardinality(T) <= Cardinality(AllGroups)
  BY <1>2, FS_Subset
<1>4. Cardinality(T) \in Nat /\ Cardinality(AllGroups) \in Nat
  BY <1>2, <1>3, FS_CardinalityType
<1> QED BY <1>2, <1>3, <1>4, MostIs

LEMMA RowsFew ==
    ASSUME NEW T, T \subseteq Rows
    PROVE  IsFiniteSet(T) /\ Cardinality(T) \in 0..(Most - 2)
<1>1. IsFiniteSet(T) /\ Cardinality(T) <= Cardinality(Rows)
  BY RowsAndAlbums, FS_Subset
<1>2. Cardinality(T) \in Nat
  BY <1>1, FS_CardinalityType
<1> QED BY <1>1, <1>2, MostIs

LEMMA OneLess ==
    ASSUME NEW T, IsFiniteSet(T), NEW x \in T
    PROVE  Cardinality(T \ {x}) < Cardinality(T) /\ Cardinality(T \ {x}) \in Nat
<1>1. Cardinality(T \ {x}) = Cardinality(T) - 1 /\ IsFiniteSet(T \ {x})
  BY FS_RemoveElement
<1>2. Cardinality(T) \in Nat /\ Cardinality(T \ {x}) \in Nat
  BY <1>1, FS_CardinalityType
<1> QED BY <1>1, <1>2

\* The weights of what a run can be.
LEMMA PassWeighs ==
    ASSUME NEW m \in Passes
    PROVE  /\ PassOf(m) = m /\ OthersOf(m) = {} /\ InTurn(m) = Most - 1
           /\ TodoOf(m) = Cardinality(m.todo) /\ m.todo \subseteq AllGroups
           /\ TodoOf(m) \in 0..(Most - 1)
           /\ m.pc = "exact" => PassesOf(m) = 3
           /\ m.pc = "fuzzy" => PassesOf(m) = 2
           /\ m.pc = "cross" => PassesOf(m) = 1
           /\ PassesOf(m) \in 1..3
<1>1. m.pc \in {"exact", "fuzzy", "cross"} /\ m.todo \subseteq AllGroups
  BY DEF Passes
<1>2. PassOf(m) = m /\ OthersOf(m) = {} /\ InTurn(m) = Most - 1
  BY <1>1 DEF PassOf, OthersOf, InTurn
<1>3. TodoOf(m) = Cardinality(m.todo)
  BY <1>2 DEF TodoOf
<1>4. /\ m.pc = "exact" => PassesOf(m) = 3
      /\ m.pc = "fuzzy" => PassesOf(m) = 2
      /\ m.pc = "cross" => PassesOf(m) = 1
  BY <1>2 DEF PassesOf
<1> QED BY <1>1, <1>2, <1>3, <1>4, GroupsFew

LEMMA PlacementWeighs ==
    ASSUME NEW m \in Placements
    PROVE  /\ OthersOf(m) = {} /\ InTurn(m) = Most - 1 /\ PassesOf(m) = 0
           /\ TodoOf(m) = Cardinality(m.todo) /\ TodoOf(m) \in 0..(Most - 1)
           /\ IsFiniteSet(m.todo)
<1>1. m.pc = "place" /\ m.todo \subseteq Rows
  BY PlacementFields
<1>2. PassOf(m) = m /\ OthersOf(m) = {} /\ InTurn(m) = Most - 1
  BY <1>1 DEF PassOf, OthersOf, InTurn
<1>3. TodoOf(m) = Cardinality(m.todo) /\ PassesOf(m) = 0
  BY <1>1, <1>2 DEF TodoOf, PassesOf
<1>4. IsFiniteSet(m.todo) /\ Cardinality(m.todo) \in 0..(Most - 2)
  BY <1>1, RowsFew
<1> QED BY <1>2, <1>3, <1>4, MostIs

LEMMA MergeWeighs ==
    ASSUME NEW m \in Merges
    PROVE  /\ PassOf(m) = m.back /\ OthersOf(m) = m.others
           /\ PassesOf(m) = PassesOf(m.back) /\ TodoOf(m) = TodoOf(m.back)
           /\ InTurn(m) = Cardinality(m.queue) /\ InTurn(m) \in 0..(Most - 2)
           /\ PassesOf(m) \in 1..3 /\ TodoOf(m) \in 0..(Most - 1) /\ IsFiniteSet(m.queue)
<1>1. m.pc = "merge" /\ m.back \in Passes /\ m.queue \subseteq Rows
  BY MergeFields
<1>2. PassOf(m) = m.back /\ OthersOf(m) = m.others /\ InTurn(m) = Cardinality(m.queue)
  BY <1>1 DEF PassOf, OthersOf, InTurn
<1>3. PassOf(m.back) = m.back /\ PassesOf(m.back) \in 1..3 /\ TodoOf(m.back) \in 0..(Most - 1)
  BY <1>1, PassWeighs
<1>4. PassesOf(m) = PassesOf(m.back) /\ TodoOf(m) = TodoOf(m.back)
  BY <1>2, <1>3 DEF PassesOf, TodoOf
<1>5. IsFiniteSet(m.queue) /\ Cardinality(m.queue) \in 0..(Most - 2)
  BY <1>1, RowsFew
<1> QED BY <1>2, <1>3, <1>4, <1>5

LEMMA Weighs ==
    ASSUME NEW A, A \subseteq EverAlbum, NEW m \in Passes \cup Merges \cup Placements
    PROVE  /\ High(A, m) \in Nat /\ TodoOf(m) \in 0..(Most - 1) /\ InTurn(m) \in 0..(Most - 1)
           /\ Cardinality(A \cup OthersOf(m)) \in Nat /\ PassesOf(m) \in 0..3
           /\ IsFiniteSet(A \cup OthersOf(m))
<1>1. OthersOf(m) \subseteq EverAlbum
  <2>1. CASE m \in Passes
    BY <2>1, PassWeighs
  <2>2. CASE m \in Merges
    BY <2>2, MergeWeighs, MergeFields
  <2>3. CASE m \in Placements
    BY <2>3, PlacementWeighs
  <2> QED BY <2>1, <2>2, <2>3
<1>2. IsFiniteSet(A \cup OthersOf(m))
  BY <1>1, RowsAndAlbums, FS_Subset
<1>3. Cardinality(A \cup OthersOf(m)) \in Nat
  BY <1>2, FS_CardinalityType
<1>4. PassesOf(m) \in 0..3 /\ TodoOf(m) \in 0..(Most - 1) /\ InTurn(m) \in 0..(Most - 1)
  <2>1. CASE m \in Passes
    BY <2>1, PassWeighs, MostIs
  <2>2. CASE m \in Merges
    BY <2>2, MergeWeighs, MostIs
  <2>3. CASE m \in Placements
    BY <2>3, PlacementWeighs, MostIs
  <2> QED BY <2>1, <2>2, <2>3
<1> QED BY <1>2, <1>3, <1>4 DEF High

LEMMA Shrinks ==
    ASSUME albums \subseteq EverAlbum, albums' \subseteq EverAlbum,
           run \in Passes \cup Merges \cup Placements,
           run' \in Passes \cup Merges \cup Placements,
           \/ High(albums', run') < High(albums, run)
           \/ High(albums', run') = High(albums, run) /\ TodoOf(run') < TodoOf(run)
           \/ /\ High(albums', run') = High(albums, run) /\ TodoOf(run') = TodoOf(run)
              /\ InTurn(run') < InTurn(run)
    PROVE  Left' < Left
<1>1. /\ High(albums, run) \in Nat /\ TodoOf(run) \in 0..(Most - 1) /\ InTurn(run) \in 0..(Most - 1)
  BY Weighs
<1>2. /\ High(albums', run') \in Nat /\ TodoOf(run') \in 0..(Most - 1)
      /\ InTurn(run') \in 0..(Most - 1)
  BY Weighs
<1>3. Sum3(High(albums', run'), TodoOf(run'), InTurn(run'))
        < Sum3(High(albums, run), TodoOf(run), InTurn(run))
  BY <1>1, <1>2, Less
<1> QED BY <1>3, LeftIs

\* A merge of albums that are there weighs by its pass.
LEMMA MergeHigh ==
    ASSUME NEW A, NEW m \in Merges, m.others \subseteq A
    PROVE  High(A, m) = 4 * Cardinality(A) + PassesOf(m.back)
<1>1. A \cup m.others = A
  OBVIOUS
<1> QED BY <1>1, MergeWeighs DEF High

LEMMA PassHigh ==
    ASSUME NEW A, NEW m \in Passes \cup Placements
    PROVE  High(A, m) = 4 * Cardinality(A) + PassesOf(m)
<1>1. OthersOf(m) = {}
  BY PassWeighs, PlacementWeighs
<1>2. A \cup OthersOf(m) = A
  BY <1>1
<1> QED BY <1>2 DEF High

LEMMA ExactShrinks ==
    ASSUME MntInv, MntInv', MergeExact
    PROVE  Left' < Left
<1>1. run.pc = "exact" /\ albums' = albums
  BY DEF MergeExact
<1>2. run \in Passes /\ albums \subseteq EverAlbum
  BY <1>1, RunTypes DEF MntInv, TypeOK
<1>3. PICK g \in run.todo :
        \/ /\ Cardinality(InGroup(g)) > 1 /\ Unmatched \notin InGroup(g)
           /\ run' = MergeOf(InGroup(g), Pass("exact", run.todo \ {g}))
        \/ run' = Pass("exact", run.todo \ {g})
  BY DEF MergeExact
<1> DEFINE S == InGroup(g)
           back == Pass("exact", run.todo \ {g})
<1>4. run.todo \ {g} \in SUBSET AllGroups /\ run.todo \subseteq AllGroups
  BY <1>2 DEF Passes
<1>5. back \in Passes /\ back.pc = "exact" /\ back.todo = run.todo \ {g}
  BY <1>2, <1>4, GroupsTyped DEF Pass
<1>6. S \subseteq albums
  BY DEF InGroup
<1>7. TodoOf(back) < TodoOf(run) /\ PassesOf(back) = 3 /\ PassesOf(run) = 3
  <2> HIDE DEF back
  <2>1. Cardinality(run.todo \ {g}) < Cardinality(run.todo)
    BY <1>4, GroupsFew, OneLess
  <2>2. TodoOf(run) = Cardinality(run.todo) /\ PassesOf(run) = 3
    BY <1>1, <1>2, PassWeighs
  <2>3. TodoOf(back) = Cardinality(run.todo \ {g}) /\ PassesOf(back) = 3
    BY <1>5, PassWeighs
  <2> QED BY <2>1, <2>2, <2>3
<1> HIDE DEF S, back
<1>8. High(albums, run) = 4 * Cardinality(albums) + 3
  BY <1>2, <1>7, PassHigh
<1>9. CASE run' = back
  <2>1. High(albums', run') = 4 * Cardinality(albums) + 3
    BY <1>1, <1>5, <1>7, <1>9, PassHigh
  <2> QED BY <1>1, <1>2, <1>5, <1>7, <1>8, <1>9, <2>1, Shrinks
<1>10. CASE Cardinality(S) > 1 /\ Unmatched \notin S /\ run' = MergeOf(S, back)
  <2>1. IsFiniteSet(S) /\ S \subseteq EverAlbum
    BY <1>2, <1>6, GroupsTyped, FS_Subset
  <2>2. PICK a \in S : \E b \in S : a # b
    BY <1>10, <2>1, TwoOf
  <2>3. PICK b \in S : a # b
    BY <2>2
  <2>4. run' \in Merges /\ run'.back = back /\ run'.others \subseteq albums
    BY <1>5, <1>6, <1>10, <2>1, <2>3, MergeOfSound
  <2>5. High(albums', run') = 4 * Cardinality(albums) + 3 /\ TodoOf(run') = TodoOf(back)
    BY <1>1, <1>7, <2>4, MergeHigh, MergeWeighs
  <2> QED BY <1>1, <1>2, <1>7, <1>8, <2>4, <2>5, Shrinks
<1> QED BY <1>3, <1>9, <1>10 DEF S, back

LEMMA PairShrinks ==
    ASSUME MntInv, MntInv', NEW pc \in {"fuzzy", "cross"}, NEW P \in {FuzzyPairs, CrossPairs},
           MergePair(pc, P)
    PROVE  Left' < Left
<1>1. /\ run.pc = pc /\ P # {} /\ albums' = albums
      /\ run' = MergeOf({FirstPair(P)[1], FirstPair(P)[2]}, Pass(pc, {}))
  BY DEF MergePair
<1>2. albums \subseteq EverAlbum /\ run \in Passes
  BY <1>1, RunTypes DEF MntInv, TypeOK
<1>3. P \subseteq Pairs
  BY DEF FuzzyPairs, CrossPairs
<1>4. Pairs \subseteq EverAlbum \X EverAlbum
  BY <1>2 DEF Pairs
<1>5. FirstPair(P) \in P
  BY <1>1, <1>3, <1>4, FirstPairIn
<1> DEFINE a == FirstPair(P)[1]
           b == FirstPair(P)[2]
           back == Pass(pc, {})
<1>6. a \in albums /\ b \in albums /\ a # Unmatched /\ b # Unmatched /\ a < b
  BY <1>3, <1>5 DEF Pairs
<1>7. back \in Passes /\ back.pc = pc /\ back.todo = {}
  BY <1>2, GroupsTyped DEF Pass
<1>8. run' = MergeOf({a, b}, back)
  BY <1>1
<1> HIDE DEF a, b, back
<1>9. a \in Nat /\ b \in Nat /\ a # b
  BY <1>2, <1>6, RowsAndAlbums
<1>10. {a, b} \subseteq EverAlbum /\ Unmatched \notin {a, b} /\ a \in {a, b} /\ b \in {a, b}
  BY <1>2, <1>6
<1>11. run' \in Merges /\ run'.back = back /\ run'.others \subseteq {a, b}
  BY <1>7, <1>8, <1>9, <1>10, MergeOfSound
<1>12. /\ PassesOf(back) = PassesOf(run) /\ InTurn(run) = Most - 1
       /\ TodoOf(run) \in 0..(Most - 1) /\ TodoOf(back) = 0
  BY <1>1, <1>2, <1>7, PassWeighs, FS_EmptySet
<1>13. /\ High(albums', run') = 4 * Cardinality(albums) + PassesOf(run)
       /\ TodoOf(run') = 0 /\ InTurn(run') \in 0..(Most - 2)
  BY <1>1, <1>6, <1>11, <1>12, MergeHigh, MergeWeighs
<1>14. High(albums, run) = 4 * Cardinality(albums) + PassesOf(run)
  BY <1>2, PassHigh
<1>15. InTurn(run') < InTurn(run) /\ (TodoOf(run') = TodoOf(run) \/ TodoOf(run') < TodoOf(run))
  BY <1>12, <1>13, MostIs
<1> QED BY <1>1, <1>2, <1>11, <1>13, <1>14, <1>15, Shrinks

LEMMA PassShrinks ==
    ASSUME MntInv, MntInv', NextPass
    PROVE  Left' < Left
<1>1. run.pc \in {"exact", "fuzzy", "cross"} /\ albums' = albums
  BY DEF NextPass
<1>2. albums \subseteq EverAlbum /\ run \in Passes /\ IsFiniteSet(albums)
  BY <1>1, RunTypes, GroupsTyped DEF MntInv, TypeOK
<1>3. /\ run' \in Passes \cup Placements
      /\ PassesOf(run) \in 1..3 /\ PassesOf(run') \in 0..2 /\ PassesOf(run') < PassesOf(run)
  <2>1. CASE run.pc = "exact" /\ run' = Pass("fuzzy", {})
    <3>1. run' \in Passes /\ run'.pc = "fuzzy"
      BY <1>2, <2>1, GroupsTyped
    <3> QED BY <1>2, <2>1, <3>1, PassWeighs
  <2>2. CASE run.pc = "fuzzy" /\ run' = Pass("cross", {})
    <3>1. run' \in Passes /\ run'.pc = "cross"
      BY <1>2, <2>2, GroupsTyped
    <3> QED BY <1>2, <2>2, <3>1, PassWeighs
  <2>3. CASE run.pc = "cross" /\ run'.pc = "place"
    <3>1. run' \in Placements
      BY <2>3, RunTypes DEF MntInv, TypeOK, Off, Passes, Merges
    <3>2. PassesOf(run') = 0 /\ PassesOf(run) = 1
      BY <1>2, <2>3, <3>1, PassWeighs, PlacementWeighs
    <3> QED BY <3>1, <3>2
  <2> QED BY <2>1, <2>2, <2>3 DEF NextPass
<1>4. /\ High(albums', run') = 4 * Cardinality(albums) + PassesOf(run')
      /\ High(albums, run) = 4 * Cardinality(albums) + PassesOf(run)
      /\ Cardinality(albums) \in Nat
  BY <1>1, <1>2, <1>3, PassHigh, FS_CardinalityType
<1>5. High(albums', run') < High(albums, run)
  BY <1>3, <1>4
<1> QED BY <1>1, <1>2, <1>3, <1>5, Shrinks

\* A merge with one track less to fold.
LEMMA FoldShrinks ==
    ASSUME albums \subseteq EverAlbum, albums' = albums, run \in Merges, run' \in Merges,
           run'.back = run.back, run'.others = run.others,
           NEW r \in run.queue, run'.queue = run.queue \ {r}
    PROVE  Left' < Left
<1>1. /\ PassesOf(run') = PassesOf(run) /\ TodoOf(run') = TodoOf(run)
      /\ OthersOf(run') = OthersOf(run)
  BY MergeWeighs
<1>2. InTurn(run') < InTurn(run)
  BY MergeWeighs, OneLess
<1>3. High(albums', run') = High(albums, run)
  BY <1>1 DEF High
<1> QED BY <1>1, <1>2, <1>3, Shrinks

LEMMA CommitShrinks ==
    ASSUME MntInv, MntInv', MergeCommit, run' # Off
    PROVE  Left' < Left
<1>1. run.pc = "merge" /\ run' = run.back /\ albums' = albums \ run.others
  BY DEF MergeCommit
<1>2. run \in Merges /\ MergeSound(run) /\ albums \subseteq EverAlbum /\ albums' \subseteq EverAlbum
  BY <1>1, RunTypes DEF MntInv, RunSound, TypeOK
<1>3. run' \in Passes /\ run.others # {} /\ run.others \subseteq EverAlbum
  BY <1>1, <1>2, MergeFields DEF MergeSound
<1>4. PassesOf(run') = PassesOf(run) /\ OthersOf(run) = run.others /\ PassesOf(run) \in 1..3
  BY <1>1, <1>2, MergeWeighs
<1>5. PICK a \in run.others : TRUE
  BY <1>3
<1> DEFINE A == albums \cup run.others
<1>6. IsFiniteSet(A) /\ a \in A /\ albums' \subseteq A \ {a}
  BY <1>1, <1>2, <1>3, <1>5, RowsAndAlbums, FS_Subset
<1> HIDE DEF A
<1>7. Cardinality(A \ {a}) < Cardinality(A) /\ IsFiniteSet(A \ {a})
  BY <1>6, OneLess, FS_Subset
<1>8. Cardinality(albums') <= Cardinality(A \ {a}) /\ IsFiniteSet(albums')
  BY <1>6, <1>7, FS_Subset
<1>9. Cardinality(albums') \in Nat /\ Cardinality(A) \in Nat /\ Cardinality(A \ {a}) \in Nat
  BY <1>6, <1>7, <1>8, FS_CardinalityType
<1>10. High(albums, run) = 4 * Cardinality(A) + PassesOf(run)
  BY <1>4 DEF High, A
<1>11. High(albums', run') = 4 * Cardinality(albums') + PassesOf(run)
  BY <1>3, <1>4, PassHigh
<1>12. High(albums', run') < High(albums, run)
  BY <1>4, <1>7, <1>8, <1>9, <1>10, <1>11
<1> QED BY <1>2, <1>3, <1>12, Shrinks

LEMMA PlaceShrinks ==
    ASSUME MntInv, MntInv', NEW r \in Rows, Place(r), run' # Off
    PROVE  Left' < Left
<1>1. /\ run.pc = "place" /\ r \in run.todo /\ albums' = albums
      /\ \/ run' = Skipped(run, r)
         \/ \E to : run' = Rehomed(run, r, to)
  BY PlacesOne
<1>2. run \in Placements /\ albums \subseteq EverAlbum
  BY <1>1, RunTypes DEF MntInv, TypeOK
<1>3. run'.pc = "place" /\ run'.todo = run.todo \ {r}
  <2>1. CASE run' = Skipped(run, r)
    BY <1>2, <2>1 DEF Skipped, Placements
  <2>2. CASE \E to : run' = Rehomed(run, r, to)
    BY <1>2, <2>2 DEF Rehomed, Placements
  <2> QED BY <1>1, <2>1, <2>2
<1>4. run' \in Placements
  BY <1>3 DEF MntInv, TypeOK, Off, Passes, Merges
<1>5. TodoOf(run') < TodoOf(run) /\ PassesOf(run') = 0 /\ PassesOf(run) = 0
  BY <1>1, <1>2, <1>3, <1>4, PlacementWeighs, OneLess
<1>6. High(albums', run') = High(albums, run)
  BY <1>1, <1>2, <1>4, <1>5, PassHigh
<1> QED BY <1>1, <1>2, <1>4, <1>5, <1>6, Shrinks

LEMMA WorkShrinks ==
    ASSUME MntInv, MntInv', Work, run' # Off
    PROVE  Left' < Left
<1>1. CASE MergeExact
  BY <1>1, ExactShrinks
<1>2. CASE MergePair("fuzzy", FuzzyPairs)
  BY <1>2, PairShrinks
<1>3. CASE MergePair("cross", CrossPairs)
  BY <1>3, PairShrinks
<1>4. CASE NextPass
  BY <1>4, PassShrinks
<1>5. CASE MoveTrack
  <2> DEFINE n == Moved(run, Turn)
  <2>1. /\ run.pc = "merge" /\ run.queue # {} /\ albums' = albums
        /\ run' = AlbumFolded(n, run.seen[Turn].album)
    BY <1>5 DEF MoveTrack, Moved
  <2>2. run \in Merges /\ MergeSound(run) /\ albums \subseteq EverAlbum
    BY <2>1, RunTypes DEF MntInv, RunSound, TypeOK
  <2>3. Turn \in run.queue
    BY <2>1, <2>2, TurnIn
  <2>4. /\ n \in Merges /\ MergeSound(n) /\ n.back = run.back /\ n.others = run.others
        /\ n.queue = run.queue \ {Turn}
    BY <2>2, <2>3, MoveSound
  <2> HIDE DEF n
  <2>5. /\ run' \in Merges /\ run'.back = run.back /\ run'.others = run.others
        /\ run'.queue = run.queue \ {Turn}
    BY <2>1, <2>4, FoldedSound
  <2> QED BY <2>1, <2>2, <2>3, <2>5, FoldShrinks
<1>6. CASE DropTrack
  <2> DEFINE q == Max(Twins(Turn))
             fold == FoldPaths(run.new[Turn].path, run.new[q].path)
             n == Dropped(run, Turn, q, fold.keep)
  <2>1. /\ run \in Merges /\ MergeSound(run) /\ Turn \in run.queue
        /\ q \in TracksOf(run.new, run.canon) /\ run.new[q].song = run.new[Turn].song
        /\ run' = AlbumFolded(n, run.seen[Turn].album) /\ albums' = albums
    BY <1>6, DropsOne
  <2>2. fold = FoldPaths(run.new[Turn].path, run.new[q].path) /\ n = Dropped(run, Turn, q, fold.keep)
    OBVIOUS
  <2> HIDE DEF q, fold, n
  <2>3. /\ n \in Merges /\ MergeSound(n) /\ n.back = run.back /\ n.others = run.others
        /\ n.queue = run.queue \ {Turn}
    <3>1. /\ run \in Merges /\ MergeSound(run) /\ Turn \in run.queue
          /\ q \in TracksOf(run.new, run.canon) /\ run.new[q].song = run.new[Turn].song
      BY <2>1
    <3>2. fold = FoldPaths(run.new[Turn].path, run.new[q].path)
      BY <2>2
    <3>3. n = Dropped(run, Turn, q, fold.keep)
      BY <2>2
    <3>4. AfterDrop(n, run, Turn, q, fold.keep)
      BY <3>1, <3>2, <3>3, DropSound
    <3> QED BY <3>4 DEF AfterDrop
  <2>4. albums \subseteq EverAlbum
    BY DEF MntInv, TypeOK
  <2>5. /\ run' \in Merges /\ run'.back = run.back /\ run'.others = run.others
        /\ run'.queue = run.queue \ {Turn}
    BY <2>1, <2>3, FoldedSound
  <2> QED BY <2>1, <2>4, <2>5, FoldShrinks
<1>7. CASE MergeCommit
  BY <1>7, CommitShrinks
<1>8. ASSUME NEW r \in Rows, Place(r) PROVE Left' < Left
  BY <1>8, PlaceShrinks
<1>9. CASE PlaceCommit
  BY <1>9 DEF PlaceCommit
<1> QED BY <1>1, <1>2, <1>3, <1>4, <1>5, <1>6, <1>7, <1>8, <1>9 DEF Work

\* Whatever the web process does between two steps of a run, each of them
\* leaves the run less to do: no run goes on for ever.
THEOREM RunsShrink == Spec => RunShrinks
<1>1. MntInv /\ MntInv' /\ [Next]_vars =>
        [(run # Off /\ run' # Off /\ run' # run) => Left' < Left]_vars
  <2> SUFFICES ASSUME MntInv, MntInv', Next, run # Off, run' # Off, run' # run
               PROVE  Left' < Left
    OBVIOUS
  <2>1. Work
    BY WebIsNoRun DEF Next, Start, Crash
  <2> QED BY <2>1, WorkShrinks
<1> QED BY <1>1, MntInvariant, PTL DEF Spec, RunShrinks
=============================================================================
