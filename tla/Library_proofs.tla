--------------------------- MODULE Library_proofs ---------------------------
(***************************************************************************)
(* What holds of the files of an album directory for any tracks, also of   *)
(* several discs, any formats, any number of downloads and any requests.   *)
(***************************************************************************)
EXTENDS Library, FiniteSetTheorems, SequenceTheorems, TLAPS

-----------------------------------------------------------------------------
(* Files and events.                                                       *)

LEMMA NoFileIsNone == NoFile \notin Files
BY LibNoTrack DEF NoFile, Files

LEMMA FilesFinite == IsFiniteSet(Files)
<1>1. IsFiniteSet(Formats \cup {"renamed"})
  BY LibFinite, FS_Singleton, FS_Union
<1> QED BY <1>1, LibFinite, FS_Product DEF Files

LEMMA DeliveredFormats ==
    ASSUME NEW t \in Tracks, NEW f \in Delivered[t]
    PROVE  FinalName(t, f) \in Files
BY LibFormats DEF FinalName, Files

\* An enumeration of a finite set has all its elements.
LEMMA EnumerationCovers ==
    ASSUME NEW S, IsFiniteSet(S), NEW q \in SetToSeqs(S)
    PROVE  q \in Seq(S) /\ \A x \in S : \E i \in DOMAIN q : q[i] = x
<1> DEFINE D == 1..Cardinality(S)
<1>1. Cardinality(S) \in Nat
  BY FS_CardinalityType
<1>2. q \in [D -> S] /\ \A i, j \in D : i # j => q[i] # q[j]
  BY DEF SetToSeqs
<1>3. q \in Injection(D, S)
  BY <1>2 DEF Injection, IsInjective
<1>4. IsFiniteSet(D) /\ Cardinality(D) = Cardinality(S)
  BY <1>1, FS_Interval
<1>5. q \in Surjection(D, S)
  BY <1>3, <1>4, FS_Injection
<1> QED BY <1>1, <1>2, <1>5 DEF Surjection

LEMMA EventTypes ==
    ASSUME NEW f \in Files, NEW g \in Files
    PROVE  Deleted(f) \in Event /\ Moved(f, g) \in Event
BY DEF Deleted, Moved, Event

\* After files are removed, each is on disk, announced, or was known before.
LEMMA UnlinkAnnounces ==
    ASSUME TypeOK, NEW gone \in SUBSET Files, NEW from \in SUBSET Files, disk \subseteq from,
           Unlink(gone, from)
    PROVE  /\ disk' \subseteq Files /\ missed' \subseteq Files
           /\ events' \in Seq(Event) /\ Len(events) <= Len(events')
           /\ \A i \in 1..Len(events) : events'[i] = events[i]
           /\ \A i \in 1..Len(events') : i > Len(events) => events'[i].kind = "deleted"
           /\ \A f \in from : f \in disk' \/
                 \E i \in 1..Len(events') : i > Len(events) /\ events'[i].src = f
           /\ missed \subseteq missed' \cup disk'
<1> DEFINE S == {Deleted(f) : f \in gone}
<1>1. PICK q \in SetToSeqs(S) : events' = events \o q
  BY DEF Unlink
<1>2. IsFiniteSet(gone)
  BY FilesFinite, FS_Subset
<1>3. IsFiniteSet(S)
  <2> DEFINE d == [f \in gone |-> Deleted(f)]
  <2>1. d \in Surjection(gone, S)
    BY DEF Surjection
  <2> QED BY <1>2, <2>1, FS_Surjection
<1>4. S \subseteq Event
  BY EventTypes
<1>5. q \in Seq(S) /\ \A x \in S : \E i \in DOMAIN q : q[i] = x
  BY <1>3, EnumerationCovers
<1>6. q \in Seq(Event) /\ events \in Seq(Event)
  BY <1>4, <1>5 DEF TypeOK
<1> HIDE DEF S
<1>7. /\ events' \in Seq(Event) /\ Len(events') = Len(events) + Len(q)
      /\ \A i \in 1..Len(events) : events'[i] = events[i]
      /\ \A i \in 1..Len(q) : events'[Len(events) + i] = q[i]
  BY <1>1, <1>6, ConcatProperties
<1>8. ASSUME NEW f \in gone
      PROVE  \E i \in 1..Len(events') : i > Len(events) /\ events'[i].src = f
  <2>1. PICK i \in 1..Len(q) : q[i] = Deleted(f)
    BY <1>5, <1>6 DEF S
  <2>2. Len(events) + i \in 1..Len(events') /\ Len(events) + i > Len(events)
    BY <1>6, <1>7
  <2>3. events'[Len(events) + i].src = f
    BY <1>7, <2>1 DEF Deleted
  <2> QED BY <2>2, <2>3
<1>9. ASSUME NEW i \in 1..Len(events'), i > Len(events)
      PROVE  events'[i].kind = "deleted"
  <2>1. i - Len(events) \in 1..Len(q) /\ events'[i] = q[i - Len(events)]
    BY <1>6, <1>7, <1>9
  <2>2. q[i - Len(events)] \in S
    BY <1>5, <2>1
  <2>3. PICK f \in gone : q[i - Len(events)] = Deleted(f)
    BY <2>2 DEF S
  <2> QED BY <2>1, <2>3 DEF Deleted
<1>10. disk' = from \ gone /\ missed' = missed \ disk'
  BY DEF Unlink
<1> QED BY <1>6, <1>7, <1>8, <1>9, <1>10 DEF TypeOK

-----------------------------------------------------------------------------
(* The invariant.  It speaks of every path, not only of those of tracks    *)
(* shown as downloaded: a flush may write the flag alone, beside a path    *)
(* that is older.  A "moved" event carries a path that a row will get, so  *)
(* its destination must be known by what comes after it.                   *)

\* The file is there, or an event that is not yet handled is about it, or the
\* event was dropped.
KnownBeyond(files, queue, i, f) ==
    f \in files \/ \E j \in 1..Len(queue) : j > i /\ queue[j].src = f

PathsKnown ==
    \A t \in Tracks : row[t].path # NoFile =>
        KnownBeyond(disk \cup missed, events, 0, row[t].path)

MovesKnown ==
    \A i \in 1..Len(events) : events[i].kind = "moved" =>
        /\ events[i].dst \in Files
        /\ KnownBeyond(disk \cup missed, events, i, events[i].dst)

TornNamed == \A t \in Tracks : row[t].down /\ row[t].path = NoFile => t \in torn

ProcTracks == \A p \in Procs : proc[p].pc # "idle" => proc[p].track \in Tracks

SeenTrue ==
    \A p \in Procs : proc[p].pc = "chain" /\ ~proc[p].fresh /\ ~proc[p].stale
        => proc[p].seen = row[proc[p].track]

Inv == TypeOK /\ PathsKnown /\ MovesKnown /\ TornNamed /\ ProcTracks /\ SeenTrue

\* Nothing that was known is forgotten: events are appended, and what leaves
\* the disk is announced.
Announced ==
    /\ disk' \subseteq Files /\ missed' \subseteq Files /\ events' \in Seq(Event)
    /\ Len(events) <= Len(events')
    /\ \A i \in 1..Len(events) : events'[i] = events[i]
    /\ \A i \in 1..Len(events') : i > Len(events) /\ events'[i].kind = "moved"
           => events'[i].dst \in disk'
    /\ \A f \in disk \cup missed : f \in disk' \cup missed' \/
           \E i \in 1..Len(events') : i > Len(events) /\ events'[i].src = f

LEMMA LengthsAreNumbers ==
    ASSUME TypeOK
    PROVE  Len(events) \in Nat /\ DOMAIN events = 1..Len(events)
BY LenProperties DEF TypeOK

LEMMA AnnouncedUnchanged ==
    ASSUME TypeOK, UNCHANGED <<disk, events, missed>>
    PROVE  Announced
BY LengthsAreNumbers DEF Announced, TypeOK

LEMMA AnnouncedUnlink ==
    ASSUME TypeOK, NEW gone \in SUBSET Files, NEW from \in SUBSET Files, disk \subseteq from,
           Unlink(gone, from)
    PROVE  Announced
<1>1. /\ disk' \subseteq Files /\ missed' \subseteq Files
      /\ events' \in Seq(Event) /\ Len(events) <= Len(events')
      /\ \A i \in 1..Len(events) : events'[i] = events[i]
      /\ \A i \in 1..Len(events') : i > Len(events) => events'[i].kind = "deleted"
      /\ \A f \in from : f \in disk' \/
            \E i \in 1..Len(events') : i > Len(events) /\ events'[i].src = f
      /\ missed \subseteq missed' \cup disk'
  BY UnlinkAnnounces
<1>2. ASSUME NEW f \in disk \cup missed
      PROVE  f \in disk' \cup missed' \/
               \E i \in 1..Len(events') : i > Len(events) /\ events'[i].src = f
  BY <1>1
<1> QED BY <1>1, <1>2 DEF Announced

LEMMA AnnouncedKeepsKnown ==
    ASSUME TypeOK, Announced, NEW i \in 0..Len(events), NEW f,
           KnownBeyond(disk \cup missed, events, i, f)
    PROVE  KnownBeyond(disk' \cup missed', events', i, f)
<1>1. Len(events) \in Nat /\ Len(events') \in Nat
  BY LengthsAreNumbers, LenProperties DEF Announced
<1>2. CASE f \in disk \cup missed
  BY <1>1, <1>2 DEF Announced, KnownBeyond
<1>3. CASE \E j \in 1..Len(events) : j > i /\ events[j].src = f
  <2>1. PICK j \in 1..Len(events) : j > i /\ events[j].src = f
    BY <1>3
  <2>2. j \in 1..Len(events') /\ events'[j] = events[j]
    BY <1>1 DEF Announced
  <2> QED BY <2>1, <2>2 DEF KnownBeyond
<1> QED BY <1>2, <1>3 DEF KnownBeyond

\* Rows get a path that is on disk, or none, or keep theirs.
LEMMA AnnouncedKeepsPaths ==
    ASSUME TypeOK, PathsKnown, MovesKnown, Announced,
           \A t \in Tracks : row'[t].path \in disk' \cup {NoFile, row[t].path}
    PROVE  PathsKnown' /\ MovesKnown'
<1>1. Len(events) \in Nat /\ Len(events') \in Nat /\ Len(events) <= Len(events')
  BY LengthsAreNumbers, LenProperties DEF Announced
<1>2. ASSUME NEW t \in Tracks, row'[t].path # NoFile
      PROVE  KnownBeyond(disk' \cup missed', events', 0, row'[t].path)
  <2> DEFINE f == row'[t].path
  <2>1. CASE f \in disk'
    BY <2>1 DEF KnownBeyond
  <2>2. CASE f = row[t].path
    <3>1. KnownBeyond(disk \cup missed, events, 0, row[t].path)
      BY <1>2, <2>2 DEF PathsKnown
    <3>2. 0 \in 0..Len(events)
      BY <1>1
    <3> QED BY <2>2, <3>1, <3>2, AnnouncedKeepsKnown
  <2> QED BY <1>2, <2>1, <2>2
<1>3. PathsKnown'
  BY <1>2 DEF PathsKnown
<1>4. ASSUME NEW i \in 1..Len(events'), events'[i].kind = "moved"
      PROVE  /\ events'[i].dst \in Files
             /\ KnownBeyond(disk' \cup missed', events', i, events'[i].dst)
  <2>1. CASE i <= Len(events)
    <3>1. i \in 1..Len(events) /\ i \in 0..Len(events)
      BY <1>1, <2>1
    <3>2. events'[i] = events[i]
      BY <3>1 DEF Announced
    <3>3. events[i].dst \in Files /\ KnownBeyond(disk \cup missed, events, i, events[i].dst)
      BY <1>4, <3>1, <3>2 DEF MovesKnown
    <3> QED BY <3>1, <3>2, <3>3, AnnouncedKeepsKnown
  <2>2. CASE i > Len(events)
    BY <1>4, <2>2 DEF Announced, KnownBeyond
  <2> QED BY <1>1, <2>1, <2>2
<1>5. MovesKnown'
  BY <1>4 DEF MovesKnown
<1> QED BY <1>3, <1>5

-----------------------------------------------------------------------------
(* Sessions.  A commit that changes a row makes the copies of it stale.    *)

LEMMA CommitMarksStale ==
    ASSUME TypeOK, ProcTracks, SeenTrue,
           NEW procs \in [Procs -> Proc], NEW rows \in [Tracks -> Row], Commit(procs, rows),
           \A p \in Procs : procs[p] = proc[p] \/ procs[p].pc # "chain",
           \A p \in Procs : procs[p].pc # "idle" => procs[p].track \in Tracks
    PROVE  /\ row' = rows /\ proc' \in [Procs -> Proc]
           /\ ProcTracks' /\ SeenTrue'
           /\ row' \in [Tracks -> Row]
<1>1. row' = rows
  BY DEF Commit
<1>2. ASSUME NEW p \in Procs, procs[p].pc # "chain"
      PROVE  proc'[p] = procs[p]
  BY <1>2 DEF Commit
<1>3. ASSUME NEW p \in Procs, procs[p].pc = "chain"
      PROVE  LET t == proc[p].track
             IN  /\ proc'[p] = [proc[p] EXCEPT !.stale =
                        proc[p].stale \/ (~proc[p].fresh /\ rows[t] # row[t])]
                 /\ proc[p].pc = "chain"
  BY <1>3 DEF Commit
<1>4. ASSUME NEW p \in Procs, procs[p].pc = "chain"
      PROVE  /\ proc'[p] \in Proc
             /\ proc'[p].track = proc[p].track /\ proc'[p].pc = "chain"
             /\ proc'[p].fresh = proc[p].fresh /\ proc'[p].seen = proc[p].seen
             /\ ~proc'[p].stale /\ ~proc'[p].fresh
                   => ~proc[p].stale /\ rows[proc[p].track] = row[proc[p].track]
  <2> DEFINE old == proc[p]
             s == old.stale \/ (~old.fresh /\ rows[old.track] # row[old.track])
  <2>1. old \in Proc
    BY DEF TypeOK
  <2>2. proc'[p] = [old EXCEPT !.stale = s] /\ old.pc = "chain"
    BY <1>3, <1>4
  <2>3. s \in BOOLEAN
    OBVIOUS
  <2>4. /\ [old EXCEPT !.stale = s] \in Proc
        /\ [old EXCEPT !.stale = s].stale = s
        /\ [old EXCEPT !.stale = s].pc = old.pc /\ [old EXCEPT !.stale = s].track = old.track
        /\ [old EXCEPT !.stale = s].fresh = old.fresh /\ [old EXCEPT !.stale = s].seen = old.seen
    <3> HIDE DEF s, old
    <3> QED BY <2>1, <2>3 DEF Proc
  <2> QED BY <2>2, <2>4
<1>5. proc' \in [Procs -> Proc]
  <2>1. \A p \in Procs : proc'[p] \in Proc
    BY <1>2, <1>4
  <2>2. proc' = [p \in Procs |-> proc'[p]]
    BY DEF Commit
  <2> QED BY <2>1, <2>2
<1>6. ProcTracks'
  BY <1>2, <1>4 DEF ProcTracks
<1>7. ASSUME NEW p \in Procs, proc'[p].pc = "chain", ~proc'[p].fresh, ~proc'[p].stale
      PROVE  proc'[p].seen = rows[proc'[p].track]
  <2>1. procs[p].pc = "chain"
    BY <1>2, <1>7
  <2> QED BY <1>3, <1>4, <1>7, <2>1 DEF SeenTrue
<1> QED BY <1>1, <1>5, <1>6, <1>7 DEF SeenTrue

\* The commits of everybody but a download.
LEMMA OtherCommit ==
    ASSUME TypeOK, ProcTracks, SeenTrue, NEW rows \in [Tracks -> Row], Commit(proc, rows)
    PROVE  /\ row' = rows /\ proc' \in [Procs -> Proc]
           /\ ProcTracks' /\ SeenTrue'
           /\ row' \in [Tracks -> Row]
<1>1. proc \in [Procs -> Proc]
  BY DEF TypeOK
<1>2. \A p \in Procs : proc[p].pc # "idle" => proc[p].track \in Tracks
  BY DEF ProcTracks
<1> QED BY <1>1, <1>2, CommitMarksStale

\* A download begins or ends without a commit.
LEMMA ProcMoves ==
    ASSUME TypeOK, ProcTracks, SeenTrue, NEW p \in Procs, NEW new \in Proc,
           proc' = [proc EXCEPT ![p] = new], UNCHANGED row,
           new.pc # "idle" => new.track \in Tracks,
           new.pc = "chain" => new.fresh \/ new.seen = row[new.track]
    PROVE  proc' \in [Procs -> Proc] /\ ProcTracks' /\ SeenTrue'
BY DEF TypeOK, ProcTracks, SeenTrue

-----------------------------------------------------------------------------
(* The steps.                                                              *)

LEMMA RowTypes ==
    /\ Missing \in Row
    /\ \A r \in Row, g \in Files \cup {NoFile}, b \in BOOLEAN :
          /\ [r EXCEPT !.path = g] \in Row /\ [r EXCEPT !.down = b] \in Row
          /\ [r EXCEPT !.path = g, !.down = b] \in Row
          /\ [r EXCEPT !.down = b, !.path = g] \in Row
BY DEF Missing, Row

LEMMA IdleTypes == Idle \in Proc /\ Idle.pc = "idle"
BY RowTypes DEF Idle, Proc

\* Every step but those that take events away.
LEMMA AnnouncedStep ==
    ASSUME Inv, Announced, row' \in [Tracks -> Row], proc' \in [Procs -> Proc],
           ProcTracks', SeenTrue', TornNamed', reverify' \in Tracks \cup {NoTrack},
           torn' \subseteq Tracks,
           \A t \in Tracks : row'[t].path \in disk' \cup {NoFile, row[t].path}
    PROVE  Inv'
<1>1. TypeOK'
  BY DEF Announced, TypeOK
<1>2. PathsKnown' /\ MovesKnown'
  BY AnnouncedKeepsPaths DEF Inv
<1> QED BY <1>1, <1>2 DEF Inv

\* A download begins, fails or ends without a commit.
LEMMA ProcStep ==
    ASSUME Inv, Announced, NEW p \in Procs, NEW new \in Proc,
           proc' = [proc EXCEPT ![p] = new], UNCHANGED <<row, reverify, torn>>,
           new.pc # "idle" => new.track \in Tracks,
           new.pc = "chain" => new.fresh \/ new.seen = row[new.track]
    PROVE  Inv'
<1>1. proc' \in [Procs -> Proc] /\ ProcTracks' /\ SeenTrue'
  BY ProcMoves DEF Inv
<1>2. /\ row' \in [Tracks -> Row] /\ reverify' \in Tracks \cup {NoTrack} /\ torn' \subseteq Tracks
      /\ \A t \in Tracks : row'[t].path = row[t].path
  BY DEF Inv, TypeOK
<1>3. TornNamed'
  BY DEF Inv, TornNamed
<1> QED BY <1>1, <1>2, <1>3, AnnouncedStep

LEMMA StartInv ==
    ASSUME Inv, NEW p \in Procs, NEW t \in Tracks, StartJob(p, t) \/ StartMatch(p, t)
    PROVE  Inv'
<1>1. Announced
  BY AnnouncedUnchanged DEF Inv, StartJob, StartMatch
<1>2. row[t] \in Row
  BY DEF Inv, TypeOK
<1> DEFINE loaded == [Idle EXCEPT !.pc = "chain", !.track = t, !.seen = row[t], !.fresh = FALSE]
           fresh == [Idle EXCEPT !.pc = "chain", !.track = t]
<1>3. /\ loaded \in Proc /\ loaded.track = t /\ loaded.seen = row[t]
      /\ fresh \in Proc /\ fresh.track = t /\ fresh.fresh
  BY <1>2, RowTypes DEF Idle, Proc
<1>4. UNCHANGED <<row, reverify, torn>>
  BY DEF StartJob, StartMatch
<1>5. proc' = [proc EXCEPT ![p] = loaded] \/ proc' = [proc EXCEPT ![p] = fresh]
  BY DEF StartJob, StartMatch
<1> HIDE DEF loaded, fresh
<1> QED BY <1>1, <1>3, <1>4, <1>5, ProcStep

LEMMA FailInv ==
    ASSUME Inv, NEW p \in Procs, Fail(p)
    PROVE  Inv'
<1>1. Announced
  BY AnnouncedUnchanged DEF Inv, Fail
<1>2. Idle \in Proc /\ Idle.pc = "idle"
  BY IdleTypes
<1> QED BY <1>1, <1>2, ProcStep DEF Fail

LEMMA CleanupInv ==
    ASSUME Inv, NEW p \in Procs, Cleanup(p)
    PROVE  Inv'
<1> DEFINE gone == Superseded(proc[p].track, proc[p].dest, disk)
<1>1. gone \in SUBSET Files /\ disk \in SUBSET Files
  BY DEF Superseded, Inv, TypeOK
<1>2. Announced
  BY <1>1, AnnouncedUnlink DEF Inv, Cleanup
<1>3. Idle \in Proc /\ Idle.pc = "idle"
  BY IdleTypes
<1> QED BY <1>2, <1>3, ProcStep DEF Cleanup

\* A file is put in place.
LEMMA AnnouncedNew ==
    ASSUME TypeOK, NEW d \in Files, disk' = disk \cup {d}, UNCHANGED events,
           missed' = missed \ {d} \/ missed' = missed \ disk'
    PROVE  Announced
BY LengthsAreNumbers DEF Announced, TypeOK

LEMMA FinishUnrecordedInv ==
    ASSUME Inv, NEW p \in Procs, NEW f \in Formats, FinishUnrecorded(p, f)
    PROVE  Inv'
<1>1. proc[p].track \in Tracks
  BY DEF Inv, ProcTracks, FinishUnrecorded
<1>2. FinalName(proc[p].track, f) \in Files
  BY <1>1, DeliveredFormats DEF FinishUnrecorded
<1>3. Announced
  BY <1>2, AnnouncedNew DEF Inv, FinishUnrecorded
<1>4. Idle \in Proc /\ Idle.pc = "idle"
  BY IdleTypes
<1> QED BY <1>3, <1>4, ProcStep DEF FinishUnrecorded

LEMMA FinishInv ==
    ASSUME Inv, NEW p \in Procs, NEW f \in Formats, Finish(p, f)
    PROVE  Inv'
<1> DEFINE t == proc[p].track
           dest == FinalName(t, f)
           base == IF proc[p].fresh THEN row[t] ELSE proc[p].seen
           new == [down |-> TRUE, path |-> dest]
           tail == [Idle EXCEPT !.pc = "tail", !.track = t, !.dest = dest]
           after == IF p \in Jobs THEN tail ELSE Idle
           flushed == FlushedRow(base, new, row[t])
           procs == [proc EXCEPT ![p] = after]
           rows == [row EXCEPT ![t] = flushed]
<1>1. proc[p].pc = "chain" /\ t \in Tracks /\ f \in Delivered[t]
  BY DEF Inv, ProcTracks, Finish
<1>2. dest \in Files /\ dest # NoFile
  BY <1>1, DeliveredFormats, NoFileIsNone
<1>3. row[t] \in Row /\ proc[p] \in Proc
  BY <1>1 DEF Inv, TypeOK
<1>4. base \in Row
  BY <1>3 DEF Proc
<1>5. /\ flushed \in Row
      /\ flushed.path = IF base.path = dest THEN row[t].path ELSE dest
  <2>1. \A b \in Row, r \in Row :
           /\ FlushedRow(b, new, r) \in Row
           /\ FlushedRow(b, new, r).path = IF b.path = dest THEN r.path ELSE dest
    BY <1>2 DEF FlushedRow, Row
  <2> QED BY <1>3, <1>4, <2>1
<1>6. after \in Proc /\ after.pc # "chain" /\ (after.pc # "idle" => after.track \in Tracks)
  <2>1. tail \in Proc /\ tail.pc = "tail" /\ tail.track = t
    <3> HIDE DEF t, dest
    <3> QED BY <1>1, <1>2, RowTypes DEF Idle, Proc
  <2> HIDE DEF tail
  <2> QED BY <1>1, <2>1, IdleTypes
<1>7. Commit(procs, rows)
  BY DEF Finish
<1> HIDE DEF after, flushed
<1>8. /\ procs \in [Procs -> Proc] /\ rows \in [Tracks -> Row]
      /\ \A q \in Procs : procs[q] = proc[q] \/ procs[q].pc # "chain"
      /\ \A q \in Procs : procs[q].pc # "idle" => procs[q].track \in Tracks
  BY <1>1, <1>5, <1>6 DEF Inv, TypeOK, ProcTracks
<1> HIDE DEF procs, rows
<1>9. /\ row' = rows /\ proc' \in [Procs -> Proc] /\ ProcTracks' /\ SeenTrue'
      /\ row' \in [Tracks -> Row]
  BY <1>7, <1>8, CommitMarksStale DEF Inv
<1>10. row'[t] = flushed /\ \A s \in Tracks \ {t} : row'[s] = row[s]
  BY <1>1, <1>9 DEF rows, Inv, TypeOK
<1>11. Announced /\ dest \in disk'
  <2>1. CASE p \in Jobs
    <3>1. disk' = disk \cup {dest} /\ missed' = missed \ {dest} /\ UNCHANGED events
      BY <2>1 DEF Finish
    <3> QED BY <1>2, <3>1, AnnouncedNew DEF Inv
  <2>2. CASE p \notin Jobs
    <3> DEFINE gone == Superseded(t, dest, disk)
    <3>1. Unlink(gone, disk \cup {dest})
      BY <2>2 DEF Finish
    <3>2. gone \in SUBSET Files /\ disk \cup {dest} \in SUBSET Files /\ dest \notin gone
      BY <1>2 DEF Superseded, Inv, TypeOK
    <3>3. disk' = (disk \cup {dest}) \ gone
      BY <3>1 DEF Unlink
    <3>4. Announced
      <4> HIDE DEF gone, dest
      <4> QED BY <3>1, <3>2, AnnouncedUnlink DEF Inv
    <3> QED BY <3>2, <3>3, <3>4
  <2> QED BY <2>1, <2>2
<1>12. \A s \in Tracks : row'[s].path \in disk' \cup {NoFile, row[s].path}
  BY <1>5, <1>10, <1>11
<1>13. torn' = IF proc[p].stale THEN torn \cup {t} ELSE torn \ {t}
  BY DEF Finish
<1>14. torn' \subseteq Tracks /\ reverify' \in Tracks \cup {NoTrack}
  BY <1>1, <1>13 DEF Finish, Inv, TypeOK
<1>15. ASSUME row'[t].path = NoFile
       PROVE  t \in torn'
  <2>1. base.path = dest /\ row[t].path = NoFile
    BY <1>2, <1>5, <1>10, <1>15
  <2>2. ~proc[p].fresh /\ proc[p].seen # row[t]
    BY <1>2, <2>1
  <2>3. proc[p].stale
    BY <1>1, <2>2 DEF Inv, SeenTrue
  <2> QED BY <1>13, <2>3
<1>16. ASSUME NEW s \in Tracks, row'[s].down, row'[s].path = NoFile
       PROVE  s \in torn'
  <2>1. CASE s = t
    BY <1>15, <1>16, <2>1
  <2>2. CASE s # t
    <3>1. s \in torn
      BY <1>10, <1>16, <2>2 DEF Inv, TornNamed
    <3> QED BY <1>13, <2>2, <3>1
  <2> QED BY <2>1, <2>2
<1>17. TornNamed'
  BY <1>16 DEF TornNamed
<1> QED BY <1>9, <1>11, <1>12, <1>14, <1>17, AnnouncedStep

\* The commits of users and of the other processes.
LEMMA OtherStep ==
    ASSUME Inv, Announced, NEW rows \in [Tracks -> Row], Commit(proc, rows),
           reverify' \in Tracks \cup {NoTrack}, torn' \subseteq Tracks,
           \A t \in Tracks : rows[t].path \in disk' \cup {NoFile, row[t].path},
           \A t \in Tracks : rows[t].down /\ rows[t].path = NoFile => t \in torn'
    PROVE  Inv'
<1>1. /\ row' = rows /\ proc' \in [Procs -> Proc] /\ ProcTracks' /\ SeenTrue'
      /\ row' \in [Tracks -> Row]
  BY OtherCommit DEF Inv
<1>2. TornNamed'
  BY <1>1 DEF TornNamed
<1> QED BY <1>1, <1>2, AnnouncedStep

\* Steps that leave the rows and the downloads alone.
LEMMA FileStep ==
    ASSUME Inv, Announced, UNCHANGED <<row, proc, torn>>, reverify' \in Tracks \cup {NoTrack}
    PROVE  Inv'
<1>1. /\ row' \in [Tracks -> Row] /\ proc' \in [Procs -> Proc] /\ torn' \subseteq Tracks
      /\ \A t \in Tracks : row'[t].path = row[t].path
  BY DEF Inv, TypeOK
<1>2. ProcTracks' /\ SeenTrue' /\ TornNamed'
  BY DEF Inv, ProcTracks, SeenTrue, TornNamed
<1> QED BY <1>1, <1>2, AnnouncedStep

LEMMA UserDeleteInv ==
    ASSUME Inv, NEW f \in Files, UserDelete(f)
    PROVE  Inv'
<1>1. {f} \in SUBSET Files /\ disk \in SUBSET Files
  BY DEF Inv, TypeOK
<1>2. Announced
  BY <1>1, AnnouncedUnlink DEF Inv, UserDelete
<1>3. reverify' \in Tracks \cup {NoTrack}
  BY DEF Inv, TypeOK, UserDelete
<1> QED BY <1>2, <1>3, FileStep DEF UserDelete

LEMMA UserMoveInv ==
    ASSUME Inv, NEW f \in Files, UserMove(f)
    PROVE  Inv'
<1> DEFINE g == <<f[1], "renamed">>
           e == Moved(f, g)
<1>1. g \in Files
  BY DEF Files
<1>2. e \in Event /\ e.kind = "moved" /\ e.src = f /\ e.dst = g
  BY <1>1, EventTypes DEF Moved
<1>3. /\ disk' = (disk \ {f}) \cup {g} /\ events' = Append(events, e)
      /\ missed' = missed \ disk'
  BY DEF UserMove
<1> HIDE DEF e, g
<1>4. Len(events) \in Nat
  BY LengthsAreNumbers DEF Inv
<1>5. /\ events' \in Seq(Event) /\ Len(events') = Len(events) + 1
      /\ \A i \in 1..Len(events) : events'[i] = events[i]
      /\ events'[Len(events) + 1] = e
  BY <1>2, <1>3, AppendProperties DEF Inv, TypeOK
<1>6. ASSUME NEW i \in 1..Len(events'), i > Len(events)
      PROVE  events'[i] = e
  BY <1>4, <1>5, <1>6
<1>7. Len(events) + 1 \in 1..Len(events') /\ Len(events) + 1 > Len(events)
  BY <1>4, <1>5
<1>8. Announced
  <2>1. disk' \subseteq Files /\ missed' \subseteq Files
    BY <1>1, <1>3 DEF Inv, TypeOK
  <2>2. ASSUME NEW h \in disk \cup missed
        PROVE  h \in disk' \cup missed' \/
                 \E i \in 1..Len(events') : i > Len(events) /\ events'[i].src = h
    <3>1. CASE h = f
      BY <1>2, <1>5, <1>7, <3>1
    <3>2. CASE h # f
      BY <1>3, <3>2
    <3> QED BY <3>1, <3>2
  <2>3. Len(events) <= Len(events')
    BY <1>4, <1>5
  <2> QED BY <1>2, <1>3, <1>5, <1>6, <2>1, <2>2, <2>3 DEF Announced
<1>9. reverify' \in Tracks \cup {NoTrack}
  BY DEF Inv, TypeOK, UserMove
<1> QED BY <1>8, <1>9, FileStep DEF UserMove

LEMMA DeleteTrackInv ==
    ASSUME Inv, NEW t \in Tracks, DeleteTrack(t)
    PROVE  Inv'
<1> DEFINE rows == [row EXCEPT ![t] = Missing]
<1>1. Announced
  <2>1. CASE UNCHANGED <<disk, events, missed>>
    BY <2>1, AnnouncedUnchanged DEF Inv
  <2>2. CASE row[t].path \in disk /\ Unlink({row[t].path}, disk)
    <3>1. {row[t].path} \in SUBSET Files /\ disk \in SUBSET Files
      BY <2>2 DEF Inv, TypeOK
    <3> QED BY <2>2, <3>1, AnnouncedUnlink DEF Inv
  <2> QED BY <2>1, <2>2 DEF DeleteTrack
<1>2. Commit(proc, rows) /\ torn' = torn \ {t}
  BY DEF DeleteTrack
<1>3. rows \in [Tracks -> Row]
  BY RowTypes DEF Inv, TypeOK
<1>4. ASSUME NEW s \in Tracks
      PROVE  /\ rows[s].path \in disk' \cup {NoFile, row[s].path}
             /\ rows[s].down /\ rows[s].path = NoFile => s \in torn'
  BY <1>2 DEF Missing, Inv, TypeOK, TornNamed
<1>5. reverify' \in Tracks \cup {NoTrack} /\ torn' \subseteq Tracks
  BY <1>2 DEF DeleteTrack, Inv, TypeOK
<1> HIDE DEF rows
<1> QED BY <1>1, <1>2, <1>3, <1>4, <1>5, OtherStep

LEMMA ReverifyInv ==
    ASSUME Inv, (\E t \in Tracks : ReverifyTrack(t)) \/ ReverifyPassed
    PROVE  Inv'
<1>1. Announced
  BY AnnouncedUnchanged DEF Inv, ReverifyTrack, ReverifyPassed
<1>2. reverify' \in Tracks \cup {NoTrack}
  BY DEF ReverifyTrack, ReverifyPassed
<1>3. UNCHANGED <<row, proc, torn>>
  BY DEF ReverifyTrack, ReverifyPassed
<1> QED BY <1>1, <1>2, <1>3, FileStep

LEMMA ReverifyFlaggedInv ==
    ASSUME Inv, ReverifyFlagged
    PROVE  Inv'
<1> DEFINE rows == [row EXCEPT ![reverify].down = FALSE]
<1>1. Announced
  BY AnnouncedUnchanged DEF Inv, ReverifyFlagged
<1>2. reverify \in Tracks
  BY DEF Inv, TypeOK, ReverifyFlagged
<1>3. rows \in [Tracks -> Row]
  <2>1. row[reverify] \in Row
    BY <1>2 DEF Inv, TypeOK
  <2>2. [row[reverify] EXCEPT !.down = FALSE] \in Row
    BY <2>1 DEF Row
  <2> QED BY <2>2 DEF Inv, TypeOK
<1>4. ASSUME NEW s \in Tracks
      PROVE  rows[s].path = row[s].path /\ (rows[s].down => row[s].down)
  BY DEF Inv, TypeOK, Row
<1>5. Commit(proc, rows) /\ UNCHANGED torn /\ reverify' = NoTrack
  BY DEF ReverifyFlagged
<1> HIDE DEF rows
<1>6. /\ \A s \in Tracks : rows[s].down /\ rows[s].path = NoFile => s \in torn'
      /\ torn' \subseteq Tracks
  BY <1>4, <1>5 DEF Inv, TornNamed, TypeOK
<1> QED BY <1>1, <1>3, <1>4, <1>5, <1>6, OtherStep

LEMMA ImportScanInv ==
    ASSUME Inv, ImportScan
    PROVE  Inv'
<1> DEFINE files(t) == {f \in disk : f[1] = t}
           found == {t \in Tracks : files(t) # {} /\ (row[t].down => row[t].path \notin disk)}
<1>1. PICK pick \in [found -> disk] :
         Commit(proc, [t \in Tracks |-> IF t \in found
                                        THEN [row[t] EXCEPT !.down = TRUE, !.path = pick[t]]
                                        ELSE row[t]])
  BY DEF ImportScan
<1>2. torn' = torn \ found /\ UNCHANGED <<disk, events, reverify, missed>>
  BY DEF ImportScan
<1>3. found \subseteq Tracks
  OBVIOUS
<1> DEFINE given(t) == [row[t] EXCEPT !.down = TRUE, !.path = pick[t]]
           rows == [t \in Tracks |-> IF t \in found THEN given(t) ELSE row[t]]
<1> HIDE DEF found
<1>4. Announced
  BY <1>2, AnnouncedUnchanged DEF Inv
<1>5. ASSUME NEW t \in found
      PROVE  given(t) \in Row /\ given(t).path \in disk /\ given(t).path # NoFile
  <2>1. pick[t] \in disk /\ disk \subseteq Files /\ row[t] \in Row
    BY <1>3 DEF Inv, TypeOK
  <2>2. pick[t] \in Files
    BY <2>1
  <2>3. given(t) \in Row /\ given(t).path = pick[t]
    BY <2>1, <2>2 DEF Row
  <2> QED BY <2>1, <2>2, <2>3, NoFileIsNone
<1>6. rows \in [Tracks -> Row]
  BY <1>5 DEF Inv, TypeOK
<1>7. ASSUME NEW t \in Tracks
      PROVE  /\ rows[t].path \in disk' \cup {NoFile, row[t].path}
             /\ rows[t].down /\ rows[t].path = NoFile => t \in torn'
  <2>1. CASE t \in found
    BY <1>2, <1>5, <2>1
  <2>2. CASE t \notin found
    BY <1>2, <2>2 DEF Inv, TornNamed
  <2> QED BY <2>1, <2>2
<1>8. torn' \subseteq Tracks /\ reverify' \in Tracks \cup {NoTrack}
  BY <1>2 DEF Inv, TypeOK
<1>9. Commit(proc, rows)
  BY <1>1
<1> HIDE DEF rows
<1> QED
  BY <1>4, <1>6, <1>7, <1>8, <1>9, OtherStep

LEMMA CrashInv ==
    ASSUME Inv, Crash
    PROVE  Inv'
<1>1. Len(events) \in Nat /\ DOMAIN events = 1..Len(events)
  BY LengthsAreNumbers DEF Inv
<1>2. events' = <<>> /\ Len(events') = 0
  BY DEF Crash
<1>3. ASSUME NEW i \in 1..Len(events) PROVE events[i].src \in Files
  <2>1. events[i] \in Event
    BY ElementOfSeq DEF Inv, TypeOK
  <2> QED BY <2>1 DEF Event
<1>4. /\ UNCHANGED <<disk, row, torn>> /\ reverify' = NoTrack /\ proc' = [p \in Procs |-> Idle]
      /\ missed' = (missed \cup {events[i].src : i \in 1..Len(events)}) \ disk
  BY <1>1 DEF Crash
<1>5. missed' \subseteq Files
  BY <1>3, <1>4 DEF Inv, TypeOK
<1>6. Idle \in Proc /\ Idle.pc = "idle"
  BY IdleTypes
<1>7. TypeOK'
  BY <1>2, <1>4, <1>5, <1>6, EmptySeq DEF Inv, TypeOK
<1>8. PathsKnown'
  BY <1>4 DEF Inv, PathsKnown, KnownBeyond
<1>9. MovesKnown'
  BY <1>2 DEF MovesKnown
<1>10. TornNamed' /\ ProcTracks' /\ SeenTrue'
  BY <1>4, <1>6 DEF Inv, TornNamed, ProcTracks, SeenTrue
<1> QED BY <1>7, <1>8, <1>9, <1>10 DEF Inv

-----------------------------------------------------------------------------
(* The watcher.  What was known by an event after the first stays known;   *)
(* what was known by the first alone must be handled, or be missed.        *)

LEMMA PopKeepsKnown ==
    ASSUME TypeOK, events # <<>>, events' = Tail(events), UNCHANGED disk,
           missed \subseteq missed' \cup disk,
           NEW i \in 1..Len(events), NEW f, KnownBeyond(disk \cup missed, events, i, f)
    PROVE  KnownBeyond(disk' \cup missed', events', i - 1, f)
<1>1. Len(events) \in Nat
  BY LengthsAreNumbers
<1>2. Len(events') = Len(events) - 1 /\ \A j \in 1..Len(events') : events'[j] = events[j + 1]
  BY HeadTailProperties DEF TypeOK
<1>3. CASE f \in disk \cup missed
  BY <1>3 DEF KnownBeyond
<1>4. CASE \E j \in 1..Len(events) : j > i /\ events[j].src = f
  <2>1. PICK j \in 1..Len(events) : j > i /\ events[j].src = f
    BY <1>4
  <2>2. j - 1 \in 1..Len(events') /\ j - 1 > i - 1 /\ (j - 1) + 1 = j
    BY <1>1, <1>2, <2>1
  <2>3. events'[j - 1].src = f
    BY <1>2, <2>1, <2>2
  <2> QED BY <2>2, <2>3 DEF KnownBeyond
<1> QED BY <1>3, <1>4 DEF KnownBeyond

\* A step that takes the first event and gives each row a file that is known
\* without it.
LEMMA PopStep ==
    ASSUME Inv, events # <<>>, events' = Tail(events), UNCHANGED <<disk, reverify>>,
           missed \subseteq missed' \cup disk, missed' \subseteq Files,
           row' \in [Tracks -> Row], proc' \in [Procs -> Proc], torn' \subseteq Tracks,
           ProcTracks', SeenTrue', TornNamed',
           \A t \in Tracks : row'[t].path # NoFile =>
               \/ row'[t].path \in missed'
               \/ KnownBeyond(disk \cup missed, events, 1, row'[t].path)
    PROVE  Inv'
<1>1. Len(events) \in Nat /\ 1 \in 1..Len(events)
  BY LengthsAreNumbers, EmptySeq DEF Inv, TypeOK
<1>2. /\ events' \in Seq(Event) /\ Len(events') = Len(events) - 1
      /\ \A j \in 1..Len(events') : events'[j] = events[j + 1]
  BY HeadTailProperties DEF Inv, TypeOK
<1>3. TypeOK'
  BY <1>2 DEF Inv, TypeOK
<1>4. ASSUME NEW t \in Tracks, row'[t].path # NoFile
      PROVE  KnownBeyond(disk' \cup missed', events', 0, row'[t].path)
  <2>1. CASE row'[t].path \in missed'
    BY <2>1 DEF KnownBeyond
  <2>2. CASE KnownBeyond(disk \cup missed, events, 1, row'[t].path)
    <3>1. KnownBeyond(disk' \cup missed', events', 1 - 1, row'[t].path)
      BY <1>1, <2>2, PopKeepsKnown DEF Inv
    <3> QED BY <3>1
  <2> QED BY <1>4, <2>1, <2>2
<1>5. PathsKnown'
  BY <1>4 DEF PathsKnown
<1>6. ASSUME NEW i \in 1..Len(events'), events'[i].kind = "moved"
      PROVE  /\ events'[i].dst \in Files
             /\ KnownBeyond(disk' \cup missed', events', i, events'[i].dst)
  <2>1. i + 1 \in 1..Len(events) /\ (i + 1) - 1 = i /\ events'[i] = events[i + 1]
    BY <1>1, <1>2
  <2>2. /\ events[i + 1].dst \in Files
        /\ KnownBeyond(disk \cup missed, events, i + 1, events[i + 1].dst)
    BY <1>6, <2>1 DEF Inv, MovesKnown
  <2>3. KnownBeyond(disk' \cup missed', events', (i + 1) - 1, events[i + 1].dst)
    BY <2>1, <2>2, PopKeepsKnown DEF Inv
  <2> QED BY <2>1, <2>2, <2>3
<1>7. MovesKnown'
  BY <1>6 DEF MovesKnown
<1> QED BY <1>3, <1>5, <1>7 DEF Inv

\* Without the first event a path is known, unless it is the event's file.
LEMMA KnownWithoutHead ==
    ASSUME Inv, events # <<>>, NEW t \in Tracks, row[t].path # NoFile,
           row[t].path # Head(events).src
    PROVE  KnownBeyond(disk \cup missed, events, 1, row[t].path)
<1>1. Len(events) \in Nat
  BY LengthsAreNumbers DEF Inv
<1>2. KnownBeyond(disk \cup missed, events, 0, row[t].path)
  BY DEF Inv, PathsKnown
<1>3. Head(events) = events[1]
  OBVIOUS
<1>4. ASSUME NEW j \in 1..Len(events), events[j].src = row[t].path
      PROVE  j > 1
  BY <1>1, <1>3, <1>4
<1> QED BY <1>2, <1>4 DEF KnownBeyond

\* The handler commits: one row that names the file gets another path.
LEMMA HandledStep ==
    ASSUME Inv, events # <<>>, events' = Tail(events), UNCHANGED <<disk, reverify>>,
           missed' = IF Shared(Head(events).src) THEN (missed \cup {Head(events).src}) \ disk
                     ELSE missed,
           NEW t \in Tracks, row[t].path = Head(events).src,
           NEW new \in Row, Commit(proc, [row EXCEPT ![t] = new]),
           new.path = NoFile => ~new.down,
           new.path # NoFile => KnownBeyond(disk \cup missed, events, 1, new.path),
           torn' = torn \ {t} \/ (new.path # NoFile /\ torn' = torn)
    PROVE  Inv'
<1> DEFINE rows == [row EXCEPT ![t] = new]
           f == Head(events).src
<1>1. rows \in [Tracks -> Row] /\ rows[t] = new /\ \A s \in Tracks \ {t} : rows[s] = row[s]
  BY DEF Inv, TypeOK
<1>2. Commit(proc, rows)
  OBVIOUS
<1> HIDE DEF rows
<1>3. /\ row' = rows /\ proc' \in [Procs -> Proc] /\ ProcTracks' /\ SeenTrue'
      /\ row' \in [Tracks -> Row]
  BY <1>1, <1>2, OtherCommit DEF Inv
<1>4. f \in Files
  <2>1. Head(events) \in Event
    BY HeadTailProperties DEF Inv, TypeOK
  <2> QED BY <2>1 DEF Event
<1>5. missed' \subseteq Files /\ missed \subseteq missed' \cup disk /\ torn' \subseteq Tracks
  BY <1>4 DEF Inv, TypeOK
<1>6. TornNamed'
  BY <1>1, <1>3 DEF TornNamed, Inv
<1>7. ASSUME NEW s \in Tracks, row'[s].path # NoFile
      PROVE  \/ row'[s].path \in missed'
             \/ KnownBeyond(disk \cup missed, events, 1, row'[s].path)
  <2>1. CASE s = t
    BY <1>1, <1>3, <1>7, <2>1
  <2>2. CASE s # t /\ row[s].path # f
    BY <1>1, <1>3, <1>7, <2>2, KnownWithoutHead
  <2>3. CASE s # t /\ row[s].path = f
    <3>1. Shared(f)
      BY <2>3 DEF Shared
    <3>2. f \in missed' \/ f \in disk
      BY <3>1
    <3> QED BY <1>1, <1>3, <2>3, <3>2 DEF KnownBeyond
  <2> QED BY <2>1, <2>2, <2>3
<1> QED BY <1>3, <1>5, <1>6, <1>7, PopStep

LEMMA WatchInv ==
    ASSUME Inv, Watch
    PROVE  Inv'
<1> DEFINE e == Head(events)
<1>1. events # <<>> /\ events' = Tail(events) /\ UNCHANGED <<disk, reverify>>
  BY DEF Watch
<1>2. /\ Len(events) \in Nat /\ 1 \in 1..Len(events) /\ e = events[1]
      /\ e \in Event /\ e.src \in Files
  <2>1. Len(events) \in Nat /\ 1 \in 1..Len(events)
    BY <1>1, LengthsAreNumbers, EmptySeq DEF Inv, TypeOK
  <2>2. e \in Event
    BY <1>1, HeadTailProperties DEF Inv, TypeOK
  <2> QED BY <2>1, <2>2 DEF Event
<1>3. ASSUME Ignored, missed \subseteq missed' \cup disk, missed' \subseteq Files,
             \A t \in Tracks : row[t].path = e.src => e.src \in missed' \cup disk
      PROVE  Inv'
  <2>1. /\ row' \in [Tracks -> Row] /\ proc' \in [Procs -> Proc] /\ torn' \subseteq Tracks
        /\ row' = row
    BY <1>3 DEF Ignored, Inv, TypeOK
  <2>2. ProcTracks' /\ SeenTrue' /\ TornNamed'
    BY <1>3 DEF Ignored, Inv, ProcTracks, SeenTrue, TornNamed
  <2>3. ASSUME NEW t \in Tracks, row'[t].path # NoFile
        PROVE  \/ row'[t].path \in missed'
               \/ KnownBeyond(disk \cup missed, events, 1, row'[t].path)
    <3>1. CASE row[t].path = e.src
      BY <1>3, <2>1, <3>1 DEF KnownBeyond
    <3>2. CASE row[t].path # e.src
      BY <1>1, <2>1, <2>3, <3>2, KnownWithoutHead
    <3> QED BY <3>1, <3>2
  <2> QED BY <1>1, <1>3, <2>1, <2>2, <2>3, PopStep
<1>4. CASE missed' = (missed \cup {e.src}) \ disk /\ Ignored
  BY <1>2, <1>3, <1>4 DEF Inv, TypeOK
<1>5. CASE missed' = IF Shared(e.src) THEN (missed \cup {e.src}) \ disk ELSE missed
  <2> DEFINE named == {t \in Tracks : row[t].path = e.src}
  <2>1. CASE named = {} /\ Ignored
    <3>1. ~Shared(e.src)
      BY <2>1 DEF Shared
    <3>2. missed' = missed
      BY <1>5, <3>1
    <3> QED BY <1>3, <2>1, <3>2 DEF Inv, TypeOK
  <2>2. ASSUME NEW t \in named, NEW g \in Replacements(t, e.src), Repoint(t, g)
        PROVE  Inv'
    <3> DEFINE new == [row[t] EXCEPT !.path = g, !.down = TRUE]
    <3>1. g \in disk /\ g \in Files /\ t \in Tracks /\ row[t] \in Row
      BY <2>2 DEF Replacements, Inv, TypeOK
    <3>2. new \in Row /\ new.path = g
      BY <3>1 DEF Row
    <3>3. Commit(proc, [row EXCEPT ![t] = new]) /\ torn' = torn \ {t}
      BY <2>2, <3>1 DEF Repoint, Inv, TypeOK
    <3>4. g # NoFile /\ KnownBeyond(disk \cup missed, events, 1, g)
      BY <3>1, NoFileIsNone DEF KnownBeyond
    <3> HIDE DEF new
    <3> QED BY <1>1, <1>5, <3>1, <3>2, <3>3, <3>4, HandledStep
  <2>3. ASSUME NEW t \in named, MarkMissing(t)
        PROVE  Inv'
    <3> DEFINE new == [row[t] EXCEPT !.path = NoFile, !.down = FALSE]
    <3>1. t \in Tracks /\ row[t] \in Row
      BY DEF Inv, TypeOK
    <3>2. new \in Row /\ new.path = NoFile /\ ~new.down
      BY <3>1 DEF Row
    <3>3. Commit(proc, [row EXCEPT ![t] = new]) /\ torn' = torn \ {t}
      BY <2>3, <3>1 DEF MarkMissing, Inv, TypeOK
    <3> HIDE DEF new
    <3> QED BY <1>1, <1>5, <3>1, <3>2, <3>3, HandledStep
  <2>4. ASSUME NEW t \in named, e.kind = "moved",
               Commit(proc, [row EXCEPT ![t].path = e.dst]), UNCHANGED torn
        PROVE  Inv'
    <3> DEFINE new == [row[t] EXCEPT !.path = e.dst]
    <3>1. t \in Tracks /\ row[t] \in Row
      BY DEF Inv, TypeOK
    <3>2. e.dst \in Files /\ KnownBeyond(disk \cup missed, events, 1, e.dst)
      BY <1>2, <2>4 DEF Inv, MovesKnown
    <3>3. new \in Row /\ new.path = e.dst
      BY <3>1, <3>2 DEF Row
    <3>4. Commit(proc, [row EXCEPT ![t] = new])
      BY <2>4, <3>1 DEF Inv, TypeOK
    <3>5. e.dst # NoFile
      BY <3>2, NoFileIsNone
    <3> HIDE DEF new
    <3> QED BY <1>1, <1>5, <2>4, <3>1, <3>2, <3>3, <3>4, <3>5, HandledStep
  <2>5. CASE HandleDeleted(e.src)
    BY <2>1, <2>2, <2>3, <2>5 DEF HandleDeleted
  <2>6. CASE e.kind = "moved" /\ HandleMoved(e.src, e.dst)
    BY <2>1, <2>4, <2>6 DEF HandleMoved
  <2>7. HandleDeleted(e.src) \/ (e.kind = "moved" /\ HandleMoved(e.src, e.dst)) \/
        (missed' = (missed \cup {e.src}) \ disk /\ Ignored)
    BY DEF Watch
  <2> QED BY <1>4, <2>5, <2>6, <2>7
<1> QED BY <1>4, <1>5 DEF Watch

-----------------------------------------------------------------------------
(* The specification.                                                      *)

LEMMA InitInv ==
    ASSUME Init
    PROVE  Inv
<1>1. Missing \in Row /\ Idle \in Proc /\ Idle.pc = "idle" /\ Missing.path = NoFile /\ ~Missing.down
  BY RowTypes, IdleTypes DEF Missing
<1>2. events \in Seq(Event) /\ Len(events) = 0
  BY EmptySeq DEF Init
<1>3. TypeOK
  BY <1>1, <1>2 DEF Init, TypeOK
<1>4. PathsKnown /\ MovesKnown /\ TornNamed
  BY <1>1, <1>2 DEF Init, PathsKnown, MovesKnown, TornNamed
<1>5. ProcTracks /\ SeenTrue
  BY <1>1 DEF Init, ProcTracks, SeenTrue
<1> QED BY <1>3, <1>4, <1>5 DEF Inv

LEMMA StepInv ==
    ASSUME Inv, [Next]_vars
    PROVE  Inv'
<1>1. CASE UNCHANGED vars
  <2>1. Announced
    BY <1>1, AnnouncedUnchanged DEF Inv, vars
  <2>2. reverify' \in Tracks \cup {NoTrack} /\ UNCHANGED <<row, proc, torn>>
    BY <1>1 DEF Inv, TypeOK, vars
  <2> QED BY <2>1, <2>2, FileStep
<1>2. CASE Download
  BY <1>2, StartInv, FinishInv, FinishUnrecordedInv, FailInv, CleanupInv DEF Download
<1>3. CASE Watch
  BY <1>3, WatchInv
<1>4. CASE \E f \in Files : UserDelete(f) \/ UserMove(f)
  BY <1>4, UserDeleteInv, UserMoveInv
<1>5. CASE \E t \in Tracks : DeleteTrack(t) \/ ReverifyTrack(t)
  BY <1>5, DeleteTrackInv, ReverifyInv
<1>6. CASE ReverifyPassed \/ ReverifyFlagged
  BY <1>6, ReverifyInv, ReverifyFlaggedInv
<1>7. CASE ImportScan \/ Crash
  BY <1>7, ImportScanInv, CrashInv
<1> QED BY <1>1, <1>2, <1>3, <1>4, <1>5, <1>6, <1>7 DEF Next

LEMMA InvAlways == Spec => []Inv
<1>1. Init => Inv
  BY InitInv
<1>2. Inv /\ [Next]_vars => Inv'
  BY StepInv
<1> QED BY <1>1, <1>2, PTL DEF Spec

\* The variables keep their types, whatever the futures, the watcher, the
\* handlers and the other processes do to the files and the rows.
THEOREM TypeCorrect == Spec => []TypeOK
<1>1. Inv => TypeOK
  BY DEF Inv
<1> QED BY <1>1, InvAlways, PTL

\* A track shown as downloaded has its file, or the event that tells the
\* program otherwise is still to come, or was dropped; or a future flushed
\* over a change its session had missed, and the row has no path.
THEOREM DiskIsFollowed == Spec => []DiskFollows
<1>1. Inv => DiskFollows
  <2> SUFFICES ASSUME Inv, NEW t \in Tracks, row[t].down
               PROVE  \/ row[t].path \in disk \cup missed
                      \/ Pending(row[t].path)
                      \/ row[t].path = NoFile /\ t \in torn
    BY DEF DiskFollows
  <2>1. CASE row[t].path = NoFile
    BY <2>1 DEF Inv, TornNamed
  <2>2. CASE row[t].path # NoFile
    <3>1. KnownBeyond(disk \cup missed, events, 0, row[t].path)
      BY <2>2 DEF Inv, PathsKnown
    <3>2. DOMAIN events = 1..Len(events)
      BY LengthsAreNumbers DEF Inv
    <3> QED BY <3>1, <3>2 DEF KnownBeyond, Pending
  <2> QED BY <2>1, <2>2
<1> QED BY <1>1, InvAlways, PTL

=============================================================================
