------------------------------- MODULE Library -------------------------------
(***************************************************************************)
(* One album directory of the library: the audio files and the columns of  *)
(* tracks that name them.                                                  *)
(*                                                                         *)
(* Its writers are the ends of downloads and of manual matches             *)
(* (services/queue_service.py), the folder watcher                         *)
(* (services/watcher_service.py), the handlers that delete tracks          *)
(* (app.py), re-verification in a process of its own                       *)
(* (scripts/reverify_library.py) and the file matching of an import        *)
(* (services/import_service.py).  The user deletes and renames files       *)
(* behind the program's back.                                              *)
(*                                                                         *)
(* As in DownloadQueue a stretch without a network call is one step, and a *)
(* session flushes the columns that differ from the values it loaded.      *)
(***************************************************************************)
EXTENDS Integers, Sequences, FiniteSets, SequencesExt, FiniteSetsExt

CONSTANTS
    Tracks, NoTrack,
    Num, Disc,          \* track_number and disc_number, functions on Tracks
    Formats,            \* suffixes
    Delivered,          \* the suffixes in which providers have each track
    Jobs, Matches,      \* futures of the pool and manual matches
    MaxEvents,          \* bound: file system events that wait at a time
    Requests            \* what users and the environment do in an instance

RequestKinds == {"userDelete", "userMove", "delete", "reverify",
                 "import", "maintenance", "lockedDb", "crash"}

ASSUME LibNoTrack == NoTrack \notin Tracks
ASSUME LibPositions == Num \in [Tracks -> Nat \ {0}] /\ Disc \in [Tracks -> Nat \ {0}]
ASSUME LibActors == Jobs \cap Matches = {}
ASSUME LibFinite == IsFiniteSet(Tracks) /\ IsFiniteSet(Formats)
ASSUME LibFormats == "renamed" \notin Formats /\ Delivered \in [Tracks -> SUBSET Formats]
ASSUME LibRequests == Requests \subseteq RequestKinds

VARIABLES
    disk,         \* audio files of the directory
    row,          \* the columns of tracks
    events,       \* what the observer has queued for the handler
    proc,         \* the futures and manual matches, with what they loaded
    reverify,     \* the track re-verification is asking a provider about
    missed,       \* history: missing files whose events nobody will handle
    torn          \* history: tracks flushed over a change the session missed

vars == <<disk, row, events, proc, reverify, missed, torn>>

Procs == Jobs \cup Matches

\* A file is named after the track whose title it carries; a download names
\* it "[disc-]NN. title.suffix", a user may drop the position.
Files == Tracks \X (Formats \cup {"renamed"})
NoFile == <<NoTrack, "none">>

\* is_downloaded and local_path.
Row == [down : BOOLEAN, path : Files \cup {NoFile}]
Missing == [down |-> FALSE, path |-> NoFile]

\* chain: between loading the row and the commit; tail: between the commit
\* and the cleanup.  seen is the row the session loaded unless fresh says that
\* it will be read again; stale, that the table has changed since.
Proc == [pc : {"idle", "chain", "tail"}, track : Tracks \cup {NoTrack},
         seen : Row, fresh : BOOLEAN, stale : BOOLEAN, dest : Files \cup {NoFile}]
Idle == [pc |-> "idle", track |-> NoTrack, seen |-> Missing, fresh |-> TRUE,
         stale |-> FALSE, dest |-> NoFile]

Event == [kind : {"deleted", "moved"}, src : Files, dst : Files \cup {NoFile}]
Deleted(f) == [kind |-> "deleted", src |-> f, dst |-> NoFile]
Moved(f, g) == [kind |-> "moved", src |-> f, dst |-> g]

TypeOK ==
    /\ disk \subseteq Files
    /\ row \in [Tracks -> Row]
    /\ events \in Seq(Event)
    /\ proc \in [Procs -> Proc]
    /\ reverify \in Tracks \cup {NoTrack}
    /\ missed \subseteq Files
    /\ torn \subseteq Tracks

\* startswith("NN. ") or startswith(disc_prefix + "NN. "): the names that the
\* cleanup and the watcher take for files of the position of t.
AtPosition(t, f) ==
    /\ f[2] # "renamed"
    /\ Num[f[1]] = Num[t]
    /\ Disc[f[1]] \in {1, Disc[t]}

-----------------------------------------------------------------------------
(* A commit that changes a row makes the copies of other sessions stale.   *)

Commit(procs, rows) ==
    /\ row' = rows
    /\ proc' = [p \in Procs |->
                  IF procs[p].pc # "chain" THEN procs[p]
                  ELSE LET t == procs[p].track
                       IN  [procs[p] EXCEPT !.stale = @ \/ (~procs[p].fresh /\ rows[t] # row[t])]]

-----------------------------------------------------------------------------
(* Downloads and manual matches.                                           *)

\* A future loads its track.  When the ISRC lookup committed, it is read again
\* at the end.
StartJob(p, t) ==
    /\ p \in Jobs
    /\ proc[p].pc = "idle"
    /\ \/ proc' = [proc EXCEPT ![p] =
                     [Idle EXCEPT !.pc = "chain", !.track = t, !.seen = row[t], !.fresh = FALSE]]
       \/ proc' = [proc EXCEPT ![p] = [Idle EXCEPT !.pc = "chain", !.track = t]]
    /\ UNCHANGED <<disk, row, events, reverify, missed, torn>>

\* A manual match commits "downloading": the track is read again at the end.
StartMatch(p, t) ==
    /\ p \in Matches
    /\ proc[p].pc = "idle"
    /\ proc' = [proc EXCEPT ![p] =
                    [Idle EXCEPT !.pc = "chain", !.track = t]]
    /\ UNCHANGED <<disk, row, events, reverify, missed, torn>>

\* Failed, rejected or cancelled: nothing of this module changes.
Fail(p) ==
    /\ proc[p].pc = "chain"
    /\ proc' = [proc EXCEPT ![p] = Idle]
    /\ UNCHANGED <<disk, row, events, reverify, missed, torn>>

\* What the table holds after the flush, column by column.
FlushedRow(base, new, current) ==
    [down |-> IF new.down = base.down THEN current.down ELSE new.down,
     path |-> IF new.path = base.path THEN current.path ELSE new.path]

\* Removing files appends their events in some order.
Unlink(gone, from) ==
    /\ disk' = from \ gone
    /\ Len(events) + Cardinality(gone) <= MaxEvents
    /\ \E q \in SetToSeqs({Deleted(f) : f \in gone}) : events' = events \o q
    /\ missed' = missed \ disk'

\* The other files of the position, after the commit.
Superseded(t, dest, files) == {f \in files : f # dest /\ AtPosition(t, f)}

\* Mutant: the suffix is lost.
FinalNameBare(t, f) == <<t, "none">>

FinalName(t, f) == <<t, f>>

\* The file is moved or copied (deduplication) into place, the rows are
\* committed; a manual match cleans up at once, a future after its events.
Finish(p, f) ==
    LET t == proc[p].track
        dest == FinalName(t, f)
        base == IF proc[p].fresh THEN row[t] ELSE proc[p].seen
        new == [down |-> TRUE, path |-> dest]
    IN  /\ proc[p].pc = "chain"
        /\ f \in Delivered[t]
        /\ Commit([proc EXCEPT ![p] = IF p \in Jobs
                                      THEN [Idle EXCEPT !.pc = "tail", !.track = t, !.dest = dest]
                                      ELSE Idle],
                  [row EXCEPT ![t] = FlushedRow(base, new, @)])
        /\ IF p \in Jobs
           THEN /\ disk' = disk \cup {dest}
                /\ missed' = missed \ {dest}
                /\ UNCHANGED events
           ELSE Unlink(Superseded(t, dest, disk), disk \cup {dest})
        /\ torn' = IF proc[p].stale THEN torn \cup {t} ELSE torn \ {t}
    /\ UNCHANGED reverify

Cleanup(p) ==
    /\ proc[p].pc = "tail"
    /\ Unlink(Superseded(proc[p].track, proc[p].dest, disk), disk)
    /\ proc' = [proc EXCEPT ![p] = Idle]
    /\ UNCHANGED <<row, reverify, torn>>

\* The commit raises or the process dies after the file was put in place.
FinishUnrecorded(p, f) ==
    /\ "lockedDb" \in Requests
    /\ proc[p].pc = "chain"
    /\ f \in Delivered[proc[p].track]
    /\ disk' = disk \cup {FinalName(proc[p].track, f)}
    /\ missed' = missed \ disk'
    /\ proc' = [proc EXCEPT ![p] = Idle]
    /\ UNCHANGED <<row, events, reverify, torn>>

Download ==
    \E p \in Procs :
        \/ \E t \in Tracks : StartJob(p, t) \/ StartMatch(p, t)
        \/ \E f \in Formats :
              \/ Finish(p, f)
              \/ FinishUnrecorded(p, f)
        \/ Fail(p)
        \/ Cleanup(p)

-----------------------------------------------------------------------------
(* The folder watcher: the handler takes one event at a time.              *)

Ignored == UNCHANGED <<row, proc, torn>>

\* _find_replacement: the same file if it exists again, or one whose name has
\* the position or the title of the track.
Replacements(t, f) ==
    IF f \in disk THEN {f} ELSE {g \in disk : AtPosition(t, g) \/ g[1] = t}

Repoint(t, g) ==
    /\ Commit(proc, [row EXCEPT ![t].path = g, ![t].down = TRUE])
    /\ torn' = torn \ {t}

\* Mutant: the flag is left.
MarkPathless(t) ==
    /\ Commit(proc, [row EXCEPT ![t].path = NoFile])
    /\ torn' = torn \ {t}

MarkMissing(t) ==
    /\ Commit(proc, [row EXCEPT ![t].path = NoFile, ![t].down = FALSE])
    /\ torn' = torn \ {t}

HandleDeleted(f) ==
    LET named == {t \in Tracks : row[t].path = f}
    IN  \/ named = {} /\ Ignored
        \/ \E t \in named :
              \/ \E g \in Replacements(t, f) : Repoint(t, g)
              \/ Replacements(t, f) = {} /\ MarkMissing(t)

\* Mutant: only deletions are handled.
IgnoreMoved(f, g) == Ignored

HandleMoved(f, g) ==
    LET named == {t \in Tracks : row[t].path = f}
    IN  \/ named = {} /\ Ignored
        \/ \E t \in named :
              /\ Commit(proc, [row EXCEPT ![t].path = g])
              /\ UNCHANGED torn

\* An event that is taken while run_maintenance.py holds its lock is dropped;
\* so is one whose commit raises.  Of two rows that name the file, one is seen.
Shared(f) == \E s, t \in Tracks : s # t /\ row[s].path = f /\ row[t].path = f

Watch ==
    /\ events # <<>>
    /\ events' = Tail(events)
    /\ LET e == Head(events)
       IN  \/ /\ {"maintenance", "lockedDb"} \cap Requests # {}
              /\ missed' = (missed \cup {e.src}) \ disk
              /\ Ignored
           \/ /\ missed' = IF Shared(e.src) THEN (missed \cup {e.src}) \ disk ELSE missed
              /\ \/ e.kind = "deleted" /\ HandleDeleted(e.src)
                 \/ e.kind = "moved" /\ HandleMoved(e.src, e.dst)
    /\ UNCHANGED <<disk, reverify>>

-----------------------------------------------------------------------------
(* Users, handlers and the other processes.                                *)

UserDelete(f) ==
    /\ "userDelete" \in Requests
    /\ f \in disk
    /\ Unlink({f}, disk)
    /\ UNCHANGED <<row, proc, reverify, torn>>

\* The user drops the position from the name and keeps the title.
UserMove(f) ==
    LET g == <<f[1], "renamed">>
    IN  /\ "userMove" \in Requests
        /\ f \in disk /\ g \notin disk
        /\ Len(events) < MaxEvents
        /\ disk' = (disk \ {f}) \cup {g}
        /\ events' = Append(events, Moved(f, g))
        /\ missed' = missed \ disk'
    /\ UNCHANGED <<row, proc, reverify, torn>>

\* DELETE /api/track and the "delete" answer to a caution flag.
DeleteTrack(t) ==
    /\ "delete" \in Requests
    /\ \E withFile \in BOOLEAN :
          IF withFile /\ row[t].path \in disk THEN Unlink({row[t].path}, disk)
          ELSE UNCHANGED <<disk, events, missed>>
    /\ Commit(proc, [row EXCEPT ![t] = Missing])
    /\ torn' = torn \ {t}
    /\ UNCHANGED reverify

\* Re-verification takes the downloaded tracks whose file exists, asks a
\* provider for the official duration, and flags the ones that differ.
ReverifyTrack(t) ==
    /\ "reverify" \in Requests
    /\ reverify = NoTrack
    /\ row[t].down /\ row[t].path \in disk
    /\ reverify' = t
    /\ UNCHANGED <<disk, row, events, proc, missed, torn>>

ReverifyPassed ==
    /\ reverify # NoTrack
    /\ reverify' = NoTrack
    /\ UNCHANGED <<disk, row, events, proc, missed, torn>>

ReverifyFlagged ==
    /\ reverify # NoTrack
    /\ Commit(proc, [row EXCEPT ![reverify].down = FALSE])
    /\ reverify' = NoTrack
    /\ UNCHANGED <<disk, events, missed, torn>>

\* The file matching of an import: a track with a file of its title gets it
\* unless it already names a file that exists.
ImportScan ==
    LET files(t) == {f \in disk : f[1] = t}
        found == {t \in Tracks : files(t) # {} /\ (row[t].down => row[t].path \notin disk)}
    IN  /\ "import" \in Requests
        /\ \E pick \in [found -> disk] :
              /\ \A t \in found : pick[t][1] = t
              /\ Commit(proc, [t \in Tracks |->
                                IF t \in found
                                THEN [row[t] EXCEPT !.down = TRUE, !.path = pick[t]]
                                ELSE row[t]])
        /\ torn' = torn \ found
        /\ UNCHANGED <<disk, events, reverify, missed>>

\* The process dies with everything it held, the waiting events included.
Crash ==
    /\ "crash" \in Requests
    /\ proc' = [p \in Procs |-> Idle]
    /\ events' = <<>>
    /\ missed' = (missed \cup {events[i].src : i \in DOMAIN events}) \ disk
    /\ reverify' = NoTrack
    /\ UNCHANGED <<disk, row, torn>>

-----------------------------------------------------------------------------

Init ==
    /\ disk = {}
    /\ row = [t \in Tracks |-> Missing]
    /\ events = <<>>
    /\ proc = [p \in Procs |-> Idle]
    /\ reverify = NoTrack
    /\ missed = {}
    /\ torn = {}

Next ==
    \/ Download
    \/ Watch
    \/ \E f \in Files : UserDelete(f) \/ UserMove(f)
    \/ \E t \in Tracks :
          DeleteTrack(t) \/ ReverifyTrack(t)
    \/ ReverifyPassed
    \/ ReverifyFlagged
    \/ ImportScan
    \/ Crash

\* The thread of the observer delivers what is queued.
Spec == Init /\ [][Next]_vars /\ WF_vars(Watch)

-----------------------------------------------------------------------------

Pending(f) == \E i \in DOMAIN events : events[i].src = f

\* A track shown as downloaded has its file, or the event that tells the
\* program otherwise is waiting, or was dropped, or reached another row that
\* names the same file; the one other way is a future that flushed over a
\* change it had missed, and then the row has no path at all.
DiskFollows ==
    \A t \in Tracks : row[t].down =>
        \/ row[t].path \in disk \cup missed
        \/ Pending(row[t].path)
        \/ row[t].path = NoFile /\ t \in torn

\* A row that names a file that is gone is put right, unless the event was
\* dropped or lost.
DeletionNoticed ==
    \A t \in Tracks, f \in Files :
        (row[t].path = f /\ f \notin disk)
            ~> (row[t].path # f \/ f \in disk \cup missed)

\* "Clean up superseded files for this exact track position"
\* (services/queue_service.py, above the loop): the cleanup after a download
\* leaves the file of every other position alone.
CleanupKeepsOthers ==
    [][\A p \in Jobs : Cleanup(p) =>
          \A t \in Tracks \ {proc[p].track} : row[t].path \in disk => row[t].path \in disk']_vars

=============================================================================
