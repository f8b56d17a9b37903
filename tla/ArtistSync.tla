----------------------------- MODULE ArtistSync ------------------------------
(***************************************************************************)
(* The discography sync of app.py with its scheduler, the artist requests  *)
(* that start it or run beside it, the choice of a provider by             *)
(* services/metadata_service.py and the counters of                        *)
(* services/counters_service.py.                                           *)
(*                                                                         *)
(* A sync commits "syncing", asks the providers, which takes minutes, and  *)
(* does all the rest in one go and one commit.  Between the two anything   *)
(* can happen to the artist, and the Artist object the sync goes on with   *)
(* is the one it read at the start.  Every album has one track.            *)
(***************************************************************************)
EXTENDS Integers, FiniteSets

CONSTANTS
    Artists,        \* ids, which SQLite uses again after a deletion
    Ids,            \* external ids of artists
    Catalog,        \* what the providers know: releases of an external id
    Releases,
    Providers,      \* that ever served an artist
    Enabled,        \* that answer now
    None,           \* NULL
    Imported,       \* artists the folder import made, one track downloaded
    Tasks,          \* bound: background tasks at one time
    MaxSyncs,       \* _MAX_CONCURRENT_SYNCS
    MaxEvents       \* bound: requests, faults and passages of time

ASSUME SyncCatalog == Catalog \in [Ids -> (SUBSET Releases) \ {{}}]
ASSUME SyncNone == None \notin Providers \cup Ids
ASSUME SyncEnabled == Enabled \subseteq Providers
ASSUME SyncFinite == \A S \in {Artists, Providers, Releases, Tasks} : IsFiniteSet(S)
ASSUME SyncImported == Imported \subseteq Artists
ASSUME SyncBounds == MaxSyncs \in Nat \ {0} /\ MaxEvents \in Nat

VARIABLES
    artist,       \* table artists
    album,        \* tables albums and tracks
    queued,       \* albums whose track has a queued job
    download,     \* the track being downloaded, and the counter its Artist had
    task,         \* background syncs
    running,      \* _running_artist_syncs
    plan,         \* the scheduler's artists_to_sync
    orphaned,     \* history: the sync that set "syncing" died
    events        \* how many of the bounded events there were

vars == <<artist, album, queued, download, task, running, plan, orphaned, events>>

Served == Providers \cup {None}
Albums == [artist : Artists, provider : Served, release : Releases]

Artist ==
    [there : BOOLEAN, id : Ids, provider : Served, status : {"ready", "syncing", "error"},
     recent : BOOLEAN,        \* last_synced_at is younger than the interval
     monitored : BOOLEAN, auto : BOOLEAN, total : Nat, down : Nat]

Idle == [pc |-> "idle"]
Sync == [pc : {"begin", "fetch"}, artist : Artists, id : Ids, bounded : BOOLEAN,
         provider : Served, total : Nat, down : Nat]
NoDownload == [album |-> None]

TypeOK ==
    /\ artist \in [Artists -> Artist]
    /\ album \in [Albums -> {"none", "missing", "downloaded"}]
    /\ queued \subseteq Albums
    /\ download \in [album : Albums, seen : Nat] \cup {NoDownload}
    /\ task \in [Tasks -> Sync \cup {Idle}]
    /\ running \in Nat
    /\ plan \in [Artists -> Ids \cup {None}]
    /\ orphaned \in [Artists -> BOOLEAN]
    /\ events \in 0..MaxEvents

-----------------------------------------------------------------------------
(* Counters.                                                               *)

Of(a, rows) == {k \in Albums : k.artist = a /\ rows[k] # "none"}
Downloaded(a, rows) == {k \in Of(a, rows) : rows[k] = "downloaded"}

\* A value that equals the one the session read is not written.
Written(new, seen, current) == IF new = seen THEN current ELSE new

\* recompute_artist on an Artist object that was read when its counters were
\* those of `seen`.
Recomputed(row, seen, rows) ==
    [row EXCEPT !.total = Written(Cardinality(Of(seen.artist, rows)), seen.total, @),
                !.down = Written(Cardinality(Downloaded(seen.artist, rows)), seen.down, @)]

\* Mutant: the floor is left out.
MinusOneUnfloored(n) == n - 1

MinusOne(n) == IF n = 0 THEN 0 ELSE n - 1

-----------------------------------------------------------------------------
(* Background tasks.                                                       *)

Event == events < MaxEvents /\ events' = events + 1

\* The first slot that is free.
Started(a, id, bounded) ==
    \E t \in Tasks :
        /\ task[t] = Idle
        /\ task' = [task EXCEPT ![t] =
              [pc |-> "begin", artist |-> a, id |-> id, bounded |-> bounded,
               provider |-> None, total |-> 0, down |-> 0]]

\* Mutant: the slot is given back by a sync that came to its fetch only.
EndedAfterFetch(t) ==
    /\ task' = [task EXCEPT ![t] = Idle]
    /\ running' = IF task[t].bounded /\ task[t].pc = "fetch" THEN running - 1 ELSE running

\* The finally clause of a bounded sync.
Ended(t) ==
    /\ task' = [task EXCEPT ![t] = Idle]
    /\ running' = IF task[t].bounded THEN running - 1 ELSE running

\* The commit of "syncing" is outside the try block.
Begin(t) ==
    LET a == task[t].artist
    IN  /\ task[t].pc = "begin"
        /\ \/ /\ artist[a].there
              /\ artist' = [artist EXCEPT ![a].status = "syncing"]
              /\ orphaned' = [orphaned EXCEPT ![a] = FALSE]
              /\ task' = [task EXCEPT ![t].pc = "fetch", ![t].provider = artist[a].provider,
                                      ![t].total = artist[a].total, ![t].down = artist[a].down]
              /\ UNCHANGED <<running, events>>
           \/ /\ ~artist[a].there
              /\ Ended(t)
              /\ UNCHANGED <<artist, orphaned, events>>
           \/ /\ Event
              /\ Ended(t)
              /\ orphaned' = [orphaned EXCEPT ![a] = artist[a].status = "syncing"]
              /\ UNCHANGED artist
        /\ UNCHANGED <<album, queued, download, plan>>

\* The chain of artist.discography: the first provider with albums, or the
\* empty shape, also when none is enabled or every call failed.
Answers(id) ==
    [by : Enabled, releases : (SUBSET Catalog[id]) \ {{}}] \cup {[by |-> None, releases |-> {}]}

\* Rows are matched within the namespace of the provider.
Inserted(a, answer, rows) ==
    [k \in Albums |->
        IF /\ k.artist = a /\ k.provider = answer.by /\ k.release \in answer.releases
           /\ rows[k] = "none"
        THEN "missing" ELSE rows[k]]

Stale(k, answer) ==
    \/ k.release \notin answer.releases
    \/ answer.by # None /\ k.provider \notin {None, answer.by}

\* Mutant: a downloaded album is not spared.
PrunableAlways(a, answer, rows) == {k \in Of(a, rows) : Stale(k, answer)}

Prunable(a, answer, rows) ==
    {k \in Of(a, rows) : Stale(k, answer) /\ rows[k] # "downloaded"}

\* Two artists may not have the same provider and external id.
Conflict(a, by, id) ==
    /\ by # None
    /\ \E b \in Artists \ {a} : artist[b].there /\ artist[b].provider = by /\ artist[b].id = id

\* Mutant: an empty discography is not recorded.
StatusAfterAlbums(answer) == IF answer.releases = {} THEN "syncing" ELSE "ready"

StatusAfter(answer) == "ready"

\* Mutant: the counters are computed before the stale albums are pruned.
CountersBeforePrune(row, seen, inserted, pruned) == Recomputed(row, seen, inserted)

\* After inserts and prunes.
CountersAfter(row, seen, inserted, pruned) == Recomputed(row, seen, pruned)

\* The artist as the sync commits it.
SyncedArtist(t, answer, inserted, pruned) ==
    LET a == task[t].artist
        row == CountersAfter(artist[a], task[t], inserted, pruned)
    IN  [row EXCEPT !.provider = IF answer.by = None THEN @ ELSE Written(answer.by, task[t].provider, @),
                    !.status = StatusAfter(answer), !.recent = TRUE]

\* queue_artist_missing
Missing(a, row, rows) ==
    IF row.auto /\ row.monitored THEN {k \in Of(a, rows) : rows[k] = "missing"} ELSE {}

Finish(t) ==
    LET a == task[t].artist
        moves(answer) == answer.by # None /\ answer.by # task[t].provider
    IN  /\ task[t].pc = "fetch"
        /\ artist[a].there
        /\ Ended(t)
        /\ UNCHANGED <<plan, orphaned, events>>
        /\ \E answer \in Answers(task[t].id) :
              LET inserted == Inserted(a, answer, album)
                  gone == Prunable(a, answer, inserted)
                  pruned == [k \in Albums |-> IF k \in gone THEN "none" ELSE inserted[k]]
              IN  /\ ~(moves(answer) /\ Conflict(a, answer.by, artist[a].id))
                  /\ album' = pruned
                  /\ artist' = [artist EXCEPT ![a] = SyncedArtist(t, answer, inserted, pruned)]
                  /\ queued' = (queued \ gone) \cup Missing(a, artist[a], pruned)
                  /\ download' = IF download.album \in gone THEN NoDownload ELSE download

\* The commit fails, and the except clause records it.
FinishFails(t) ==
    LET a == task[t].artist
    IN  /\ task[t].pc = "fetch"
        /\ artist[a].there
        /\ Event
        /\ Ended(t)
        /\ artist' = [artist EXCEPT ![a].status = "error"]
        /\ UNCHANGED <<album, queued, download, plan, orphaned>>

\* A flush fails: the database is locked, the artist is gone, or another
\* artist has the identity the provider gives to this one.  The except clause
\* queries the session that now needs a rollback, and raises.
FinishDies(t) ==
    LET a == task[t].artist
    IN  /\ task[t].pc = "fetch"
        /\ Ended(t)
        /\ \/ ~artist[a].there /\ UNCHANGED events
           \/ /\ \E answer \in Answers(task[t].id) :
                    answer.by # task[t].provider /\ Conflict(a, answer.by, artist[a].id)
              /\ UNCHANGED events
           \/ Event
        /\ orphaned' = [orphaned EXCEPT ![a] = artist[a].status = "syncing"]
        /\ UNCHANGED <<artist, album, queued, download, plan>>

-----------------------------------------------------------------------------
(* The scheduler: the artists that are due are listed, then started one    *)
(* every three seconds.                                                    *)

\* Mutant: an artist whose sync failed is left alone.
DueIfReady(a) ==
    artist[a].there /\ artist[a].monitored /\ artist[a].status = "ready" /\ ~artist[a].recent

Due(a) == artist[a].there /\ artist[a].monitored /\ artist[a].status # "syncing" /\ ~artist[a].recent

List ==
    /\ \A a \in Artists : plan[a] = None
    /\ \E a \in Artists : Due(a)
    /\ plan' = [a \in Artists |-> IF Due(a) THEN artist[a].id ELSE None]
    /\ UNCHANGED <<artist, album, queued, download, task, running, orphaned, events>>

\* _start_bounded_artist_sync
StartBounded(a) ==
    /\ plan[a] # None
    /\ plan' = [plan EXCEPT ![a] = None]
    /\ \/ running >= MaxSyncs /\ UNCHANGED <<task, running>>
       \/ running < MaxSyncs /\ Started(a, plan[a], TRUE) /\ running' = running + 1
    /\ UNCHANGED <<artist, album, queued, download, orphaned, events>>

\* discography_interval_hours have passed.
Elapse(a) ==
    /\ Event
    /\ artist[a].recent
    /\ artist' = [artist EXCEPT ![a].recent = FALSE]
    /\ UNCHANGED <<album, queued, download, task, running, plan, orphaned>>

-----------------------------------------------------------------------------
(* Requests.                                                               *)

NewArtist(id, by, auto) ==
    [there |-> TRUE, id |-> id, provider |-> by, status |-> "syncing", recent |-> FALSE,
     monitored |-> TRUE, auto |-> auto, total |-> 0, down |-> 0]

\* The placeholder is committed as "syncing" and its sync started.  Without a
\* provider any artist with the external id is taken for the same one.
AddArtist(a, id, by, auto) ==
    /\ Event
    /\ ~artist[a].there
    /\ \A b \in Artists : artist[b].there => artist[b].id # id \/ (by # None /\ artist[b].provider # by)
    /\ artist' = [artist EXCEPT ![a] = NewArtist(id, by, auto)]
    /\ orphaned' = [orphaned EXCEPT ![a] = FALSE]
    /\ Started(a, id, FALSE)
    /\ UNCHANGED <<album, queued, download, running, plan>>

SyncNow(a) ==
    /\ Event
    /\ artist[a].there
    /\ Started(a, artist[a].id, FALSE)
    /\ UNCHANGED <<artist, album, queued, download, running, plan, orphaned>>

SetExternalId(a, id, by) ==
    LET provider == IF by = None THEN artist[a].provider ELSE by
    IN  /\ Event
        /\ artist[a].there
        /\ ~Conflict(a, provider, id)
        /\ artist' = [artist EXCEPT ![a].id = id, ![a].provider = provider]
        /\ Started(a, id, FALSE)
        /\ UNCHANGED <<album, queued, download, running, plan, orphaned>>

Monitor(a, monitored, auto) ==
    /\ Event
    /\ artist[a].there
    /\ artist' = [artist EXCEPT ![a].monitored = monitored, ![a].auto = auto]
    /\ UNCHANGED <<album, queued, download, task, running, plan, orphaned>>

Drop(ks) ==
    /\ album' = [k \in Albums |-> IF k \in ks THEN "none" ELSE album[k]]
    /\ queued' = queued \ ks
    /\ download' = IF download.album \in ks THEN NoDownload ELSE download

DeleteArtist(a) ==
    /\ Event
    /\ artist[a].there
    /\ artist' = [artist EXCEPT ![a].there = FALSE]
    /\ Drop(Of(a, album))
    /\ UNCHANGED <<task, running, plan, orphaned>>

\* The counters of the artist are left as they are.
DeleteAlbum(k) ==
    /\ Event
    /\ album[k] # "none"
    /\ Drop({k})
    /\ UNCHANGED <<artist, task, running, plan, orphaned>>

\* DELETE /api/track: one less, whether the track was downloaded or not.
DeleteTrack(k) ==
    /\ Event
    /\ album[k] # "none"
    /\ album' = [album EXCEPT ![k] = "missing"]
    /\ artist' = [artist EXCEPT ![k.artist].down = MinusOne(@)]
    /\ UNCHANGED <<queued, download, task, running, plan, orphaned>>

DownloadAlbum(k) ==
    /\ Event
    /\ album[k] = "missing"
    /\ queued' = queued \cup {k}
    /\ UNCHANGED <<artist, album, download, task, running, plan, orphaned>>

-----------------------------------------------------------------------------
(* The download queue, as far as it touches artists: JobQueue and          *)
(* DownloadQueue have the rest.                                            *)

DownloadStart(k) ==
    /\ k \in queued
    /\ download = NoDownload
    /\ download' = [album |-> k, seen |-> artist[k.artist].down]
    /\ UNCHANGED <<artist, album, queued, task, running, plan, orphaned, events>>

\* on_track_downloaded adds one to the counter of the Artist object, which
\* the job read at its start unless a commit expired it since.
DownloadDone ==
    LET k == download.album
    IN  /\ download # NoDownload
        /\ album' = [album EXCEPT ![k] = "downloaded"]
        /\ \E seen \in {download.seen, artist[k.artist].down} :
              artist' = [artist EXCEPT ![k.artist].down = seen + 1]
        /\ queued' = queued \ {k}
        /\ download' = NoDownload
        /\ UNCHANGED <<task, running, plan, orphaned, events>>

DownloadFails ==
    /\ download # NoDownload
    /\ queued' = queued \ {download.album}
    /\ download' = NoDownload
    /\ UNCHANGED <<artist, album, task, running, plan, orphaned, events>>

-----------------------------------------------------------------------------

\* backfill_artist_counters: only artists whose counters are all 0.
Backfilled(a) ==
    LET row == artist[a]
        seen == [artist |-> a, total |-> row.total, down |-> row.down]
    IN  IF row.there /\ row.total = 0 /\ row.down = 0 THEN Recomputed(row, seen, album) ELSE row

\* No boot step looks at sync_status.
Restart ==
    /\ Event
    /\ artist' = [a \in Artists |-> Backfilled(a)]
    /\ task' = [t \in Tasks |-> Idle]
    /\ running' = 0
    /\ plan' = [a \in Artists |-> None]
    /\ download' = NoDownload
    /\ orphaned' = [a \in Artists |-> artist[a].there /\ artist[a].status = "syncing"]
    /\ UNCHANGED <<album, queued>>

\* Artists the folder import made have albums without a provider; the sync of
\* a provider that is off by now left another.
Init ==
    /\ \E id \in Ids, r \in Releases :
          /\ album = [k \in Albums |->
                IF k.artist \notin Imported THEN "none"
                ELSE IF k.provider = None /\ k.release = r THEN "downloaded"
                ELSE IF k.provider \in Providers \ Enabled THEN "missing" ELSE "none"]
          /\ artist = [a \in Artists |->
                IF a \in Imported
                THEN [NewArtist(id, None, FALSE) EXCEPT
                         !.status = "ready", !.total = Cardinality(Of(a, album)), !.down = 1]
                ELSE [NewArtist(id, None, FALSE) EXCEPT !.there = FALSE]]
    /\ queued = {}
    /\ download = NoDownload
    /\ task = [t \in Tasks |-> Idle]
    /\ running = 0
    /\ plan = [a \in Artists |-> None]
    /\ orphaned = [a \in Artists |-> FALSE]
    /\ events = 0

Next ==
    \/ \E t \in Tasks : Begin(t) \/ Finish(t) \/ FinishFails(t) \/ FinishDies(t)
    \/ List
    \/ \E a \in Artists :
          \/ StartBounded(a) \/ Elapse(a)
          \/ SyncNow(a) \/ DeleteArtist(a)
          \/ \E id \in Ids, by \in Enabled \cup {None} : SetExternalId(a, id, by)
          \/ \E id \in Ids, by \in Enabled \cup {None}, auto \in BOOLEAN : AddArtist(a, id, by, auto)
          \/ \E monitored, auto \in BOOLEAN : Monitor(a, monitored, auto)
    \/ \E k \in Albums : DeleteAlbum(k) \/ DeleteTrack(k) \/ DownloadAlbum(k) \/ DownloadStart(k)
    \/ DownloadDone \/ DownloadFails
    \/ Restart

\* Tasks run to their end, because a provider call has a timeout, and the
\* scheduler's loop goes on.
Fairness ==
    /\ \A t \in Tasks : WF_vars(Begin(t)) /\ WF_vars(Finish(t) \/ FinishFails(t) \/ FinishDies(t))
    /\ WF_vars(List)
    /\ \A a \in Artists : WF_vars(StartBounded(a))

Spec == Init /\ [][Next]_vars /\ Fairness

-----------------------------------------------------------------------------

Bounded(tasks) == {t \in Tasks : tasks[t] # Idle /\ tasks[t].bounded}

\* The scheduler never has more than MaxSyncs of its syncs in flight, and a
\* sync gives its slot back on every way out: the counter is their number.
SchedulerBounded ==
    /\ running = Cardinality(Bounded(task))
    /\ running <= MaxSyncs

\* An artist shown as syncing has a sync under way, unless the one that said so
\* was killed or died in its except clause.
StatusTruthful ==
    \A a \in Artists :
        artist[a].there /\ artist[a].status = "syncing" /\ ~orphaned[a]
            => \E t \in Tasks : task[t] # Idle /\ task[t].artist = a

\* Only a request of the user takes a downloaded track or its album away: no
\* sync prunes one, whatever provider answers and whenever the download ends.
DownloadsKept ==
    [][\A k \in Albums :
         album[k] = "downloaded" /\ events' = events => album'[k] = "downloaded"]_vars

\* A sync that ends well leaves the counters exact, however wrong they were,
\* unless another writer changed them since the sync read the artist.
CountersRepaired ==
    [][\A t \in Tasks :
         LET a == task[t].artist
         IN  task[t].pc = "fetch" /\ task'[t] = Idle /\ Finish(t) =>
                /\ artist[a].total = task[t].total
                       => artist'[a].total = Cardinality(Of(a, album'))
                /\ artist[a].down = task[t].down
                       => artist'[a].down = Cardinality(Downloaded(a, album'))]_vars

\* A monitored artist that is due is synced again, also after a failure and
\* behind other artists when the bound is reached, unless its sync died.
DueIsSynced ==
    \A a \in Artists :
        artist[a].there /\ artist[a].monitored /\ ~artist[a].recent
            ~> \/ ~artist[a].there \/ ~artist[a].monitored
               \/ artist[a].recent \/ orphaned[a]

=============================================================================
