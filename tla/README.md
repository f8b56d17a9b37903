# fnack in TLA+

fnack is a self-hosted music downloader: a Flask application on gevent, a SQLite
database, a pool of download workers and a set of plugins. This directory holds
TLA+ modules of its core logic, the TLC configurations that check them, and
TLAPS proofs about them. Paths below are relative to the repository's root.

## The system

| Part | State it keeps | Operations | Hard behaviour | What makes it correct | Module |
|---|---|---|---|---|---|
| download queue (`services/queue_service.py`, handlers of `app.py`, `plugins/context.py`) | `download_jobs`, status columns of `tracks`, `cancel_requested_jobs`, futures | queue, cancel, retry, delete, dispatch, download, manual match, reconcile at boot | stale sessions, cancellation races, crashes, second runs of a row | a job moves on or says why not; one download per track; tracks agree with jobs | `DownloadQueue` |
| provider chain and verification (`services/download_service.py`, `verification_service.py`, `verifier_service.py`, `fnack.spotiflac`, `fnack.ytdlp`) | work directories, the SpotiFLAC lock and breaker | try providers by priority, verify each file, decide on the evidence | programs that hang or outlive their call; missing evidence | a file that no rule accepts is never kept; every provider has its say; every run ends | `DownloadChain` |
| artist counters (`services/counters_service.py`) | integers per artist | increments at write points, recomputation, backfill at boot | absolute values written from stale objects | a sync repairs them | `ArtistSync` |
| library files (`services/watcher_service.py`, the end of a download, `services/import_service.py`) | files on disk, `local_path`, `is_downloaded` | move into place, remove superseded files, watcher events, delete | events that arrive late, two writers of one track position | a row that says downloaded names a file that exists | `Library` |
| artist synchronisation (`app.py`, `services/metadata_service.py`) | `sync_status`, albums and tracks | sync, prune, scheduler with a bound | deletion during a sync, a crash in the middle | a sync ends; pruning removes nothing that is in the library | `ArtistSync` |
| plugin manager, registry, event bus, marketplace (`plugins/`, `fnack/plugin_api/`) | installed rows, tombstones, loaded objects, handles, subscriptions, failure counts | install, update, import, enable, disable, uninstall, invoke, auto-disable | hooks that fail, calls that end after their object was replaced | what runs is what the user allowed, in the order the user set | `Plugins` |
| import and normalisation (`services/import_service.py`, `tag_normalization_service.py`, `scripts/`) | albums, tracks, files | scan, import, merge albums, place files | two processes, files changed before rows are committed, kills | a merge loses no song and no track; a run leaves rows and files in accord | `Maintenance` |
| metadata answers (`services/metadata_service.py`, `fnack.musicbrainz`) | answer cache | cache with two lifetimes, pacing | | | not modelled |
| accounts, VPN (`services/accounts.py`, `vpn_service.py`) | users, tunnel | create, demote, delete, connect | the last administrator | there is always one | not modelled |
| wire protocols of providers, web UI, tag writing, migrations | | | | | not modelled |

How they interact: HTTP handlers and plugins write rows of the database; the
worker loop reads the job table and submits futures to a thread pool; a future
calls the provider chain, moves a file into the library, writes its rows in one
commit and emits events, which run plugin callbacks in the same greenlet; the
watcher reacts to the file system; the counters are updated inside the commits
of the others. All of this runs in one process under `monkey.patch_all()`: pool
threads, background tasks, the watcher and the handlers are greenlets, and a
switch happens only at a network call, a subprocess, a sleep or a contended
lock. A stretch of code between two of those is one action in these modules.
Maintenance and re-verification are processes of their own, so `Maintenance` has
an action for every file they touch, and SQLite's write lock between them and
the web process.

A SQLAlchemy session keeps the rows it loaded, and a flush writes only the
columns whose new value differs from what was *loaded*. Four modules have an
operator for what a row holds afterwards (`Flushed`, `FlushedRow`, `Written`,
`InstalledRow`): much of the behaviour that is hard to test comes from there.
SQLite gives a new row the id after the largest one in use, so ids of deleted
jobs, artists and repositories come back.

## Modules

- `DownloadQueue` is the queue as the code runs it; `JobQueue` the abstract
  specification it implements (the statuses a queue page shows, at most `Limit`
  downloads, the oldest queued job first, everything interrupted waits again,
  every download ends); `DownloadQueueIntent` adds what the user last asked of
  each job. `job` is the table `download_jobs`, `track` the columns `status`,
  `is_downloaded` and "`error_message` is non-empty" of `tracks`,
  `cancelRequested` the set `cancel_requested_jobs`, `worker` the futures with
  their position in `_process_track_job` and the row their session loaded,
  `match` the manual matches. `stranded` is a history variable: the jobs whose
  last future went away without writing the row.
- `DownloadChain` opens the step that `DownloadQueue` takes for a download: the
  providers in turn, the programs they start, the work directory, the verdict.
  A work directory holds one file per author and knows which of them is the
  newest, the one that the code's search by modification time finds; what a file
  is are its tags and whether its length fits. `job[j].fate` and `breaker.spare`
  are history; `Pending`, the attempts that calls past the gate have left, is
  what a cool-down may still see.
- `Library` opens the step in which a download becomes a file of the library:
  the files of an album directory, the row of each track, the events the
  observer has queued. `missed` and `torn` are history.
- `ArtistSync` has the artists, their albums (each with one track) and counters,
  the background tasks and the scheduler; the queue is reduced to "a track is
  queued, downloads, is downloaded". `orphaned` is history.
- `Plugins` has the rows, the tombstones, the code on disk and `mem`, the state
  of the manager (loaded objects, handles of the registry, and for each object
  whether its callbacks are on the bus). `allowed`, `muted` and `drifted` are
  history.
- `Maintenance` has the maintenance process `run` beside a web process that
  downloads, deletes, synchronises and imports. A song stands for its title
  after normalisation; `Blank` holds the titles without a Latin letter or digit,
  which normalise to the empty text. `is_downloaded` and `local_path` are one
  column `path` there. `healthy` is history: the run began when every row with a
  path named a file of its own that was there (`Accounted`, `Unshared`), and no
  web request has changed rows or files since. A merge has the tables as it
  loaded them (`seen`), the session's tracks (`new`), the moved tracks that no
  statement has flushed yet (`unflushed`) and those a delete cascade took
  although the session has them in the canonical album (`gone`).
- `MC...` modules hold the instances of the runs, the modules that end in
  `_proofs` the theorems: `DownloadQueue_proofs`, `DownloadQueueCalm_proofs` (the
  queue without the requests that disturb it, and its refinement of `JobQueue`),
  `DownloadChain_proofs`, `Library_proofs`, `ArtistSync_proofs`,
  `Plugins_proofs` and `Maintenance_proofs`. `Extremes_proofs` has the lemmas
  about least and greatest numbers of a finite set which several of them use.

### Actions and code: the queue

| Action | Code |
|---|---|
| `QueueTrack`, `QueueAlbum`, `QueueArtistMissing` | `queue_track`, `queue_album`, `queue_artist_missing` |
| `QueueGrab` | `LibraryAPI.queue_lidarr_grab` (on tracks that exist) |
| `CancelJob`, `CancelTrack`, `PluginCancel` | `cancel_job`, `api_track_cancel`, `LibraryAPI.cancel_download_job` |
| `RetryJob`, `RetryAllFailed` | `api_job_retry`, `_retry_all_failed` (button and scheduled task) |
| `DeleteJob`, `DeleteTrack` | `api_job_delete`, `api_track_delete` |
| `Dispatch` | one pass of the loop of `start_queue_worker` |
| `StartJob` | `_process_track_job` up to the ISRC/genre lookup |
| `LookupDone` | the end of the lookup and the first cancellation checkpoint |
| `SetupDone` | directories and cover, before the `try` block |
| `ChainCancelled`, `FinishCompleted`, `FinishFailed` | the second checkpoint and the final commit |
| `ChainRaises`, `CommitRaises` | the `except` clause, and the commit that defeats it |
| `FinishTail` | event callbacks, media scan and the `finally` clause |
| `MatchStart`, `MatchCompleted`, `MatchFailed`, `MatchRaises` | `download_manual_match_track` |
| `Restart` | the process dies; the reconciliation of `start_queue_worker` at boot |

A future keeps one session (`worker[w].seen`, or `Expired` after a commit of its
own); `_handle_cancellation` uses another and sees the tables as they are.

### Actions and code: the chain

| Action | Code |
|---|---|
| `Begin`, `Reuse`, `Abandon`, `Resolve` | `_process_track_job` up to the chain: work directory, deduplication, cancellation, link lookup and list of providers |
| `Match` | `download_manual_match_track` up to its chain |
| `Gate` | the loop of `DownloadService`: end of the list, `is_rate_limited`, `can_handle` |
| `Acquire`, `SpotiFLACEnds` | the program of `fnack.spotiflac` under its lock |
| `YtDlpEnds` | a candidate of `fnack.ytdlp` with its check by tags, length and fingerprint |
| `CliTimesOut`, `HookTimesOut`, `StrayEnds` | the downloader's timeout, the timeout of `invoke_provider`, a program nobody waits for |
| `Inspect`, `Judge`, `InspectMatch` | `VerificationService` (and its reject or caution), `verify_audio_file` of the manual match |
| `Finish` | finalization, and the removal of the work directory |
| `KeepCautioned`, `DeleteCautioned`, `Identify` | the answers to a caution flag, "Identify this file" |
| `Cool`, `RouteChanged`, `Restart` | time, the VPN's new route, a crash and the purge at boot |

Details of the code that the model keeps: `invoke_provider` turns a timeout of a
fingerprint provider into silence, so the "error" evidence of the policy never
reaches it; any audio file in the work directory counts as the success of the
program that ended; `_wait_out_cooldown` logs a wait and does not wait;
cancellation is not looked at between two providers.

### Actions and code: the library

| Action | Code |
|---|---|
| `StartJob`, `StartMatch`, `Fail`, `FinishUnrecorded` | a future or a manual match loads its track; ends without a file; puts one in place and fails to record it |
| `Finish`, `Cleanup` | the move into place and the commit; the removal of superseded files after the event callbacks (a manual match does both at once) |
| `Watch` | `watcher_service`: one event, with `_find_replacement`, or dropped during maintenance or with a locked database |
| `DeleteTrack` | `api_track_delete`, the "delete" answer to a caution |
| `ReverifyTrack`, `ReverifyPassed`, `ReverifyFlagged` | `scripts/reverify_library.py` |
| `ImportScan` | the matching of `import_service` |
| `UserDelete`, `UserMove`, `Crash` | the user's file manager; the process dies with its events |

### Actions and code: artists

| Action | Code |
|---|---|
| `Begin`, `Finish`, `FinishFails`, `FinishDies` | `_sync_artist` with its two commits, its `except` clause, and the case in which that clause raises |
| `List`, `StartBounded`, `Elapse` | the scheduled discography check |
| `AddArtist`, `SyncNow`, `SetExternalId`, `Monitor` | the artist requests |
| `DeleteArtist`, `DeleteAlbum`, `DeleteTrack`, `DownloadAlbum` | the requests on the discography |
| `DownloadStart`, `DownloadDone`, `DownloadFails` | a download, with `on_track_downloaded` on the artist object the job has |
| `Restart` | a crash, and `backfill_artist_counters` |

### Actions and code: plugins

| Action | Code |
|---|---|
| `EnablePlugin`, `DisablePlugin`, `SetPriority`, `SetCapabilityPriority` | the handlers of `plugins/api.py` |
| `AddRepository`, `RefreshRepository`, `RemoveRepository` | `plugins/registry.py` |
| `InstallStart`, `UpdateStart`, `ImportStart`; `InstallRefused`, `InstallBreaks`, `InstallDone` | an install, update or configuration import up to the download of the archive, and after it |
| `Uninstall` | `uninstall` with the tombstone of a bundled plugin |
| `Hold`, `Invoke`, `CallReturns`, `CallRaises` | a service takes handles; `invoke_provider` with `_record_failure` and the automatic disabling |
| `Restart` | the boot sequence of `app.py`: auto-install, reconciliation, load and enable |

### Actions and code: maintenance

| Action | Code |
|---|---|
| `Start`, `NextPass` | `run_maintenance.py` takes its lock; from pass to pass |
| `MergeExact`, `MergePair` | the three passes over the albums |
| `MoveTrack`, `DropTrack`, with `AlbumFolded` after the last track of an album | `_merge_album_into`: a title the canonical album lacks, one it has, `db.session.delete(other)` with its cascade |
| `MergeCommit` | the end of `_try_merge`: the last flush and the commit |
| `Place`, `PlaceCommit` | `normalize_album_tags` |
| `DownloadStart`, `DownloadDone`, `DeleteTrack`, `DropAlbum`, `SyncAlbum`, `UserRemoves` | the web process and the user, with the watcher's probe of the lock |
| `ImportList`, `ImportIndex`, `ImportMatch`, `ImportFails`, `ImportCommit` | the import of a folder: listed before its network calls, committed after them |
| `Crash` | the process is killed, or finds the database locked |

## What is checked

| Run | Instance | Properties |
|---|---|---|
| `queue_requests` | every request, every fault, 1 track, 1 rowid, 2 threads, 1 manual match | `TypeOK`, `DownloadingHasFuture`, `DownloadedIsKept` |
| `queue_calm` | orderly requests and crashes, 2 tracks, 2 rowids, 2 threads, fairness | `OneFuturePerTrack`, `FutureOwnsItsJob`, `TrackFollowsJob`, `ImplementsJobQueue` |
| `download_chain` | 2 jobs of one recording, both providers, 2 starts, cool-down of 2 steps, fairness | `TypeOK`, `UnflaggedIsVouched`, `LeftoverMeansCut`, `AllHeard`, `DecidesOnEvidence`, `OutageSpared`, `JobEnds` |
| `library_track` | 1 track in 2 formats, 1 future, 1 manual match, 2 waiting events, every request | `TypeOK`, `DiskFollows`, `DeletionNoticed` |
| `artist_sync` | 2 artist ids, 1 external id, 2 releases, 2 providers of which 1 answers, 2 tasks, bound 1, 2 events | `TypeOK`, `SchedulerBounded`, `StatusTruthful`, `DownloadsKept`, `CountersRepaired`, `DueIsSynced` |
| `plugins_lifecycle` | a bundled and a user plugin, 4 objects, 2 failures, 1 caller, 4 requests | `TypeOK`, `RegistryFollows`, `RunsOnlyIfAllowed`, `OrderFollowsOverrides`, `EnabledHears` |
| `maintenance` | 4 albums of 2 artists, 6 tracks, 2 suffixes, 2 web events, any number of crashes and runs | `TypeOK`, `MergeKeepsAudio`, `RunSettles`, `RunShrinks` |
| `queue_retry_cancelled` | queue, cancel and retry one job | `OnlyCancelledOnRequest` is violated |
| `queue_deleted_track` | queue and delete one track | `MissingCanBeQueued` is violated |
| `library_discs` | two discs with a track of one number each | `CleanupKeepsOthers` is violated |
| `maintenance_moved` | two spellings of one album with four titles each, three of them common | `MergeFoldsEveryTrack` is violated |
| `maintenance_clash` | two imported files of one name | `PlaceKeepsAudio` is violated |

Three more instances stand beside these runs and are not listed in PROJECT.json:

- `tlc -config maintenance_shared.cfg MCMaintenance` (two albums of one folder
  whose rows share a file, one run) and `maintenance_killed.cfg` (a library in
  accord, a run that is killed). Each shows that `MergeKeepsTheBetter`,
  `MergeKeepsAudio` without its exception, is violated: the exception is needed
  also when no web request is made.
- `tlc -config queue_restart.cfg DownloadQueue` (a manual match and a crash).
  `InterruptedIsRequeued` is violated: a manual match has no job for the boot to
  put back in the queue.

### Bounds

*Queue.* One rowid is enough for two futures on one row (retry while it runs),
for a rowid given again after a deletion, and for a manual match beside both;
two tracks and two rowids are what order, limit and the exclusion of two
downloads need. `queue_requests` uses the symmetry of the threads; `queue_calm`
checks liveness and uses none. A request that would need a rowid above
`MaxJobId` is not taken.

*Chain.* Two jobs are what the lock, the shared breaker and the copy of a twin
need; two attempts of SpotiFLAC make a second one under a cool-down; `MaxStarts`
= 2 lets each job run once, or one twice. The instance has two kinds of files, a
piece of the track and an untagged one that only a fingerprint can judge;
`DecidesOnEvidence` ranges over all kinds and all evidence.

*Library.* One track is enough because the rules about one position are what the
properties are about; `library_discs` has two. Two waiting events are a removal
and a move, or the removal of two superseded files.

*Artists.* Two artist ids let an id come back and two artists meet in one
identity; the provider that no longer answers leaves rows from before. Two
events are a request with a fault, or two requests, beside any number of syncs
and downloads they cause.

*Plugins.* Four objects: two loaded, one replaced and still registered or
subscribed, one that a call holds. Four requests are, for instance, install,
disable, restart, import. `MaxFailures` is 5 in the code; 2 is the least number
at which one failure is not yet the last.

*Maintenance.* An artist with three rows of one album, two of them in one folder,
and the album again under a collaborator: the exact pass folds up to three albums
at once, into a folder that two of them share, the other passes those it had to
leave, and a merge meets what the one before it left. Some tracks are dropped
and some are moved, before and after a flush. Two web events fall between any two steps
of a run. The pool of track ids has no second id for a track that a merge moved
(`Insertable`). `maintenance_shared` and `maintenance_killed` have no web
requests: one run without a kill, and any number of runs and kills.

Deadlock is not checked in `plugins_lifecycle`, `artist_sync` and
`download_chain`: their bounds on requests end a behaviour when all of them are
used. The other instances never stop.

### Fairness

Queue: weak fairness of `Dispatch` (the loop polls every 1.5 s and catches what a
pass raises), of each future and of each manual match (requests to providers
have timeouts, subprocesses are killed). Chain: each job takes a step of its own
or a timeout ends the wait; no program has to end. Library: the observer's
thread delivers what is queued. Artists: tasks run to their end because a
provider call has a timeout, and the scheduler's loop goes on. Nothing is
assumed of users, crashes or faults. `Plugins` and `Maintenance` assume none:
that a maintenance run ends is checked as a measure (`Left`) which each of its
steps lowers, `RunShrinks`.

### What the properties say

*Calm instances of the queue.* `OneFuturePerTrack`, `FutureOwnsItsJob` and
`TrackFollowsJob` are claims about instances without the requests of
`Disruptive`, and the restriction is a result: with any one of them added TLC
finds a violation. A Lidarr grab adds a second row for a track that is
downloading (`OneFuturePerTrack`); retrying a running job queues it for a second
future (`FutureOwnsItsJob`); deleting a running job, cancelling through the
plugin API and a manual match each leave the track in a state no job explains
(`TrackFollowsJob`). `DownloadingHasFuture` and `DownloadedIsKept` hold with all
of them. With fairness the queue drains: `JobQueue` asks that queued jobs keep
starting and every download ends.

*Exceptions.* Several properties hold but for a case that the code really has,
and name it by a history variable. `DiskFollows`: a future that flushes
`is_downloaded` over a change it missed leaves a row without a path (`torn`), and
an event dropped during maintenance is not made up for, nor is one that reaches
the first of two rows which name its file, as two discs may (both in `missed`).
`UnflaggedIsVouched` and `LeftoverMeansCut`: a program that outlives its call may
write the file that is being judged, and the piece a killed program left counts
as the file of the next provider. `StatusTruthful` and `DueIsSynced`: a sync that
dies, in a crash or because its `except` clause queries a session that needs a
rollback, leaves "syncing", which no later scan lists. `CountersRepaired`: the
counter of an artist is exact after a sync unless somebody wrote it in between;
the deletion of an album or of a track that is not downloaded leaves it wrong
until then. `OrderFollowsOverrides`: an import writes priorities past the loaded
object, and a failed commit leaves the object ahead of the row (`drifted`).
`EnabledHears`: a plugin that was disabled and enabled again does not hear its
events (`muted`). `RunsOnlyIfAllowed`: setting a priority enables the row, and a
plugin imported as disabled runs until the restart. `RegistryFollows`: the old
object of a plugin that was replaced and not enabled again stays registered.
`MergeKeepsAudio`: of two copies one is removed without a look at the other, so
when the other is gone already the last one goes. Somebody removed it, an earlier
run was killed between removing it and its commit and this one folds the albums
the other way (`maintenance_killed`), or it went with another row that named it
too (`maintenance_shared`); a run that began in accord and was left alone meets
none of these. `RunSettles` has three conditions. The run began in accord: one
killed while it moves files leaves rows that name the old place, which no later
run repairs. Nobody disturbed it. And no track's file is to go where another
one's is or goes (`Apart`): where albums share a folder, or an album has several
untitled tracks, files of one name meet and the placement points a row at the
other's file. It speaks of rows and not of files without one: a merge leaves
such files (`MergeFoldsEveryTrack`).

*Disagreements with the documentation.* The violated runs and the three instances
beside them show these. A retry
after an early cancellation is cancelled again (the first checkpoint returns
before the `try` block whose `finally` clears the request). A deleted track
cannot be queued again (its completed job is returned as it is). A restart does
not re-queue the download of a manual match (`queue_restart`; DEPLOY.md:247 says
"On startup, any downloads that were interrupted by the upgrade are automatically
re-queued."). The cleanup after a download on a
later disc removes the file of the same number on disc 1. Of two imported files
of one name the placement removes one. A merge that is to "Fold every track of
`other` into `canonical`" (`tag_normalization_service.py:112`) loses moved
tracks: `track.album_id = canonical.id` (line 168) is pending in the session
until something flushes, `db.session.delete(other)` (line 179) cascades over
`Album.tracks`, a dynamic relationship (`models.py:97`) which it reads from the
table with autoflush off, and a track whose move is not flushed is still in
`other` there and is deleted. Within an album only the deletion of a dropped
title's jobs (line 164) flushes, so the tracks that are moved after the last
dropped one go: their rows are lost and their files stay, with no row that names
them, until an import finds them (`maintenance_moved`). A merge that is to "Keep the
higher-quality file and delete the other copy"
(`tag_normalization_service.py:143`) removes the last copy when the row it keeps
names a file that is gone, as when an earlier merge took the file of a row with
the same path (`maintenance_shared`), or when a run was killed after it removed
a file and before it committed the merge (`maintenance_killed`). The first came
out of an attempt to prove that a run which is left alone removes no last copy.

Seen while reading and not made a run: `fingerprint_service.py:11` says "provider
mismatch -> negative evidence", and `fnack/plugin_api/models.py:118` lists that
status, but `_decide` (`verification_service.py:153`) reads only "match" and
"error" of the fingerprint evidence, so a provider that answers "mismatch" is
taken for one that is silent (no bundled provider does, and `Verdict` has no
such evidence: `DecidesOnEvidence` says of it what it says of silence); `docs/architecture.md:137` says that
updates follow the provenance of a plugin, while `registry.py:350` looks the
repository up by an id that a new repository may have been given;
`docs/architecture.md:215` describes the prune, which also takes the missing
albums of all providers when the answer is empty because every call failed
(`app.py:578`); `app.py:818` shadows a second handler of the same path at line
975, the one that recomputes the counters; the docstring of the third pass
(`tag_normalization_service.py:192`) asks for a subset where `_compatible` takes
three quarters.

## What is proved

Every theorem holds for all values of the constants that meet the assumptions
named in the modules, which say only that the sets of rows and actors are finite,
that names differ where the code tells them apart, and that bounds are numbers.
An invariant that a run checks is seldom inductive; what each proof adds to it is
named here.

`DownloadQueue_proofs`, for every set of tracks, pool size, number of rowids,
request set and fault set:

- `TypeCorrect`: `Spec => []TypeOK`. The queue picks rows by `Min`, a `CHOOSE`;
  `MinOfNumbers` of `Extremes_proofs` shows that a nonempty finite set of
  numbers has a least element (its down-sets are finite and strict inclusion of
  finite sets is well founded).
- `DownloadingCovered`: `Spec => []DownloadingHasFuture`. `TypeOK /\
  DownloadingHasFuture` is inductive: only `Dispatch` writes "downloading" in a
  job, and a future ceases to run only by writing its row, by finding it
  changed, or by being added to `stranded`. `FutureSteps` states that argument
  once for all steps of a future, `RequestStartsNothing` for all requests.
- `DownloadedKept`: `Spec => DownloadedIsKept`, an action property, under
  `TypeOK`. `FlushedKeepsDown` is its core: a flush through a stale session
  cannot write `is_downloaded = False`.

`DownloadQueueCalm_proofs`, for every instance without the requests and faults of
`Disruptive`:

- `CalmInvariant`: `Spec => [](Calm => CalmInv)`. The three calm properties need
  each other. A track has one row (`OneRow`), no match and no lost future is
  about (`Undisturbed`); a future runs a job that is downloading, on the track of
  its row, and has loaded a status that no other run wrote (`FuturesOwn`), which
  is why its last flush writes the status at all; no two futures have one job
  (`OneFuturePerJob`); the track of an active job shows the job's status or was
  cancelled, and never an error, or "retry all" would queue it a second time
  (`ActiveShown`); and what a track shows, some job has (`Follows`).
- `OneDownloadPerTrack`, `FuturesOwnTheirJobs`, `TracksFollowJobs`: the three
  invariants that `queue_calm` checks.
- `RefinesJobQueue`: `Calm => (Spec => Abstract!Safety)`, the refinement of
  `JobQueue` without its fairness: every step of the queue is one of the abstract
  queue or leaves the queue page as it is. A `Dispatch` needs a free thread, the
  abstract `Start` that fewer than `Limit` rows are downloading: every
  downloading row has a future (`DownloadingHasFuture`), no two rows the same
  one, and the dispatching thread runs none.

`DownloadChain_proofs`, for any jobs, kinds of files and evidence about them, and
any settings:

- `ChainSound`: `Spec => []ChainInv`. Of each run: the list names a provider
  once, and those before the current one had their say (`Listed`); a file or a
  program in the work directory is of a provider that had its turn, and with
  rejection on a file left behind is of a call that was cut (`Traces`); the file
  that is judged is there, unchanged unless its call was cut (`Shown`); the
  newest file exists while any does (`Kept`). Beside it: what rows say of their
  files (`RowSound`), who holds the lock of SpotiFLAC (`Locked`), and that the
  attempts still to come fit into what the open circuit spares (`Spared`).
- `ChainTyped`, `RowsAreVouched`, `NobodyIsSkipped`, `OutagesAreSpared`,
  `EvidenceDecides`: the invariants of `download_chain`. `RejectedStayAway` has
  the hypothesis `RejectMismatches`, the default of the setting and what the run
  has: with it off a mismatch stays in the work directory and is found again.

`Plugins_proofs`, for any plugins, repositories, objects, callers and requests:

- `ManagerStaysSound`: `Spec => []PluginsInv`. `Sound` relates the memory of the
  manager to itself: a loaded object is of its plugin, the registry has the
  running ones with their effective priority, and a handle left over is on an
  object that was replaced. `Agrees` relates it to the tables, `CallsLive` to
  the calls; `Uninstalled` and `Installed` are what a boot needs so that nothing
  comes back.
- `PluginsTyped`, `RegistryIsRight`, `NothingRunsUnasked`, `OrderIsTheSavedOne`,
  `EnabledPluginsHear`: the five invariants of `plugins_lifecycle`.

`ArtistSync_proofs`, for all finite sets of artists, external ids, releases and
tasks (`SyncFinite`), any bound, catalogue and request set (`SyncBounds`,
`SyncCatalog`, `SyncEnabled`):

- `TypeCorrect` and `SchedulerIsBounded` come from one inductive invariant,
  `TypeOK /\ SchedulerBounded`: that the count of running tasks is a natural
  number follows only from its being the number of the scheduler's tasks.
  `StartTakesSlot` and `EndGivesSlotBack` do the cardinalities.
- `StatusIsTruthful`: a start writes "syncing" together with its task, an end
  writes the status or records that the sync died, and every other step leaves
  both (`StartKeepsStatus`, `EndKeepsStatus`, `RowsKeepStatus`).
- `DownloadsAreKept` and `CountersAreRepaired`, action properties; the second
  rests on `RecomputedTyped`, what the recomputation writes.

`Library_proofs`, for all finite sets of tracks and formats (`LibFinite`), any
positions on any discs, any number of downloads, manual matches and waiting
events, every request set:

- `TypeCorrect`: `Spec => []TypeOK`.
- `DiskIsFollowed`: `Spec => []DiskFollows`. The property speaks of tracks
  shown as downloaded and is not inductive: a flush may write the flag alone,
  beside a path somebody else wrote. So `PathsKnown` speaks of every path, and
  `MovesKnown` of the paths that waiting "moved" events will write: such a path
  must be known by what comes after its event. `SeenTrue` says that a session
  not marked stale has what the table has, so that only a stale one can leave a
  row without a path (`TornNamed`). `AnnouncedStep` states once, for every step
  that adds events, that nothing known is forgotten; `PopStep` does so for the
  watcher, which takes one away.

`Maintenance_proofs`, for any albums, tracks, folders, names and ranks, any number
of web requests and kills:

- `MntInvariant`: `Spec => []MntInv`. A row of the catalog has the song of its id
  and a path with that song's file name (`Owned`), in the table, in what the run
  loaded and in what its session has now; the tracks still to fold are in albums
  that will go, so that a twin is never one of them (`MergeSound`); what is still
  to place has a path (`PlaceSound`); downloads and imports carry files of the
  songs of their rows, and there are ids for the rows to come (`Fetched`,
  `Claimed`). `InAccord` is for a run that is `healthy`: every row it has names a
  file that is there and no other row names. `CanonicalIn` shows that one album
  of a group is preferred to all others, `NewIdsIn` that free ids can be dealt
  out one to each new row.
- `MaintenanceTyped`: `Spec => []TypeOK`.
- `MergesKeepAudio`: `Spec => MergeKeepsAudio`, if files of one name are of one
  song. Without that hypothesis a path does not tell which song is lost, and the
  code compares paths. The core is `DropKeepsAudio`: the kept path either is on
  disk, and its file is the witness, or the row that names it is the exception,
  and then `InAccord` says that the run was disturbed.
- `RunsSettle`: `Spec => RunSettles`, if files of one name are of one song
  (`NamesTell`). `InOrder` is inductive beside `MntInv` and says how far an
  undisturbed run has come. Before the placement every row is in an album that
  exists (`Homed`) and every downloaded one has a file of its song's name
  (`Titled`); a merge has rows of the table only, and those in an album that goes
  are still to fold (`Folding`). In the placement the tracks already done are in
  their folders and the others where they were (`InPlace`); no two meet, as the
  placement began with them `Apart`, and so no move removes a file that another
  row names (`Present`). `RunEnds` reads the property off at the commit.
- `RunsShrink`: `Spec => RunShrinks`. `Left` reads as a number of three digits,
  and `Less` and `LessTwice` show that it falls when the first of them that
  changes falls; there is one lemma for each step of a run.

Only model-checked:

- Liveness: `JobEnds`, `DueIsSynced`, `DeletionNoticed`, and that the queue drains
  (the fairness of `ImplementsJobQueue`). Liveness under fairness and `ENABLED`
  are out of the prover's reach.

Induction over data is out of reach as well; no module here declares a recursive
operator.

## Not modelled

- Queue: `LibraryAPI.update_track_status` (`plugins/context.py:350`), with which a
  plugin writes the status of a track and not its job, as `TrackFollowsJob` would
  have it; changing `max_concurrent_downloads` while downloads run; jobs without a
  track; the monitoring gates (all tracks are monitored); progress numbers and
  messages to the page. No bundled plugin subscribes to `track.verified`, which
  is emitted between the second checkpoint and the final commit; with one that
  waits there, the write of `FinishCompleted` would be two steps.
- Chain: the scores behind a match, formats and transcoding, yt-dlp's search
  strategies one by one; two runs whose work directories get one name because
  they start within a second.
- Library: a move of a whole directory as one event.
- Artists: monitoring of albums, artwork, release filters, `total_tracks` of
  albums with several tracks.
- Plugins: UI slots, settings and secrets, uploads, actions, permissions,
  signatures, hooks that yield in the middle of a change, the health rows
  (`flush_health` has no caller).
- Maintenance: a run as the task of the plugin `fnack.normalize-album-tags`, inside
  the web process, without the lock file and with the foreign keys that
  `app.py:144` switches on (the maintenance process has its own application and
  leaves them off, so a track may outlive its album there); the scan cache and the bulk worker of the import, tag rewriting,
  artwork, removal of empty directories, the recomputation of counters at the
  end (it runs outside an application context and is swallowed).
- Metadata cache and MusicBrainz pacing, accounts, VPN: small sequential parts.
- Wire protocols of providers, web UI, tag writing, migrations: input and output
  only, no interaction of actors.

## Plan

Every invariant and every action property of the passing runs is a theorem, and
so is the safety part of `ImplementsJobQueue`. Next:

1. Proofs: that an interrupted run leaves only rows that the watcher would mark;
   which tracks a merge keeps (those of an album whose last title is dropped, for
   instance), stated first as the part of `MergeFoldsEveryTrack` that holds.
2. Refinement: an abstract library (rows that name files, changed one at a time)
   that `Library` and `Maintenance` both implement outside the exceptions.
3. Models: the scan cache with the bulk worker of the import, a change of
   `max_concurrent_downloads` while downloads run, the metadata cache, accounts.
