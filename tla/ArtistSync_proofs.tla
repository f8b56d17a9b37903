-------------------------- MODULE ArtistSync_proofs --------------------------
(***************************************************************************)
(* What holds of the discography sync for any artists, providers and       *)
(* releases, any number of background tasks and any bound of the           *)
(* scheduler.                                                              *)
(***************************************************************************)
EXTENDS ArtistSync, FiniteSetTheorems, TLAPS

-----------------------------------------------------------------------------
(* Counting albums.  The set of albums is the image of a set of triples.   *)

LEMMA AlbumsFinite == IsFiniteSet(Albums)
<1> DEFINE Triples == (Artists \X Served) \X Releases
           f == [x \in Triples |->
                   [artist |-> x[1][1], provider |-> x[1][2], release |-> x[2]]]
<1>1. IsFiniteSet(Served)
  BY SyncFinite, FS_Singleton, FS_Union DEF Served
<1>2. IsFiniteSet(Artists \X Served)
  BY <1>1, SyncFinite, FS_Product
<1>3. IsFiniteSet(Triples)
  BY <1>2, SyncFinite, FS_Product
<1>4. f \in Surjection(Triples, Albums)
  <2>1. f \in [Triples -> Albums]
    BY DEF Albums
  <2>2. ASSUME NEW k \in Albums PROVE \E x \in Triples : f[x] = k
    <3>1. <<<<k.artist, k.provider>>, k.release>> \in Triples
      BY DEF Albums
    <3>2. f[<<<<k.artist, k.provider>>, k.release>>] = k
      BY <3>1 DEF Albums
    <3> QED BY <3>1, <3>2
  <2> QED BY <2>1, <2>2 DEF Surjection
<1> QED BY <1>3, <1>4, FS_Surjection

LEMMA CountsAreNumbers ==
    ASSUME NEW a, NEW rows
    PROVE  Cardinality(Of(a, rows)) \in Nat /\ Cardinality(Downloaded(a, rows)) \in Nat
<1>1. Of(a, rows) \subseteq Albums /\ Downloaded(a, rows) \subseteq Albums
  BY DEF Of, Downloaded
<1>2. IsFiniteSet(Of(a, rows)) /\ IsFiniteSet(Downloaded(a, rows))
  BY <1>1, AlbumsFinite, FS_Subset
<1> QED BY <1>2, FS_CardinalityType

LEMMA RecomputedTyped ==
    ASSUME NEW row \in Artist, NEW seen, NEW rows
    PROVE  /\ Recomputed(row, seen, rows) \in Artist
           /\ \A x \in {"there", "id", "provider", "status", "recent", "monitored", "auto"} :
                 Recomputed(row, seen, rows)[x] = row[x]
           /\ Recomputed(row, seen, rows).total =
                 Written(Cardinality(Of(seen.artist, rows)), seen.total, row.total)
           /\ Recomputed(row, seen, rows).down =
                 Written(Cardinality(Downloaded(seen.artist, rows)), seen.down, row.down)
<1>1. /\ Written(Cardinality(Of(seen.artist, rows)), seen.total, row.total) \in Nat
      /\ Written(Cardinality(Downloaded(seen.artist, rows)), seen.down, row.down) \in Nat
  BY CountsAreNumbers DEF Written, Artist
<1> QED BY <1>1 DEF Recomputed, Artist

-----------------------------------------------------------------------------
(* Background tasks and the slots of the scheduler.                        *)

LEMMA BoundedFinite ==
    ASSUME NEW tasks
    PROVE  IsFiniteSet(Bounded(tasks)) /\ Cardinality(Bounded(tasks)) \in Nat
<1>1. Bounded(tasks) \subseteq Tasks /\ IsFiniteSet(Tasks)
  BY SyncFinite DEF Bounded
<1> QED BY <1>1, FS_Subset, FS_CardinalityType

\* A task that is started takes a slot if it is bounded.
LEMMA StartTakesSlot ==
    ASSUME TypeOK, NEW a \in Artists, NEW id \in Ids, NEW b \in BOOLEAN, Started(a, id, b)
    PROVE  /\ task' \in [Tasks -> Sync \cup {Idle}]
           /\ Cardinality(Bounded(task')) = Cardinality(Bounded(task)) + (IF b THEN 1 ELSE 0)
<1> DEFINE new == [pc |-> "begin", artist |-> a, id |-> id, bounded |-> b,
                   provider |-> None, total |-> 0, down |-> 0]
<1>1. PICK t \in Tasks : task[t] = Idle /\ task' = [task EXCEPT ![t] = new]
  BY DEF Started
<1>2. new \in Sync /\ new # Idle /\ new.bounded = b
  BY DEF Sync, Served, Idle
<1> HIDE DEF new
<1>3. task' \in [Tasks -> Sync \cup {Idle}]
  BY <1>1, <1>2 DEF TypeOK
<1>4. task'[t] = new /\ \A u \in Tasks \ {t} : task'[u] = task[u]
  BY <1>1 DEF TypeOK
<1>5. t \notin Bounded(task)
  BY <1>1 DEF Bounded
<1>6. Bounded(task') = IF b THEN Bounded(task) \cup {t} ELSE Bounded(task)
  BY <1>1, <1>2, <1>4, <1>5 DEF Bounded
<1>7. b => Cardinality(Bounded(task')) = Cardinality(Bounded(task)) + 1
  BY <1>5, <1>6, BoundedFinite, FS_AddElement
<1> QED BY <1>3, <1>6, <1>7, BoundedFinite

\* A task that ends gives its slot back.
LEMMA EndGivesSlotBack ==
    ASSUME TypeOK, SchedulerBounded, NEW t \in Tasks, task[t] # Idle, Ended(t)
    PROVE  /\ task' \in [Tasks -> Sync \cup {Idle}]
           /\ running' \in Nat
           /\ SchedulerBounded'
<1>1. task' = [task EXCEPT ![t] = Idle] /\ task' \in [Tasks -> Sync \cup {Idle}]
  BY DEF Ended, TypeOK
<1>2. task'[t] = Idle /\ \A u \in Tasks \ {t} : task'[u] = task[u]
  BY <1>1 DEF TypeOK
<1>3. Bounded(task') = Bounded(task) \ {t}
  BY <1>2 DEF Bounded
<1>4. t \in Bounded(task) <=> task[t].bounded
  BY DEF Bounded
<1>5. Cardinality(Bounded(task')) =
        IF task[t].bounded THEN Cardinality(Bounded(task)) - 1 ELSE Cardinality(Bounded(task))
  BY <1>3, <1>4, BoundedFinite, FS_RemoveElement
<1>6. running' = Cardinality(Bounded(task'))
  BY <1>5 DEF Ended, SchedulerBounded
<1>7. running' \in Nat /\ running' <= running
  BY <1>6, BoundedFinite DEF Ended, TypeOK
<1>8. running' <= MaxSyncs
  BY <1>7, SyncBounds DEF SchedulerBounded, TypeOK
<1> QED BY <1>1, <1>6, <1>7, <1>8 DEF SchedulerBounded

\* Steps that leave the tasks alone, and those that start one beside the
\* scheduler.
LEMMA SlotsUntouched ==
    ASSUME SchedulerBounded, UNCHANGED <<task, running>>
    PROVE  SchedulerBounded'
BY DEF SchedulerBounded, Bounded

LEMMA StartUnbounded ==
    ASSUME TypeOK, SchedulerBounded, NEW a \in Artists, NEW id \in Ids,
           Started(a, id, FALSE), UNCHANGED running
    PROVE  task' \in [Tasks -> Sync \cup {Idle}] /\ SchedulerBounded'
<1>1. Cardinality(Bounded(task')) = Cardinality(Bounded(task)) + 0
  BY StartTakesSlot
<1>2. Cardinality(Bounded(task')) = Cardinality(Bounded(task))
  BY <1>1, BoundedFinite
<1> QED BY <1>2, StartTakesSlot DEF SchedulerBounded

-----------------------------------------------------------------------------
(* Types, and the slots with them: that the number of slots never becomes  *)
(* negative follows from its being the number of the scheduler's tasks.    *)

Inv == TypeOK /\ SchedulerBounded

LEMMA AnswersTyped ==
    ASSUME NEW id \in Ids, NEW answer \in Answers(id)
    PROVE  answer.by \in Served /\ answer.releases \subseteq Releases
<1>1. Catalog[id] \subseteq Releases
  BY SyncCatalog
<1>2. Enabled \subseteq Providers
  BY SyncEnabled
<1> QED BY <1>1, <1>2 DEF Answers, Served

LEMMA SyncedArtistTyped ==
    ASSUME TypeOK, NEW t \in Tasks, task[t] # Idle, NEW answer, answer.by \in Served,
           NEW inserted, NEW pruned
    PROVE  SyncedArtist(t, answer, inserted, pruned) \in Artist
<1> DEFINE a == task[t].artist
           row == Recomputed(artist[a], task[t], pruned)
<1>1. task[t] \in Sync /\ artist[a] \in Artist
  BY DEF TypeOK, Sync
<1>2. row \in Artist
  BY <1>1, RecomputedTyped
<1> HIDE DEF row
<1>3. SyncedArtist(t, answer, inserted, pruned) =
        [row EXCEPT !.provider = IF answer.by = None THEN @ ELSE Written(answer.by, task[t].provider, @),
                    !.status = "ready", !.recent = TRUE]
  BY DEF SyncedArtist, CountersAfter, StatusAfter, row
<1> QED BY <1>2, <1>3 DEF Artist, Written

LEMMA NoneBounded ==
    ASSUME task = [t \in Tasks |-> Idle], running = 0
    PROVE  SchedulerBounded
<1>1. Bounded(task) = {}
  BY DEF Bounded
<1>2. Cardinality(Bounded(task)) = 0
  BY <1>1, FS_EmptySet
<1>3. 0 <= MaxSyncs
  BY SyncBounds
<1> QED BY <1>2, <1>3 DEF SchedulerBounded

LEMMA InitInv == Init => Inv
<1> SUFFICES ASSUME Init PROVE Inv
  OBVIOUS
<1>1. artist \in [Artists -> Artist]
  <2>1. PICK id \in Ids, r \in Releases :
          artist = [a \in Artists |->
                IF a \in Imported
                THEN [NewArtist(id, None, FALSE) EXCEPT
                         !.status = "ready", !.total = Cardinality(Of(a, album)), !.down = 1]
                ELSE [NewArtist(id, None, FALSE) EXCEPT !.there = FALSE]]
    BY DEF Init
  <2>2. NewArtist(id, None, FALSE) \in Artist
    BY DEF NewArtist, Artist, Served
  <2> HIDE DEF NewArtist
  <2>3. ASSUME NEW a \in Artists
        PROVE  /\ [NewArtist(id, None, FALSE) EXCEPT
                     !.status = "ready", !.total = Cardinality(Of(a, album)), !.down = 1] \in Artist
               /\ [NewArtist(id, None, FALSE) EXCEPT !.there = FALSE] \in Artist
    BY <2>2, CountsAreNumbers DEF Artist
  <2> QED BY <2>1, <2>3
<1>2. album \in [Albums -> {"none", "missing", "downloaded"}]
  BY DEF Init
<1>3. /\ queued = {} /\ download = NoDownload
      /\ task = [t \in Tasks |-> Idle] /\ running = 0
      /\ plan = [a \in Artists |-> None]
      /\ orphaned = [a \in Artists |-> FALSE] /\ events = 0
  BY DEF Init
<1>4. TypeOK
  BY <1>1, <1>2, <1>3, SyncBounds DEF TypeOK
<1>5. SchedulerBounded
  BY <1>3, NoneBounded
<1> QED BY <1>4, <1>5 DEF Inv

\* The end of a task with whatever it did to the artists and the rest.
LEMMA EndKeepsInv ==
    ASSUME TypeOK, SchedulerBounded, NEW t \in Tasks, task[t] # Idle, Ended(t),
           artist' \in [Artists -> Artist],
           album' \in [Albums -> {"none", "missing", "downloaded"}],
           queued' \subseteq Albums,
           download' \in [album : Albums, seen : Nat] \cup {NoDownload},
           orphaned' \in [Artists -> BOOLEAN],
           events' \in 0..MaxEvents,
           UNCHANGED plan
    PROVE  TypeOK' /\ SchedulerBounded'
BY EndGivesSlotBack DEF TypeOK

LEMMA BeginKeepsInv ==
    ASSUME TypeOK, SchedulerBounded, NEW t \in Tasks, Begin(t)
    PROVE  TypeOK' /\ SchedulerBounded'
<1> DEFINE a == task[t].artist
           fetching == [task[t] EXCEPT !.pc = "fetch", !.provider = artist[a].provider,
                                       !.total = artist[a].total, !.down = artist[a].down]
<1>1. task[t] \in Sync /\ task[t] # Idle
  BY DEF Begin, TypeOK, Idle
<1>2. a \in Artists /\ artist[a] \in Artist
  BY <1>1 DEF TypeOK, Sync
<1>3. CASE /\ artist' = [artist EXCEPT ![a].status = "syncing"]
           /\ orphaned' = [orphaned EXCEPT ![a] = FALSE]
           /\ task' = [task EXCEPT ![t].pc = "fetch", ![t].provider = artist[a].provider,
                                   ![t].total = artist[a].total, ![t].down = artist[a].down]
           /\ UNCHANGED <<running, events>>
  <2>1. task' = [task EXCEPT ![t] = fetching]
    BY <1>3 DEF TypeOK
  <2>2. fetching \in Sync /\ fetching # Idle /\ fetching.bounded = task[t].bounded
    BY <1>1, <1>2 DEF Sync, Artist, Idle
  <2>3. [artist[a] EXCEPT !.status = "syncing"] \in Artist
    BY <1>2 DEF Artist
  <2> HIDE DEF fetching
  <2>4. task' \in [Tasks -> Sync \cup {Idle}]
    BY <2>1, <2>2 DEF TypeOK
  <2>5. artist' \in [Artists -> Artist]
    BY <1>3, <2>3 DEF TypeOK
  <2>6. Bounded(task') = Bounded(task)
    BY <1>1, <2>1, <2>2 DEF Bounded, TypeOK
  <2>7. SchedulerBounded'
    BY <1>3, <2>6 DEF SchedulerBounded
  <2> QED BY <1>3, <2>4, <2>5, <2>7 DEF Begin, TypeOK
<1>4. CASE Ended(t) /\ UNCHANGED <<artist, orphaned, events>>
  BY <1>1, <1>4, EndKeepsInv DEF Begin, TypeOK
<1>5. CASE Event /\ Ended(t) /\ UNCHANGED artist
           /\ orphaned' = [orphaned EXCEPT ![a] = artist[a].status = "syncing"]
  <2>1. orphaned' \in [Artists -> BOOLEAN]
    BY <1>5 DEF TypeOK
  <2>2. events' \in 0..MaxEvents
    BY <1>5, SyncBounds DEF Event, TypeOK
  <2> QED BY <1>1, <1>5, <2>1, <2>2, EndKeepsInv DEF Begin, TypeOK
<1> QED BY <1>3, <1>4, <1>5 DEF Begin

LEMMA FinishKeepsInv ==
    ASSUME TypeOK, SchedulerBounded, NEW t \in Tasks, Finish(t)
    PROVE  TypeOK' /\ SchedulerBounded'
<1> DEFINE a == task[t].artist
<1>1. task[t] \in Sync /\ task[t] # Idle
  BY DEF Finish, TypeOK, Idle
<1>2. a \in Artists /\ task[t].id \in Ids
  BY <1>1 DEF Sync
<1>3. PICK answer \in Answers(task[t].id) :
        LET inserted == Inserted(a, answer, album)
            gone == Prunable(a, answer, inserted)
            pruned == [k \in Albums |-> IF k \in gone THEN "none" ELSE inserted[k]]
        IN  /\ album' = pruned
            /\ artist' = [artist EXCEPT ![a] = SyncedArtist(t, answer, inserted, pruned)]
            /\ queued' = (queued \ gone) \cup Missing(a, artist[a], pruned)
            /\ download' = IF download.album \in gone THEN NoDownload ELSE download
  BY DEF Finish
<1>4. artist' \in [Artists -> Artist]
  <2>1. answer.by \in Served
    BY <1>2, AnswersTyped
  <2> QED BY <1>1, <1>2, <1>3, <2>1, SyncedArtistTyped DEF TypeOK
<1>5. album' \in [Albums -> {"none", "missing", "downloaded"}]
  BY <1>3 DEF TypeOK, Inserted
<1>6. queued' \subseteq Albums
  BY <1>3 DEF TypeOK, Missing, Of
<1>7. download' \in [album : Albums, seen : Nat] \cup {NoDownload}
  BY <1>3 DEF TypeOK
<1>8. Ended(t) /\ UNCHANGED <<plan, orphaned, events>>
  BY DEF Finish
<1> QED BY <1>1, <1>4, <1>5, <1>6, <1>7, <1>8, EndKeepsInv DEF TypeOK

LEMMA SyncFailureKeepsInv ==
    ASSUME TypeOK, SchedulerBounded, NEW t \in Tasks, FinishFails(t) \/ FinishDies(t)
    PROVE  TypeOK' /\ SchedulerBounded'
<1> DEFINE a == task[t].artist
<1>1. task[t] \in Sync /\ task[t] # Idle /\ Ended(t)
  BY DEF FinishFails, FinishDies, TypeOK, Idle
<1>2. a \in Artists /\ artist[a] \in Artist
  BY <1>1 DEF Sync, TypeOK
<1>3. events' \in 0..MaxEvents
  BY SyncBounds DEF FinishFails, FinishDies, Event, TypeOK
<1>4. CASE FinishFails(t)
  <2>1. [artist[a] EXCEPT !.status = "error"] \in Artist
    BY <1>2 DEF Artist
  <2>2. artist' \in [Artists -> Artist]
    BY <1>4, <2>1 DEF FinishFails, TypeOK
  <2> QED BY <1>1, <1>3, <1>4, <2>2, EndKeepsInv DEF FinishFails, TypeOK
<1>5. CASE FinishDies(t)
  <2>1. orphaned' \in [Artists -> BOOLEAN]
    BY <1>5 DEF FinishDies, TypeOK
  <2> QED BY <1>1, <1>3, <1>5, <2>1, EndKeepsInv DEF FinishDies, TypeOK
<1> QED BY <1>4, <1>5

\* One artist row changes, or none, and no task.
LEMMA RowsKeepInv ==
    ASSUME TypeOK, SchedulerBounded,
           artist' \in [Artists -> Artist],
           album' \in [Albums -> {"none", "missing", "downloaded"}],
           queued' \subseteq Albums,
           download' \in [album : Albums, seen : Nat] \cup {NoDownload},
           events' \in 0..MaxEvents,
           UNCHANGED <<task, running, plan, orphaned>>
    PROVE  TypeOK' /\ SchedulerBounded'
BY SlotsUntouched DEF TypeOK

LEMMA EventsTyped == ASSUME TypeOK, Event PROVE events' \in 0..MaxEvents
BY SyncBounds DEF Event, TypeOK

LEMMA SchedulerKeepsInv ==
    ASSUME TypeOK, SchedulerBounded, List \/ \E a \in Artists : StartBounded(a)
    PROVE  TypeOK' /\ SchedulerBounded'
<1>1. CASE List
  <2>1. plan' \in [Artists -> Ids \cup {None}]
    BY <1>1 DEF List, TypeOK, Artist
  <2> QED BY <1>1, <2>1, SlotsUntouched DEF List, TypeOK
<1>2. ASSUME NEW a \in Artists, StartBounded(a) PROVE TypeOK' /\ SchedulerBounded'
  <2>1. plan[a] \in Ids /\ plan' \in [Artists -> Ids \cup {None}]
    BY <1>2 DEF StartBounded, TypeOK
  <2>2. CASE UNCHANGED <<task, running>>
    BY <1>2, <2>1, <2>2, SlotsUntouched DEF StartBounded, TypeOK
  <2>3. CASE running < MaxSyncs /\ Started(a, plan[a], TRUE) /\ running' = running + 1
    <3>1. /\ task' \in [Tasks -> Sync \cup {Idle}]
          /\ Cardinality(Bounded(task')) = Cardinality(Bounded(task)) + 1
      BY <2>1, <2>3, StartTakesSlot
    <3>2. running' \in Nat /\ SchedulerBounded'
      BY <2>3, <3>1, SyncBounds DEF SchedulerBounded, TypeOK
    <3> QED BY <1>2, <2>1, <3>1, <3>2 DEF StartBounded, TypeOK
  <2> QED BY <1>2, <2>2, <2>3 DEF StartBounded
<1> QED BY <1>1, <1>2

LEMMA NewArtistTyped ==
    ASSUME NEW id \in Ids, NEW by \in Served, NEW auto \in BOOLEAN
    PROVE  NewArtist(id, by, auto) \in Artist
BY DEF NewArtist, Artist

\* Requests that start a sync at once.
LEMMA SyncRequestKeepsInv ==
    ASSUME TypeOK, SchedulerBounded, NEW a \in Artists, NEW id \in Ids,
           NEW by \in Enabled \cup {None}, NEW auto \in BOOLEAN,
           SyncNow(a) \/ SetExternalId(a, id, by) \/ AddArtist(a, id, by, auto)
    PROVE  TypeOK' /\ SchedulerBounded'
<1>1. artist[a] \in Artist /\ artist[a].id \in Ids /\ by \in Served
  BY SyncEnabled DEF TypeOK, Artist, Served
<1>2. events' \in 0..MaxEvents
  BY EventsTyped DEF SyncNow, SetExternalId, AddArtist
<1>3. artist' \in [Artists -> Artist] /\ orphaned' \in [Artists -> BOOLEAN]
  <2>1. CASE SyncNow(a)
    BY <2>1 DEF SyncNow, TypeOK
  <2>2. CASE SetExternalId(a, id, by)
    <3> DEFINE provider == IF by = None THEN artist[a].provider ELSE by
    <3>1. [artist[a] EXCEPT !.id = id, !.provider = provider] \in Artist
      BY <1>1 DEF Artist
    <3>2. artist' = [artist EXCEPT ![a] = [artist[a] EXCEPT !.id = id, !.provider = provider]]
      BY <2>2 DEF SetExternalId, TypeOK
    <3> QED BY <2>2, <3>1, <3>2 DEF SetExternalId, TypeOK
  <2>3. CASE AddArtist(a, id, by, auto)
    BY <1>1, <2>3, NewArtistTyped DEF AddArtist, TypeOK
  <2> QED BY <2>1, <2>2, <2>3
<1>4. Started(a, artist[a].id, FALSE) \/ Started(a, id, FALSE)
  BY DEF SyncNow, SetExternalId, AddArtist
<1>5. UNCHANGED <<album, queued, download, running, plan>>
  BY DEF SyncNow, SetExternalId, AddArtist
<1>6. task' \in [Tasks -> Sync \cup {Idle}] /\ SchedulerBounded'
  BY <1>1, <1>4, <1>5, StartUnbounded
<1> QED BY <1>2, <1>3, <1>5, <1>6 DEF TypeOK

\* The other requests, and the download queue.
LEMMA RequestKeepsInv ==
    ASSUME TypeOK, SchedulerBounded,
           \/ \E a \in Artists : Elapse(a) \/ DeleteArtist(a)
           \/ \E a \in Artists : \E monitored, auto \in BOOLEAN : Monitor(a, monitored, auto)
           \/ \E k \in Albums : DeleteAlbum(k) \/ DeleteTrack(k) \/ DownloadAlbum(k)
    PROVE  TypeOK' /\ SchedulerBounded'
<1>1. events' \in 0..MaxEvents
  BY EventsTyped DEF Elapse, DeleteArtist, Monitor, DeleteAlbum, DeleteTrack, DownloadAlbum
<1>2. ASSUME NEW a \in Artists, Elapse(a) PROVE TypeOK' /\ SchedulerBounded'
  <2>1. [artist[a] EXCEPT !.recent = FALSE] \in Artist
    <3>1. artist[a] \in Artist
      BY DEF TypeOK
    <3>2. \A row \in Artist : [row EXCEPT !.recent = FALSE] \in Artist
      BY DEF Artist
    <3> QED BY <3>1, <3>2
  <2>2. artist' \in [Artists -> Artist]
    BY <1>2, <2>1 DEF Elapse, TypeOK
  <2> QED BY <1>1, <1>2, <2>2, RowsKeepInv DEF Elapse, TypeOK
<1>3. ASSUME NEW a \in Artists, DeleteArtist(a) PROVE TypeOK' /\ SchedulerBounded'
  <2>1. [artist[a] EXCEPT !.there = FALSE] \in Artist
    <3>1. artist[a] \in Artist
      BY DEF TypeOK
    <3>2. \A row \in Artist : [row EXCEPT !.there = FALSE] \in Artist
      BY DEF Artist
    <3> QED BY <3>1, <3>2
  <2>2. artist' \in [Artists -> Artist]
    BY <1>3, <2>1 DEF DeleteArtist, TypeOK
  <2> QED BY <1>1, <1>3, <2>2, RowsKeepInv DEF DeleteArtist, Drop, TypeOK
<1>4. ASSUME NEW a \in Artists, NEW monitored \in BOOLEAN, NEW auto \in BOOLEAN,
             Monitor(a, monitored, auto)
      PROVE  TypeOK' /\ SchedulerBounded'
  <2>1. [artist[a] EXCEPT !.monitored = monitored, !.auto = auto] \in Artist
    <3>1. artist[a] \in Artist
      BY DEF TypeOK
    <3>2. \A row \in Artist : [row EXCEPT !.monitored = monitored, !.auto = auto] \in Artist
      BY DEF Artist
    <3> QED BY <3>1, <3>2
  <2>2. artist' = [artist EXCEPT ![a] = [artist[a] EXCEPT !.monitored = monitored, !.auto = auto]]
    BY <1>4 DEF Monitor, TypeOK
  <2>3. artist' \in [Artists -> Artist]
    BY <2>1, <2>2 DEF TypeOK
  <2> QED BY <1>1, <1>4, <2>3, RowsKeepInv DEF Monitor, TypeOK
<1>5. ASSUME NEW k \in Albums, DeleteAlbum(k) PROVE TypeOK' /\ SchedulerBounded'
  BY <1>1, <1>5, RowsKeepInv DEF DeleteAlbum, Drop, TypeOK
<1>6. ASSUME NEW k \in Albums, DeleteTrack(k) PROVE TypeOK' /\ SchedulerBounded'
  <2>1. k.artist \in Artists /\ MinusOne(artist[k.artist].down) \in Nat
    BY DEF TypeOK, Albums, Artist, MinusOne
  <2>2. [artist[k.artist] EXCEPT !.down = MinusOne(artist[k.artist].down)] \in Artist
    BY <2>1, SMTT(30) DEF TypeOK, Artist
  <2>3. artist' = [artist EXCEPT ![k.artist] =
                     [artist[k.artist] EXCEPT !.down = MinusOne(artist[k.artist].down)]]
    BY <1>6 DEF DeleteTrack
  <2>4. artist' \in [Artists -> Artist]
    BY <2>1, <2>2, <2>3 DEF TypeOK
  <2>5. album' \in [Albums -> {"none", "missing", "downloaded"}]
    BY <1>6 DEF DeleteTrack, TypeOK
  <2> QED BY <1>1, <1>6, <2>4, <2>5, RowsKeepInv DEF DeleteTrack, TypeOK
<1>7. ASSUME NEW k \in Albums, DownloadAlbum(k) PROVE TypeOK' /\ SchedulerBounded'
  BY <1>1, <1>7, RowsKeepInv DEF DownloadAlbum, TypeOK
<1> QED BY <1>2, <1>3, <1>4, <1>5, <1>6, <1>7

LEMMA DownloadKeepsInv ==
    ASSUME TypeOK, SchedulerBounded,
           (\E k \in Albums : DownloadStart(k)) \/ DownloadDone \/ DownloadFails
    PROVE  TypeOK' /\ SchedulerBounded'
<1>1. ASSUME NEW k \in Albums, DownloadStart(k) PROVE TypeOK' /\ SchedulerBounded'
  <2>1. artist[k.artist].down \in Nat
    BY DEF TypeOK, Albums, Artist
  <2>2. download' \in [album : Albums, seen : Nat]
    BY <1>1, <2>1 DEF DownloadStart
  <2> QED BY <1>1, <2>2, RowsKeepInv DEF DownloadStart, TypeOK
<1>2. CASE DownloadDone
  <2> DEFINE k == download.album
             a == k.artist
  <2>1. k \in Albums /\ a \in Artists /\ download.seen \in Nat /\ artist[a] \in Artist
    BY <1>2 DEF DownloadDone, TypeOK, Albums
  <2>2. PICK seen \in {download.seen, artist[a].down} :
          artist' = [artist EXCEPT ![a].down = seen + 1]
    BY <1>2 DEF DownloadDone
  <2>3. seen + 1 \in Nat
    BY <2>1, <2>2 DEF Artist
  <2>4. [artist[a] EXCEPT !.down = seen + 1] \in Artist
    BY <2>1, <2>3 DEF Artist
  <2>5. artist' \in [Artists -> Artist]
    BY <2>1, <2>2, <2>4 DEF TypeOK
  <2> QED BY <1>2, <2>1, <2>5, RowsKeepInv DEF DownloadDone, TypeOK
<1>3. CASE DownloadFails
  BY <1>3, RowsKeepInv DEF DownloadFails, TypeOK
<1> QED BY <1>1, <1>2, <1>3

LEMMA RestartKeepsInv ==
    ASSUME TypeOK, SchedulerBounded, Restart
    PROVE  TypeOK' /\ SchedulerBounded'
<1>1. ASSUME NEW a \in Artists PROVE Backfilled(a) \in Artist
  <2>1. artist[a] \in Artist
    BY DEF TypeOK
  <2> QED BY <2>1, RecomputedTyped DEF Backfilled
<1>2. Bounded(task') = {}
  BY DEF Restart, Bounded
<1>3. SchedulerBounded'
  <2>1. Cardinality(Bounded(task')) = 0
    BY <1>2, FS_EmptySet
  <2>2. 0 <= MaxSyncs
    BY SyncBounds
  <2> QED BY <2>1, <2>2 DEF Restart, SchedulerBounded
<1>4. artist' \in [Artists -> Artist]
  BY <1>1 DEF Restart
<1>5. events' \in 0..MaxEvents
  BY EventsTyped DEF Restart
<1> QED BY <1>3, <1>4, <1>5 DEF Restart, TypeOK

LEMMA StepInv == Inv /\ [Next]_vars => Inv'
<1> SUFFICES ASSUME TypeOK, SchedulerBounded, [Next]_vars
             PROVE  TypeOK' /\ SchedulerBounded'
  BY DEF Inv
<1>1. CASE UNCHANGED vars
  BY <1>1, SlotsUntouched DEF vars, TypeOK
<1>2. ASSUME NEW t \in Tasks, Begin(t) \/ Finish(t) \/ FinishFails(t) \/ FinishDies(t)
      PROVE  TypeOK' /\ SchedulerBounded'
  BY <1>2, BeginKeepsInv, FinishKeepsInv, SyncFailureKeepsInv
<1>3. CASE List \/ \E a \in Artists : StartBounded(a)
  BY <1>3, SchedulerKeepsInv
<1>4. ASSUME NEW a \in Artists,
             \/ Elapse(a) \/ DeleteArtist(a)
             \/ \E monitored, auto \in BOOLEAN : Monitor(a, monitored, auto)
      PROVE  TypeOK' /\ SchedulerBounded'
  BY <1>4, RequestKeepsInv
<1>5. ASSUME NEW a \in Artists, SyncNow(a) PROVE TypeOK' /\ SchedulerBounded'
  <2>1. artist[a].id \in Ids
    BY DEF TypeOK, Artist
  <2> QED BY <1>5, <2>1, SyncRequestKeepsInv
<1>6. ASSUME NEW a \in Artists, NEW id \in Ids, NEW by \in Enabled \cup {None},
             SetExternalId(a, id, by) \/ \E auto \in BOOLEAN : AddArtist(a, id, by, auto)
      PROVE  TypeOK' /\ SchedulerBounded'
  BY <1>6, SyncRequestKeepsInv
<1>7. ASSUME NEW k \in Albums, DeleteAlbum(k) \/ DeleteTrack(k) \/ DownloadAlbum(k)
      PROVE  TypeOK' /\ SchedulerBounded'
  BY <1>7, RequestKeepsInv
<1>8. CASE (\E k \in Albums : DownloadStart(k)) \/ DownloadDone \/ DownloadFails
  BY <1>8, DownloadKeepsInv
<1>9. CASE Restart
  BY <1>9, RestartKeepsInv
<1> QED BY <1>1, <1>2, <1>3, <1>4, <1>5, <1>6, <1>7, <1>8, <1>9 DEF Next

LEMMA InvAlways == Spec => []Inv
BY InitInv, StepInv, PTL DEF Spec

\* Every variable has its type: no counter becomes negative, and neither does
\* the number of slots in use.
THEOREM TypeCorrect == Spec => []TypeOK
<1>1. Inv => TypeOK
  BY DEF Inv
<1> QED BY <1>1, InvAlways, PTL

\* The scheduler's counter is the number of its tasks, and within the bound.
THEOREM SchedulerIsBounded == Spec => []SchedulerBounded
<1>1. Inv => SchedulerBounded
  BY DEF Inv
<1> QED BY <1>1, InvAlways, PTL

-----------------------------------------------------------------------------
(* The status shown for an artist.                                         *)

Shown(a) == artist[a].there /\ artist[a].status = "syncing" /\ ~orphaned[a]

\* No task changes, and nobody is newly shown as syncing.
LEMMA RowsKeepStatus ==
    ASSUME StatusTruthful, UNCHANGED task, \A a \in Artists : Shown(a)' => Shown(a)
    PROVE  StatusTruthful'
BY DEF StatusTruthful, Shown

\* A task that starts is one for its artist; the other artists stay as they are.
LEMMA StartKeepsStatus ==
    ASSUME TypeOK, StatusTruthful,
           NEW a \in Artists, NEW id \in Ids, NEW b \in BOOLEAN, Started(a, id, b),
           \A c \in Artists \ {a} : Shown(c)' => Shown(c)
    PROVE  StatusTruthful'
<1> DEFINE new == [pc |-> "begin", artist |-> a, id |-> id, bounded |-> b,
                   provider |-> None, total |-> 0, down |-> 0]
<1>1. PICK t \in Tasks : task[t] = Idle /\ task' = [task EXCEPT ![t] = new]
  BY DEF Started
<1>2. new # Idle /\ new.artist = a
  BY DEF Idle
<1> HIDE DEF new
<1>3. task'[t] = new /\ \A u \in Tasks \ {t} : task'[u] = task[u]
  BY <1>1 DEF TypeOK
<1>4. ASSUME NEW c \in Artists, Shown(c)'
      PROVE  \E u \in Tasks : task'[u] # Idle /\ task'[u].artist = c
  <2>1. CASE c = a
    BY <1>2, <1>3, <2>1
  <2>2. CASE c # a
    <3>1. PICK u \in Tasks : task[u] # Idle /\ task[u].artist = c
      BY <1>4, <2>2 DEF StatusTruthful, Shown
    <3>2. task'[u] = task[u]
      BY <1>1, <1>3, <3>1
    <3> QED BY <3>1, <3>2
  <2> QED BY <2>1, <2>2
<1> QED BY <1>4 DEF StatusTruthful, Shown

\* A task that ends leaves its artist with another status, or orphaned.
LEMMA EndKeepsStatus ==
    ASSUME TypeOK, StatusTruthful, NEW t \in Tasks, task[t] # Idle, Ended(t),
           \A c \in Artists : Shown(c)' => Shown(c) /\ c # task[t].artist
    PROVE  StatusTruthful'
<1>1. \A u \in Tasks \ {t} : task'[u] = task[u]
  BY DEF Ended, TypeOK
<1>2. ASSUME NEW c \in Artists, Shown(c)'
      PROVE  \E u \in Tasks : task'[u] # Idle /\ task'[u].artist = c
  <2>1. PICK u \in Tasks : task[u] # Idle /\ task[u].artist = c
    BY <1>2 DEF StatusTruthful, Shown
  <2> QED BY <1>1, <1>2, <2>1
<1> QED BY <1>2 DEF StatusTruthful, Shown

LEMMA BeginKeepsStatus ==
    ASSUME TypeOK, StatusTruthful, NEW t \in Tasks, Begin(t)
    PROVE  StatusTruthful'
<1> DEFINE a == task[t].artist
<1>1. task[t] \in Sync /\ task[t] # Idle /\ a \in Artists
  BY DEF Begin, TypeOK, Sync, Idle
<1>2. CASE /\ artist' = [artist EXCEPT ![a].status = "syncing"]
           /\ orphaned' = [orphaned EXCEPT ![a] = FALSE]
           /\ task' = [task EXCEPT ![t].pc = "fetch", ![t].provider = artist[a].provider,
                                   ![t].total = artist[a].total, ![t].down = artist[a].down]
  <2>1. task'[t] # Idle /\ task'[t].artist = a
    BY <1>1, <1>2 DEF TypeOK, Sync, Idle
  <2>2. \A u \in Tasks \ {t} : task'[u] = task[u]
    BY <1>2 DEF TypeOK
  <2>3. \A c \in Artists \ {a} : artist'[c] = artist[c] /\ orphaned'[c] = orphaned[c]
    BY <1>2 DEF TypeOK
  <2>4. ASSUME NEW c \in Artists, Shown(c)', c # a
        PROVE  \E u \in Tasks : task'[u] # Idle /\ task'[u].artist = c
    <3>1. PICK u \in Tasks : task[u] # Idle /\ task[u].artist = c
      BY <2>3, <2>4 DEF StatusTruthful, Shown
    <3> QED BY <2>2, <2>4, <3>1
  <2> QED BY <2>1, <2>4 DEF StatusTruthful, Shown
<1>3. CASE ~artist[a].there /\ Ended(t) /\ UNCHANGED <<artist, orphaned>>
  BY <1>1, <1>3, EndKeepsStatus DEF Shown
<1>4. CASE Ended(t) /\ UNCHANGED artist
           /\ orphaned' = [orphaned EXCEPT ![a] = artist[a].status = "syncing"]
  BY <1>1, <1>4, EndKeepsStatus DEF Shown, TypeOK
<1> QED BY <1>2, <1>3, <1>4 DEF Begin

LEMMA SyncEndKeepsStatus ==
    ASSUME TypeOK, StatusTruthful, NEW t \in Tasks,
           Finish(t) \/ FinishFails(t) \/ FinishDies(t)
    PROVE  StatusTruthful'
<1> DEFINE a == task[t].artist
<1>1. task[t] \in Sync /\ task[t] # Idle /\ a \in Artists /\ Ended(t)
  BY DEF Finish, FinishFails, FinishDies, TypeOK, Sync, Idle
<1>2. CASE Finish(t)
  <2>1. PICK answer, inserted, pruned :
          /\ answer \in Answers(task[t].id)
          /\ artist' = [artist EXCEPT ![a] = SyncedArtist(t, answer, inserted, pruned)]
    BY <1>2 DEF Finish
  <2>2. answer.by \in Served
    BY <1>1, <2>1, AnswersTyped DEF Sync
  <2>3. SyncedArtist(t, answer, inserted, pruned).status = "ready"
    <3>1. Recomputed(artist[a], task[t], pruned) \in Artist
      BY <1>1, RecomputedTyped DEF TypeOK
    <3> QED BY <3>1 DEF SyncedArtist, CountersAfter, StatusAfter, Artist
  <2>4. artist'[a].status = "ready" /\ \A c \in Artists \ {a} : artist'[c] = artist[c]
    BY <1>1, <2>1, <2>3 DEF TypeOK
  <2>5. orphaned' = orphaned
    BY <1>2 DEF Finish
  <2> QED BY <1>1, <2>4, <2>5, EndKeepsStatus DEF Shown
<1>3. CASE FinishFails(t)
  <2>1. artist[a] \in Artist
    BY <1>1 DEF TypeOK
  <2>2. artist'[a].status = "error" /\ \A c \in Artists \ {a} : artist'[c] = artist[c]
    BY <1>1, <1>3, <2>1 DEF FinishFails, TypeOK, Artist
  <2>3. orphaned' = orphaned
    BY <1>3 DEF FinishFails
  <2> QED BY <1>1, <2>2, <2>3, EndKeepsStatus DEF Shown
<1>4. CASE FinishDies(t)
  <2>1. artist' = artist /\ orphaned' = [orphaned EXCEPT ![a] = artist[a].status = "syncing"]
    BY <1>4 DEF FinishDies
  <2> QED BY <1>1, <2>1, EndKeepsStatus DEF Shown, TypeOK
<1> QED BY <1>2, <1>3, <1>4

LEMMA RestartKeepsStatus ==
    ASSUME TypeOK, Restart
    PROVE  StatusTruthful'
<1>1. ASSUME NEW a \in Artists
      PROVE  Backfilled(a).there = artist[a].there /\ Backfilled(a).status = artist[a].status
  <2>1. artist[a] \in Artist
    BY DEF TypeOK
  <2> QED BY <2>1, RecomputedTyped DEF Backfilled
<1>2. ASSUME NEW a \in Artists PROVE ~Shown(a)'
  BY <1>1 DEF Restart, Shown
<1> QED BY <1>2 DEF StatusTruthful, Shown

\* The rows that requests and the queue change.
LEMMA RequestKeepsStatus ==
    ASSUME TypeOK, StatusTruthful,
           \/ List
           \/ \E a \in Artists :
                 \/ Elapse(a) \/ DeleteArtist(a)
                 \/ \E monitored, auto \in BOOLEAN : Monitor(a, monitored, auto)
           \/ \E k \in Albums : DeleteAlbum(k) \/ DeleteTrack(k) \/ DownloadAlbum(k) \/ DownloadStart(k)
           \/ DownloadDone \/ DownloadFails
    PROVE  StatusTruthful'
<1>1. UNCHANGED <<task, orphaned>>
  BY DEF List, Elapse, DeleteArtist, Monitor, DeleteAlbum, Drop, DeleteTrack, DownloadAlbum,
         DownloadStart, DownloadDone, DownloadFails
<1>2. ASSUME NEW c \in Artists
      PROVE  artist'[c].status = artist[c].status /\ (artist'[c].there => artist[c].there)
  <2>1. artist[c] \in Artist /\ artist \in [Artists -> Artist]
    BY DEF TypeOK
  <2>2. CASE UNCHANGED artist
    BY <2>2
  <2>3. ASSUME NEW a \in Artists, Elapse(a)
        PROVE  artist'[c].status = artist[c].status /\ (artist'[c].there => artist[c].there)
    BY <2>1, <2>3 DEF Elapse, Artist
  <2>4. ASSUME NEW a \in Artists, DeleteArtist(a)
        PROVE  artist'[c].status = artist[c].status /\ (artist'[c].there => artist[c].there)
    BY <2>1, <2>4 DEF DeleteArtist, Artist
  <2>5. ASSUME NEW a \in Artists, NEW monitored \in BOOLEAN, NEW auto \in BOOLEAN,
               Monitor(a, monitored, auto)
        PROVE  artist'[c].status = artist[c].status /\ (artist'[c].there => artist[c].there)
    BY <2>1, <2>5 DEF Monitor, Artist
  <2>6. ASSUME NEW k \in Albums, DeleteTrack(k)
        PROVE  artist'[c].status = artist[c].status /\ (artist'[c].there => artist[c].there)
    BY <2>1, <2>6 DEF DeleteTrack, Artist
  <2>7. CASE DownloadDone
    BY <2>1, <2>7 DEF DownloadDone, Artist
  <2> QED BY <2>2, <2>3, <2>4, <2>5, <2>6, <2>7
          DEF List, DeleteAlbum, DownloadAlbum, DownloadStart, DownloadFails
<1> QED BY <1>1, <1>2, RowsKeepStatus DEF Shown

LEMMA StartsKeepStatus ==
    ASSUME TypeOK, StatusTruthful, NEW a \in Artists,
           \/ StartBounded(a) \/ SyncNow(a)
           \/ \E id \in Ids, by \in Enabled \cup {None} : SetExternalId(a, id, by)
           \/ \E id \in Ids, by \in Enabled \cup {None}, auto \in BOOLEAN : AddArtist(a, id, by, auto)
    PROVE  StatusTruthful'
<1>1. artist[a].id \in Ids
  BY DEF TypeOK, Artist
<1>2. CASE StartBounded(a)
  <2>1. UNCHANGED <<artist, orphaned>> /\ plan[a] \in Ids
    BY <1>2 DEF StartBounded, TypeOK
  <2>2. CASE UNCHANGED task
    BY <2>1, <2>2, RowsKeepStatus DEF Shown
  <2>3. CASE Started(a, plan[a], TRUE)
    BY <2>1, <2>3, StartKeepsStatus DEF Shown
  <2> QED BY <1>2, <2>2, <2>3 DEF StartBounded
<1>3. CASE SyncNow(a)
  <2>1. Started(a, artist[a].id, FALSE) /\ UNCHANGED <<artist, orphaned>>
    BY <1>3 DEF SyncNow
  <2> QED BY <1>1, <2>1, StartKeepsStatus DEF Shown
<1>4. ASSUME NEW id \in Ids, NEW by \in Enabled \cup {None},
             SetExternalId(a, id, by) \/ \E auto \in BOOLEAN : AddArtist(a, id, by, auto)
      PROVE  StatusTruthful'
  <2>1. /\ Started(a, id, FALSE)
        /\ \A c \in Artists \ {a} : artist'[c] = artist[c] /\ orphaned'[c] = orphaned[c]
    BY <1>4 DEF SetExternalId, AddArtist, TypeOK
  <2> QED BY <2>1, StartKeepsStatus DEF Shown
<1> QED BY <1>2, <1>3, <1>4

\* An artist is shown as syncing only while a sync of it is under way, unless
\* one died.
THEOREM StatusIsTruthful == Spec => []StatusTruthful
<1>1. Init => StatusTruthful
  <2> SUFFICES ASSUME Init PROVE StatusTruthful
    OBVIOUS
  <2>1. PICK id \in Ids :
          artist = [a \in Artists |->
                IF a \in Imported
                THEN [NewArtist(id, None, FALSE) EXCEPT
                         !.status = "ready", !.total = Cardinality(Of(a, album)), !.down = 1]
                ELSE [NewArtist(id, None, FALSE) EXCEPT !.there = FALSE]]
    BY DEF Init
  <2>2. ASSUME NEW a \in Artists
        PROVE  ~(artist[a].there /\ artist[a].status = "syncing")
    BY <2>1 DEF NewArtist
  <2> QED BY <2>2 DEF StatusTruthful
<1>2. TypeOK /\ StatusTruthful /\ [Next]_vars => StatusTruthful'
  <2> SUFFICES ASSUME TypeOK, StatusTruthful, [Next]_vars PROVE StatusTruthful'
    OBVIOUS
  <2>1. CASE UNCHANGED vars
    BY <2>1, RowsKeepStatus DEF vars, Shown
  <2>2. ASSUME NEW t \in Tasks, Begin(t) \/ Finish(t) \/ FinishFails(t) \/ FinishDies(t)
        PROVE  StatusTruthful'
    BY <2>2, BeginKeepsStatus, SyncEndKeepsStatus
  <2>3. ASSUME NEW a \in Artists,
               \/ StartBounded(a) \/ SyncNow(a)
               \/ \E id \in Ids, by \in Enabled \cup {None} : SetExternalId(a, id, by)
               \/ \E id \in Ids, by \in Enabled \cup {None}, auto \in BOOLEAN : AddArtist(a, id, by, auto)
        PROVE  StatusTruthful'
    BY <2>3, StartsKeepStatus
  <2>4. ASSUME NEW a \in Artists,
               \/ Elapse(a) \/ DeleteArtist(a)
               \/ \E monitored, auto \in BOOLEAN : Monitor(a, monitored, auto)
        PROVE  StatusTruthful'
    BY <2>4, RequestKeepsStatus
  <2>5. ASSUME NEW k \in Albums,
               DeleteAlbum(k) \/ DeleteTrack(k) \/ DownloadAlbum(k) \/ DownloadStart(k)
        PROVE  StatusTruthful'
    BY <2>5, RequestKeepsStatus
  <2>6. CASE List \/ DownloadDone \/ DownloadFails
    BY <2>6, RequestKeepsStatus
  <2>7. CASE Restart
    BY <2>7, RestartKeepsStatus
  <2> QED BY <2>1, <2>2, <2>3, <2>4, <2>5, <2>6, <2>7 DEF Next
<1> QED BY <1>1, <1>2, TypeCorrect, PTL DEF Spec

-----------------------------------------------------------------------------
(* What a sync may do to the library.                                      *)

\* No sync takes a downloaded track away; only requests do, and they count as
\* events.
THEOREM DownloadsAreKept == Spec => DownloadsKept
<1>1. ASSUME TypeOK, [Next]_vars, NEW k \in Albums, album[k] = "downloaded", events' = events
      PROVE  album'[k] = "downloaded"
  <2>1. ~Event
    BY <1>1 DEF Event, TypeOK
  <2>2. CASE UNCHANGED album
    BY <1>1, <2>2
  <2>3. ASSUME NEW t \in Tasks, Finish(t) PROVE album'[k] = "downloaded"
    <3> DEFINE a == task[t].artist
    <3>1. PICK answer \in Answers(task[t].id) :
            LET inserted == Inserted(a, answer, album)
            IN  album' = [x \in Albums |-> IF x \in Prunable(a, answer, inserted)
                                           THEN "none" ELSE inserted[x]]
      BY <2>3 DEF Finish
    <3>2. Inserted(a, answer, album)[k] = "downloaded"
      BY <1>1 DEF Inserted
    <3>3. k \notin Prunable(a, answer, Inserted(a, answer, album))
      BY <3>2 DEF Prunable
    <3> QED BY <3>1, <3>2, <3>3
  <2>4. CASE DownloadDone
    BY <1>1, <2>4 DEF DownloadDone, TypeOK
  <2>5. ASSUME NEW t \in Tasks, Begin(t) \/ FinishFails(t) \/ FinishDies(t) PROVE UNCHANGED album
    BY <2>5 DEF Begin, FinishFails, FinishDies
  <2>6. ASSUME NEW a \in Artists,
               \/ StartBounded(a) \/ Elapse(a) \/ SyncNow(a) \/ DeleteArtist(a)
               \/ \E id \in Ids, by \in Enabled \cup {None} : SetExternalId(a, id, by)
               \/ \E id \in Ids, by \in Enabled \cup {None}, auto \in BOOLEAN : AddArtist(a, id, by, auto)
               \/ \E monitored, auto \in BOOLEAN : Monitor(a, monitored, auto)
        PROVE  UNCHANGED album
    BY <2>1, <2>6 DEF StartBounded, Elapse, SyncNow, DeleteArtist, SetExternalId, AddArtist, Monitor
  <2>7. ASSUME NEW x \in Albums,
               DeleteAlbum(x) \/ DeleteTrack(x) \/ DownloadAlbum(x) \/ DownloadStart(x)
        PROVE  UNCHANGED album
    BY <2>1, <2>7 DEF DeleteAlbum, DeleteTrack, DownloadAlbum, DownloadStart
  <2>8. CASE List \/ DownloadFails \/ Restart \/ UNCHANGED vars
    BY <1>1, <2>8 DEF List, DownloadFails, Restart, vars
  <2> QED BY <1>1, <2>2, <2>3, <2>4, <2>5, <2>6, <2>7, <2>8 DEF Next
<1>2. TypeOK /\ [Next]_vars =>
        [\A k \in Albums : album[k] = "downloaded" /\ events' = events => album'[k] = "downloaded"]_vars
  BY <1>1
<1> QED BY <1>2, TypeCorrect, PTL DEF Spec, DownloadsKept

\* A sync that ends well leaves both counters exact, whatever they were, if
\* nobody else wrote them since it read the artist.
THEOREM CountersAreRepaired == Spec => CountersRepaired
<1> DEFINE Repaired(t) ==
             LET a == task[t].artist
             IN  task[t].pc = "fetch" /\ task'[t] = Idle /\ Finish(t) =>
                    /\ artist[a].total = task[t].total
                           => artist'[a].total = Cardinality(Of(a, album'))
                    /\ artist[a].down = task[t].down
                           => artist'[a].down = Cardinality(Downloaded(a, album'))
<1>1. ASSUME TypeOK, NEW t \in Tasks PROVE Repaired(t)
  <2> DEFINE a == task[t].artist
             row == Recomputed(artist[a], task[t], album')
  <2>1. SUFFICES ASSUME Finish(t) PROVE Repaired(t)
    OBVIOUS
  <2>2. task[t] \in Sync /\ a \in Artists /\ artist[a] \in Artist
    BY <1>1, <2>1 DEF Finish, TypeOK, Sync, Idle
  <2>3. PICK answer, inserted :
          artist' = [artist EXCEPT ![a] = SyncedArtist(t, answer, inserted, album')]
    BY <2>1 DEF Finish
  <2>4. /\ row \in Artist
        /\ row.total = Written(Cardinality(Of(a, album')), task[t].total, artist[a].total)
        /\ row.down = Written(Cardinality(Downloaded(a, album')), task[t].down, artist[a].down)
    BY <2>2, RecomputedTyped
  <2> HIDE DEF row
  <2>5. artist'[a] = SyncedArtist(t, answer, inserted, album')
    BY <1>1, <2>2, <2>3 DEF TypeOK
  <2>6. artist'[a] =
          [row EXCEPT !.provider = IF answer.by = None THEN @ ELSE Written(answer.by, task[t].provider, @),
                      !.status = "ready", !.recent = TRUE]
    BY <2>5 DEF SyncedArtist, CountersAfter, StatusAfter, row
  <2>7. artist'[a].total = row.total /\ artist'[a].down = row.down
    BY <2>4, <2>6 DEF Artist
  <2> QED BY <2>4, <2>7 DEF Written
<1> HIDE DEF Repaired
<1>2. TypeOK /\ [Next]_vars => [\A t \in Tasks : Repaired(t)]_vars
  BY <1>1
<1> QED BY <1>2, TypeCorrect, PTL DEF Spec, CountersRepaired, Repaired

=============================================================================
