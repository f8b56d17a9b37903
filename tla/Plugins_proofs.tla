--------------------------- MODULE Plugins_proofs ---------------------------
(***************************************************************************)
(* What holds of the plugin manager for any plugins, any number of         *)
(* repositories, callers and requests, and whatever the hooks of plugins   *)
(* and the database do.                                                    *)
(***************************************************************************)
EXTENDS Plugins, Extremes_proofs, TLAPS

-----------------------------------------------------------------------------
(* The inductive invariant.  What the manager holds in memory is related   *)
(* to itself by Sound, to the tables by Agrees and to the callers of       *)
(* providers by CallsLive.                                                 *)

\* Something is loaded under its own id; the registry has exactly the enabled
\* plugins, each with the object that is loaded now and its priority, or a
\* handle on an object that was replaced.
Sound(m) ==
    /\ m \in Memory
    /\ \A p \in Plugins : m.loaded[p] # 0 =>
          m.obj[m.loaded[p]] # NoObject /\ m.obj[m.loaded[p]].plugin = p
    /\ \A p \in Plugins : m.handle[p] # NoHandle =>
          m.handle[p].inst # 0 /\ m.obj[m.handle[p].inst] # NoObject
    /\ \A p \in Plugins : Running(m, p) =>
          m.handle[p] = [inst |-> m.loaded[p], prio |-> Effective(m.obj[m.loaded[p]])]
    /\ \A p \in Plugins : ~Running(m, p) =>
          m.handle[p] = NoHandle \/ (m.loaded[p] # 0 /\ m.handle[p].inst # m.loaded[p])
    /\ \A i \in Instances : m.obj[i] # NoObject => m.obj[i].subscribed \/ m.obj[i].muted

\* An object that was not written past has the overrides of the tables.
Agrees ==
    \A p \in Plugins : mem.loaded[p] # 0 =>
        LET o == mem.obj[mem.loaded[p]]
        IN  o.drifted \/ (o.prio = row[p].prio /\ o.cap = capPrio[p])

\* The object a caller holds or runs is not collected.
CallsLive == \A c \in Calls : call[c] # NoCall => mem.obj[call[c].inst] # NoObject

\* A bundled plugin without a row was uninstalled, so no boot brings it back.
Uninstalled == \A p \in Bundled : row[p].there \/ p \in tombstones

\* What is not installed is not enabled.
Installed == \A p \in Plugins : row[p].enabled => row[p].there

PluginsInv == /\ TypeOK /\ Sound(mem) /\ Agrees /\ CallsLive /\ Uninstalled
              /\ Installed /\ RunsOnlyIfAllowed

-----------------------------------------------------------------------------
(* Objects and memories.                                                   *)

LEMMA ObjectsAreNot == NoObject \notin Object /\ NoCall \notin Call
BY PluginsNames DEF NoObject, Object, NoCall, Call

LEMMA MemoryFields ==
    ASSUME NEW m \in Memory
    PROVE  /\ m.loaded \in [Plugins -> 0..MaxInstances]
           /\ m.handle \in [Plugins -> Handle]
           /\ m.obj \in [Instances -> Object \cup {NoObject}]
           /\ \A p \in Plugins : m.loaded[p] # 0 => m.loaded[p] \in Instances
           /\ \A p \in Plugins : m.handle[p].inst # 0 => m.handle[p].inst \in Instances
           /\ \A i \in Instances : m.obj[i] # NoObject => m.obj[i] \in Object
BY PluginsBounds DEF Memory, Handle, Instances

\* An operation that writes one object.
LEMMA PutObject ==
    ASSUME NEW m \in Memory, NEW i \in Instances, NEW o \in Object
    PROVE  LET n == [m EXCEPT !.obj[i] = o]
           IN  /\ n \in Memory /\ n.loaded = m.loaded /\ n.handle = m.handle
               /\ n.obj[i] = o /\ \A j \in Instances \ {i} : n.obj[j] = m.obj[j]
BY DEF Memory

LEMMA PutHandle ==
    ASSUME NEW m \in Memory, NEW p \in Plugins, NEW h \in Handle
    PROVE  LET n == [m EXCEPT !.handle[p] = h]
           IN  /\ n \in Memory /\ n.loaded = m.loaded /\ n.obj = m.obj
               /\ n.handle[p] = h /\ \A q \in Plugins \ {p} : n.handle[q] = m.handle[q]
BY DEF Memory

LEMMA ObjectUpdates ==
    ASSUME NEW o \in Object, NEW n \in 0..MaxFailures
    PROVE  /\ [o EXCEPT !.enabled = TRUE, !.failures = n] \in Object
           /\ [o EXCEPT !.enabled = FALSE, !.failures = n] \in Object
           /\ [o EXCEPT !.failures = n] \in Object
BY DEF Object

LEMMA SettingUpdates ==
    ASSUME NEW o \in Object, NEW v \in Override, NEW b \in BOOLEAN
    PROVE  /\ [o EXCEPT !.prio = v] \in Object
           /\ [o EXCEPT !.cap = v, !.drifted = b] \in Object
BY DEF Object

LEMMA EffectiveIsPriority ==
    ASSUME NEW o \in Object
    PROVE  Effective(o) \in Nat
BY PluginsPrios DEF Object, Effective, Override

LEMMA RaisesTyped == Raises \subseteq BOOLEAN
<1>1. HookFails \in BOOLEAN
  BY DEF HookFails
<1> QED BY <1>1, Zenon DEF Raises

LEMMA FailedTyped ==
    ASSUME NEW n \in 0..MaxFailures
    PROVE  Failed(n) \in 0..MaxFailures
BY PluginsBounds DEF Failed

-----------------------------------------------------------------------------
(* The operations of the manager.  Each of them writes an object first and *)
(* brings the registry in line afterwards; SoundBut holds in between.      *)

SoundBut(m, p) ==
    /\ m \in Memory
    /\ \A q \in Plugins : m.loaded[q] # 0 =>
          m.obj[m.loaded[q]] # NoObject /\ m.obj[m.loaded[q]].plugin = q
    /\ \A q \in Plugins : m.handle[q] # NoHandle =>
          m.handle[q].inst # 0 /\ m.obj[m.handle[q].inst] # NoObject
    /\ \A q \in Plugins \ {p} : Running(m, q) =>
          m.handle[q] = [inst |-> m.loaded[q], prio |-> Effective(m.obj[m.loaded[q]])]
    /\ \A q \in Plugins \ {p} : ~Running(m, q) =>
          m.handle[q] = NoHandle \/ (m.loaded[q] # 0 /\ m.handle[q].inst # m.loaded[q])
    /\ \A i \in Instances : m.obj[i] # NoObject => m.obj[i].subscribed \/ m.obj[i].muted

\* The operation left every object its settings and its place.
Keeps(m, n) ==
    /\ n.loaded = m.loaded
    /\ \A i \in Instances : m.obj[i] # NoObject =>
          /\ n.obj[i] # NoObject
          /\ n.obj[i].prio = m.obj[i].prio /\ n.obj[i].cap = m.obj[i].cap
          /\ n.obj[i].drifted = m.obj[i].drifted

LEMMA SoundIsSoundBut ==
    ASSUME NEW m, Sound(m), NEW p \in Plugins
    PROVE  SoundBut(m, p)
BY DEF Sound, SoundBut

LEMMA RegisterSound ==
    ASSUME NEW p \in Plugins, NEW m, SoundBut(m, p), Running(m, p)
    PROVE  /\ Sound(Register(m, p)) /\ Register(m, p).obj = m.obj
           /\ Register(m, p).loaded = m.loaded
<1> DEFINE h == [inst |-> m.loaded[p], prio |-> Effective(m.obj[m.loaded[p]])]
           n == [m EXCEPT !.handle[p] = h]
<1>1. m \in Memory /\ m.loaded[p] # 0
  BY DEF SoundBut, Running
<1>2. m.loaded[p] \in Instances /\ m.obj[m.loaded[p]] \in Object
  BY <1>1, MemoryFields DEF SoundBut
<1>3. h \in Handle
  BY <1>2, EffectiveIsPriority DEF Handle, Instances
<1>4. /\ n \in Memory /\ n.loaded = m.loaded /\ n.obj = m.obj
      /\ n.handle[p] = h /\ \A q \in Plugins \ {p} : n.handle[q] = m.handle[q]
  <2> HIDE DEF h
  <2> QED BY <1>1, <1>3, PutHandle
<1>5. \A q \in Plugins : Running(n, q) <=> Running(m, q)
  BY <1>4 DEF Running
<1> HIDE DEF n
<1>6. Sound(n)
  BY <1>1, <1>2, <1>4, <1>5 DEF Sound, SoundBut
<1> QED BY <1>4, <1>6 DEF Register, n

LEMMA UnregisterSound ==
    ASSUME NEW p \in Plugins, NEW m, SoundBut(m, p), ~Running(m, p)
    PROVE  /\ Sound(Unregister(m, p)) /\ Unregister(m, p).obj = m.obj
           /\ Unregister(m, p).loaded = m.loaded
<1> DEFINE n == [m EXCEPT !.handle[p] = NoHandle]
<1>1. m \in Memory
  BY DEF SoundBut
<1>2. NoHandle \in Handle
  BY PluginsBounds DEF NoHandle, Handle
<1>3. /\ n \in Memory /\ n.loaded = m.loaded /\ n.obj = m.obj
      /\ n.handle[p] = NoHandle /\ \A q \in Plugins \ {p} : n.handle[q] = m.handle[q]
  BY <1>1, <1>2, PutHandle
<1>4. \A q \in Plugins : Running(n, q) <=> Running(m, q)
  BY <1>3 DEF Running
<1> HIDE DEF n
<1>5. Sound(n)
  BY <1>1, <1>3, <1>4 DEF Sound, SoundBut
<1> QED BY <1>3, <1>5 DEF Unregister, n

LEMMA RefreshSound ==
    ASSUME NEW p \in Plugins, NEW m, SoundBut(m, p), m.loaded[p] # 0
    PROVE  /\ Sound(Refresh(m, p)) /\ Refresh(m, p).obj = m.obj
           /\ Refresh(m, p).loaded = m.loaded
BY RegisterSound, UnregisterSound DEF Refresh

\* Writing the object that is loaded under an id leaves the registry of the
\* other plugins right.
LEMMA PutLoaded ==
    ASSUME NEW m, Sound(m), NEW p \in Plugins, m.loaded[p] # 0,
           NEW o \in Object, o.plugin = p, o.subscribed \/ o.muted
    PROVE  LET n == [m EXCEPT !.obj[m.loaded[p]] = o]
           IN  /\ SoundBut(n, p) /\ n.loaded = m.loaded
               /\ n.obj[m.loaded[p]] = o
               /\ \A j \in Instances \ {m.loaded[p]} : n.obj[j] = m.obj[j]
               /\ \A q \in Plugins \ {p} : Running(n, q) <=> Running(m, q)
<1> DEFINE i == m.loaded[p]
           n == [m EXCEPT !.obj[i] = o]
<1>1. m \in Memory /\ i \in Instances
  BY MemoryFields DEF Sound
<1>2. /\ n \in Memory /\ n.loaded = m.loaded /\ n.handle = m.handle
      /\ n.obj[i] = o /\ \A j \in Instances \ {i} : n.obj[j] = m.obj[j]
  <2> HIDE DEF i
  <2> QED BY <1>1, PutObject
<1>3. \A q \in Plugins \ {p} : m.loaded[q] # 0 => m.loaded[q] \in Instances \ {i}
  BY <1>1, MemoryFields DEF Sound
<1>4. o # NoObject
  BY ObjectsAreNot
<1> HIDE DEF n
<1>5. \A q \in Plugins \ {p} : Running(n, q) <=> Running(m, q)
  BY <1>2, <1>3 DEF Running
<1>6. SoundBut(n, p)
  <2>1. \A q \in Plugins : n.loaded[q] # 0 =>
          n.obj[n.loaded[q]] # NoObject /\ n.obj[n.loaded[q]].plugin = q
    BY <1>2, <1>3, <1>4 DEF Sound
  <2>2. \A q \in Plugins : n.handle[q] # NoHandle =>
          n.handle[q].inst # 0 /\ n.obj[n.handle[q].inst] # NoObject
    BY <1>1, <1>2, <1>4, MemoryFields DEF Sound
  <2>3. \A q \in Plugins \ {p} : Running(n, q) =>
          n.handle[q] = [inst |-> n.loaded[q], prio |-> Effective(n.obj[n.loaded[q]])]
    BY <1>2, <1>3, <1>5 DEF Sound, Running
  <2>4. \A q \in Plugins \ {p} : ~Running(n, q) =>
          n.handle[q] = NoHandle \/ (n.loaded[q] # 0 /\ n.handle[q].inst # n.loaded[q])
    BY <1>2, <1>5 DEF Sound
  <2>5. \A j \in Instances : n.obj[j] # NoObject => n.obj[j].subscribed \/ n.obj[j].muted
    BY <1>2 DEF Sound
  <2> QED BY <1>2, <2>1, <2>2, <2>3, <2>4, <2>5 DEF SoundBut
<1> QED BY <1>2, <1>5, <1>6 DEF n

LEMMA UnsubscribeSound ==
    ASSUME NEW p \in Plugins, NEW m, SoundBut(m, p)
    PROVE  /\ SoundBut(Unsubscribe(m, p), p) /\ Keeps(m, Unsubscribe(m, p))
           /\ \A q \in Plugins : Running(Unsubscribe(m, p), q) <=> Running(m, q)
<1> DEFINE n == Unsubscribe(m, p)
           mute(o) == [o EXCEPT !.subscribed = FALSE, !.muted = TRUE]
<1>1. m \in Memory /\ m.obj \in [Instances -> Object \cup {NoObject}]
  BY MemoryFields DEF SoundBut
<1>2. \A i \in Instances : IF m.obj[i].plugin = p THEN n.obj[i] = mute(m.obj[i])
                           ELSE n.obj[i] = m.obj[i]
  BY <1>1 DEF Unsubscribe, Memory
<1>3. n.loaded = m.loaded /\ n.handle = m.handle
  BY <1>1 DEF Unsubscribe, Memory
<1>4. \A i \in Instances : m.obj[i].plugin = p => m.obj[i] \in Object
  BY <1>1, PluginsNames DEF NoObject
<1>5. \A o \in Object : /\ mute(o) \in Object /\ mute(o).muted
                        /\ mute(o).plugin = o.plugin
                        /\ mute(o).prio = o.prio /\ mute(o).cap = o.cap
                        /\ mute(o).drifted = o.drifted /\ (mute(o).enabled <=> o.enabled)
  BY DEF Object
<1> HIDE DEF mute
<1>6. n \in Memory
  <2>1. \A i \in Instances : n.obj[i] \in Object \cup {NoObject}
    BY <1>1, <1>2, <1>4, <1>5
  <2>2. n = [m EXCEPT !.obj = [i \in Instances |-> n.obj[i]]]
    BY <1>1 DEF Unsubscribe, Memory
  <2> HIDE DEF n
  <2> QED BY <1>1, <2>1, <2>2 DEF Memory
<1> HIDE DEF n
<1>7. \A i \in Instances : m.obj[i] # NoObject <=> n.obj[i] # NoObject
  BY <1>1, <1>2, <1>4, <1>5, ObjectsAreNot
<1>8. \A i \in Instances : m.obj[i] # NoObject =>
         /\ n.obj[i].plugin = m.obj[i].plugin
         /\ n.obj[i].prio = m.obj[i].prio /\ n.obj[i].cap = m.obj[i].cap
         /\ n.obj[i].drifted = m.obj[i].drifted
         /\ n.obj[i].enabled <=> m.obj[i].enabled
         /\ n.obj[i].subscribed \/ n.obj[i].muted
  BY <1>2, <1>4, <1>5 DEF SoundBut
<1>9. \A q \in Plugins : m.loaded[q] # 0 =>
         m.loaded[q] \in Instances /\ m.obj[m.loaded[q]] # NoObject
  BY <1>1, MemoryFields DEF SoundBut
<1>10. \A q \in Plugins : Running(n, q) <=> Running(m, q)
  BY <1>3, <1>8, <1>9 DEF Running
<1>11. Keeps(m, n)
  BY <1>3, <1>7, <1>8 DEF Keeps
<1>12. SoundBut(n, p)
  <2>1. \A q \in Plugins : n.loaded[q] # 0 =>
          n.obj[n.loaded[q]] # NoObject /\ n.obj[n.loaded[q]].plugin = q
    BY <1>3, <1>7, <1>8, <1>9 DEF SoundBut
  <2>2. \A q \in Plugins : n.handle[q] # NoHandle =>
          n.handle[q].inst # 0 /\ n.obj[n.handle[q].inst] # NoObject
    BY <1>1, <1>3, <1>7, MemoryFields DEF SoundBut
  <2>3. \A q \in Plugins : m.loaded[q] # 0 =>
          Effective(n.obj[n.loaded[q]]) = Effective(m.obj[m.loaded[q]])
    BY <1>3, <1>8, <1>9 DEF Effective
  <2>4. \A q \in Plugins \ {p} : Running(n, q) =>
          n.handle[q] = [inst |-> n.loaded[q], prio |-> Effective(n.obj[n.loaded[q]])]
    BY <1>3, <1>10, <2>3 DEF SoundBut, Running
  <2>5. \A q \in Plugins \ {p} : ~Running(n, q) =>
          n.handle[q] = NoHandle \/ (n.loaded[q] # 0 /\ n.handle[q].inst # n.loaded[q])
    BY <1>3, <1>10 DEF SoundBut
  <2> QED BY <1>6, <1>7, <1>8, <2>1, <2>2, <2>4, <2>5 DEF SoundBut
<1> QED BY <1>10, <1>11, <1>12 DEF n

\* The object that is loaded under an id.
LEMMA LoadedObject ==
    ASSUME NEW m, Sound(m), NEW p \in Plugins, m.loaded[p] # 0
    PROVE  /\ m.loaded[p] \in Instances /\ m.obj[m.loaded[p]] \in Object
           /\ m.obj[m.loaded[p]].plugin = p
           /\ m.obj[m.loaded[p]].subscribed \/ m.obj[m.loaded[p]].muted
           /\ m.obj[m.loaded[p]].failures \in 0..MaxFailures
<1>1. m.loaded[p] \in Instances /\ m.obj[m.loaded[p]] \in Object
  BY MemoryFields DEF Sound
<1> QED BY <1>1, ObjectsAreNot DEF Sound, Object

LEMMA KeepsAll ==
    ASSUME NEW l, NEW m, NEW n, Keeps(l, m), Keeps(m, n)
    PROVE  Keeps(l, n)
BY DEF Keeps

LEMMA KeepsObjects ==
    ASSUME NEW m, NEW n, n.loaded = m.loaded, n.obj = m.obj
    PROVE  Keeps(m, n)
BY DEF Keeps

\* Disabling stops the plugin or, when its hook never succeeds, nothing; no
\* other plugin starts or stops.
LEMMA DisableSound ==
    ASSUME NEW p \in Plugins, NEW m, Sound(m), NEW r \in DisableOutcomes(m, p)
    PROVE  /\ Sound(r) /\ Keeps(m, r)
           /\ \A q \in Plugins : Running(r, q) => Running(m, q)
<1> DEFINE i == m.loaded[p]
           off(n) == [m.obj[i] EXCEPT !.enabled = FALSE, !.failures = n]
           m1(n) == [m EXCEPT !.obj[i] = off(n)]
           m2(n) == Unsubscribe(m1(n), p)
           m3(n) == Unregister(m2(n), p)
           counted(n) == [m.obj[i] EXCEPT !.failures = n]
           m4(n) == [m EXCEPT !.obj[i] = counted(n)]
<1>1. CASE r = m
  BY <1>1, KeepsObjects
<1>2. CASE r # m
  <2>1. i # 0 /\ m \in Memory /\ Running(m, p)
    BY <1>2 DEF DisableOutcomes, Running, Sound
  <2>2. /\ i \in Instances /\ m.obj[i] \in Object /\ m.obj[i].plugin = p
        /\ m.obj[i].subscribed \/ m.obj[i].muted
        /\ m.obj[i].failures \in 0..MaxFailures
    BY <2>1, LoadedObject
  <2>3. Failed(m.obj[i].failures) \in 0..MaxFailures /\ 0 \in 0..MaxFailures
    BY <2>2, FailedTyped, PluginsBounds
  <2>4. PICK n \in 0..MaxFailures : r = m3(n) \/ r = m4(n)
    <3> DEFINE stopped(n) == [m EXCEPT !.obj[i].enabled = FALSE, !.obj[i].failures = n]
               failed == Failed(m.obj[i].failures)
    <3>1. \/ r = Unregister(Unsubscribe(stopped(0), p), p)
          \/ r = Unregister(Unsubscribe(stopped(failed), p), p)
          \/ r = [m EXCEPT !.obj[i].failures = failed]
      BY <1>2 DEF DisableOutcomes
    <3>2. stopped(0) = m1(0) /\ stopped(failed) = m1(failed)
      BY <2>1, <2>2 DEF Memory, Object
    <3>3. [m EXCEPT !.obj[i].failures = failed] = m4(failed)
      BY <2>1, <2>2 DEF Memory, Object
    <3> HIDE DEF m1, m4, stopped, failed
    <3>4. failed \in 0..MaxFailures /\ 0 \in 0..MaxFailures
      BY <2>3 DEF failed
    <3> QED BY <3>1, <3>2, <3>3, <3>4
  <2>5. CASE r = m4(n)
    <3>1. counted(n) \in Object /\ counted(n).plugin = p
      BY <2>2, ObjectUpdates DEF Object
    <3>2. /\ counted(n).subscribed \/ counted(n).muted
          /\ counted(n).prio = m.obj[i].prio /\ counted(n).cap = m.obj[i].cap
          /\ counted(n).drifted = m.obj[i].drifted /\ (counted(n).enabled <=> m.obj[i].enabled)
      BY <2>2 DEF Object
    <3> HIDE DEF counted
    <3>3. SoundBut(r, p) /\ r.loaded = m.loaded /\ r.obj[i] = counted(n)
          /\ (\A j \in Instances \ {i} : r.obj[j] = m.obj[j])
          /\ \A q \in Plugins \ {p} : Running(r, q) <=> Running(m, q)
      BY <2>1, <2>5, <3>1, <3>2, PutLoaded
    <3>4. Keeps(m, r)
      BY <3>1, <3>2, <3>3, ObjectsAreNot DEF Keeps
    <3>5. Running(r, p) /\ r.handle = m.handle
      BY <2>1, <2>5, <3>2, <3>3 DEF Running, Memory
    <3>6. r.handle[p] = [inst |-> r.loaded[p], prio |-> Effective(r.obj[r.loaded[p]])]
      BY <2>1, <3>2, <3>3, <3>5, SMTT(30) DEF Sound, Effective
    <3>7. Sound(r)
      <4>1. \A q \in Plugins : Running(r, q) =>
              r.handle[q] = [inst |-> r.loaded[q], prio |-> Effective(r.obj[r.loaded[q]])]
        BY <3>3, <3>6 DEF SoundBut
      <4>2. \A q \in Plugins : ~Running(r, q) =>
              r.handle[q] = NoHandle \/ (r.loaded[q] # 0 /\ r.handle[q].inst # r.loaded[q])
        BY <3>3, <3>5 DEF SoundBut
      <4> QED BY <3>3, <4>1, <4>2 DEF Sound, SoundBut
    <3> QED BY <2>1, <3>3, <3>4, <3>7
  <2>6. CASE r = m3(n)
    <3>1. off(n) \in Object /\ off(n).plugin = p
      BY <2>2, ObjectUpdates DEF Object
    <3>2. /\ off(n).subscribed \/ off(n).muted
          /\ off(n).prio = m.obj[i].prio /\ off(n).cap = m.obj[i].cap
          /\ off(n).drifted = m.obj[i].drifted /\ ~off(n).enabled
      BY <2>2 DEF Object
    <3> HIDE DEF off
    <3>3. SoundBut(m1(n), p) /\ m1(n).loaded = m.loaded /\ m1(n).obj[i] = off(n)
          /\ (\A j \in Instances \ {i} : m1(n).obj[j] = m.obj[j])
          /\ \A q \in Plugins \ {p} : Running(m1(n), q) <=> Running(m, q)
      BY <2>1, <3>1, <3>2, PutLoaded
    <3> HIDE DEF m1
    <3>4. Keeps(m, m1(n))
      BY <3>1, <3>2, <3>3, ObjectsAreNot DEF Keeps
    <3>5. ~Running(m1(n), p)
      BY <3>2, <3>3 DEF Running
    <3>6. SoundBut(m2(n), p) /\ Keeps(m1(n), m2(n))
          /\ \A q \in Plugins : Running(m2(n), q) <=> Running(m1(n), q)
      BY <3>3, UnsubscribeSound
    <3> HIDE DEF m2
    <3>7. Sound(r) /\ r.obj = m2(n).obj /\ r.loaded = m2(n).loaded
      BY <2>6, <3>5, <3>6, UnregisterSound
    <3>8. \A q \in Plugins : Running(r, q) <=> Running(m2(n), q)
      BY <3>7 DEF Running
    <3>9. Keeps(m, r)
      BY <3>4, <3>6, <3>7 DEF Keeps
    <3> QED BY <3>3, <3>5, <3>6, <3>7, <3>8, <3>9
  <2> QED BY <2>4, <2>5, <2>6
<1> QED BY <1>1, <1>2

\* Enabling starts the plugin if it is loaded, whatever its hook does.
LEMMA EnableSound ==
    ASSUME NEW p \in Plugins, NEW m, Sound(m), NEW r \in EnableOutcomes(m, p)
    PROVE  /\ Sound(r) /\ Keeps(m, r)
           /\ \A q \in Plugins \ {p} : Running(r, q) <=> Running(m, q)
<1> DEFINE i == m.loaded[p]
           on(raises) == EnabledObject(m.obj[i], raises)
           m1(raises) == [m EXCEPT !.obj[i] = on(raises)]
<1>1. CASE r = m
  BY <1>1, KeepsObjects
<1>2. CASE r # m
  <2>1. i # 0
    BY <1>2 DEF EnableOutcomes
  <2>2. PICK raises \in Raises : r = Register(m1(raises), p)
    <3>1. r \in {Register([m EXCEPT !.obj[i] = EnabledObject(m.obj[i], raises)], p) : raises \in Raises}
      BY <1>2 DEF EnableOutcomes
    <3> QED BY <3>1
  <2>3. /\ i \in Instances /\ m.obj[i] \in Object /\ m.obj[i].plugin = p
        /\ m.obj[i].subscribed \/ m.obj[i].muted
        /\ m.obj[i].failures \in 0..MaxFailures
    BY <2>1, LoadedObject
  <2>4. /\ on(raises) \in Object /\ on(raises).plugin = p
        /\ on(raises).subscribed \/ on(raises).muted
        /\ on(raises).prio = m.obj[i].prio /\ on(raises).cap = m.obj[i].cap
        /\ on(raises).drifted = m.obj[i].drifted /\ on(raises).enabled
    <3> DEFINE n == IF raises THEN Failed(m.obj[i].failures) ELSE 0
    <3>1. n \in 0..MaxFailures
      BY <2>3, FailedTyped, PluginsBounds
    <3>2. on(raises) = [m.obj[i] EXCEPT !.enabled = TRUE, !.failures = n]
      BY DEF EnabledObject
    <3> HIDE DEF n, on
    <3>3. on(raises) \in Object
      <4>1. m.obj[i] \in Object
        BY <2>3
      <4> QED BY <3>1, <3>2, <4>1, ObjectUpdates
    <3> QED BY <2>3, <3>2, <3>3 DEF Object
  <2> HIDE DEF on
  <2>5. SoundBut(m1(raises), p) /\ m1(raises).loaded = m.loaded /\ m1(raises).obj[i] = on(raises)
        /\ (\A j \in Instances \ {i} : m1(raises).obj[j] = m.obj[j])
        /\ \A q \in Plugins \ {p} : Running(m1(raises), q) <=> Running(m, q)
    BY <2>1, <2>4, PutLoaded
  <2> HIDE DEF m1
  <2>6. Running(m1(raises), p) /\ Keeps(m, m1(raises))
    BY <2>1, <2>4, <2>5, ObjectsAreNot DEF Running, Keeps
  <2>7. Sound(r) /\ r.obj = m1(raises).obj /\ r.loaded = m1(raises).loaded
    BY <2>2, <2>5, <2>6, RegisterSound
  <2>8. \A q \in Plugins : Running(r, q) <=> Running(m1(raises), q)
    BY <2>7 DEF Running
  <2>9. Keeps(m, r)
    BY <2>6, <2>7 DEF Keeps
  <2> QED BY <2>5, <2>7, <2>8, <2>9
<1> QED BY <1>1, <1>2

\* A result of a provider is counted for the object that gave it, whether it is
\* still loaded or was replaced.
LEMMA CountSound ==
    ASSUME NEW m, Sound(m), NEW i \in Instances, m.obj[i] # NoObject, NEW n \in 0..MaxFailures
    PROVE  LET r == [m EXCEPT !.obj[i].failures = n]
           IN  /\ Sound(r) /\ Keeps(m, r)
               /\ r.obj[i].failures = n /\ r.obj[i].plugin = m.obj[i].plugin
               /\ \A q \in Plugins : Running(r, q) <=> Running(m, q)
<1> DEFINE o == [m.obj[i] EXCEPT !.failures = n]
           r == [m EXCEPT !.obj[i] = o]
<1>1. m \in Memory /\ m.obj[i] \in Object
  BY MemoryFields DEF Sound
<1>2. [m EXCEPT !.obj[i].failures = n] = r
  BY <1>1 DEF Memory
<1>3. /\ o \in Object /\ o.plugin = m.obj[i].plugin /\ o.failures = n
      /\ o.prio = m.obj[i].prio /\ o.cap = m.obj[i].cap /\ o.drifted = m.obj[i].drifted
      /\ o.subscribed = m.obj[i].subscribed /\ o.muted = m.obj[i].muted
      /\ o.enabled = m.obj[i].enabled
  BY <1>1, ObjectUpdates DEF Object
<1> HIDE DEF o
<1>4. /\ r \in Memory /\ r.loaded = m.loaded /\ r.handle = m.handle
      /\ r.obj[i] = o /\ \A j \in Instances \ {i} : r.obj[j] = m.obj[j]
  BY <1>1, <1>3, PutObject
<1> HIDE DEF r
<1>5. \A j \in Instances :
         /\ m.obj[j] # NoObject => r.obj[j] # NoObject
         /\ r.obj[j] # NoObject => m.obj[j] # NoObject
         /\ r.obj[j].plugin = m.obj[j].plugin
         /\ r.obj[j].prio = m.obj[j].prio /\ r.obj[j].cap = m.obj[j].cap
         /\ r.obj[j].drifted = m.obj[j].drifted
         /\ r.obj[j].subscribed = m.obj[j].subscribed /\ r.obj[j].muted = m.obj[j].muted
         /\ r.obj[j].enabled = m.obj[j].enabled
  BY <1>1, <1>3, <1>4, ObjectsAreNot
<1>6. \A q \in Plugins : m.loaded[q] # 0 => m.loaded[q] \in Instances
  BY <1>1, MemoryFields
<1>7. \A q \in Plugins : Running(r, q) <=> Running(m, q)
  BY <1>4, <1>5, <1>6 DEF Running
<1>8. Keeps(m, r)
  BY <1>4, <1>5 DEF Keeps
<1>9. Sound(r)
  <2>1. \A q \in Plugins : r.loaded[q] # 0 =>
          r.obj[r.loaded[q]] # NoObject /\ r.obj[r.loaded[q]].plugin = q
    BY <1>4, <1>5, <1>6 DEF Sound
  <2>2. \A q \in Plugins : r.handle[q] # NoHandle =>
          r.handle[q].inst # 0 /\ r.obj[r.handle[q].inst] # NoObject
    BY <1>1, <1>4, <1>5, MemoryFields DEF Sound
  <2>3. \A q \in Plugins : m.loaded[q] # 0 =>
          Effective(r.obj[r.loaded[q]]) = Effective(m.obj[m.loaded[q]])
    BY <1>4, <1>5, <1>6 DEF Effective
  <2>4. \A q \in Plugins : Running(r, q) =>
          r.handle[q] = [inst |-> r.loaded[q], prio |-> Effective(r.obj[r.loaded[q]])]
    BY <1>4, <1>7, <2>3 DEF Sound, Running
  <2>5. \A q \in Plugins : ~Running(r, q) =>
          r.handle[q] = NoHandle \/ (r.loaded[q] # 0 /\ r.handle[q].inst # r.loaded[q])
    BY <1>4, <1>7 DEF Sound
  <2>6. \A j \in Instances : r.obj[j] # NoObject => r.obj[j].subscribed \/ r.obj[j].muted
    BY <1>5 DEF Sound
  <2> QED BY <1>4, <2>1, <2>2, <2>4, <2>5, <2>6 DEF Sound
<1>10. r.obj[i].failures = n /\ r.obj[i].plugin = m.obj[i].plugin
  BY <1>3, <1>4
<1> QED BY <1>2, <1>7, <1>8, <1>9, <1>10

\* A new object takes the place of what was loaded under its id, and is not
\* enabled yet.  The others stay, the replaced one too.
LEMMA LoadSound ==
    ASSUME NEW m, Sound(m), Free(m) # {}, capPrio \in [Plugins -> Override],
           NEW p \in Plugins, NEW prio \in Override, NEW drifted \in BOOLEAN,
           NEW r \in LoadOutcomes(m, p, prio, drifted)
    PROVE  /\ Sound(r) /\ ~Running(r, p) /\ r.loaded[p] # 0
           /\ LET o == r.obj[r.loaded[p]]
              IN  o.prio = prio /\ o.cap = capPrio[p] /\ o.drifted = drifted
           /\ \A q \in Plugins \ {p} : r.loaded[q] = m.loaded[q] /\ (Running(r, q) <=> Running(m, q))
           /\ \A i \in Instances : m.obj[i] # NoObject => r.obj[i] = m.obj[i]
<1> DEFINE i == CHOOSE i \in Free(m) : TRUE
<1>1. i \in Instances /\ m.obj[i] = NoObject
  BY DEF Free
<1>2. PICK raises \in Raises :
         r = [m EXCEPT !.loaded[p] = i, !.obj[i] = NewObject(p, prio, drifted, raises)]
  BY DEF LoadOutcomes
<1> HIDE DEF i
<1>3. raises \in BOOLEAN
  BY <1>2, RaisesTyped
<1> DEFINE o == NewObject(p, prio, drifted, raises)
<1>4. /\ o \in Object /\ o.plugin = p /\ ~o.enabled
      /\ o.prio = prio /\ o.cap = capPrio[p] /\ o.drifted = drifted
  BY <1>3, PluginsBounds DEF NewObject, Object
<1>5. o.subscribed \/ o.muted
  BY <1>3 DEF NewObject
<1> HIDE DEF o
<1>6. m \in Memory
  BY DEF Sound
<1>7. /\ r.loaded = [m.loaded EXCEPT ![p] = i] /\ r.handle = m.handle
      /\ r.obj = [m.obj EXCEPT ![i] = o] /\ r \in Memory
  <2>1. r = [m EXCEPT !.loaded = [m.loaded EXCEPT ![p] = i], !.obj = [m.obj EXCEPT ![i] = o]]
    BY <1>2, <1>6 DEF o, Memory
  <2>2. [m.loaded EXCEPT ![p] = i] \in [Plugins -> 0..MaxInstances]
    BY <1>1, <1>6, MemoryFields DEF Instances
  <2>3. [m.obj EXCEPT ![i] = o] \in [Instances -> Object \cup {NoObject}]
    BY <1>1, <1>4, <1>6, MemoryFields
  <2> QED BY <1>6, <2>1, <2>2, <2>3 DEF Memory
<1>8. /\ r.loaded[p] = i /\ \A q \in Plugins \ {p} : r.loaded[q] = m.loaded[q]
      /\ r.obj[i] = o /\ \A j \in Instances \ {i} : r.obj[j] = m.obj[j]
  BY <1>1, <1>6, <1>7 DEF Memory
<1>9. \A q \in Plugins : m.loaded[q] # 0 => m.loaded[q] \in Instances \ {i}
  BY <1>1, <1>6, MemoryFields DEF Sound
<1>10. i # 0 /\ ~Running(r, p)
  BY <1>1, <1>4, <1>8 DEF Running, Instances
<1>11. \A q \in Plugins \ {p} : Running(r, q) <=> Running(m, q)
  BY <1>8, <1>9 DEF Running
<1>12. \A j \in Instances : m.obj[j] # NoObject => r.obj[j] = m.obj[j]
  BY <1>1, <1>8
<1>13. Sound(r)
  <2>1. \A q \in Plugins : r.loaded[q] # 0 =>
          r.obj[r.loaded[q]] # NoObject /\ r.obj[r.loaded[q]].plugin = q
    BY <1>4, <1>8, <1>9, ObjectsAreNot DEF Sound
  <2>2. \A q \in Plugins : m.handle[q] # NoHandle =>
          /\ m.handle[q].inst # 0 /\ m.handle[q].inst \in Instances /\ m.handle[q].inst # i
          /\ r.obj[m.handle[q].inst] # NoObject
    BY <1>1, <1>6, <1>12, MemoryFields DEF Sound
  <2>3. \A q \in Plugins : Running(r, q) =>
          r.handle[q] = [inst |-> r.loaded[q], prio |-> Effective(r.obj[r.loaded[q]])]
    BY <1>7, <1>8, <1>9, <1>10, <1>11 DEF Sound, Running
  <2>4. \A q \in Plugins : ~Running(r, q) =>
          r.handle[q] = NoHandle \/ (r.loaded[q] # 0 /\ r.handle[q].inst # r.loaded[q])
    BY <1>7, <1>8, <1>10, <1>11, <2>2 DEF Sound
  <2>5. \A j \in Instances : r.obj[j] # NoObject => r.obj[j].subscribed \/ r.obj[j].muted
    BY <1>5, <1>8 DEF Sound
  <2> QED BY <1>7, <2>1, <2>2, <2>3, <2>4, <2>5 DEF Sound
<1> QED BY <1>4, <1>8, <1>10, <1>11, <1>12, <1>13

\* Unloading takes the plugin and its handle away.
LEMMA UnloadSound ==
    ASSUME NEW m, Sound(m), NEW p \in Plugins, m.loaded[p] # 0
    PROVE  LET r == Unload(m, p)
           IN  /\ Sound(r) /\ r.loaded[p] = 0
               /\ \A q \in Plugins \ {p} : r.loaded[q] = m.loaded[q] /\ (Running(r, q) <=> Running(m, q))
               /\ \A i \in Instances : m.obj[i] # NoObject =>
                     /\ r.obj[i] # NoObject
                     /\ r.obj[i].prio = m.obj[i].prio /\ r.obj[i].cap = m.obj[i].cap
                     /\ r.obj[i].drifted = m.obj[i].drifted
<1> DEFINE i == m.loaded[p]
           o == [m.obj[i] EXCEPT !.known = FALSE]
           n == [m EXCEPT !.loaded[p] = 0, !.obj[i].known = FALSE]
<1>1. m \in Memory /\ i \in Instances /\ m.obj[i] \in Object
  BY LoadedObject DEF Sound
<1>2. /\ o \in Object /\ o.plugin = m.obj[i].plugin
      /\ o.prio = m.obj[i].prio /\ o.cap = m.obj[i].cap /\ o.drifted = m.obj[i].drifted
      /\ o.subscribed = m.obj[i].subscribed /\ o.muted = m.obj[i].muted
      /\ o.enabled = m.obj[i].enabled
  BY <1>1 DEF Object
<1>3. n = [m EXCEPT !.loaded[p] = 0, !.obj[i] = o]
  BY <1>1 DEF Memory
<1> HIDE DEF o, n
<1>4. /\ n.loaded = [m.loaded EXCEPT ![p] = 0] /\ n.handle = m.handle
      /\ n.obj = [m.obj EXCEPT ![i] = o] /\ n \in Memory
  <2>1. n = [m EXCEPT !.loaded = [m.loaded EXCEPT ![p] = 0], !.obj = [m.obj EXCEPT ![i] = o]]
    BY <1>1, <1>3 DEF Memory
  <2>2. [m.loaded EXCEPT ![p] = 0] \in [Plugins -> 0..MaxInstances]
    BY <1>1, MemoryFields, PluginsBounds
  <2>3. [m.obj EXCEPT ![i] = o] \in [Instances -> Object \cup {NoObject}]
    BY <1>1, <1>2, MemoryFields
  <2> QED BY <1>1, <2>1, <2>2, <2>3 DEF Memory
<1>5. /\ n.loaded[p] = 0 /\ \A q \in Plugins \ {p} : n.loaded[q] = m.loaded[q]
      /\ n.obj[i] = o /\ \A j \in Instances \ {i} : n.obj[j] = m.obj[j]
  BY <1>1, <1>4 DEF Memory
<1>6. \A j \in Instances :
         /\ m.obj[j] # NoObject => n.obj[j] # NoObject
         /\ n.obj[j] # NoObject => m.obj[j] # NoObject
         /\ n.obj[j].plugin = m.obj[j].plugin
         /\ n.obj[j].prio = m.obj[j].prio /\ n.obj[j].cap = m.obj[j].cap
         /\ n.obj[j].drifted = m.obj[j].drifted
         /\ n.obj[j].subscribed = m.obj[j].subscribed /\ n.obj[j].muted = m.obj[j].muted
         /\ n.obj[j].enabled = m.obj[j].enabled
  BY <1>1, <1>2, <1>5, ObjectsAreNot
<1>7. \A q \in Plugins : m.loaded[q] # 0 => m.loaded[q] \in Instances
  BY <1>1, MemoryFields
<1>8. ~Running(n, p) /\ \A q \in Plugins \ {p} : Running(n, q) <=> Running(m, q)
  BY <1>5, <1>6, <1>7 DEF Running
<1>9. SoundBut(n, p)
  <2>1. \A q \in Plugins : n.loaded[q] # 0 =>
          n.obj[n.loaded[q]] # NoObject /\ n.obj[n.loaded[q]].plugin = q
    BY <1>5, <1>6, <1>7 DEF Sound
  <2>2. \A q \in Plugins : n.handle[q] # NoHandle =>
          n.handle[q].inst # 0 /\ n.obj[n.handle[q].inst] # NoObject
    BY <1>1, <1>4, <1>6, MemoryFields DEF Sound
  <2>3. \A q \in Plugins \ {p} : m.loaded[q] # 0 =>
          Effective(n.obj[n.loaded[q]]) = Effective(m.obj[m.loaded[q]])
    BY <1>5, <1>6, <1>7 DEF Effective
  <2>4. \A q \in Plugins \ {p} : Running(n, q) =>
          n.handle[q] = [inst |-> n.loaded[q], prio |-> Effective(n.obj[n.loaded[q]])]
    BY <1>4, <1>5, <1>8, <2>3 DEF Sound, Running
  <2>5. \A q \in Plugins \ {p} : ~Running(n, q) =>
          n.handle[q] = NoHandle \/ (n.loaded[q] # 0 /\ n.handle[q].inst # n.loaded[q])
    BY <1>4, <1>5, <1>8 DEF Sound
  <2>6. \A j \in Instances : n.obj[j] # NoObject => n.obj[j].subscribed \/ n.obj[j].muted
    BY <1>6 DEF Sound
  <2> QED BY <1>4, <2>1, <2>2, <2>4, <2>5, <2>6 DEF SoundBut
<1> DEFINE r == Unregister(n, p)
<1>10. Sound(r) /\ r.obj = n.obj /\ r.loaded = n.loaded
  BY <1>8, <1>9, UnregisterSound
<1>11. Unload(m, p) = r
  BY DEF Unload, n
<1> HIDE DEF r
<1>12. \A q \in Plugins : Running(r, q) <=> Running(n, q)
  BY <1>10 DEF Running
<1> QED BY <1>5, <1>6, <1>8, <1>10, <1>11, <1>12

\* A setting is written to the loaded object and its handle takes the
\* resulting priority; nothing starts or stops.
LEMMA SettingSound ==
    ASSUME NEW m, Sound(m), NEW p \in Plugins, m.loaded[p] # 0,
           NEW o \in Object, o.plugin = p, o.subscribed \/ o.muted,
           o.enabled = m.obj[m.loaded[p]].enabled,
           NEW r, r = Refresh([m EXCEPT !.obj[m.loaded[p]] = o], p)
    PROVE  /\ Sound(r) /\ r.loaded = m.loaded /\ r.obj[m.loaded[p]] = o
           /\ \A j \in Instances \ {m.loaded[p]} : r.obj[j] = m.obj[j]
           /\ \A q \in Plugins : Running(r, q) <=> Running(m, q)
<1> DEFINE i == m.loaded[p]
           n == [m EXCEPT !.obj[m.loaded[p]] = o]
<1>1. SoundBut(n, p) /\ n.loaded = m.loaded
      /\ n.obj[i] = o
      /\ (\A j \in Instances \ {i} : n.obj[j] = m.obj[j])
      /\ \A q \in Plugins \ {p} : Running(n, q) <=> Running(m, q)
  BY PutLoaded
<1> HIDE DEF n
<1>2. Running(n, p) <=> Running(m, p)
  BY <1>1 DEF Running
<1>3. Sound(r) /\ r.obj = n.obj /\ r.loaded = n.loaded
  <2>1. r = Refresh(n, p)
    BY DEF n
  <2> QED BY <1>1, <2>1, RefreshSound
<1>4. \A q \in Plugins : Running(r, q) <=> Running(m, q)
  BY <1>1, <1>2, <1>3 DEF Running
<1>5. Sound(r) /\ r.loaded = m.loaded /\ r.obj[m.loaded[p]] = o
      /\ (\A j \in Instances \ {m.loaded[p]} : r.obj[j] = m.obj[j])
  BY <1>1, <1>3
<1> QED BY <1>4, <1>5

\* Collecting objects takes nothing that is loaded, registered, on the bus or
\* held by a caller.
LEMMA CollectSound ==
    ASSUME NEW m, Sound(m), NEW calls
    PROVE  LET r == Collect(m, calls)
           IN  /\ Sound(r) /\ r.loaded = m.loaded
               /\ \A p \in Plugins : m.loaded[p] # 0 => r.obj[m.loaded[p]] = m.obj[m.loaded[p]]
               /\ \A p \in Plugins : Running(r, p) <=> Running(m, p)
               /\ \A c \in Calls : calls[c].inst \in Instances => r.obj[calls[c].inst] = m.obj[calls[c].inst]
<1> DEFINE live == Live(m, calls)
           r == Collect(m, calls)
<1>1. m \in Memory
  BY DEF Sound
<1>2. r = [m EXCEPT !.obj = [i \in Instances |-> IF i \in live THEN m.obj[i] ELSE NoObject]]
  BY DEF Collect
<1>3. /\ r.loaded = m.loaded /\ r.handle = m.handle
      /\ r.obj = [i \in Instances |-> IF i \in live THEN m.obj[i] ELSE NoObject]
      /\ r = [m EXCEPT !.obj = r.obj]
  <2> HIDE DEF live
  <2> QED BY <1>1, <1>2 DEF Memory
<1>4. \A p \in Plugins : m.loaded[p] \in live /\ m.handle[p].inst \in live
  BY DEF Live
<1>5. \A c \in Calls : calls[c].inst \in live
  BY DEF Live
<1> HIDE DEF live, r
<1>6. r \in Memory
  <2>1. r.obj \in [Instances -> Object \cup {NoObject}]
    BY <1>1, <1>3, MemoryFields
  <2> QED BY <1>1, <1>3, <2>1 DEF Memory
<1>7. \A p \in Plugins : m.loaded[p] # 0 => r.obj[m.loaded[p]] = m.obj[m.loaded[p]]
  BY <1>1, <1>3, <1>4, MemoryFields
<1>8. \A p \in Plugins : Running(r, p) <=> Running(m, p)
  BY <1>3, <1>7 DEF Running
<1>9. \A p \in Plugins : m.handle[p].inst # 0 => r.obj[m.handle[p].inst] = m.obj[m.handle[p].inst]
  BY <1>1, <1>3, <1>4, MemoryFields
<1>10. \A c \in Calls : calls[c].inst \in Instances => r.obj[calls[c].inst] = m.obj[calls[c].inst]
  BY <1>3, <1>5
<1>11. \A i \in Instances : r.obj[i] # NoObject => r.obj[i] = m.obj[i]
  BY <1>3
<1>12. Sound(r)
  <2>1. \A p \in Plugins : r.loaded[p] # 0 =>
          r.obj[r.loaded[p]] # NoObject /\ r.obj[r.loaded[p]].plugin = p
    BY <1>3, <1>7 DEF Sound
  <2>2. \A p \in Plugins : r.handle[p] # NoHandle =>
          r.handle[p].inst # 0 /\ r.obj[r.handle[p].inst] # NoObject
    BY <1>3, <1>9 DEF Sound
  <2>3. \A p \in Plugins : Running(r, p) =>
          r.handle[p] = [inst |-> r.loaded[p], prio |-> Effective(r.obj[r.loaded[p]])]
    BY <1>3, <1>7, <1>8 DEF Sound, Running
  <2>4. \A p \in Plugins : ~Running(r, p) =>
          r.handle[p] = NoHandle \/ (r.loaded[p] # 0 /\ r.handle[p].inst # r.loaded[p])
    BY <1>3, <1>8 DEF Sound
  <2>5. \A i \in Instances : r.obj[i] # NoObject => r.obj[i].subscribed \/ r.obj[i].muted
    BY <1>11 DEF Sound
  <2> QED BY <1>6, <2>1, <2>2, <2>3, <2>4, <2>5 DEF Sound
<1> QED BY <1>3, <1>7, <1>8, <1>10, <1>12 DEF r

-----------------------------------------------------------------------------
(* Boot.                                                                   *)

LEMMA BootObjects ==
    ASSUME NEW p \in Plugins, NEW loadRaises \in Raises, NEW enableRaises \in Raises,
           capPrio \in [Plugins -> Override], BootRows \in [Plugins -> Row]
    PROVE  LET o == BootObject(p, loadRaises, enableRaises)
           IN  /\ o \in Object /\ o.plugin = p /\ (o.subscribed \/ o.muted)
               /\ o.prio = BootRows[p].prio /\ o.cap = capPrio[p] /\ ~o.drifted
               /\ o.enabled = BootRows[p].enabled
<1> DEFINE new == NewObject(p, BootRows[p].prio, FALSE, loadRaises)
           failures == IF enableRaises THEN Failed(new.failures) ELSE 0
           on == [new EXCEPT !.enabled = TRUE, !.failures = failures]
<1>1. loadRaises \in BOOLEAN /\ BootRows[p].prio \in Override /\ BootRows[p].enabled \in BOOLEAN
  BY RaisesTyped DEF Row
<1>2. /\ new \in Object /\ new.plugin = p /\ ~new.enabled
      /\ new.prio = BootRows[p].prio /\ new.cap = capPrio[p] /\ ~new.drifted
      /\ new.failures \in 0..MaxFailures
  BY <1>1, PluginsBounds DEF NewObject, Object
<1>3. new.subscribed \/ new.muted
  BY <1>1 DEF NewObject
<1>4. EnabledObject(new, enableRaises) = on
  BY DEF EnabledObject
<1> HIDE DEF new
<1>5. failures \in 0..MaxFailures
  BY <1>2, FailedTyped, PluginsBounds
<1> HIDE DEF failures
<1>6. on \in Object
  BY <1>2, <1>5, ObjectUpdates
<1>7. /\ on.plugin = p /\ on.enabled /\ on.prio = new.prio /\ on.cap = new.cap
      /\ on.drifted = new.drifted /\ on.subscribed = new.subscribed /\ on.muted = new.muted
  BY <1>2, <1>5 DEF Object
<1> HIDE DEF on
<1>8. BootObject(p, loadRaises, enableRaises) = IF BootRows[p].enabled THEN on ELSE new
  BY <1>4 DEF BootObject, new
<1>9. CASE BootRows[p].enabled
  BY <1>2, <1>3, <1>6, <1>7, <1>8, <1>9
<1>10. CASE ~BootRows[p].enabled
  <2>1. new.enabled = BootRows[p].enabled
    BY <1>1, <1>2, <1>10, Zenon DEF Object
  <2> QED BY <1>2, <1>3, <1>8, <1>10, <2>1
<1> QED BY <1>9, <1>10

\* A boot leaves each plugin with the settings of its row, and enables those
\* whose row says so.
LEMMA BootSound ==
    ASSUME capPrio \in [Plugins -> Override], BootRows \in [Plugins -> Row],
           NEW r \in BootOutcomes
    PROVE  /\ Sound(r)
           /\ \A p \in Plugins : r.loaded[p] # 0 =>
                 LET o == r.obj[r.loaded[p]]
                 IN  o.prio = BootRows[p].prio /\ o.cap = capPrio[p]
           /\ \A p \in Plugins : Running(r, p) => BootRows[p].enabled
<1> DEFINE slot == CHOOSE slot \in BootSlots : TRUE
           objects(onLoad, onEnable) ==
               [l \in BootLoads |-> BootObject(l[1], onLoad[l], onEnable[l])]
<1>1. PICK onLoad, onEnable \in [BootLoads -> Raises] : r = Booted(slot, objects(onLoad, onEnable))
  <2> DEFINE outcomes == {Booted(slot, objects(onLoad, onEnable)) : onLoad, onEnable \in [BootLoads -> Raises]}
  <2>1. BootOutcomes = IF BootSlots = {} THEN {} ELSE outcomes
    BY DEF BootOutcomes
  <2>2. r \in outcomes
    <3> HIDE DEF outcomes
    <3> QED BY <2>1
  <2> HIDE DEF objects, slot
  <2> QED BY <2>2
<1>2. slot \in BootSlots
  BY DEF BootOutcomes
<1> DEFINE objs == objects(onLoad, onEnable)
<1>3. \A l \in BootLoads :
         LET o == objs[l]
         IN  /\ o \in Object /\ o.plugin = l[1] /\ (o.subscribed \/ o.muted)
             /\ o.prio = BootRows[l[1]].prio /\ o.cap = capPrio[l[1]]
             /\ o.enabled = BootRows[l[1]].enabled
  <2>1. ASSUME NEW l \in BootLoads
        PROVE  l[1] \in Plugins /\ onLoad[l] \in Raises /\ onEnable[l] \in Raises
               /\ objs[l] = BootObject(l[1], onLoad[l], onEnable[l])
    BY <1>1, PluginsBundled DEF BootLoads
  <2> HIDE DEF objects, objs
  <2> QED BY <2>1, BootObjects
<1> HIDE DEF slot, objects, objs
<1>4. slot \in [BootLoads -> Instances] /\ \A k, l \in BootLoads : slot[k] = slot[l] => k = l
  BY <1>2 DEF BootSlots, Injection, IsInjective
<1> DEFINE loaded(p) == IF <<p, "user">> \in BootLoads THEN slot[<<p, "user">>]
                        ELSE IF <<p, "image">> \in BootLoads THEN slot[<<p, "image">>]
                        ELSE 0
           obj == [i \in Instances |-> IF \E l \in BootLoads : slot[l] = i
                                        THEN objs[CHOOSE l \in BootLoads : slot[l] = i]
                                        ELSE NoObject]
           m == [loaded |-> [p \in Plugins |-> loaded(p)],
                 handle |-> [p \in Plugins |-> NoHandle], obj |-> obj]
           handle == [p \in Plugins |-> IF Running(m, p) THEN Register(m, p).handle[p] ELSE NoHandle]
<1>5. r = [m EXCEPT !.handle = handle]
  BY <1>1 DEF Booted, objs
<1>6. \A l \in BootLoads : obj[slot[l]] = objs[l]
  <2>1. ASSUME NEW l \in BootLoads PROVE (CHOOSE k \in BootLoads : slot[k] = slot[l]) = l
    BY <1>4
  <2> QED BY <1>4, <2>1
<1>7. \A i \in Instances : obj[i] # NoObject => \E l \in BootLoads : obj[i] = objs[l]
  OBVIOUS
<1>8. \A p \in Plugins : loaded(p) # 0 => \E l \in BootLoads : l[1] = p /\ loaded(p) = slot[l]
  OBVIOUS
<1> HIDE DEF obj, loaded
<1>9. obj \in [Instances -> Object \cup {NoObject}]
  <2>1. \A i \in Instances : obj[i] \in Object \cup {NoObject}
    BY <1>3, <1>7
  <2> QED BY <2>1 DEF obj
<1>10. \A p \in Plugins : loaded(p) \in 0..MaxInstances
  BY <1>4, <1>8, PluginsBounds DEF Instances
<1>11. /\ m.loaded = [p \in Plugins |-> loaded(p)] /\ m.obj = obj
       /\ m.handle = [p \in Plugins |-> NoHandle] /\ m \in Memory
  BY <1>9, <1>10, PluginsBounds DEF Memory, Handle, NoHandle
<1> HIDE DEF m
<1>12. \A p \in Plugins : m.loaded[p] # 0 =>
          LET o == m.obj[m.loaded[p]]
          IN  /\ m.loaded[p] \in Instances
              /\ o \in Object /\ o.plugin = p
              /\ o.prio = BootRows[p].prio /\ o.cap = capPrio[p]
              /\ o.enabled = BootRows[p].enabled
  <2> TAKE p \in Plugins
  <2> HAVE m.loaded[p] # 0
  <2>1. PICK l \in BootLoads : l[1] = p /\ m.loaded[p] = slot[l]
    BY <1>8, <1>11
  <2>2. m.obj[m.loaded[p]] = objs[l] /\ m.loaded[p] \in Instances
    BY <1>4, <1>6, <1>11, <2>1
  <2> QED BY <1>3, <2>1, <2>2
<1>13. \A p \in Plugins : Running(m, p) =>
          /\ Register(m, p).handle[p] = [inst |-> m.loaded[p], prio |-> Effective(m.obj[m.loaded[p]])]
          /\ Register(m, p).handle[p] \in Handle
  <2> SUFFICES ASSUME NEW p \in Plugins, Running(m, p)
               PROVE  /\ Register(m, p).handle[p] = [inst |-> m.loaded[p], prio |-> Effective(m.obj[m.loaded[p]])]
                      /\ Register(m, p).handle[p] \in Handle
    OBVIOUS
  <2> DEFINE h == [inst |-> m.loaded[p], prio |-> Effective(m.obj[m.loaded[p]])]
  <2>1. h \in Handle
    BY <1>12, EffectiveIsPriority DEF Running, Handle, Instances
  <2>2. Register(m, p) = [m EXCEPT !.handle[p] = h]
    BY DEF Register
  <2> HIDE DEF h
  <2>3. Register(m, p).handle[p] = h
    BY <1>11, <2>1, <2>2, PutHandle
  <2> QED BY <2>1, <2>3 DEF h
<1>14. handle \in [Plugins -> Handle]
  <2>1. NoHandle \in Handle
    BY PluginsBounds DEF Handle, NoHandle
  <2>2. \A p \in Plugins : handle[p] \in Handle
    BY <1>13, <2>1
  <2> QED BY <2>2
<1>15. /\ \A p \in Plugins : Running(m, p) =>
             handle[p] = [inst |-> m.loaded[p], prio |-> Effective(m.obj[m.loaded[p]])]
       /\ \A p \in Plugins : ~Running(m, p) => handle[p] = NoHandle
  BY <1>13
<1> HIDE DEF handle
<1>16. r.loaded = m.loaded /\ r.obj = m.obj /\ r.handle = handle /\ r \in Memory
  BY <1>5, <1>11, <1>14 DEF Memory
<1>17. \A p \in Plugins : Running(r, p) <=> Running(m, p)
  BY <1>16 DEF Running
<1>18. Sound(r)
  <2>1. \A p \in Plugins : r.loaded[p] # 0 =>
          r.obj[r.loaded[p]] # NoObject /\ r.obj[r.loaded[p]].plugin = p
    BY <1>12, <1>16, ObjectsAreNot
  <2>2. \A p \in Plugins : r.handle[p] # NoHandle =>
          r.handle[p].inst # 0 /\ r.obj[r.handle[p].inst] # NoObject
    <3>1. ASSUME NEW p \in Plugins, r.handle[p] # NoHandle
          PROVE  Running(m, p) /\ r.handle[p].inst = m.loaded[p]
      <4>1. Running(m, p)
        BY <1>15, <1>16, <3>1
      <4>2. r.handle[p] = [inst |-> m.loaded[p], prio |-> Effective(m.obj[m.loaded[p]])]
        BY <1>15, <1>16, <4>1
      <4> QED BY <4>1, <4>2
    <3> QED BY <1>12, <1>16, <3>1, ObjectsAreNot DEF Running
  <2>3. \A p \in Plugins : Running(r, p) =>
          r.handle[p] = [inst |-> r.loaded[p], prio |-> Effective(r.obj[r.loaded[p]])]
    BY <1>15, <1>16, <1>17
  <2>4. \A p \in Plugins : ~Running(r, p) => r.handle[p] = NoHandle
    BY <1>15, <1>16, <1>17
  <2>5. \A i \in Instances : r.obj[i] # NoObject => r.obj[i].subscribed \/ r.obj[i].muted
    BY <1>3, <1>7, <1>11, <1>16
  <2> QED BY <1>16, <2>1, <2>2, <2>3, <2>4, <2>5 DEF Sound
<1>19. \A p \in Plugins : Running(r, p) => BootRows[p].enabled
  BY <1>12, <1>17 DEF Running
<1> QED BY <1>12, <1>16, <1>18, <1>19

-----------------------------------------------------------------------------
(* What the actions share.                                                 *)

LEMMA NewRepoIds ==
    ASSUME NEW rs \in [RepoIds -> Repo]
    PROVE  NewRepoId(rs) \in Nat \ {0}
<1> DEFINE S == {0} \cup {r \in RepoIds : rs[r].there}
<1>1. MaxRepoId \in Nat
  BY PluginsBounds
<1>2. S \subseteq 0..MaxRepoId
  BY <1>1 DEF RepoIds
<1>3. IsFiniteSet(0..MaxRepoId) /\ (0..MaxRepoId) \subseteq Int /\ S # {}
  BY <1>1, FS_Interval
<1> HIDE DEF S
<1>4. IsFiniteSet(S) /\ S \in SUBSET Int
  BY <1>2, <1>3, FS_Subset
<1>5. Max(S) \in S
  BY <1>3, <1>4, MaxOfNumbers
<1>6. Max(S) \in Nat
  <2>1. \A x \in S : x \in Nat
    BY <1>1, <1>2
  <2> QED BY <1>5, <2>1
<1> QED BY <1>6 DEF NewRepoId, S

LEMMA ReposTyped ==
    ASSUME NEW rs \in [RepoIds -> Repo], NEW u \in Urls, NEW index \in SUBSET Plugins, NEW on \in BOOLEAN
    PROVE  Added(rs, u, index, on) \in [RepoIds -> Repo]
BY DEF Added, Repo

LEMMA NoneTyped == NoRow \in Row /\ NoCode \in Code /\ NoRepo \in Repo
BY PluginsBounds, PluginsOfficial DEF Row, Code, Repo, NoRow, NoCode, NoRepo, Override

LEMMA RowsTyped ==
    ASSUME TypeOK, NEW p \in Plugins
    PROVE  /\ Ensured(p, TRUE) \in [Plugins -> Row] /\ Ensured(p, FALSE) \in [Plugins -> Row]
           /\ Ensured(p, TRUE)[p].there /\ Ensured(p, FALSE)[p].there
           /\ ~Ensured(p, FALSE)[p].enabled
           /\ Ensured(p, TRUE)[p].prio = row[p].prio /\ Ensured(p, FALSE)[p].prio = row[p].prio
           /\ \A q \in Plugins \ {p} : Ensured(p, TRUE)[q] = row[q] /\ Ensured(p, FALSE)[q] = row[q]
<1>1. row[p] \in Row /\ row \in [Plugins -> Row]
  BY DEF TypeOK
<1>2. Ensured(p, TRUE) = [row EXCEPT ![p] = [row[p] EXCEPT !.there = TRUE, !.enabled = TRUE]]
  BY <1>1 DEF Ensured
<1>3. Ensured(p, FALSE) = [row EXCEPT ![p] = [row[p] EXCEPT !.there = TRUE, !.enabled = FALSE]]
  BY <1>1 DEF Ensured
<1>4. LET e == Ensured(p, TRUE)
      IN  /\ e \in [Plugins -> Row] /\ e[p].there /\ e[p].prio = row[p].prio
          /\ \A q \in Plugins \ {p} : e[q] = row[q]
  BY <1>1, <1>2 DEF Row
<1>5. LET e == Ensured(p, FALSE)
      IN  /\ e \in [Plugins -> Row] /\ e[p].there /\ ~e[p].enabled /\ e[p].prio = row[p].prio
          /\ \A q \in Plugins \ {p} : e[q] = row[q]
  BY <1>1, <1>3 DEF Row
<1> QED BY <1>4, <1>5

LEMMA CallersTyped ==
    ASSUME PluginsInv, NEW c \in Calls, call[c] # NoCall
    PROVE  /\ call[c].inst \in Instances /\ mem.obj[call[c].inst] # NoObject
           /\ mem.obj[call[c].inst] \in Object
<1>1. call[c] \in Call
  BY DEF PluginsInv, TypeOK
<1>2. call[c].inst \in Instances /\ mem.obj[call[c].inst] # NoObject
  BY <1>1 DEF PluginsInv, CallsLive, Call
<1> QED BY <1>2, MemoryFields DEF PluginsInv, Sound

\* The manager did something and the objects nothing refers to are gone.
LEMMA CollectStep ==
    ASSUME NEW r, Sound(r), mem' = Collect(r, call'),
           \A p \in Plugins : r.loaded[p] # 0 =>
               LET o == r.obj[r.loaded[p]]
               IN  o.drifted \/ (o.prio = row'[p].prio /\ o.cap = capPrio'[p]),
           \A c \in Calls : call'[c] # NoCall =>
               call'[c].inst \in Instances /\ r.obj[call'[c].inst] # NoObject
    PROVE  /\ Sound(mem)' /\ Agrees' /\ CallsLive'
           /\ \A p \in Plugins : Running(mem', p) <=> Running(r, p)
<1> DEFINE n == Collect(r, call')
<1>1. /\ Sound(n) /\ n.loaded = r.loaded
      /\ \A p \in Plugins : r.loaded[p] # 0 => n.obj[r.loaded[p]] = r.obj[r.loaded[p]]
      /\ \A p \in Plugins : Running(n, p) <=> Running(r, p)
      /\ \A c \in Calls : call'[c].inst \in Instances => n.obj[call'[c].inst] = r.obj[call'[c].inst]
  BY CollectSound
<1>2. mem' = n
  OBVIOUS
<1> HIDE DEF n
<1>3. Agrees'
  BY <1>1, <1>2 DEF Agrees
<1>4. CallsLive'
  BY <1>1, <1>2 DEF CallsLive
<1>5. Sound(mem)'
  BY <1>1, <1>2 DEF Sound, Running
<1>6. \A p \in Plugins : Running(mem', p) <=> Running(r, p)
  BY <1>1, <1>2
<1> QED BY <1>3, <1>4, <1>5, <1>6

\* The same when the objects keep their settings and no call starts.
LEMMA KeepStep ==
    ASSUME PluginsInv, NEW r, Sound(r), Keeps(mem, r), mem' = Collect(r, call'),
           \A p \in Plugins : row'[p].prio = row[p].prio, capPrio' = capPrio,
           \A c \in Calls : call'[c] # NoCall => call'[c] = call[c]
    PROVE  /\ Sound(mem)' /\ Agrees' /\ CallsLive'
           /\ \A p \in Plugins : Running(mem', p) <=> Running(r, p)
<1>1. \A p \in Plugins : mem.loaded[p] # 0 =>
         mem.loaded[p] \in Instances /\ mem.obj[mem.loaded[p]] # NoObject
  BY MemoryFields DEF PluginsInv, Sound
<1>2. \A p \in Plugins : r.loaded[p] # 0 =>
         LET o == r.obj[r.loaded[p]]
         IN  o.drifted \/ (o.prio = row'[p].prio /\ o.cap = capPrio'[p])
  BY <1>1 DEF PluginsInv, Agrees, Keeps
<1>3. \A c \in Calls : call'[c] # NoCall =>
         call'[c].inst \in Instances /\ r.obj[call'[c].inst] # NoObject
  BY CallersTyped DEF Keeps
<1> QED BY <1>2, <1>3, CollectStep

\* Nothing happened to the manager and its tables.
LEMMA MemoryKept ==
    ASSUME PluginsInv, UNCHANGED <<mem, call, capPrio>>,
           \A p \in Plugins : row'[p].prio = row[p].prio
    PROVE  /\ Sound(mem)' /\ Agrees' /\ CallsLive'
           /\ \A p \in Plugins : Running(mem', p) <=> Running(mem, p)
<1>1. Sound(mem)'
  BY DEF PluginsInv, Sound, Running
<1>2. Agrees' /\ CallsLive'
  BY DEF PluginsInv, Agrees, CallsLive
<1>3. \A p \in Plugins : Running(mem', p) <=> Running(mem, p)
  BY DEF Running
<1> QED BY <1>1, <1>2, <1>3

-----------------------------------------------------------------------------
(* Calls of providers.                                                     *)

LEMMA HoldStep ==
    ASSUME PluginsInv, NEW c \in Calls, Hold(c)
    PROVE  PluginsInv'
<1>1. PICK p \in Plugins : /\ mem.handle[p] # NoHandle
                           /\ call' = [call EXCEPT ![c] = [pc |-> "held", inst |-> mem.handle[p].inst]]
  BY DEF Hold
<1>2. UNCHANGED <<repo, row, capPrio, tombstones, code, mem, install, allowed, asked>>
  BY DEF Hold, stored
<1>3. mem.handle[p].inst \in Instances /\ mem.obj[mem.handle[p].inst] # NoObject
  BY <1>1, MemoryFields DEF PluginsInv, Sound
<1>4. call' \in [Calls -> Call \cup {NoCall}]
  BY <1>1, <1>3 DEF PluginsInv, TypeOK, Call
<1>5. TypeOK'
  BY <1>2, <1>4 DEF PluginsInv, TypeOK
<1>6. CallsLive'
  BY <1>1, <1>2, <1>3 DEF PluginsInv, TypeOK, CallsLive
<1>7. Sound(mem)' /\ Agrees' /\ Uninstalled' /\ Installed' /\ RunsOnlyIfAllowed'
  BY <1>2 DEF PluginsInv, Sound, Running, Agrees, Uninstalled, Installed, RunsOnlyIfAllowed
<1> QED BY <1>5, <1>6, <1>7 DEF PluginsInv

\* The manager counts, disables and collects, and the tables stay.
LEMMA ServiceStep ==
    ASSUME PluginsInv, UNCHANGED <<repo, row, capPrio, tombstones, code, install, allowed, asked>>,
           call' \in [Calls -> Call \cup {NoCall}], Sound(mem)', Agrees', CallsLive',
           \A q \in Plugins : Running(mem', q) => Running(mem, q)
    PROVE  PluginsInv'
<1>1. TypeOK'
  BY DEF PluginsInv, TypeOK, Sound
<1>2. Uninstalled' /\ Installed'
  BY DEF PluginsInv, Uninstalled, Installed
<1>3. RunsOnlyIfAllowed'
  BY DEF PluginsInv, RunsOnlyIfAllowed
<1> QED BY <1>1, <1>2, <1>3 DEF PluginsInv

LEMMA InvokeStep ==
    ASSUME PluginsInv, NEW c \in Calls, Invoke(c)
    PROVE  PluginsInv'
<1> DEFINE o == mem.obj[call[c].inst]
           now == IF o.known THEN mem.loaded[o.plugin] ELSE 0
<1>1. /\ call[c].pc = "held"
      /\ call' = [call EXCEPT ![c] = IF now = 0 THEN NoCall ELSE [pc |-> "running", inst |-> now]]
      /\ mem' = Collect(mem, call')
  BY DEF Invoke
<1>2. UNCHANGED <<repo, row, capPrio, tombstones, code, install, allowed, asked>>
  BY DEF Invoke, stored
<1>3. o \in Object
  <2>1. call[c].pc = "held"
    BY DEF Invoke
  <2>2. call[c] # NoCall
    BY <2>1 DEF NoCall
  <2> QED BY <2>2, CallersTyped
<1>4. now # 0 => now \in Instances /\ mem.obj[now] # NoObject
  BY <1>3, MemoryFields DEF PluginsInv, Sound, Object
<1> HIDE DEF now
<1>5. call' \in [Calls -> Call \cup {NoCall}]
  BY <1>1, <1>4 DEF PluginsInv, TypeOK, Call
<1>6. \A d \in Calls : call'[d] # NoCall =>
         call'[d].inst \in Instances /\ mem.obj[call'[d].inst] # NoObject
  <2>1. call'[c] # NoCall => call'[c].inst = now /\ now # 0
    BY <1>1 DEF PluginsInv, TypeOK
  <2>2. \A d \in Calls \ {c} : call'[d] = call[d]
    BY <1>1 DEF PluginsInv, TypeOK
  <2> QED BY <1>4, <2>1, <2>2, CallersTyped
<1>7. \A p \in Plugins : mem.loaded[p] # 0 =>
         LET l == mem.obj[mem.loaded[p]]
         IN  l.drifted \/ (l.prio = row'[p].prio /\ l.cap = capPrio'[p])
  BY <1>2 DEF PluginsInv, Agrees
<1>8. /\ Sound(mem)' /\ Agrees' /\ CallsLive'
      /\ \A q \in Plugins : Running(mem', q) <=> Running(mem, q)
  BY <1>1, <1>6, <1>7, CollectStep DEF PluginsInv
<1> QED BY <1>2, <1>5, <1>8, ServiceStep

\* The object that ran is counted for, whether or not it is loaded.
LEMMA CountedCall ==
    ASSUME PluginsInv, NEW c \in Calls, call[c].pc = "running", NEW n \in 0..MaxFailures
    PROVE  LET m == [mem EXCEPT !.obj[call[c].inst].failures = n]
           IN  /\ Sound(m) /\ Keeps(mem, m)
               /\ m.obj[call[c].inst].failures = n /\ m.obj[call[c].inst].plugin \in Plugins
               /\ \A q \in Plugins : Running(m, q) <=> Running(mem, q)
<1>1. /\ call[c].inst \in Instances /\ mem.obj[call[c].inst] # NoObject
      /\ mem.obj[call[c].inst] \in Object
  BY CallersTyped DEF NoCall
<1>2. mem.obj[call[c].inst].plugin \in Plugins
  BY <1>1 DEF Object
<1> QED BY <1>1, <1>2, CountSound DEF PluginsInv

LEMMA CallEnds ==
    ASSUME PluginsInv, NEW c \in Calls, call' = [call EXCEPT ![c] = NoCall]
    PROVE  /\ call' \in [Calls -> Call \cup {NoCall}]
           /\ \A d \in Calls : call'[d] # NoCall => call'[d] = call[d]
BY DEF PluginsInv, TypeOK

LEMMA CallReturnsStep ==
    ASSUME PluginsInv, NEW c \in Calls, CallReturns(c)
    PROVE  PluginsInv'
<1> DEFINE m == [mem EXCEPT !.obj[call[c].inst].failures = 0]
<1>1. /\ call[c].pc = "running" /\ call' = [call EXCEPT ![c] = NoCall]
      /\ mem' = Collect(m, call')
  BY DEF CallReturns
<1>2. UNCHANGED <<repo, row, capPrio, tombstones, code, install, allowed, asked>>
  BY DEF CallReturns, stored
<1>3. Sound(m) /\ Keeps(mem, m) /\ \A q \in Plugins : Running(m, q) <=> Running(mem, q)
  <2>1. 0 \in 0..MaxFailures
    BY PluginsBounds
  <2> QED BY <1>1, <2>1, CountedCall
<1> HIDE DEF m
<1>4. /\ Sound(mem)' /\ Agrees' /\ CallsLive'
      /\ \A q \in Plugins : Running(mem', q) <=> Running(m, q)
  BY <1>1, <1>2, <1>3, CallEnds, KeepStep
<1> QED BY <1>1, <1>2, <1>3, <1>4, CallEnds, ServiceStep

LEMMA CallRaisesStep ==
    ASSUME PluginsInv, NEW c \in Calls, CallRaises(c)
    PROVE  PluginsInv'
<1> DEFINE i == call[c].inst
           n == Failed(mem.obj[i].failures)
           m == [mem EXCEPT !.obj[i].failures = n]
<1>1. /\ call[c].pc = "running" /\ call' = [call EXCEPT ![c] = NoCall]
  BY DEF CallRaises
<1>2. UNCHANGED <<repo, row, capPrio, tombstones, code, install, allowed, asked>>
  BY DEF CallRaises, stored
<1>3. i \in Instances /\ mem.obj[i] \in Object
  BY <1>1, CallersTyped DEF NoCall
<1>4. n \in 0..MaxFailures
  BY <1>3, FailedTyped DEF Object
<1>5. [mem EXCEPT !.obj[i].failures = Failed(@)] = m
  BY <1>3 DEF PluginsInv, Sound, Memory
<1>6. PICK r : /\ r = m \/ r \in DisableOutcomes(m, m.obj[i].plugin)
               /\ mem' = Collect(r, call')
  BY <1>5 DEF CallRaises
<1> HIDE DEF n
<1>7. /\ Sound(m) /\ Keeps(mem, m) /\ m.obj[i].plugin \in Plugins
      /\ \A q \in Plugins : Running(m, q) <=> Running(mem, q)
  BY <1>1, <1>4, CountedCall
<1> HIDE DEF m
<1>8. Sound(r) /\ Keeps(m, r) /\ \A q \in Plugins : Running(r, q) => Running(m, q)
  BY <1>6, <1>7, DisableSound, KeepsObjects
<1>9. Keeps(mem, r)
  BY <1>7, <1>8, KeepsAll
<1>10. /\ Sound(mem)' /\ Agrees' /\ CallsLive'
       /\ \A q \in Plugins : Running(mem', q) <=> Running(r, q)
  BY <1>1, <1>2, <1>6, <1>8, <1>9, CallEnds, KeepStep
<1> QED BY <1>1, <1>2, <1>7, <1>8, <1>10, CallEnds, ServiceStep

-----------------------------------------------------------------------------
(* Settings -> Plugins.                                                    *)

LEMMA AskedTyped ==
    ASSUME TypeOK, NEW kind, Asked(kind)
    PROVE  asked' \in 0..MaxRequests
BY PluginsBounds DEF TypeOK, Asked

LEMMA EnableStep ==
    ASSUME PluginsInv, NEW p \in Plugins, EnablePlugin(p)
    PROVE  PluginsInv'
<1>1. PICK r \in EnableOutcomes(mem, p) : mem' = Collect(r, call)
  BY DEF EnablePlugin
<1>2. /\ UNCHANGED <<repo, capPrio, tombstones, code, install, call>>
      /\ allowed' = [allowed EXCEPT ![p] = "yes"]
      /\ row' = Ensured(p, TRUE) \/ row' = row
  BY DEF EnablePlugin, Persist
<1>3. /\ Sound(r) /\ Keeps(mem, r)
      /\ \A q \in Plugins \ {p} : Running(r, q) <=> Running(mem, q)
  BY EnableSound DEF PluginsInv
<1>4. /\ row' \in [Plugins -> Row]
      /\ \A q \in Plugins : row'[q].prio = row[q].prio /\ (row[q].there => row'[q].there)
      /\ \A q \in Plugins \ {p} : row'[q] = row[q]
      /\ row'[p].enabled => row'[p].there
  <2>1. TypeOK /\ row \in [Plugins -> Row] /\ Installed
    BY DEF PluginsInv, TypeOK
  <2>2. CASE row' = row
    BY <2>1, <2>2 DEF Installed
  <2>3. CASE row' = Ensured(p, TRUE)
    BY <2>1, <2>3, RowsTyped
  <2> QED BY <1>2, <2>2, <2>3
<1>5. /\ Sound(mem)' /\ Agrees' /\ CallsLive'
      /\ \A q \in Plugins : Running(mem', q) <=> Running(r, q)
  BY <1>1, <1>2, <1>3, <1>4, KeepStep
<1>6. TypeOK'
  <2>1. asked' \in 0..MaxRequests
    BY AskedTyped DEF EnablePlugin, PluginsInv
  <2> QED BY <1>2, <1>4, <1>5, <2>1 DEF PluginsInv, TypeOK, Sound
<1>7. Uninstalled' /\ Installed'
  BY <1>2, <1>4, PluginsBundled DEF PluginsInv, Uninstalled, Installed
<1>8. RunsOnlyIfAllowed'
  BY <1>2, <1>3, <1>4, <1>5 DEF PluginsInv, TypeOK, RunsOnlyIfAllowed
<1> QED BY <1>5, <1>6, <1>7, <1>8 DEF PluginsInv

LEMMA DisableStep ==
    ASSUME PluginsInv, NEW p \in Plugins, DisablePlugin(p)
    PROVE  PluginsInv'
<1>1. PICK r \in DisableOutcomes(mem, p) :
         /\ mem' = Collect(r, call)
         /\ \/ row' = row /\ allowed' = allowed
            \/ /\ ~Running(r, p)
               /\ row' = Ensured(p, FALSE)
               /\ allowed' = [allowed EXCEPT ![p] = "no"]
  BY DEF DisablePlugin
<1>2. UNCHANGED <<repo, capPrio, tombstones, code, install, call>>
  BY DEF DisablePlugin
<1>3. /\ Sound(r) /\ Keeps(mem, r)
      /\ \A q \in Plugins : Running(r, q) => Running(mem, q)
  BY DisableSound DEF PluginsInv
<1>4. /\ row' \in [Plugins -> Row]
      /\ \A q \in Plugins : row'[q].prio = row[q].prio /\ (row[q].there => row'[q].there)
      /\ \A q \in Plugins : row'[q].enabled => row[q].enabled
  <2>1. TypeOK /\ row \in [Plugins -> Row]
    BY DEF PluginsInv, TypeOK
  <2>2. CASE row' = row
    BY <2>1, <2>2
  <2>3. CASE row' = Ensured(p, FALSE)
    BY <2>1, <2>3, RowsTyped
  <2> QED BY <1>1, <2>2, <2>3
<1>5. /\ Sound(mem)' /\ Agrees' /\ CallsLive'
      /\ \A q \in Plugins : Running(mem', q) <=> Running(r, q)
  BY <1>1, <1>2, <1>3, <1>4, KeepStep
<1>6. TypeOK'
  <2>1. asked' \in 0..MaxRequests
    BY AskedTyped DEF DisablePlugin, PluginsInv
  <2>2. TypeOK /\ mem' \in Memory
    BY <1>5 DEF PluginsInv, Sound
  <2>3. allowed' \in [Plugins -> {"yes", "untilRestart", "no"}]
    BY <1>1, <2>2 DEF TypeOK
  <2> QED BY <1>2, <1>4, <2>1, <2>2, <2>3 DEF TypeOK
<1>7. Uninstalled' /\ Installed'
  BY <1>2, <1>4, PluginsBundled DEF PluginsInv, Uninstalled, Installed
<1>8. RunsOnlyIfAllowed'
  <2>1. CASE row' = row /\ allowed' = allowed
    BY <1>3, <1>5, <2>1 DEF PluginsInv, RunsOnlyIfAllowed
  <2>2. CASE /\ ~Running(r, p)
             /\ row' = Ensured(p, FALSE)
             /\ allowed' = [allowed EXCEPT ![p] = "no"]
    <3>1. /\ ~row'[p].enabled
          /\ \A q \in Plugins \ {p} : row'[q] = row[q] /\ allowed'[q] = allowed[q]
      BY <2>2, RowsTyped DEF PluginsInv, TypeOK
    <3> QED BY <1>3, <1>5, <2>2, <3>1 DEF PluginsInv, RunsOnlyIfAllowed
  <2> QED BY <1>1, <2>1, <2>2
<1> QED BY <1>5, <1>6, <1>7, <1>8 DEF PluginsInv

LEMMA PrioritiesTyped ==
    ASSUME TypeOK, NEW p \in Plugins, NEW v \in Override
    PROVE  LET new == [Ensured(p, TRUE) EXCEPT ![p].prio = v]
           IN  /\ new \in [Plugins -> Row]
               /\ new[p].there /\ new[p].prio = v
               /\ \A q \in Plugins \ {p} : new[q] = row[q]
<1> DEFINE e == Ensured(p, TRUE)
<1>1. /\ e \in [Plugins -> Row] /\ e[p].there
      /\ \A q \in Plugins \ {p} : e[q] = row[q]
  BY RowsTyped
<1> HIDE DEF e
<1>2. [e[p] EXCEPT !.prio = v] \in Row /\ [e[p] EXCEPT !.prio = v].there /\ [e[p] EXCEPT !.prio = v].prio = v
  BY <1>1 DEF Row
<1>3. [e EXCEPT ![p].prio = v] = [e EXCEPT ![p] = [e[p] EXCEPT !.prio = v]]
  BY <1>1
<1> HIDE DEF e
<1>4. LET new == [e EXCEPT ![p].prio = v]
      IN  /\ new \in [Plugins -> Row]
          /\ new[p].there /\ new[p].prio = v
          /\ \A q \in Plugins \ {p} : new[q] = row[q]
  BY <1>1, <1>2, <1>3
<1> QED BY <1>4 DEF e

LEMMA SetPriorityStep ==
    ASSUME PluginsInv, NEW p \in Plugins, NEW v \in Override, SetPriority(p, v)
    PROVE  PluginsInv'
<1> DEFINE i == mem.loaded[p]
           o == [mem.obj[i] EXCEPT !.prio = v]
           saved == [Ensured(p, TRUE) EXCEPT ![p].prio = v]
           r == Refresh([mem EXCEPT !.obj[i] = o], p)
<1>1. UNCHANGED <<repo, capPrio, tombstones, code, install, call>>
  BY DEF SetPriority
<1>2. allowed' = [allowed EXCEPT ![p] = IF row' = row THEN @ ELSE "yes"]
  BY DEF SetPriority
<1>3. \/ row' = saved /\ i = 0 /\ mem' = mem
      \/ /\ row' = saved /\ i # 0
         /\ mem' = Collect(Refresh([mem EXCEPT !.obj[i].prio = v], p), call)
      \/ row' \in {row, Ensured(p, TRUE)} /\ mem' = mem
  BY DEF SetPriority
<1>4. TypeOK /\ Sound(mem) /\ Installed /\ row \in [Plugins -> Row]
  BY DEF PluginsInv, TypeOK
<1>5. /\ saved \in [Plugins -> Row] /\ saved[p].there /\ saved[p].prio = v
      /\ \A q \in Plugins \ {p} : saved[q] = row[q]
  BY <1>4, PrioritiesTyped
<1> HIDE DEF saved
<1>6. /\ row' \in [Plugins -> Row]
      /\ \A q \in Plugins : row[q].there => row'[q].there
      /\ \A q \in Plugins \ {p} : row'[q] = row[q]
      /\ row'[p].enabled => row'[p].there
  <2>1. CASE row' = saved
    BY <1>5, <2>1
  <2>2. CASE row' = row
    BY <1>4, <2>2 DEF Installed
  <2>3. CASE row' = Ensured(p, TRUE)
    BY <1>4, <2>3, RowsTyped
  <2> QED BY <1>3, <2>1, <2>2, <2>3
<1>7. /\ Sound(mem)' /\ Agrees' /\ CallsLive'
      /\ \A q \in Plugins : Running(mem', q) <=> Running(mem, q)
  <2>1. CASE row' = saved /\ i = 0 /\ mem' = mem
    <3>1. Sound(mem)' /\ CallsLive'
      BY <1>1, <2>1 DEF PluginsInv, Sound, Running, CallsLive
    <3>2. Agrees'
      BY <1>1, <1>6, <2>1 DEF PluginsInv, Agrees
    <3> QED BY <2>1, <3>1, <3>2
  <2>2. CASE row' \in {row, Ensured(p, TRUE)} /\ mem' = mem
    <3>1. \A q \in Plugins : row'[q].prio = row[q].prio
      <4>1. CASE row' = row
        BY <4>1
      <4>2. CASE row' = Ensured(p, TRUE)
        BY <1>4, <4>2, RowsTyped
      <4> QED BY <2>2, <4>1, <4>2
    <3> QED BY <1>1, <2>2, <3>1, MemoryKept
  <2>3. CASE /\ row' = saved /\ i # 0
             /\ mem' = Collect(Refresh([mem EXCEPT !.obj[i].prio = v], p), call)
    <3>1. /\ i \in Instances /\ mem.obj[i] \in Object /\ mem.obj[i].plugin = p
          /\ mem.obj[i].subscribed \/ mem.obj[i].muted
      BY <1>4, <2>3, LoadedObject
    <3>2. /\ o \in Object /\ o.plugin = p /\ (o.subscribed \/ o.muted)
          /\ o.enabled = mem.obj[i].enabled /\ o.prio = v
          /\ o.cap = mem.obj[i].cap /\ o.drifted = mem.obj[i].drifted
      BY <3>1, SettingUpdates DEF Object
    <3>3. [mem EXCEPT !.obj[i].prio = v] = [mem EXCEPT !.obj[i] = o]
      BY <1>4, <3>1 DEF Sound, Memory
    <3>4. mem' = Collect(r, call')
      BY <1>1, <2>3, <3>3
    <3> HIDE DEF o
    <3>5. /\ Sound(r) /\ r.loaded = mem.loaded /\ r.obj[i] = o
          /\ (\A j \in Instances \ {i} : r.obj[j] = mem.obj[j])
          /\ \A q \in Plugins : Running(r, q) <=> Running(mem, q)
      <4>1. r = Refresh([mem EXCEPT !.obj[i] = o], p)
        OBVIOUS
      <4> HIDE DEF r
      <4>2. /\ Sound(mem) /\ mem.loaded[p] # 0
            /\ o \in Object /\ o.plugin = p /\ (o.subscribed \/ o.muted)
            /\ o.enabled = mem.obj[mem.loaded[p]].enabled
        BY <1>4, <2>3, <3>2
      <4>3. /\ Sound(r) /\ r.loaded = mem.loaded /\ r.obj[mem.loaded[p]] = o
            /\ (\A j \in Instances \ {mem.loaded[p]} : r.obj[j] = mem.obj[j])
            /\ \A q \in Plugins : Running(r, q) <=> Running(mem, q)
        BY <4>1, <4>2, SettingSound, SMTT(30)
      <4> QED BY <4>3
    <3> HIDE DEF r
    <3>6. ASSUME NEW q \in Plugins, r.loaded[q] # 0
          PROVE  LET l == r.obj[r.loaded[q]]
                 IN  l.drifted \/ (l.prio = row'[q].prio /\ l.cap = capPrio'[q])
      <4>1. CASE q = p
        BY <1>1, <1>5, <2>3, <3>2, <3>5, <4>1 DEF PluginsInv, Agrees
      <4>2. CASE q # p
        <5>1. mem.loaded[q] \in Instances \ {i}
          BY <1>4, <3>1, <3>5, <3>6, <4>2, LoadedObject
        <5> QED BY <1>1, <1>6, <3>5, <3>6, <4>2, <5>1 DEF PluginsInv, Agrees
      <4> QED BY <4>1, <4>2
    <3>7. \A c \in Calls : call'[c] # NoCall =>
             call'[c].inst \in Instances /\ r.obj[call'[c].inst] # NoObject
      BY <1>1, <3>2, <3>5, CallersTyped, ObjectsAreNot
    <3>8. /\ Sound(mem)' /\ Agrees' /\ CallsLive'
          /\ \A q \in Plugins : Running(mem', q) <=> Running(r, q)
      BY <3>4, <3>5, <3>6, <3>7, CollectStep
    <3> QED BY <3>5, <3>8
  <2> QED BY <1>3, <2>1, <2>2, <2>3
<1>8. TypeOK'
  <2>1. asked' \in 0..MaxRequests
    BY <1>4, AskedTyped DEF SetPriority
  <2>2. allowed' \in [Plugins -> {"yes", "untilRestart", "no"}]
    BY <1>2, <1>4 DEF TypeOK
  <2> QED BY <1>1, <1>4, <1>6, <1>7, <2>1, <2>2 DEF TypeOK, Sound
<1>9. Uninstalled' /\ Installed'
  BY <1>1, <1>6, PluginsBundled DEF PluginsInv, Uninstalled, Installed
<1>10. RunsOnlyIfAllowed'
  <2>1. \A q \in Plugins : allowed'[q] = allowed[q] \/ (q = p /\ allowed'[q] = "yes")
    BY <1>2, <1>4 DEF TypeOK
  <2>2. allowed'[p] = "yes" \/ (row' = row /\ allowed'[p] = allowed[p])
    BY <1>2, <1>4 DEF TypeOK
  <2> QED BY <1>6, <1>7, <2>1, <2>2 DEF PluginsInv, RunsOnlyIfAllowed
<1> QED BY <1>7, <1>8, <1>9, <1>10 DEF PluginsInv

LEMMA SetCapabilityStep ==
    ASSUME PluginsInv, NEW p \in Plugins, NEW v \in Override, SetCapabilityPriority(p, v)
    PROVE  PluginsInv'
<1> DEFINE i == mem.loaded[p]
<1>1. /\ UNCHANGED <<repo, row, tombstones, code, install, call, allowed>>
      /\ i # 0
  BY DEF SetCapabilityPriority
<1>2. PICK saved \in BOOLEAN :
         /\ capPrio' = IF saved THEN [capPrio EXCEPT ![p] = v] ELSE capPrio
         /\ mem' = Collect(Refresh([mem EXCEPT !.obj[mem.loaded[p]].cap = v,
                                               !.obj[mem.loaded[p]].drifted = @ \/ ~saved], p), call)
  <2>1. ("lockedDb" \notin Requests) \in BOOLEAN
    OBVIOUS
  <2> QED BY <2>1, Zenon DEF SetCapabilityPriority
<1>3. Sound(mem) /\ TypeOK
  BY DEF PluginsInv
<1>4. /\ i \in Instances /\ mem.obj[i] \in Object /\ mem.obj[i].plugin = p
      /\ mem.obj[i].subscribed \/ mem.obj[i].muted
  BY <1>1, <1>3, LoadedObject
<1> DEFINE b == mem.obj[i].drifted \/ ~saved
           o == [mem.obj[i] EXCEPT !.cap = v, !.drifted = b]
           r == Refresh([mem EXCEPT !.obj[i] = o], p)
<1>5. [mem EXCEPT !.obj[i].cap = v, !.obj[i].drifted = @ \/ ~saved] = [mem EXCEPT !.obj[i] = o]
  BY <1>3, <1>4 DEF Sound, Memory, Object
<1>6. b \in BOOLEAN
  OBVIOUS
<1>7. /\ o \in Object /\ o.plugin = p /\ (o.subscribed \/ o.muted)
      /\ o.enabled = mem.obj[i].enabled /\ o.prio = mem.obj[i].prio
      /\ o.cap = v /\ o.drifted = b
  <2> HIDE DEF b
  <2> QED BY <1>4, <1>6, SettingUpdates DEF Object
<1>8. mem' = Collect(r, call')
  BY <1>1, <1>2, <1>5
<1> HIDE DEF o
<1>9. /\ Sound(r) /\ r.loaded = mem.loaded /\ r.obj[i] = o
      /\ (\A j \in Instances \ {i} : r.obj[j] = mem.obj[j])
      /\ \A q \in Plugins : Running(r, q) <=> Running(mem, q)
  <2>1. r = Refresh([mem EXCEPT !.obj[i] = o], p)
    OBVIOUS
  <2> HIDE DEF r
  <2> QED BY <1>1, <1>3, <1>7, <2>1, SettingSound, SMTT(30)
<1> HIDE DEF r
<1>10. /\ capPrio' \in [Plugins -> Override]
       /\ saved => capPrio'[p] = v
       /\ ~saved => capPrio'[p] = capPrio[p]
       /\ \A q \in Plugins \ {p} : capPrio'[q] = capPrio[q]
  BY <1>2, <1>3 DEF TypeOK
<1>11. ASSUME NEW q \in Plugins, r.loaded[q] # 0
       PROVE  LET l == r.obj[r.loaded[q]]
              IN  l.drifted \/ (l.prio = row'[q].prio /\ l.cap = capPrio'[q])
  <2>1. CASE q = p
    BY <1>1, <1>7, <1>9, <1>10, <2>1 DEF PluginsInv, Agrees
  <2>2. CASE q # p
    <3>1. mem.loaded[q] \in Instances \ {i}
      BY <1>3, <1>4, <1>9, <1>11, <2>2, LoadedObject
    <3> QED BY <1>1, <1>9, <1>10, <1>11, <2>2, <3>1 DEF PluginsInv, Agrees
  <2> QED BY <2>1, <2>2
<1>12. \A c \in Calls : call'[c] # NoCall =>
          call'[c].inst \in Instances /\ r.obj[call'[c].inst] # NoObject
  BY <1>1, <1>7, <1>9, CallersTyped, ObjectsAreNot
<1>13. /\ Sound(mem)' /\ Agrees' /\ CallsLive'
       /\ \A q \in Plugins : Running(mem', q) <=> Running(r, q)
  BY <1>8, <1>9, <1>11, <1>12, CollectStep
<1>14. TypeOK'
  <2>1. asked' \in 0..MaxRequests
    BY <1>3, AskedTyped DEF SetCapabilityPriority
  <2> QED BY <1>1, <1>3, <1>10, <1>13, <2>1 DEF TypeOK, Sound
<1>15. Uninstalled' /\ Installed' /\ RunsOnlyIfAllowed'
  BY <1>1, <1>9, <1>13 DEF PluginsInv, Uninstalled, Installed, RunsOnlyIfAllowed
<1> QED BY <1>13, <1>14, <1>15 DEF PluginsInv

LEMMA UninstallStep ==
    ASSUME PluginsInv, NEW p \in Plugins, Uninstall(p)
    PROVE  PluginsInv'
<1> DEFINE r == Unload(mem, p)
<1>1. UNCHANGED <<repo, capPrio, install, call>>
  BY DEF Uninstall
<1>2. /\ tombstones' = Marked(p)
      /\ mem' = IF mem.loaded[p] = 0 THEN mem ELSE Collect(r, call')
  BY <1>1 DEF Uninstall
<1>3. \/ /\ row' = [row EXCEPT ![p] = NoRow]
         /\ code' = [code EXCEPT ![p] = NoCode]
         /\ allowed' = [allowed EXCEPT ![p] = "no"]
      \/ row[p].there /\ UNCHANGED <<row, code, allowed>>
  BY DEF Uninstall
<1>4. TypeOK /\ Sound(mem)
  BY DEF PluginsInv
<1>5. \A q \in Plugins \ {p} : row'[q] = row[q]
  BY <1>3, <1>4 DEF TypeOK
<1>6. /\ Sound(mem)' /\ Agrees' /\ CallsLive' /\ ~Running(mem', p)
      /\ \A q \in Plugins \ {p} : Running(mem', q) <=> Running(mem, q)
  <2>1. CASE mem.loaded[p] = 0
    <3>1. mem' = mem
      BY <1>2, <2>1
    <3>2. Sound(mem)' /\ CallsLive' /\ \A q \in Plugins : Running(mem', q) <=> Running(mem, q)
      BY <1>1, <3>1 DEF PluginsInv, Sound, Running, CallsLive
    <3>3. Agrees'
      BY <1>1, <1>5, <2>1, <3>1 DEF PluginsInv, Agrees
    <3> QED BY <2>1, <3>2, <3>3 DEF Running
  <2>2. CASE mem.loaded[p] # 0
    <3>1. mem' = Collect(r, call')
      BY <1>2, <2>2
    <3>2. /\ Sound(r) /\ r.loaded[p] = 0
          /\ \A q \in Plugins \ {p} : r.loaded[q] = mem.loaded[q] /\ (Running(r, q) <=> Running(mem, q))
          /\ \A i \in Instances : mem.obj[i] # NoObject =>
                /\ r.obj[i] # NoObject
                /\ r.obj[i].prio = mem.obj[i].prio /\ r.obj[i].cap = mem.obj[i].cap
                /\ r.obj[i].drifted = mem.obj[i].drifted
      BY <1>4, <2>2, UnloadSound
    <3> HIDE DEF r
    <3>3. \A q \in Plugins : mem.loaded[q] # 0 =>
             mem.loaded[q] \in Instances /\ mem.obj[mem.loaded[q]] # NoObject
      BY <1>4, MemoryFields DEF Sound
    <3>4. \A q \in Plugins : r.loaded[q] # 0 =>
             LET l == r.obj[r.loaded[q]]
             IN  l.drifted \/ (l.prio = row'[q].prio /\ l.cap = capPrio'[q])
      BY <1>1, <1>5, <3>2, <3>3 DEF PluginsInv, Agrees
    <3>5. \A c \in Calls : call'[c] # NoCall =>
             call'[c].inst \in Instances /\ r.obj[call'[c].inst] # NoObject
      BY <1>1, <3>2, CallersTyped
    <3>6. /\ Sound(mem)' /\ Agrees' /\ CallsLive'
          /\ \A q \in Plugins : Running(mem', q) <=> Running(r, q)
      BY <3>1, <3>2, <3>4, <3>5, CollectStep
    <3> QED BY <3>2, <3>6 DEF Running
  <2> QED BY <2>1, <2>2
<1>7. TypeOK'
  <2>1. asked' \in 0..MaxRequests
    BY <1>4, AskedTyped DEF Uninstall
  <2>2. tombstones' \subseteq Bundled
    BY <1>2, <1>4 DEF Marked, TypeOK
  <2>3. /\ row' \in [Plugins -> Row] /\ code' \in [Plugins -> Code]
        /\ allowed' \in [Plugins -> {"yes", "untilRestart", "no"}]
    BY <1>3, <1>4, NoneTyped DEF TypeOK
  <2> QED BY <1>1, <1>4, <1>6, <2>1, <2>2, <2>3 DEF TypeOK, Sound
<1>8. Uninstalled'
  <2>1. \A q \in Bundled : q \in tombstones => q \in tombstones'
    BY <1>2 DEF Marked
  <2>2. p \in Bundled => p \in tombstones'
    BY <1>2 DEF Marked
  <2> QED BY <1>5, <2>1, <2>2, PluginsBundled DEF PluginsInv, Uninstalled
<1>9. Installed' /\ RunsOnlyIfAllowed'
  <2>1. CASE row[p].there /\ UNCHANGED <<row, code, allowed>>
    BY <1>6, <2>1 DEF PluginsInv, Installed, RunsOnlyIfAllowed
  <2>2. CASE row' = [row EXCEPT ![p] = NoRow] /\ allowed' = [allowed EXCEPT ![p] = "no"]
    <3>1. /\ ~row'[p].enabled
          /\ \A q \in Plugins \ {p} : allowed'[q] = allowed[q]
      BY <1>4, <2>2 DEF TypeOK, NoRow
    <3> QED BY <1>5, <1>6, <3>1 DEF PluginsInv, Installed, RunsOnlyIfAllowed
  <2> QED BY <1>3, <2>1, <2>2
<1> QED BY <1>6, <1>7, <1>8, <1>9 DEF PluginsInv

-----------------------------------------------------------------------------
(* The marketplace.                                                        *)

\* Nothing that runs is touched.
LEMMA MarketStep ==
    ASSUME PluginsInv, UNCHANGED <<row, capPrio, tombstones, mem, call, allowed>>,
           repo' \in [RepoIds -> Repo], code' \in [Plugins -> Code],
           install' \in Installing \cup {NoInstall}, asked' \in 0..MaxRequests
    PROVE  PluginsInv'
<1>1. Sound(mem)' /\ Agrees' /\ CallsLive'
  BY MemoryKept
<1>2. TypeOK'
  BY DEF PluginsInv, TypeOK
<1>3. Uninstalled' /\ Installed' /\ RunsOnlyIfAllowed'
  BY DEF PluginsInv, Uninstalled, Installed, RunsOnlyIfAllowed, Running
<1> QED BY <1>1, <1>2, <1>3 DEF PluginsInv

LEMMA FetchTyped ==
    ASSUME TypeOK, NEW kind \in {"install", "update", "import"}, NEW p \in Plugins, NEW r \in RepoIds,
           NEW enabled \in BOOLEAN, NEW prio \in Override, Fetch(kind, p, r, enabled, prio)
    PROVE  install' \in Installing
BY DEF TypeOK, Fetch, Installing

LEMMA RepositoriesStep ==
    ASSUME PluginsInv, NEW u \in Urls, NEW index \in Indexes, NEW r \in RepoIds,
           AddRepository(u, index) \/ RemoveRepository(r) \/ RefreshRepository(r, index)
    PROVE  PluginsInv'
<1>1. TypeOK /\ index \in SUBSET Plugins
  BY PluginsOfficial DEF PluginsInv
<1>2. /\ UNCHANGED <<row, capPrio, tombstones, code, mem, install, call, allowed>>
      /\ asked' \in 0..MaxRequests
  BY <1>1, AskedTyped DEF AddRepository, RemoveRepository, RefreshRepository
<1>3. repo' \in [RepoIds -> Repo]
  <2>1. CASE AddRepository(u, index)
    BY <1>1, <2>1, ReposTyped DEF AddRepository, TypeOK
  <2>2. CASE RemoveRepository(r)
    BY <1>1, <2>2, NoneTyped DEF RemoveRepository, TypeOK
  <2>3. CASE RefreshRepository(r, index)
    <3>1. repo \in [RepoIds -> Repo] /\ repo' = [repo EXCEPT ![r].index = index]
      BY <1>1, <2>3 DEF RefreshRepository, TypeOK
    <3> QED BY <1>1, <3>1 DEF Repo
  <2> QED BY <2>1, <2>2, <2>3
<1> QED BY <1>1, <1>2, <1>3, MarketStep DEF TypeOK

LEMMA FetchSteps ==
    ASSUME PluginsInv, NEW p \in Plugins, NEW r \in RepoIds, InstallStart(p, r) \/ UpdateStart(p)
    PROVE  PluginsInv'
<1>1. TypeOK
  BY DEF PluginsInv
<1>2. /\ UNCHANGED <<repo, row, capPrio, tombstones, code, mem, call, allowed>>
      /\ asked' \in 0..MaxRequests
  BY <1>1, AskedTyped DEF InstallStart, UpdateStart, stored
<1>3. 0 \in Override
  BY DEF Override
<1>4. install' \in Installing
  <2>1. CASE InstallStart(p, r)
    BY <1>1, <1>3, <2>1, FetchTyped DEF InstallStart
  <2>2. CASE UpdateStart(p)
    <3>1. row[p].source \in RepoIds
      BY <1>1, <2>2, PluginsBounds DEF UpdateStart, TypeOK, Row, RepoIds
    <3> QED BY <1>1, <1>3, <2>2, <3>1, FetchTyped DEF UpdateStart
  <2> QED BY <2>1, <2>2
<1> QED BY <1>1, <1>2, <1>4, MarketStep DEF TypeOK

LEMMA ImportStep ==
    ASSUME PluginsInv, NEW u \in Urls, NEW p \in Plugins, NEW on \in BOOLEAN, NEW enabled \in BOOLEAN,
           NEW v \in Override, ImportStart(u, on, p, enabled, v)
    PROVE  PluginsInv'
<1>1. TypeOK
  BY DEF PluginsInv
<1>2. /\ UNCHANGED <<row, capPrio, tombstones, code, mem, call, allowed>>
      /\ asked' \in 0..MaxRequests
  BY <1>1, AskedTyped DEF ImportStart
<1>3. repo' \in [RepoIds -> Repo]
  <2>1. PICK index \in Indexes : repo' = Added(repo, u, index, on)
    BY DEF ImportStart
  <2>2. index \in SUBSET Plugins
    BY PluginsOfficial
  <2> QED BY <1>1, <2>1, <2>2, ReposTyped DEF TypeOK
<1>4. NewRepoId(repo) \in RepoIds
  BY <1>1, NewRepoIds, PluginsBounds DEF ImportStart, Addable, TypeOK, RepoIds
<1>5. install' = install \/ install' \in Installing
  BY <1>1, <1>4, FetchTyped DEF ImportStart
<1> QED BY <1>1, <1>2, <1>3, <1>5, MarketStep DEF TypeOK

LEMMA InstallEnds ==
    ASSUME PluginsInv, InstallRefused \/ InstallBreaks
    PROVE  PluginsInv'
<1>1. TypeOK
  BY DEF PluginsInv
<1>2. /\ UNCHANGED <<repo, row, capPrio, tombstones, mem, call, allowed, asked>>
      /\ install' = NoInstall
  BY DEF InstallRefused, InstallBreaks, stored
<1>3. code' \in [Plugins -> Code]
  <2>1. CASE InstallRefused
    BY <1>1, <2>1 DEF InstallRefused, stored, TypeOK
  <2>2. CASE InstallBreaks
    <3>1. [there |-> TRUE, loads |-> FALSE] \in Code
      BY DEF Code
    <3> QED BY <1>1, <2>2, <3>1, NoneTyped DEF InstallBreaks, TypeOK
  <2> QED BY <2>1, <2>2
<1> QED BY <1>1, <1>2, <1>3, MarketStep DEF TypeOK

LEMMA InstalledRows ==
    ASSUME TypeOK, install \in Installing
    PROVE  LET p == install.plugin
           IN  /\ p \in Plugins
               /\ InstalledRow(p) \in Row /\ ImportedRow(p) \in Row
               /\ InstalledRow(p).there /\ ImportedRow(p).there
               /\ InstalledRow(p).prio = row[p].prio
               /\ ImportedRow(p).enabled = install.enabled
<1> DEFINE p == install.plugin
           base == IF install.kind = "update" THEN install.seen ELSE row[p]
           i == InstalledRow(p)
<1>1. p \in Plugins /\ install.id \in RepoIds /\ install.seen \in Row
      /\ install.enabled \in BOOLEAN /\ install.prio \in Override
  BY DEF Installing
<1>2. row[p] \in Row
  BY <1>1 DEF TypeOK
<1> HIDE DEF p
<1>3. row[p].enabled \in BOOLEAN /\ row[p].source \in 0..MaxRepoId /\ row[p].prio \in Override
  BY <1>2 DEF Row
<1>4. install.id \in 0..MaxRepoId
  BY <1>1, PluginsBounds DEF RepoIds
<1> DEFINE enabled == IF base.there /\ base.enabled THEN row[p].enabled ELSE TRUE
           source == IF base.there /\ base.source = install.id THEN row[p].source ELSE install.id
<1>5. enabled \in BOOLEAN /\ source \in 0..MaxRepoId
  BY <1>3, <1>4
<1>6. i = [there |-> TRUE, enabled |-> enabled, source |-> source, prio |-> row[p].prio]
  BY DEF InstalledRow
<1> HIDE DEF enabled, source
<1>7. i \in Row /\ i.there /\ i.prio = row[p].prio
  BY <1>3, <1>5, <1>6 DEF Row
<1> DEFINE prio == IF install.prio = 0 THEN i.prio ELSE install.prio
<1>8. prio \in Override
  BY <1>1, <1>3, <1>7
<1>9. ImportedRow(p) = [i EXCEPT !.enabled = install.enabled, !.prio = prio]
  BY <1>7 DEF ImportedRow, Row
<1> HIDE DEF i, prio
<1>10. /\ ImportedRow(p) \in Row /\ ImportedRow(p).there
       /\ ImportedRow(p).enabled = install.enabled
  BY <1>1, <1>7, <1>8, <1>9 DEF Row
<1> QED BY <1>1, <1>7, <1>10 DEF i, p

LEMMA InstallDoneStep ==
    ASSUME PluginsInv, InstallDone
    PROVE  PluginsInv'
<1> DEFINE p == install.plugin
           prio == IF install.kind = "update" THEN install.seen.prio ELSE row[p].prio
           imported == install.kind = "import"
           drifted == imported \/ prio # row[p].prio
<1>1. TypeOK /\ Sound(mem) /\ install \in Installing /\ Free(mem) # {}
  BY DEF PluginsInv, TypeOK, InstallDone
<1>2. /\ UNCHANGED <<repo, call, asked>> /\ install' = NoInstall
      /\ code' = [code EXCEPT ![p] = [there |-> TRUE, loads |-> TRUE]]
  BY DEF InstallDone
<1>3. p \in Plugins /\ prio \in Override /\ drifted \in BOOLEAN
  BY <1>1 DEF Installing, Row, TypeOK
<1> DEFINE Written(m) ==
               /\ row' = [row EXCEPT ![p] = IF imported THEN ImportedRow(p) ELSE InstalledRow(p)]
               /\ capPrio' \in {capPrio} \cup
                     (IF imported /\ install.prio # 0 THEN {[capPrio EXCEPT ![p] = install.prio]} ELSE {})
               /\ tombstones' = IF install.kind = "install" THEN tombstones \ {p} ELSE tombstones
               /\ \E e \in EnableOutcomes(m, p) : mem' = Collect(e, call)
               /\ allowed' = [allowed EXCEPT ![p] = IF imported /\ ~install.enabled
                                                    THEN "untilRestart" ELSE "yes"]
           Lost(m) == mem' = Collect(m, call) /\ UNCHANGED <<row, capPrio, tombstones, allowed>>
<1>4. PICK m \in LoadOutcomes(mem, p, prio, drifted) : Written(m) \/ Lost(m)
  BY DEF InstallDone
<1>5. /\ Sound(m) /\ ~Running(m, p) /\ m.loaded[p] # 0
      /\ LET o == m.obj[m.loaded[p]]
         IN  o.prio = prio /\ o.cap = capPrio[p] /\ o.drifted = drifted
      /\ \A q \in Plugins \ {p} : m.loaded[q] = mem.loaded[q] /\ (Running(m, q) <=> Running(mem, q))
      /\ \A i \in Instances : mem.obj[i] # NoObject => m.obj[i] = mem.obj[i]
  <2>1. capPrio \in [Plugins -> Override]
    BY <1>1 DEF TypeOK
  <2> HIDE DEF prio, drifted, p
  <2> QED BY <1>1, <1>3, <1>4, <2>1, LoadSound
<1>6. \A q \in Plugins : mem.loaded[q] # 0 =>
         mem.loaded[q] \in Instances /\ mem.obj[mem.loaded[q]] # NoObject
  BY <1>1, MemoryFields DEF Sound
<1>7. \A q \in Plugins : m.loaded[q] # 0 =>
         m.loaded[q] \in Instances /\ m.obj[m.loaded[q]] # NoObject
  BY <1>5, MemoryFields DEF Sound
<1>8. code' \in [Plugins -> Code]
  BY <1>1, <1>2 DEF TypeOK, Code
<1>9. \A c \in Calls : call'[c] # NoCall =>
         call'[c].inst \in Instances /\ m.obj[call'[c].inst] # NoObject
  BY <1>2, <1>5, CallersTyped
<1>10. CASE Lost(m)
  <2>1. \A q \in Plugins : m.loaded[q] # 0 =>
          LET l == m.obj[m.loaded[q]]
          IN  l.drifted \/ (l.prio = row'[q].prio /\ l.cap = capPrio'[q])
    <3>1. ASSUME NEW q \in Plugins \ {p}, m.loaded[q] # 0
          PROVE  m.obj[m.loaded[q]] = mem.obj[mem.loaded[q]] /\ mem.loaded[q] # 0
      BY <1>5, <1>6, <3>1
    <3>2. LET l == m.obj[m.loaded[p]]
          IN  l.drifted \/ (l.prio = row[p].prio /\ l.cap = capPrio[p])
      BY <1>5
    <3> QED BY <1>10, <3>1, <3>2 DEF PluginsInv, Agrees
  <2>2. mem' = Collect(m, call')
    BY <1>2, <1>10
  <2>3. /\ Sound(mem)' /\ Agrees' /\ CallsLive'
        /\ \A q \in Plugins : Running(mem', q) <=> Running(m, q)
    BY <1>5, <1>9, <2>1, <2>2, CollectStep
  <2>4. TypeOK'
    BY <1>1, <1>2, <1>8, <1>10, <2>3 DEF TypeOK, Sound
  <2>5. Uninstalled' /\ Installed'
    BY <1>10 DEF PluginsInv, Uninstalled, Installed
  <2>6. RunsOnlyIfAllowed'
    BY <1>5, <1>10, <2>3 DEF PluginsInv, RunsOnlyIfAllowed
  <2> QED BY <2>3, <2>4, <2>5, <2>6 DEF PluginsInv
<1>11. CASE Written(m)
  <2>1. PICK e \in EnableOutcomes(m, p) : mem' = Collect(e, call')
    BY <1>2, <1>11
  <2>2. /\ Sound(e) /\ Keeps(m, e)
        /\ \A q \in Plugins \ {p} : Running(e, q) <=> Running(m, q)
    BY <1>3, <1>5, EnableSound
  <2>3. /\ row' \in [Plugins -> Row] /\ row'[p].there
        /\ imported \/ row'[p].prio = row[p].prio
        /\ imported => row'[p].enabled = install.enabled
        /\ \A q \in Plugins \ {p} : row'[q] = row[q]
    <3>1. row \in [Plugins -> Row]
      BY <1>1 DEF TypeOK
    <3> QED BY <1>1, <1>11, <3>1, InstalledRows
  <2>4. /\ capPrio' \in [Plugins -> Override]
        /\ imported \/ capPrio' = capPrio
        /\ \A q \in Plugins \ {p} : capPrio'[q] = capPrio[q]
    BY <1>1, <1>11 DEF TypeOK, Installing
  <2>5. /\ tombstones' \subseteq Bundled
        /\ \A q \in Bundled \ {p} : q \in tombstones => q \in tombstones'
    BY <1>1, <1>11 DEF TypeOK
  <2>6. /\ allowed' \in [Plugins -> {"yes", "untilRestart", "no"}] /\ allowed'[p] # "no"
        /\ allowed'[p] = "yes" \/ (imported /\ ~install.enabled)
        /\ \A q \in Plugins \ {p} : allowed'[q] = allowed[q]
    BY <1>1, <1>3, <1>11 DEF TypeOK
  <2> HIDE DEF Written
  <2>7. \A q \in Plugins : e.loaded[q] # 0 =>
          LET l == e.obj[e.loaded[q]]
          IN  l.drifted \/ (l.prio = row'[q].prio /\ l.cap = capPrio'[q])
    <3>1. \A q \in Plugins : e.loaded[q] # 0 =>
             /\ e.loaded[q] = m.loaded[q]
             /\ LET l == m.obj[m.loaded[q]]
                    k == e.obj[e.loaded[q]]
                IN  k.prio = l.prio /\ k.cap = l.cap /\ k.drifted = l.drifted
      BY <1>7, <2>2 DEF Keeps
    <3>2. ASSUME NEW q \in Plugins \ {p}, m.loaded[q] # 0
          PROVE  m.obj[m.loaded[q]] = mem.obj[mem.loaded[q]] /\ mem.loaded[q] # 0
      BY <1>5, <1>6, <3>2
    <3>3. \A q \in Plugins \ {p} : m.loaded[q] # 0 =>
             LET l == m.obj[m.loaded[q]]
             IN  l.drifted \/ (l.prio = row'[q].prio /\ l.cap = capPrio'[q])
      BY <2>3, <2>4, <3>2 DEF PluginsInv, Agrees
    <3>4. LET l == m.obj[m.loaded[p]]
          IN  l.drifted \/ (l.prio = row'[p].prio /\ l.cap = capPrio'[p])
      BY <1>5, <2>3, <2>4
    <3> QED BY <3>1, <3>3, <3>4
  <2>8. \A c \in Calls : call'[c] # NoCall =>
           call'[c].inst \in Instances /\ e.obj[call'[c].inst] # NoObject
    BY <1>9, <2>2 DEF Keeps
  <2>9. /\ Sound(mem)' /\ Agrees' /\ CallsLive'
        /\ \A q \in Plugins : Running(mem', q) <=> Running(e, q)
    BY <2>1, <2>2, <2>7, <2>8, CollectStep
  <2>10. TypeOK'
    BY <1>1, <1>2, <1>8, <2>3, <2>4, <2>5, <2>6, <2>9 DEF TypeOK, Sound
  <2>11. Uninstalled' /\ Installed'
    BY <2>3, <2>5, PluginsBundled DEF PluginsInv, Uninstalled, Installed
  <2>12. RunsOnlyIfAllowed'
    <3>1. row'[p].enabled => allowed'[p] = "yes"
      BY <2>3, <2>6
    <3>2. \A q \in Plugins \ {p} : Running(mem', q) => Running(mem, q)
      BY <1>5, <2>2, <2>9
    <3> QED BY <2>3, <2>6, <3>1, <3>2 DEF PluginsInv, RunsOnlyIfAllowed
  <2> QED BY <2>9, <2>10, <2>11, <2>12 DEF PluginsInv
<1> QED BY <1>4, <1>10, <1>11

LEMMA BootRowsTyped ==
    ASSUME row \in [Plugins -> Row]
    PROVE  BootRows \in [Plugins -> Row]
<1> DEFINE present == Bundled \cup {p \in Plugins : code[p].there}
           booted(p) == IF AutoInstalls(p)
                        THEN [there |-> TRUE, enabled |-> p \in OnByDefault, source |-> 0, prio |-> 0]
                        ELSE IF present # {} /\ p \notin present THEN NoRow ELSE row[p]
<1>1. ASSUME NEW p \in Plugins PROVE booted(p) \in Row
  <2>1. ASSUME NEW b \in BOOLEAN
        PROVE  [there |-> TRUE, enabled |-> b, source |-> 0, prio |-> 0] \in Row
    BY PluginsBounds DEF Row, Override
  <2>2. (p \in OnByDefault) \in BOOLEAN
    OBVIOUS
  <2>3. [there |-> TRUE, enabled |-> p \in OnByDefault, source |-> 0, prio |-> 0] \in Row
    BY <2>1, <2>2, Zenon
  <2> QED BY <2>3, NoneTyped
<1>2. BootRows = [p \in Plugins |-> booted(p)]
  BY DEF BootRows
<1> HIDE DEF booted
<1> QED BY <1>1, <1>2

\* A boot enables only what a row enabled before, because no bundled plugin
\* lacks both its row and its tombstone.
LEMMA BootRowsKept ==
    ASSUME PluginsInv, NEW p \in Plugins
    PROVE  /\ BootRows[p].enabled => row[p].there /\ row[p].enabled
           /\ BootRows[p].enabled => BootRows[p].there
           /\ p \in Bundled /\ row[p].there => BootRows[p].there
<1>1. ~AutoInstalls(p)
  BY DEF PluginsInv, Uninstalled, AutoInstalls
<1>2. BootRows[p] = NoRow \/ BootRows[p] = row[p]
  BY <1>1 DEF BootRows
<1>3. p \in Bundled => BootRows[p] = row[p]
  BY <1>1 DEF BootRows
<1>4. ~NoRow.enabled
  BY DEF NoRow
<1> QED BY <1>2, <1>3, <1>4 DEF PluginsInv, Installed

LEMMA RestartStep ==
    ASSUME PluginsInv, Restart
    PROVE  PluginsInv'
<1>1. TypeOK /\ row \in [Plugins -> Row] /\ capPrio \in [Plugins -> Override]
  BY DEF PluginsInv, TypeOK
<1>2. /\ row' = BootRows /\ repo' = BootRepos /\ install' = NoInstall
      /\ call' = [c \in Calls |-> NoCall]
      /\ allowed' = [p \in Plugins |-> IF allowed[p] = "untilRestart" THEN "no" ELSE allowed[p]]
      /\ UNCHANGED <<capPrio, tombstones, code>>
  BY DEF Restart
<1>3. PICK m \in BootOutcomes : mem' = Collect(m, call')
  BY DEF Restart
<1>4. BootRows \in [Plugins -> Row]
  BY <1>1, BootRowsTyped
<1>5. /\ Sound(m)
      /\ \A p \in Plugins : m.loaded[p] # 0 =>
            LET o == m.obj[m.loaded[p]]
            IN  o.prio = BootRows[p].prio /\ o.cap = capPrio[p]
      /\ \A p \in Plugins : Running(m, p) => BootRows[p].enabled
  BY <1>1, <1>3, <1>4, BootSound
<1>6. /\ Sound(mem)' /\ Agrees' /\ CallsLive'
      /\ \A q \in Plugins : Running(mem', q) <=> Running(m, q)
  BY <1>2, <1>3, <1>5, CollectStep
<1>7. repo' \in [RepoIds -> Repo]
  <2>1. Bundled \in SUBSET Plugins /\ Official \in Urls
    BY PluginsBundled, PluginsOfficial
  <2> QED BY <1>1, <1>2, <2>1, ReposTyped DEF BootRepos, TypeOK
<1>8. TypeOK'
  <2>1. asked' \in 0..MaxRequests
    BY <1>1, AskedTyped DEF Restart
  <2>2. allowed' \in [Plugins -> {"yes", "untilRestart", "no"}]
    BY <1>1, <1>2 DEF TypeOK
  <2>3. call' \in [Calls -> Call \cup {NoCall}]
    BY <1>2
  <2> QED BY <1>1, <1>2, <1>4, <1>6, <1>7, <2>1, <2>2, <2>3 DEF TypeOK, Sound
<1>9. Uninstalled' /\ Installed'
  BY <1>2, BootRowsKept, PluginsBundled DEF PluginsInv, Uninstalled, Installed
<1>10. RunsOnlyIfAllowed'
  <2>1. ASSUME NEW p \in Plugins, BootRows[p].enabled PROVE allowed'[p] = "yes"
    BY <1>2, <2>1, BootRowsKept DEF PluginsInv, RunsOnlyIfAllowed
  <2> QED BY <1>2, <1>5, <1>6, <2>1 DEF RunsOnlyIfAllowed
<1> QED BY <1>6, <1>8, <1>9, <1>10 DEF PluginsInv

-----------------------------------------------------------------------------
(* The first boot, and every step.                                         *)

LEMMA PluginsInit ==
    ASSUME Init
    PROVE  PluginsInv
<1> DEFINE on == [p \in Plugins |-> p \in OnByDefault]
<1>1. /\ repo = [r \in RepoIds |->
                    IF r = 1 THEN [url |-> Official, index |-> Bundled, on |-> TRUE, there |-> TRUE]
                    ELSE NoRepo]
      /\ row = [p \in Plugins |->
                   IF p \in Bundled THEN [there |-> TRUE, enabled |-> on[p], source |-> 0, prio |-> 0]
                   ELSE NoRow]
      /\ capPrio = [p \in Plugins |-> 0]
      /\ tombstones = {}
      /\ code = [p \in Plugins |-> NoCode]
      /\ mem \in BootOutcomes
      /\ install = NoInstall
      /\ call = [c \in Calls |-> NoCall]
      /\ asked = 0
      /\ allowed = [p \in Plugins |-> IF on[p] THEN "yes" ELSE "no"]
  BY DEF Init
<1>2. \A p \in Plugins : on[p] \in BOOLEAN
  <2>1. \A p \in Plugins : on[p] = (p \in OnByDefault)
    BY Zenon
  <2>2. \A p \in Plugins : (p \in OnByDefault) \in BOOLEAN
    OBVIOUS
  <2> HIDE DEF on
  <2> QED BY <2>1, <2>2, Zenon
<1> HIDE DEF on
<1>3. /\ row \in [Plugins -> Row]
      /\ \A p \in Plugins : row[p].enabled => row[p].there /\ on[p]
      /\ \A p \in Bundled : row[p].there
  <2>1. ASSUME NEW p \in Plugins
        PROVE  row[p] \in Row /\ (row[p].enabled => row[p].there /\ on[p]) /\ (p \in Bundled => row[p].there)
    <3>1. CASE p \in Bundled
      <4>1. row[p] = [there |-> TRUE, enabled |-> on[p], source |-> 0, prio |-> 0]
        BY <1>1, <3>1
      <4> QED BY <1>2, <4>1, PluginsBounds DEF Row, Override
    <3>2. CASE p \notin Bundled
      <4>1. row[p] = NoRow
        BY <1>1, <3>2
      <4> QED BY <3>2, <4>1, NoneTyped DEF NoRow
    <3> QED BY <3>1, <3>2
  <2> QED BY <1>1, <2>1, PluginsBundled
<1>4. capPrio \in [Plugins -> Override]
  BY <1>1 DEF Override
<1>5. BootRows \in [Plugins -> Row]
  BY <1>3, BootRowsTyped
<1>6. /\ Sound(mem)
      /\ \A p \in Plugins : mem.loaded[p] # 0 =>
            LET o == mem.obj[mem.loaded[p]]
            IN  o.prio = BootRows[p].prio /\ o.cap = capPrio[p]
      /\ \A p \in Plugins : Running(mem, p) => BootRows[p].enabled
  BY <1>1, <1>4, <1>5, BootSound
<1>7. \A p \in Plugins : BootRows[p].prio = row[p].prio /\ (BootRows[p].enabled => row[p].enabled)
  <2>1. ASSUME NEW p \in Plugins PROVE BootRows[p] = row[p] \/ (BootRows[p] = NoRow /\ row[p].prio = 0)
    <3>1. ~AutoInstalls(p)
      BY <1>3 DEF AutoInstalls
    <3>2. BootRows[p] = row[p] \/ (BootRows[p] = NoRow /\ p \notin Bundled)
      BY <3>1 DEF BootRows
    <3>3. p \notin Bundled => row[p] = NoRow
      BY <1>1
    <3> QED BY <3>2, <3>3 DEF NoRow
  <2> QED BY <2>1 DEF NoRow
<1>8. TypeOK
  <2>1. repo \in [RepoIds -> Repo]
    <3>1. [url |-> Official, index |-> Bundled, on |-> TRUE, there |-> TRUE] \in Repo
      BY PluginsBundled, PluginsOfficial DEF Repo
    <3> QED BY <1>1, <3>1, NoneTyped
  <2>2. allowed \in [Plugins -> {"yes", "untilRestart", "no"}]
    BY <1>1
  <2>3. code \in [Plugins -> Code] /\ call \in [Calls -> Call \cup {NoCall}] /\ asked \in 0..MaxRequests
    BY <1>1, NoneTyped, PluginsBounds
  <2> QED BY <1>1, <1>3, <1>4, <1>6, <2>1, <2>2, <2>3 DEF TypeOK, Sound
<1>9. Agrees
  BY <1>6, <1>7 DEF Agrees
<1>10. CallsLive
  BY <1>1 DEF CallsLive
<1>11. Uninstalled /\ Installed
  BY <1>3 DEF Uninstalled, Installed
<1>12. RunsOnlyIfAllowed
  BY <1>1, <1>3, <1>6, <1>7 DEF RunsOnlyIfAllowed
<1> QED BY <1>6, <1>8, <1>9, <1>10, <1>11, <1>12 DEF PluginsInv

LEMMA PluginsStep ==
    ASSUME PluginsInv, [Next]_vars
    PROVE  PluginsInv'
<1>1. CASE Services
  BY <1>1, HoldStep, InvokeStep, CallReturnsStep, CallRaisesStep DEF Services
<1>2. CASE Page
  <2>1. PICK p \in Plugins :
           \/ EnablePlugin(p)
           \/ DisablePlugin(p)
           \/ \E v \in Override : SetPriority(p, v) \/ SetCapabilityPriority(p, v)
           \/ Uninstall(p)
           \/ UpdateStart(p)
           \/ \E r \in RepoIds : InstallStart(p, r)
    BY <1>2 DEF Page
  <2>2. 1 \in RepoIds
    BY PluginsBounds DEF RepoIds
  <2> QED BY <2>1, <2>2, EnableStep, DisableStep, SetPriorityStep, SetCapabilityStep,
             UninstallStep, FetchSteps
<1>3. CASE Marketplace
  <2>1. CASE \E u \in Urls, index \in Indexes : AddRepository(u, index)
    <3>1. 1 \in RepoIds
      BY PluginsBounds DEF RepoIds
    <3> QED BY <2>1, <3>1, RepositoriesStep
  <2>2. CASE \E r \in RepoIds : RemoveRepository(r)
    <3>1. PICK r \in RepoIds : RemoveRepository(r)
      BY <2>2
    <3>2. UNCHANGED <<row, capPrio, tombstones, code, mem, install, call, allowed>>
      BY <3>1 DEF RemoveRepository
    <3>3. TypeOK
      BY DEF PluginsInv
    <3>4. repo' \in [RepoIds -> Repo] /\ asked' \in 0..MaxRequests
      BY <3>1, <3>3, AskedTyped, NoneTyped DEF RemoveRepository, TypeOK
    <3> QED BY <3>2, <3>3, <3>4, MarketStep DEF TypeOK
  <2>3. CASE \E r \in RepoIds, index \in Indexes : RefreshRepository(r, index)
    BY <2>3, RepositoriesStep, PluginsOfficial
  <2>4. CASE \E u \in Urls, p \in Plugins, on, enabled \in BOOLEAN, v \in Override :
                ImportStart(u, on, p, enabled, v)
    BY <2>4, ImportStep
  <2>5. CASE InstallRefused \/ InstallBreaks
    BY <2>5, InstallEnds
  <2>6. CASE InstallDone
    BY <2>6, InstallDoneStep
  <2> QED BY <1>3, <2>1, <2>2, <2>3, <2>4, <2>5, <2>6 DEF Marketplace
<1>4. CASE Restart
  BY <1>4, RestartStep
<1>5. CASE UNCHANGED vars
  <2>1. UNCHANGED <<repo, row, capPrio, tombstones, code, mem, install, call, allowed, asked>>
    BY <1>5 DEF vars
  <2>2. TypeOK
    BY DEF PluginsInv
  <2> QED BY <2>1, <2>2, MarketStep DEF TypeOK
<1> QED BY <1>1, <1>2, <1>3, <1>4, <1>5 DEF Next

\* Whatever users, callers, hooks and boots do, the manager, its tables and
\* its callers stay in agreement.
THEOREM ManagerStaysSound == Spec => []PluginsInv
BY PluginsInit, PluginsStep, PTL DEF Spec

\* Every variable of the plugin manager keeps its type.
THEOREM PluginsTyped == Spec => []TypeOK
<1>1. PluginsInv => TypeOK
  BY DEF PluginsInv
<1> QED BY <1>1, ManagerStaysSound, PTL

\* The registry has exactly the enabled plugins, each with the object loaded
\* now, through enabling, disabling, failures, replacement and boot.
THEOREM RegistryIsRight == Spec => []RegistryFollows
<1>1. PluginsInv => RegistryFollows
  <2>1. SUFFICES ASSUME PluginsInv, NEW p \in Plugins
                 PROVE  /\ Running(mem, p) => mem.handle[p].inst = mem.loaded[p]
                        /\ mem.loaded[p] = 0 => mem.handle[p] = NoHandle
                        /\ mem.loaded[p] # 0 /\ mem.handle[p].inst = mem.loaded[p] => Running(mem, p)
    BY DEF RegistryFollows
  <2>2. CASE Running(mem, p)
    <3>1. mem.handle[p] = [inst |-> mem.loaded[p], prio |-> Effective(mem.obj[mem.loaded[p]])]
      BY <2>1, <2>2 DEF PluginsInv, Sound
    <3> QED BY <2>2, <3>1 DEF Running
  <2>3. CASE ~Running(mem, p)
    <3>1. mem.handle[p] = NoHandle \/ (mem.loaded[p] # 0 /\ mem.handle[p].inst # mem.loaded[p])
      BY <2>1, <2>3 DEF PluginsInv, Sound
    <3> QED BY <2>3, <3>1 DEF NoHandle
  <2> QED BY <2>2, <2>3
<1> QED BY <1>1, ManagerStaysSound, PTL

\* No request, boot or install under way makes a plugin run that the user
\* uninstalled or disabled.
THEOREM NothingRunsUnasked == Spec => []RunsOnlyIfAllowed
<1>1. PluginsInv => RunsOnlyIfAllowed
  BY DEF PluginsInv
<1> QED BY <1>1, ManagerStaysSound, PTL

\* Providers are tried in the order the user saved, unless something wrote
\* past the loaded plugin.
THEOREM OrderIsTheSavedOne == Spec => []OrderFollowsOverrides
<1>1. PluginsInv => OrderFollowsOverrides
  <2>1. SUFFICES ASSUME PluginsInv, NEW p \in Plugins, Running(mem, p)
                 PROVE  LET o == mem.obj[mem.loaded[p]]
                        IN  /\ mem.handle[p].prio = Effective(o)
                            /\ o.drifted \/ Effective([prio |-> row[p].prio, cap |-> capPrio[p]]) = Effective(o)
    BY DEF OrderFollowsOverrides
  <2>2. mem.handle[p] = [inst |-> mem.loaded[p], prio |-> Effective(mem.obj[mem.loaded[p]])]
    BY <2>1 DEF PluginsInv, Sound
  <2>3. LET o == mem.obj[mem.loaded[p]]
        IN  o.drifted \/ (o.prio = row[p].prio /\ o.cap = capPrio[p])
    BY <2>1 DEF PluginsInv, Agrees, Running
  <2> QED BY <2>2, <2>3 DEF Effective
<1> QED BY <1>1, ManagerStaysSound, PTL

\* An enabled plugin hears its events unless it was disabled since it was
\* loaded.
THEOREM EnabledPluginsHear == Spec => []EnabledHears
<1>1. PluginsInv => EnabledHears
  BY LoadedObject DEF PluginsInv, EnabledHears, Running
<1> QED BY <1>1, ManagerStaysSound, PTL

=============================================================================
