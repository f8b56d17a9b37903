------------------------------- MODULE Plugins -------------------------------
(***************************************************************************)
(* The plugin manager, the capability registry, the event bus and the      *)
(* marketplace: plugins/manager.py, plugins/registry.py, plugins/api.py,   *)
(* plugins/events.py, fnack/plugin_api/capabilities.py and the boot        *)
(* sequence of app.py.                                                     *)
(*                                                                         *)
(* What survives a restart is repo, row, capPrio, tombstones and code; the *)
(* rest lives in the process.  Handlers run to their end except for the    *)
(* download of an archive and the calls into providers, which take         *)
(* minutes.                                                                *)
(***************************************************************************)
EXTENDS Integers, FiniteSets, FiniteSetsExt, Functions

CONSTANTS
    Plugins,
    Bundled,            \* plugins with a directory in the image
    OnByDefault,        \* bundled plugins that auto-install enables
    Urls, Official,     \* addresses of repository indexes
    Indexes,            \* sets of plugins an index may publish
    MaxRepoId,          \* bound: ids of repositories
    MaxInstances,       \* bound: plugin objects something still refers to
    MaxFailures,        \* MAX_CONSECUTIVE_FAILURES
    Prios,              \* priorities a user may set
    Manifest,           \* the priority a plugin declares
    Calls,              \* callers of providers
    Requests,           \* what an instance includes
    MaxRequests         \* bound: requests and restarts in a behaviour

RequestKinds == {"toggle", "priority", "install", "update", "import",
                 "uninstall", "repositories", "call", "hooksFail", "lockedDb", "restart"}

ASSUME PluginsNames == "none" \notin Plugins
ASSUME PluginsBundled == OnByDefault \subseteq Bundled /\ Bundled \subseteq Plugins
ASSUME PluginsOfficial == Official \in Urls /\ Indexes \subseteq SUBSET Plugins
ASSUME PluginsBounds == {MaxRepoId, MaxInstances, MaxRequests} \subseteq Nat \ {0} /\ MaxFailures \in Nat \ {0, 1}
ASSUME PluginsPrios == Prios \subseteq Nat \ {0} /\ Manifest \in Nat \ {0}
ASSUME PluginsRequests == Requests \subseteq RequestKinds

VARIABLES
    repo,         \* table plugin_repositories
    row,          \* table installed_plugins
    capPrio,      \* table plugin_capability_priorities (one capability)
    tombstones,   \* settings plugin.uninstalled.*
    code,         \* what lies in /config/plugins/<id>
    mem,          \* the manager: loaded objects, handles of the registry
    install,      \* the archive that is being downloaded
    call,         \* the callers with the provider they hold or run
    allowed,      \* history: may the plugin run, by what the user asked
    asked         \* how many requests there were

vars == <<repo, row, capPrio, tombstones, code, mem, install, call, allowed, asked>>
stored == <<repo, row, capPrio, tombstones, code>>

RepoIds == 1..MaxRepoId
Instances == 1..MaxInstances
Override == Prios \cup {0}                           \* 0: NULL

NoRepo == [url |-> Official, index |-> {}, on |-> FALSE, there |-> FALSE]
Repo == [url : Urls, index : SUBSET Plugins, on : BOOLEAN, there : BOOLEAN]

NoRow == [there |-> FALSE, enabled |-> FALSE, source |-> 0, prio |-> 0]
Row == [there : BOOLEAN, enabled : BOOLEAN, source : 0..MaxRepoId, prio : Override]

\* Whether the directory is there and whether its code imports.
NoCode == [there |-> FALSE, loads |-> FALSE]
Code == [there : BOOLEAN, loads : BOOLEAN]

\* One LoadedPlugin with its instance.  subscribed: its callbacks are on the
\* bus.  History: muted, it was disabled before, or on_load did not subscribe;
\* drifted, its overrides were written past it.
NoObject == [plugin |-> "none"]
Object == [plugin : Plugins, enabled : BOOLEAN, failures : 0..MaxFailures, prio : Override,
           cap : Override, subscribed : BOOLEAN, known : BOOLEAN, muted : BOOLEAN, drifted : BOOLEAN]

Handle == [inst : 0..MaxInstances, prio : Nat]
NoHandle == [inst |-> 0, prio |-> 0]

Memory == [loaded : [Plugins -> 0..MaxInstances], handle : [Plugins -> Handle],
           obj : [Instances -> Object \cup {NoObject}]]

NoInstall == [kind |-> "none"]
Installing == [kind : {"install", "update", "import"}, plugin : Plugins, id : RepoIds,
               seen : Row, enabled : BOOLEAN, prio : Override]

NoCall == [pc |-> "none", inst |-> 0]
Call == [pc : {"held", "running"}, inst : Instances]

TypeOK ==
    /\ repo \in [RepoIds -> Repo]
    /\ row \in [Plugins -> Row]
    /\ capPrio \in [Plugins -> Override]
    /\ tombstones \subseteq Bundled
    /\ code \in [Plugins -> Code]
    /\ mem \in Memory
    /\ install \in Installing \cup {NoInstall}
    /\ call \in [Calls -> Call \cup {NoCall}]
    /\ allowed \in [Plugins -> {"yes", "untilRestart", "no"}]
    /\ asked \in 0..MaxRequests

-----------------------------------------------------------------------------
(* The manager.  Hooks of plugins may raise or hang, so an operation has   *)
(* several outcomes, each the manager afterwards.                          *)

Running(m, p) == m.loaded[p] # 0 /\ m.obj[m.loaded[p]].enabled

\* capability override > plugin override > manifest.
Effective(o) == IF o.cap # 0 THEN o.cap ELSE IF o.prio # 0 THEN o.prio ELSE Manifest

Register(m, p) ==
    [m EXCEPT !.handle[p] = [inst |-> m.loaded[p], prio |-> Effective(m.obj[m.loaded[p]])]]

Unregister(m, p) == [m EXCEPT !.handle[p] = NoHandle]

\* Mutant: a handle that is registered is left as it is.
RefreshMissing(m, p) ==
    IF m.loaded[p] = 0 THEN m
    ELSE IF ~Running(m, p) THEN Unregister(m, p)
    ELSE IF m.handle[p] = NoHandle THEN Register(m, p) ELSE m

\* refresh_capability_registration
Refresh(m, p) ==
    IF m.loaded[p] = 0 THEN m
    ELSE IF Running(m, p) THEN Register(m, p) ELSE Unregister(m, p)

\* Mutant: the comparison with the plugin's id is dropped.
UnsubscribeEveryone(m, p) ==
    [m EXCEPT !.obj = [i \in Instances |->
        IF m.obj[i] = NoObject THEN NoObject
        ELSE [m.obj[i] EXCEPT !.subscribed = FALSE, !.muted = @ \/ m.obj[i].plugin = p]]]

\* unsubscribe_all_for
Unsubscribe(m, p) ==
    [m EXCEPT !.obj = [i \in Instances |->
        IF m.obj[i].plugin = p
        THEN [m.obj[i] EXCEPT !.subscribed = FALSE, !.muted = TRUE] ELSE m.obj[i]]]

\* Whether a hook raises.
HookFails == "hooksFail" \in Requests
Raises == {FALSE} \cup {HookFails}
Failed(n) == IF n < MaxFailures THEN n + 1 ELSE n

\* on_disable may raise.  From the last failure on call_safe answers with
\* another disable_plugin: one of the nested attempts succeeds, or the
\* recursion gives out and the plugin stays as it was.
DisableOutcomes(m, p) ==
    LET i == m.loaded[p]
        off(n) == Unregister(Unsubscribe([m EXCEPT !.obj[i].enabled = FALSE,
                                                   !.obj[i].failures = n], p), p)
        n1 == Failed(m.obj[i].failures)
    IN  IF ~Running(m, p) THEN {m}
        ELSE {off(0)} \cup (IF ~HookFails THEN {}
                            ELSE IF n1 < MaxFailures THEN {off(n1)}
                            ELSE {[m EXCEPT !.obj[i].failures = n1]})

\* on_enable may raise; the plugin is enabled all the same.
EnabledObject(o, raises) ==
    [o EXCEPT !.enabled = TRUE, !.failures = IF raises THEN Failed(o.failures) ELSE 0]

EnableOutcomes(m, p) ==
    LET i == m.loaded[p]
    IN  IF i = 0 \/ Running(m, p) THEN {m}
        ELSE {Register([m EXCEPT !.obj[i] = EnabledObject(m.obj[i], raises)], p) : raises \in Raises}

\* Objects nothing refers to any more are gone.
Live(m, calls) ==
    {m.loaded[p] : p \in Plugins} \cup {m.handle[p].inst : p \in Plugins}
        \cup {i \in Instances : m.obj[i] # NoObject /\ m.obj[i].subscribed}
        \cup {calls[c].inst : c \in Calls}

Collect(m, calls) ==
    [m EXCEPT !.obj = [i \in Instances |-> IF i \in Live(m, calls) THEN m.obj[i] ELSE NoObject]]

Free(m) == {i \in Instances : m.obj[i] = NoObject}

\* on_load subscribes or raises.
NewObject(p, prio, drifted, raises) ==
    [plugin |-> p, enabled |-> FALSE, failures |-> IF raises THEN 1 ELSE 0, prio |-> prio,
     cap |-> capPrio[p], subscribed |-> ~raises, known |-> TRUE, muted |-> raises, drifted |-> drifted]

\* load_plugin: a new object takes the place of the loaded one, which is
\* neither disabled nor unsubscribed.
LoadOutcomes(m, p, prio, drifted) ==
    LET i == CHOOSE i \in Free(m) : TRUE
    IN  {[m EXCEPT !.loaded[p] = i, !.obj[i] = NewObject(p, prio, drifted, raises)] :
            raises \in Raises}

\* Mutant: the handle stays in the registry.
UnloadRegistered(m, p) ==
    LET i == m.loaded[p]
    IN  IF i = 0 THEN m ELSE [m EXCEPT !.loaded[p] = 0, !.obj[i].known = FALSE]

\* unload_plugin leaves the callbacks on the bus.
Unload(m, p) ==
    LET i == m.loaded[p]
    IN  IF i = 0 THEN m
        ELSE Unregister([m EXCEPT !.loaded[p] = 0, !.obj[i].known = FALSE], p)

-----------------------------------------------------------------------------
(* Calls of providers.                                                     *)

\* A service takes the handles of a capability and works through them.
Hold(c) ==
    /\ "call" \in Requests
    /\ call[c] = NoCall
    /\ \E p \in Plugins :
          /\ mem.handle[p] # NoHandle
          /\ call' = [call EXCEPT ![c] = [pc |-> "held", inst |-> mem.handle[p].inst]]
    /\ UNCHANGED <<stored, mem, install, allowed, asked>>

\* invoke_provider goes from the instance to the plugin that is loaded under
\* its id now.
Invoke(c) ==
    LET o == mem.obj[call[c].inst]
        now == IF o.known THEN mem.loaded[o.plugin] ELSE 0
    IN  /\ call[c].pc = "held"
        /\ call' = [call EXCEPT ![c] = IF now = 0 THEN NoCall ELSE [pc |-> "running", inst |-> now]]
        /\ mem' = Collect(mem, call')
    /\ UNCHANGED <<stored, install, allowed, asked>>

CallReturns(c) ==
    /\ call[c].pc = "running"
    /\ call' = [call EXCEPT ![c] = NoCall]
    /\ mem' = Collect([mem EXCEPT !.obj[call[c].inst].failures = 0], call')
    /\ UNCHANGED <<stored, install, allowed, asked>>

\* The failure counts for the object that ran; what is disabled is the plugin
\* of its id.
CallRaises(c) ==
    LET i == call[c].inst
        m == [mem EXCEPT !.obj[i].failures = Failed(@)]
    IN  /\ call[c].pc = "running"
        /\ call' = [call EXCEPT ![c] = NoCall]
        /\ \E r \in IF m.obj[i].failures < MaxFailures THEN {m} ELSE DisableOutcomes(m, m.obj[i].plugin) :
              mem' = Collect(r, call')
    /\ UNCHANGED <<stored, install, allowed, asked>>

-----------------------------------------------------------------------------
(* Settings -> Plugins.                                                    *)

Asked(kind) ==
    /\ kind \in Requests
    /\ asked < MaxRequests
    /\ asked' = asked + 1

\* A commit; with a locked database it raises.
Persist(new) == row' = new \/ ("lockedDb" \in Requests /\ row' = row)

\* _ensure_installed_row
Ensured(p, on) == [row EXCEPT ![p].there = TRUE, ![p].enabled = on]

EnablePlugin(p) ==
    /\ Asked("toggle")
    /\ \E m \in EnableOutcomes(mem, p) : mem' = Collect(m, call)
    /\ Persist(Ensured(p, TRUE))
    /\ allowed' = [allowed EXCEPT ![p] = "yes"]
    /\ UNCHANGED <<repo, capPrio, tombstones, code, install, call>>

\* Only a disable that was answered counts.
DisablePlugin(p) ==
    /\ Asked("toggle")
    /\ \E m \in DisableOutcomes(mem, p) :
          /\ mem' = Collect(m, call)
          /\ \/ Running(m, p) /\ UNCHANGED <<row, allowed>>
             \/ /\ ~Running(m, p)
                /\ row' = Ensured(p, FALSE)
                /\ allowed' = [allowed EXCEPT ![p] = "no"]
             \/ "lockedDb" \in Requests /\ ~Running(m, p) /\ UNCHANGED <<row, allowed>>
    /\ UNCHANGED <<repo, capPrio, tombstones, code, install, call>>

\* Setting a priority also enables the row.  Two commits: either may fail.
SetPriority(p, v) ==
    LET ensured == Ensured(p, TRUE)
    IN  /\ Asked("priority")
        /\ \/ /\ row' = [ensured EXCEPT ![p].prio = v]
              /\ mem' = IF mem.loaded[p] = 0 THEN mem
                        ELSE Collect(Refresh([mem EXCEPT !.obj[mem.loaded[p]].prio = v], p), call)
           \/ "lockedDb" \in Requests /\ row' \in {row, ensured} /\ UNCHANGED mem
    /\ allowed' = [allowed EXCEPT ![p] = IF row' = row THEN @ ELSE "yes"]
    /\ UNCHANGED <<repo, capPrio, tombstones, code, install, call>>

SetCapabilityPriority(p, v) ==
    /\ Asked("priority")
    /\ mem.loaded[p] # 0
    /\ \E saved \in {TRUE} \cup {"lockedDb" \notin Requests} :
          /\ capPrio' = IF saved THEN [capPrio EXCEPT ![p] = v] ELSE capPrio
          /\ mem' = Collect(Refresh([mem EXCEPT !.obj[mem.loaded[p]].cap = v,
                                                !.obj[mem.loaded[p]].drifted = @ \/ ~saved], p), call)
    /\ UNCHANGED <<repo, row, tombstones, code, install, call, allowed>>

-----------------------------------------------------------------------------
(* The marketplace.                                                        *)

\* SQLite: one more than the largest id in use.
NewRepoId(rs) == Max({0} \cup {r \in RepoIds : rs[r].there}) + 1

Added(rs, u, index, on) ==
    [rs EXCEPT ![NewRepoId(rs)] = [url |-> u, index |-> index, on |-> on, there |-> TRUE]]

Addable(rs, u) ==
    /\ \A r \in RepoIds : rs[r].there => rs[r].url # u      \* UNIQUE
    /\ NewRepoId(rs) <= MaxRepoId

AddRepository(u, index) ==
    /\ Asked("repositories")
    /\ Addable(repo, u)
    /\ repo' = Added(repo, u, index, TRUE)
    /\ UNCHANGED <<row, capPrio, tombstones, code, mem, install, call, allowed>>

RefreshRepository(r, index) ==
    /\ Asked("repositories")
    /\ repo[r].there
    /\ repo' = [repo EXCEPT ![r].index = index]
    /\ UNCHANGED <<row, capPrio, tombstones, code, mem, install, call, allowed>>

\* Nothing looks at the rows that name it.
RemoveRepository(r) ==
    /\ Asked("repositories")
    /\ repo[r].there
    /\ repo' = [repo EXCEPT ![r] = NoRepo]
    /\ UNCHANGED <<row, capPrio, tombstones, code, mem, install, call, allowed>>

Publishes(rs, r, p) == rs[r].there /\ rs[r].on /\ p \in rs[r].index

\* The request has passed its checks and fetches the archive.
Fetch(kind, p, r, enabled, prio) ==
    /\ install = NoInstall
    /\ install' = [kind |-> kind, plugin |-> p, id |-> r, seen |-> row[p],
                   enabled |-> enabled, prio |-> prio]

\* With a source, or without one when there is no other.
InstallStart(p, r) ==
    /\ Asked("install")
    /\ p \in Bundled => p \in tombstones
    /\ Publishes(repo, r, p)
    /\ Fetch("install", p, r, TRUE, 0)
    /\ UNCHANGED <<stored, mem, call, allowed>>

UpdateStart(p) ==
    LET r == row[p].source
    IN  /\ Asked("update")
        /\ p \notin Bundled
        /\ row[p].there /\ r # 0
        /\ Publishes(repo, r, p)
        /\ Fetch("update", p, r, TRUE, 0)
    /\ UNCHANGED <<stored, mem, call, allowed>>

\* POST /api/plugins/import: the repository is added again, then each plugin
\* is installed from it and its row overwritten.
ImportStart(u, on, p, enabled, prio) ==
    /\ Asked("import")
    /\ Addable(repo, u)
    /\ \E index \in Indexes : repo' = Added(repo, u, index, on)
    /\ LET r == NewRepoId(repo)
       IN  IF Publishes(repo', r, p) THEN Fetch("import", p, r, enabled, prio)
           ELSE UNCHANGED install
    /\ UNCHANGED <<row, capPrio, tombstones, code, mem, call, allowed>>

\* The download fails, or its checksum.
InstallRefused ==
    /\ install # NoInstall
    /\ install' = NoInstall
    /\ UNCHANGED <<stored, mem, call, allowed, asked>>

\* The directory was cleared and nothing replaces it, or code that does not
\* load; the old object runs on.
InstallBreaks ==
    LET p == install.plugin
    IN  /\ install # NoInstall
        /\ code' \in {[code EXCEPT ![p] = c] :
                         c \in {NoCode, [there |-> TRUE, loads |-> FALSE]}}
        /\ install' = NoInstall
    /\ UNCHANGED <<repo, row, capPrio, tombstones, mem, call, allowed, asked>>

\* The row install() writes.  An update holds the row it read before the
\* download and writes the columns that differ from it.
InstalledRow(p) ==
    LET base == IF install.kind = "update" THEN install.seen ELSE row[p]
    IN  [there |-> TRUE,
         enabled |-> IF base.there /\ base.enabled THEN row[p].enabled ELSE TRUE,
         source |-> IF base.there /\ base.source = install.id THEN row[p].source ELSE install.id,
         prio |-> row[p].prio]

\* What an import writes on top; the loaded object does not see it.
ImportedRow(p) ==
    [InstalledRow(p) EXCEPT !.enabled = install.enabled,
                            !.prio = IF install.prio = 0 THEN @ ELSE install.prio]

InstallDone ==
    LET p == install.plugin
        prio == IF install.kind = "update" THEN install.seen.prio ELSE row[p].prio
        imported == install.kind = "import"
        lost == install.kind = "update" /\ ~row[p].there       \* uninstalled meanwhile
    IN  /\ install # NoInstall
        /\ Free(mem) # {}
        /\ code' = [code EXCEPT ![p] = [there |-> TRUE, loads |-> TRUE]]
        /\ install' = NoInstall
        /\ \E m \in LoadOutcomes(mem, p, prio, imported \/ prio # row[p].prio) :
              \/ /\ ~lost
                 /\ row' = [row EXCEPT ![p] = IF imported THEN ImportedRow(p) ELSE InstalledRow(p)]
                 /\ capPrio' \in {capPrio} \cup
                       (IF imported /\ install.prio # 0 THEN {[capPrio EXCEPT ![p] = install.prio]} ELSE {})
                 /\ tombstones' = IF install.kind = "install" THEN tombstones \ {p} ELSE tombstones
                 /\ \E e \in EnableOutcomes(m, p) : mem' = Collect(e, call)
                 /\ allowed' = [allowed EXCEPT ![p] = IF imported /\ ~install.enabled
                                                      THEN "untilRestart" ELSE "yes"]
              \/ /\ lost \/ "lockedDb" \in Requests
                 /\ mem' = Collect(m, call)
                 /\ UNCHANGED <<row, capPrio, tombstones, allowed>>
    /\ UNCHANGED <<repo, call, asked>>

\* Mutant: a tombstone for a plugin that is not bundled.
MarkedAlways(p) == tombstones \cup {p}

\* Only a bundled plugin would come back at boot.
Marked(p) == IF p \in Bundled THEN tombstones \cup {p} ELSE tombstones

\* The commits of the tombstone and of the row may fail, and end the request.
Uninstall(p) ==
    LET m == IF mem.loaded[p] = 0 THEN mem
             ELSE Collect(Unload(mem, p), call)
    IN  /\ Asked("uninstall")
        /\ tombstones' = Marked(p)
        /\ mem' = m
        /\ \/ /\ row' = [row EXCEPT ![p] = NoRow]
              /\ code' = [code EXCEPT ![p] = NoCode]
              /\ allowed' = [allowed EXCEPT ![p] = "no"]
           \/ /\ "lockedDb" \in Requests /\ row[p].there
              /\ UNCHANGED <<row, code, allowed>>
    /\ UNCHANGED <<repo, capPrio, install, call>>

-----------------------------------------------------------------------------
(* Boot.                                                                   *)

\* Mutant: the tombstone is not looked at.
AutoInstallsAll(p) == p \in Bundled /\ ~row[p].there

AutoInstalls(p) == p \in Bundled /\ ~row[p].there /\ p \notin tombstones

\* Auto-install, then reconciliation: rows without code go.
BootRows ==
    LET present == Bundled \cup {p \in Plugins : code[p].there}
    IN  [p \in Plugins |->
           IF AutoInstalls(p)
           THEN [there |-> TRUE, enabled |-> p \in OnByDefault, source |-> 0, prio |-> 0]
           ELSE IF present # {} /\ p \notin present THEN NoRow ELSE row[p]]

\* The directories load_all works through, each a plugin and where it lies.
BootLoads ==
    {<<p, "image">> : p \in Bundled \ tombstones} \cup
    {<<p, "user">> : p \in {q \in Plugins \ tombstones : code[q].there /\ code[q].loads}}

\* What is loaded from one of them, and enabled if its row says so.
BootObject(p, loadRaises, enableRaises) ==
    LET new == NewObject(p, BootRows[p].prio, FALSE, loadRaises)
    IN  IF BootRows[p].enabled THEN EnabledObject(new, enableRaises) ELSE new

BootSlots == Injection(BootLoads, Instances)

\* The directories of the image come before those of the user, which replace
\* what was loaded under the same id.
Booted(slot, objects) ==
    LET loaded(p) == IF <<p, "user">> \in BootLoads THEN slot[<<p, "user">>]
                     ELSE IF <<p, "image">> \in BootLoads THEN slot[<<p, "image">>]
                     ELSE 0
        m == [loaded |-> [p \in Plugins |-> loaded(p)],
              handle |-> [p \in Plugins |-> NoHandle],
              obj    |-> [i \in Instances |-> IF \E l \in BootLoads : slot[l] = i
                                              THEN objects[CHOOSE l \in BootLoads : slot[l] = i]
                                              ELSE NoObject]]
    IN  [m EXCEPT !.handle = [p \in Plugins |-> IF Running(m, p) THEN Register(m, p).handle[p]
                                                ELSE NoHandle]]

BootOutcomes ==
    LET slot == CHOOSE slot \in BootSlots : TRUE
    IN  IF BootSlots = {} THEN {}
        ELSE {Booted(slot, [l \in BootLoads |-> BootObject(l[1], onLoad[l], onEnable[l])]) :
                onLoad, onEnable \in [BootLoads -> Raises]}

BootRepos ==
    IF Addable(repo, Official) THEN Added(repo, Official, Bundled, TRUE) ELSE repo

Restart ==
    /\ Asked("restart")
    /\ row' = BootRows
    /\ repo' = BootRepos
    /\ install' = NoInstall
    /\ call' = [c \in Calls |-> NoCall]
    /\ \E m \in BootOutcomes : mem' = Collect(m, call')
    /\ allowed' = [p \in Plugins |-> IF allowed[p] = "untilRestart" THEN "no" ELSE allowed[p]]
    /\ UNCHANGED <<capPrio, tombstones, code>>

-----------------------------------------------------------------------------

\* The first boot of an installation.
Init ==
    LET on == [p \in Plugins |-> p \in OnByDefault]
    IN  /\ repo = [r \in RepoIds |->
                     IF r = 1 THEN [url |-> Official, index |-> Bundled, on |-> TRUE, there |-> TRUE]
                     ELSE NoRepo]
        /\ row = [p \in Plugins |->
                    IF p \in Bundled THEN [there |-> TRUE, enabled |-> on[p], source |-> 0, prio |-> 0]
                    ELSE NoRow]
        /\ capPrio = [p \in Plugins |-> 0]
        /\ tombstones = {}
        /\ code = [p \in Plugins |-> NoCode]
        /\ mem \in BootOutcomes
        /\ install = NoInstall
        /\ call = [c \in Calls |-> NoCall]
        /\ asked = 0
        /\ allowed = [p \in Plugins |-> IF on[p] THEN "yes" ELSE "no"]

Services == \E c \in Calls : Hold(c) \/ Invoke(c) \/ CallReturns(c) \/ CallRaises(c)

Page ==
    \E p \in Plugins :
        \/ EnablePlugin(p)
        \/ DisablePlugin(p)
        \/ \E v \in Override : SetPriority(p, v) \/ SetCapabilityPriority(p, v)
        \/ Uninstall(p)
        \/ UpdateStart(p)
        \/ \E r \in RepoIds : InstallStart(p, r)

Marketplace ==
    \/ \E u \in Urls, index \in Indexes : AddRepository(u, index)
    \/ \E r \in RepoIds :
          \/ RemoveRepository(r)
          \/ \E index \in Indexes : RefreshRepository(r, index)
    \/ \E u \in Urls, p \in Plugins, on, enabled \in BOOLEAN, v \in Override :
          ImportStart(u, on, p, enabled, v)
    \/ InstallRefused
    \/ InstallBreaks
    \/ InstallDone

Next == Services \/ Page \/ Marketplace \/ Restart

Spec == Init /\ [][Next]_vars

-----------------------------------------------------------------------------

\* The registry has exactly the enabled plugins, each with the object that is
\* loaded now; what was uninstalled has no handle.  A plugin that was replaced
\* and not enabled again may keep its old object in the registry.
RegistryFollows ==
    \A p \in Plugins :
        /\ Running(mem, p) => mem.handle[p].inst = mem.loaded[p]
        /\ mem.loaded[p] = 0 => mem.handle[p] = NoHandle
        /\ mem.loaded[p] # 0 /\ mem.handle[p].inst = mem.loaded[p] => Running(mem, p)

\* A plugin runs, and will be enabled by the next boot, only as the user's
\* requests allow: an uninstalled or disabled one stays so across boots, and
\* across installs that were under way.  A priority counts as a permission,
\* because it enables the row.
RunsOnlyIfAllowed ==
    \A p \in Plugins :
        /\ Running(mem, p) => allowed[p] # "no"
        /\ row[p].there /\ row[p].enabled => allowed[p] = "yes"

\* Providers are tried in the order of the overrides the user saved, except
\* where an import or a failed commit wrote past the loaded plugin.
OrderFollowsOverrides ==
    \A p \in Plugins :
        Running(mem, p) =>
            LET o == mem.obj[mem.loaded[p]]
            IN  /\ mem.handle[p].prio = Effective(o)
                /\ o.drifted \/ Effective([prio |-> row[p].prio, cap |-> capPrio[p]]) = Effective(o)

\* An enabled plugin hears its events unless it was disabled since it was
\* loaded: nothing another plugin does takes its callbacks off the bus.
EnabledHears ==
    \A p \in Plugins :
        Running(mem, p) => LET o == mem.obj[mem.loaded[p]] IN o.subscribed \/ o.muted

=============================================================================
