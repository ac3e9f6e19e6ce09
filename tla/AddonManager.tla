----------------------------- MODULE AddonManager -----------------------------
(***************************************************************************)
(* windower::addon_manager: the addons that are loaded, the commands that  *)
(* load, unload, reload and uninstall them, and the loop that runs their   *)
(* coroutines every frame.                                                 *)
(*                                                                         *)
(* A command works out the packages to go over from the dependency graph,  *)
(* and then takes them one by one, m_mutex held for each.  The game's      *)
(* thread gives the commands and runs the frames; when an installation or  *)
(* an update ends, its detached thread reloads what was modified.          *)
(***************************************************************************)
EXTENDS PackageGraph

CONSTANTS
    Games,          \* what a game may begin with: what is installed, of which
                    \* kinds, and whether updates end while it runs
    Graphs          \* the dependency graphs an update may lead to

PackageKinds == [Packages -> {"library", "addon", "service"}]

ASSUME ManagerAssumption ==
    /\ \A game \in Games : /\ game.kind \in PackageKinds
                          /\ IsGraph(game.graph)
                          /\ game.updates \in BOOLEAN
    /\ \A g \in Graphs : IsGraph(g)

VARIABLES
    updates,    \* whether installations and updates end while the game runs
    kind,       \* package::type() of each package
    graph,      \* m_installed_packages, with the dependencies of each
    loaded,     \* m_loaded_addons
    work,       \* what each thread has still to do
    reloading,  \* the names a thread's reload still has to load
    pc,         \* run_until_idle on the game's thread
    pos,        \* the addon its loop is at
    last        \* the end of m_loaded_addons when the loop began

vars == <<updates, kind, graph, loaded, work, reloading, pc, pos, last>>

Threads == {"game", "updater"}
Work == [op : {"load", "unload", "uninstall"}, name : Packages]

Op(op, order) == [i \in DOMAIN order |-> [op |-> op, name |-> order[i]]]

Loaded == ToSet(loaded)
Busy(t) == work[t] # <<>> \/ reloading[t] # <<>>

Init ==
    /\ \E game \in Games :
          /\ updates = game.updates
          /\ kind = game.kind
          /\ graph = game.graph
    /\ loaded = <<>>
    /\ work = [t \in Threads |-> <<>>]
    /\ reloading = [t \in Threads |-> <<>>]
    /\ pc = "between" /\ pos = 0 /\ last = 0

-----------------------------------------------------------------------------
(***************************************************************************)
(* Commands.  The game's thread gives one when it has nothing else to do.  *)
(***************************************************************************)
Ready == pc = "between" /\ ~Busy("game")

Queue(t, steps) == work' = [work EXCEPT ![t] = steps]

\* /load: load_order may throw, and then nothing is loaded.
Load(name) ==
    /\ Ready
    /\ LET walk == LoadOrder(graph, <<name>>) IN
          /\ walk.error = "none"
          /\ Queue("game", Op("load", walk.results))
    /\ UNCHANGED <<updates, kind, graph, loaded, reloading, pc, pos, last>>

\* /unload
Unload(name) ==
    /\ Ready
    /\ Queue("game", Op("unload", UnloadOrder(graph, <<name>>)))
    /\ UNCHANGED <<updates, kind, graph, loaded, reloading, pc, pos, last>>

OfLoaded(order) == Picked(order, InOrder({i \in DOMAIN order : order[i] \in Loaded}))

\* Mutant of ToUnload: only what is named is unloaded.
ToUnloadNamed(names) == OfLoaded(names)

\* What reload unloads: the names and what depends on them, as far as loaded.
ToUnload(names) == OfLoaded(UnloadOrder(graph, names))

\* addon_manager::reload, up to its first unload.
BeginReload(t, names) ==
    /\ Queue(t, Op("unload", ToUnload(names)))
    /\ reloading' = [reloading EXCEPT ![t] = names]

\* /reload
Reload(name) ==
    /\ Ready
    /\ BeginReload("game", <<name>>)
    /\ UNCHANGED <<updates, kind, graph, loaded, pc, pos, last>>

\* /reloadall
ReloadAll ==
    /\ Ready
    /\ loaded # <<>>
    /\ BeginReload("game", loaded)
    /\ UNCHANGED <<updates, kind, graph, loaded, pc, pos, last>>

\* /unloadall
UnloadAll ==
    /\ Ready
    /\ Queue("game", Op("unload", UnloadOrder(graph, InstalledInOrder(graph))))
    /\ UNCHANGED <<updates, kind, graph, loaded, reloading, pc, pos, last>>

\* Mutant of Uninstallable: what depends on the package is not looked for.
UninstallableAlways(name) == TRUE

\* /uninstall refuses a package that another one depends on.
Uninstallable(name) == ToSet(UnloadOrder(graph, <<name>>)) \subseteq {name}

Uninstall(name) ==
    /\ Ready
    /\ Uninstallable(name)
    /\ Queue("game", Op("unload", UnloadOrder(graph, <<name>>)) \o Op("uninstall", <<name>>))
    /\ UNCHANGED <<updates, kind, graph, loaded, reloading, pc, pos, last>>

(***************************************************************************)
(* An installation or an update of a package has ended on its own thread:  *)
(* its manifest is the new one, and it is reloaded.                        *)
(***************************************************************************)
Updated(name) ==
    /\ updates
    /\ ~Busy("updater")
    /\ pc # "broken"
    /\ graph' \in {g \in Graphs : /\ Installed(g) = Installed(graph) \cup {name}
                                  /\ \A p \in Installed(graph) \ {name} : g[p] = graph[p]}
    /\ Queue("updater", Op("unload", ToUnload(<<name>>)))
    /\ reloading' = [reloading EXCEPT !["updater"] = <<name>>]
    /\ UNCHANGED <<updates, kind, loaded, pc, pos, last>>

-----------------------------------------------------------------------------
(***************************************************************************)
(* One round of the loops in load and unload, or the step between them in  *)
(* reload and uninstall.                                                   *)
(***************************************************************************)
NextIs(t, op) == pc # "broken" /\ work[t] # <<>> /\ Head(work[t]).op = op
Done(t) == work' = [work EXCEPT ![t] = Tail(@)]

\* emplace_back may move the elements away from under the loop.
Disturbs(t) ==
    pc' \in IF pc = "running" /\ loaded' # loaded THEN {pc, "broken"} ELSE {pc}

\* Mutant of Construct: what is loaded is not looked for.
ConstructAgain(t) ==
    /\ NextIs(t, "load")
    /\ LET p == Head(work[t]).name IN
          loaded' = IF kind[p] = "library" THEN loaded ELSE Append(loaded, p)
    /\ Done(t)
    /\ Disturbs(t)
    /\ UNCHANGED <<updates, kind, graph, reloading, pos, last>>

\* load: libraries and what is loaded already are passed over.
Construct(t) ==
    /\ NextIs(t, "load")
    /\ LET p == Head(work[t]).name IN
          loaded' = IF kind[p] = "library" \/ p \in Loaded THEN loaded
                    ELSE Append(loaded, p)
    /\ Done(t)
    /\ Disturbs(t)
    /\ UNCHANGED <<updates, kind, graph, reloading, pos, last>>

\* The addon's main chunk throws out of load: the rest is not loaded.
ConstructFails(t) ==
    /\ NextIs(t, "load")
    /\ kind[Head(work[t]).name] # "library"
    /\ Head(work[t]).name \notin Loaded
    /\ work' = [work EXCEPT ![t] = <<>>]
    /\ UNCHANGED <<updates, kind, graph, loaded, reloading, pc, pos, last>>

Without(p) == Picked(loaded, InOrder({i \in DOMAIN loaded : loaded[i] # p}))

\* unload
Destroy(t) ==
    /\ NextIs(t, "unload")
    /\ loaded' = Without(Head(work[t]).name)
    /\ Done(t)
    /\ UNCHANGED <<updates, kind, graph, reloading, pc, pos, last>>

\* reload goes on with load_order, which may throw.
LoadAgain(t) ==
    /\ pc # "broken"
    /\ work[t] = <<>>
    /\ reloading[t] # <<>>
    /\ LET walk == LoadOrder(graph, reloading[t]) IN
          Queue(t, IF walk.error = "none" THEN Op("load", walk.results) ELSE <<>>)
    /\ reloading' = [reloading EXCEPT ![t] = <<>>]
    /\ UNCHANGED <<updates, kind, graph, loaded, pc, pos, last>>

\* package_manager::uninstall
RemovePackage(t) ==
    /\ NextIs(t, "uninstall")
    /\ graph' = [p \in Installed(graph) \ {Head(work[t]).name} |-> graph[p]]
    /\ Done(t)
    /\ UNCHANGED <<updates, kind, loaded, reloading, pc, pos, last>>

-----------------------------------------------------------------------------
(***************************************************************************)
(* run_until_idle: the loop goes over m_loaded_addons without m_mutex.     *)
(***************************************************************************)
BeginRun ==
    /\ Ready
    /\ loaded # <<>>
    /\ pc' = "running"
    /\ pos' = 1
    /\ last' = Len(loaded)
    /\ UNCHANGED <<updates, kind, graph, loaded, work, reloading>>

AtAddon == pc = "running" /\ ~Busy("game") /\ pos <= last

RunAddon ==
    /\ AtAddon
    /\ pos <= Len(loaded)
    /\ pos' = pos + 1
    /\ UNCHANGED <<updates, kind, graph, loaded, work, reloading, pc, last>>

\* What raise_error unloads.
Unloading(p) == UnloadOrder(graph, <<p>>)

\* An addon throws: raise_error unloads it, and what depends on it, out of the
\* vector the loop is in.  The elements behind move up.
RunFails ==
    /\ AtAddon
    /\ pos <= Len(loaded)
    /\ Queue("game", Op("unload", Unloading(loaded[pos])))
    /\ pos' = pos + 1
    /\ UNCHANGED <<updates, kind, graph, loaded, reloading, pc, last>>

\* The loop comes to an element that is no more.
RunPastEnd ==
    /\ AtAddon
    /\ pos > Len(loaded)
    /\ pc' = "broken"
    /\ UNCHANGED <<updates, kind, graph, loaded, work, reloading, pos, last>>

EndRun ==
    /\ pc = "running" /\ ~Busy("game")
    /\ pos > last
    /\ pc' = "between"
    /\ pos' = 0 /\ last' = 0
    /\ UNCHANGED <<updates, kind, graph, loaded, work, reloading>>

-----------------------------------------------------------------------------
Command ==
    \/ \E p \in Packages : Load(p) \/ Unload(p) \/ Reload(p) \/ Uninstall(p) \/ Updated(p)
    \/ ReloadAll
    \/ UnloadAll

ThreadStep(t) == Construct(t) \/ ConstructFails(t) \/ Destroy(t) \/ LoadAgain(t) \/ RemovePackage(t)

Run == BeginRun \/ RunAddon \/ RunFails \/ RunPastEnd \/ EndRun

Next == Command \/ (\E t \in Threads : ThreadStep(t)) \/ Run

Spec == Init /\ [][Next]_vars

-----------------------------------------------------------------------------
(***************************************************************************)
(* Properties                                                              *)
(***************************************************************************)
TypeOK ==
    /\ updates \in BOOLEAN
    /\ kind \in PackageKinds
    /\ IsGraph(graph)
    /\ loaded \in Seq(Packages)
    /\ work \in [Threads -> Seq(Work)]
    /\ reloading \in [Threads -> Seq(Packages)]
    /\ pc \in {"between", "running", "broken"}
    /\ last \in 0 .. PackageCount /\ pos \in 0 .. last + 1

\* An addon has one interpreter: it is loaded once, and libraries never are.
LoadedOnce ==
    /\ IsInjective(loaded)
    /\ \A p \in Loaded : kind[p] # "library"

NeedsWithin(p, S) ==
    \A r \in {p} \cup {l \in S : kind[l] = "library"}, q \in Installed(graph) :
        r \in Installed(graph) /\ Requires(graph, r, q) => q \in S

\* What p needs loaded: the services and addons it requires, itself or through
\* the libraries it requires.
Needs(p) ==
    {q \in Installed(graph) : /\ kind[q] # "library"
                             /\ \A S \in SUBSET Installed(graph) : NeedsWithin(p, S) => q \in S}

\* Whatever a thread is in the middle of, a loaded addon is installed and has all
\* it needs loaded: it was loaded after it and is unloaded before it, and before
\* its package is removed.  An update that ends meanwhile may change what it needs.
DependenciesLoaded ==
    ~updates => \A p \in Loaded : p \in Installed(graph) /\ Needs(p) \subseteq Loaded

\* No uninstall takes away what an installed package depends on, as long as no
\* update changes the manifests after it looked at them.
NoneOrphaned ==
    [][~updates => \A p \in Installed(graph'), q \in Installed(graph) :
          DependsOn(graph, p, q) => q \in Installed(graph')]_graph

\* The loop never reads beyond the end of m_loaded_addons.  This fails when an
\* addon that is not the last one throws.
LoopInside == AtAddon => pos <= Len(loaded)
=============================================================================
