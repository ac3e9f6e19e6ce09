----------------------------- MODULE PackageGraph -----------------------------
(***************************************************************************)
(* The dependency graph of package_manager: load_order, unload_order and   *)
(* the error that names a cycle.  The two depth-first walks are written    *)
(* with the stack of what is left to do in place of the C++ recursion.     *)
(*                                                                         *)
(* A graph maps each installed package to the dependencies of its          *)
(* manifest, in order.  m_installed_packages is a std::map: packages are   *)
(* numbers, and its iteration order is theirs.                             *)
(***************************************************************************)
EXTENDS Integers, Sequences, FiniteSets, SequencesExt, Positions

CONSTANT PackageCount   \* how many package names there are

ASSUME PackageCountAssumption == PackageCount \in Nat

Packages == 1 .. PackageCount
Dependency == [name : Packages, required : BOOLEAN]

Installed(graph) == DOMAIN graph

IsGraph(g) ==
    /\ Installed(g) \subseteq Packages
    /\ \A p \in Installed(g) : g[p] \in Seq(Dependency)

Colors == {"white", "gray", "black"}
Errors == {"none", "P1", "P2", "P3"}

\* A walk under way: the colours of the vertices, the results, and the error
\* thrown, with the package throw_cycle_error is called for; the names it has
\* still to go over, and the steps left to do for the last one, the next of
\* them at the end.
Walk(Steps) ==
    [color : [Packages -> Colors], results : Seq(Packages), error : Errors,
     at : Packages \cup {0}, names : Seq(Packages), todo : Seq(Steps)]
Start(names) ==
    [color |-> [p \in Packages |-> "white"], results |-> <<>>, error |-> "none",
     at |-> 0, names |-> names, todo |-> <<>>]

Over(walk) == walk.error # "none" \/ (walk.names = <<>> /\ walk.todo = <<>>)

Paint(walk, p, c) == [walk EXCEPT !.color[p] = c]
Emit(walk, p) == [walk EXCEPT !.results = Append(@, p)]
Fail(walk, e, p) == [walk EXCEPT !.error = e, !.at = p]
Push(walk, steps) == [walk EXCEPT !.todo = @ \o steps]
Pop(walk) == [walk EXCEPT !.todo = Front(@)]
Named(walk) == [walk EXCEPT !.names = Tail(@)]

-----------------------------------------------------------------------------
(***************************************************************************)
(* topological_sort: a package after what it depends on.                   *)
(***************************************************************************)
Step == [op : {"sort", "leave"}, name : Packages, required : BOOLEAN]

SortOf(d) == [op |-> "sort", name |-> d.name, required |-> d.required]
Leaving(p) == [op |-> "leave", name |-> p, required |-> TRUE]

\* The calls for the dependencies of a package, the first of them at the end.
SortsOf(deps) == [i \in DOMAIN deps |-> SortOf(deps[Len(deps) + 1 - i])]

\* Mutant of Entered: the package is emitted before what it depends on.
EnteredEarly(p, deps) == SortsOf(deps) \o <<Leaving(p)>>

\* What entering a white vertex leaves to do.
Entered(p, deps) == <<Leaving(p)>> \o SortsOf(deps)

\* One call of topological_sort up to its recursive calls, or its end.
SortStep(graph, walk, step) ==
    LET p == step.name IN
    IF step.op = "leave" THEN Emit(Paint(walk, p, "black"), p)
    ELSE IF p \notin Installed(graph) THEN IF step.required THEN Fail(walk, "P2", p) ELSE walk
    ELSE CASE walk.color[p] = "white" -> Push(Paint(walk, p, "gray"), Entered(p, graph[p]))
           [] walk.color[p] = "gray" /\ step.required -> Fail(walk, "P3", p)
           [] OTHER -> walk

\* The next of the names.
SortNext(graph, walk) ==
    LET p == Head(walk.names) IN
    IF p \in Installed(graph)
    THEN Push(Named(walk), <<SortOf([name |-> p, required |-> TRUE])>>)
    ELSE Fail(Named(walk), "P1", p)

LoadStep(graph, walk) ==
    IF walk.todo = <<>> THEN SortNext(graph, walk)
    ELSE SortStep(graph, Pop(walk), Last(walk.todo))

\* load_order_impl
LoadOrder(graph, names) ==
    LET ended[walk \in Walk(Step)] ==
            IF Over(walk) THEN walk ELSE ended[LoadStep(graph, walk)]
    IN ended[Start(names)]

-----------------------------------------------------------------------------
(***************************************************************************)
(* reverse_topological_sort: a package after what depends on it.  The      *)
(* package it is called for is not painted, only those found on the way.   *)
(***************************************************************************)
RevStep == [op : {"try", "blacken", "emit"}, name : Packages, of : Packages]

Rev(op, p, of) == [op |-> op, name |-> p, of |-> of]

InstalledInOrder(graph) == InOrder(Installed(graph))

DependsOn(graph, p, name) == \E i \in DOMAIN graph[p] : graph[p][i].name = name

Found(graph, walk, step) ==
    walk.color[step.name] = "white" /\ DependsOn(graph, step.name, step.of)

\* The loop over the vertices for a package, the first of them at the end.
TriesOf(graph, p) ==
    LET all == InstalledInOrder(graph) IN
    [i \in DOMAIN all |-> Rev("try", all[Len(all) + 1 - i], p)]

\* What a call for a package leaves to do.
Visit(graph, p) ==
    IF p \in Installed(graph) THEN <<Rev("emit", p, p)>> \o TriesOf(graph, p) ELSE <<>>

\* Mutant of RevSortStep: a dependent is emitted, but not what depends on it.
RevSortFlat(graph, walk, step) ==
    CASE step.op = "emit" -> Emit(walk, step.name)
      [] step.op = "blacken" -> Paint(walk, step.name, "black")
      [] step.op = "try" /\ Found(graph, walk, step) ->
            Push(Paint(walk, step.name, "gray"), <<Rev("emit", step.name, step.of)>>)
      [] OTHER -> walk

\* One round of its loop, or what follows the loop.
RevSortStep(graph, walk, step) ==
    CASE step.op = "emit" -> Emit(walk, step.name)
      [] step.op = "blacken" -> Paint(walk, step.name, "black")
      [] step.op = "try" /\ Found(graph, walk, step) ->
            Push(Paint(walk, step.name, "gray"),
                 <<Rev("blacken", step.name, step.of)>> \o Visit(graph, step.name))
      [] OTHER -> walk

UnloadStep(graph, walk) ==
    IF walk.todo = <<>> THEN Push(Named(walk), Visit(graph, Head(walk.names)))
    ELSE RevSortStep(graph, Pop(walk), Last(walk.todo))

\* unload_order_impl
UnloadOrder(graph, names) ==
    LET ended[walk \in Walk(RevStep)] ==
            IF Over(walk) THEN walk ELSE ended[UnloadStep(graph, walk)]
    IN ended[Start(names)].results

-----------------------------------------------------------------------------
(***************************************************************************)
(* throw_cycle_error: from the gray vertex that closed the cycle, follow   *)
(* the first dependency that is gray, until the start is met again.        *)
(***************************************************************************)
FirstGray(graph, walk, p) ==
    LET gray == {i \in DOMAIN graph[p] : graph[p][i].name \in Installed(graph)
                                         /\ walk.color[graph[p][i].name] = "gray"}
    IN IF gray = {} THEN p
       ELSE graph[p][CHOOSE i \in gray : \A j \in gray : i <= j].name

\* The package the loop is at after n rounds.
CycleAt(graph, walk, n) ==
    LET at[k \in Nat] == IF k = 0 THEN walk.at ELSE FirstGray(graph, walk, at[k - 1])
    IN at[n]

\* The loop ends: it meets its start within as many rounds as there are packages.
CycleNamed(graph, walk) == \E n \in Packages : CycleAt(graph, walk, n) = walk.at

-----------------------------------------------------------------------------
(***************************************************************************)
(* What the orders are for, stated without the walks.                      *)
(***************************************************************************)
Requires(graph, p, q) == \E i \in DOMAIN graph[p] : graph[p][i] = [name |-> q, required |-> TRUE]

DependenciesWithin(graph, S) ==
    \A p \in S, q \in Installed(graph) : DependsOn(graph, p, q) => q \in S
DependentsWithin(graph, S) ==
    \A p \in S, q \in Installed(graph) : DependsOn(graph, q, p) => q \in S

\* The installed packages that names lead to, themselves included: by what each depends
\* on, and by what depends on each.
Dependencies(graph, names) ==
    {q \in Installed(graph) : \A S \in SUBSET Installed(graph) :
        names \cap Installed(graph) \subseteq S /\ DependenciesWithin(graph, S) => q \in S}
Dependents(graph, names) ==
    {q \in Installed(graph) : \A S \in SUBSET Installed(graph) :
        names \cap Installed(graph) \subseteq S /\ DependentsWithin(graph, S) => q \in S}

\* Where a package comes first in an order.
FirstAt(order, p) == CHOOSE i \in DOMAIN order : order[i] = p /\ \A j \in 1 .. i - 1 : order[j] # p

\* What a package depends on, itself or by way of others.
Below(graph, p) == Dependencies(graph, {d.name : d \in ToSet(graph[p])})

Acyclic(graph) == \A p \in Installed(graph) : p \notin Below(graph, p)
=============================================================================
