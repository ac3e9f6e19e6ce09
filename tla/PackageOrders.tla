----------------------------- MODULE PackageOrders -----------------------------
(***************************************************************************)
(* What load_order and unload_order answer, for a graph and a list of      *)
(* names, held against what the orders are for.                            *)
(***************************************************************************)
EXTENDS PackageGraph

CONSTANTS
    GivenGraphs,    \* the dependency graphs that are asked about
    GivenNames      \* the lists of names

ASSUME PackageOrdersAssumption ==
    /\ \A g \in GivenGraphs : IsGraph(g)
    /\ GivenNames \subseteq Seq(Packages)

VARIABLES given, names

OrdersInit == given \in GivenGraphs /\ names \in GivenNames

OrdersNext == UNCHANGED <<given, names>>

OrdersSpec == OrdersInit /\ [][OrdersNext]_<<given, names>>

Loads == LoadOrder(given, names)
Unloads == UnloadOrder(given, names)

\* load_order never puts a package before one it requires, and lists each
\* package the names lead to once.  It fails for a reason: a name or a required
\* dependency that is not installed, or a package on a cycle.
LoadOrderSound ==
    LET reached == Dependencies(given, ToSet(names)) IN
    /\ Loads.error = "none" =>
          /\ IsInjective(Loads.results)
          /\ ToSet(Loads.results) = reached
          /\ \A i, j \in DOMAIN Loads.results :
                Requires(given, Loads.results[i], Loads.results[j]) => j < i
          /\ ToSet(names) \subseteq Installed(given)
          /\ \A p \in reached, q \in Packages :
                Requires(given, p, q) => q \in Installed(given)
    /\ Loads.error = "P3" => ~Acyclic(given)

\* In a graph without cycles unload_order never puts a package before one that
\* depends on it, and it lists all those and no others.
UnloadOrderSound ==
    /\ ToSet(Unloads) = Dependents(given, ToSet(names))
    /\ Acyclic(given) =>
          \A p, q \in ToSet(Unloads) :
              DependsOn(given, p, q) => FirstAt(Unloads, p) <= FirstAt(Unloads, q)

\* The cycle of a PKG:P3 error can be named.  This fails: the walk follows the
\* first gray dependency, which may lead into a cycle the start is not on.
CycleErrorEnds == Loads.error = "P3" => CycleNamed(given, Loads)
================================================================================
