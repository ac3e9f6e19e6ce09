---------------------------- MODULE MCPackageGraph ----------------------------
(***************************************************************************)
(* Every dependency graph on a few packages, with every list of names that *)
(* may be asked for.                                                       *)
(***************************************************************************)
EXTENDS PackageOrders

\* Manifests that name no package twice, and not their own.
Manifests(p) ==
    {deps \in BoundedSeq({d \in Dependency : d.name # p}, 2) :
        \A i, j \in DOMAIN deps : deps[i].name = deps[j].name => i = j}

MCGraphs ==
    UNION {{g \in [installed -> UNION {Manifests(p) : p \in installed}] :
                \A p \in installed : g[p] \in Manifests(p)} :
           installed \in SUBSET Packages}

MCNames == {<<p>> : p \in Packages} \cup {<<1, 2>>, <<2, 1>>, <<1, 2, 3>>}
================================================================================
