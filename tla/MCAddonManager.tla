---------------------------- MODULE MCAddonManager ----------------------------
(***************************************************************************)
(* Three packages: each may depend, or require, the ones before it.        *)
(***************************************************************************)
EXTENDS AddonManager

MCKinds ==
    {k \in [Packages -> {"library", "addon", "service"}] :
        k \in {<<"library", "addon", "addon">>, <<"service", "addon", "addon">>,
               <<"addon", "library", "addon">>}}

On(q, r) == [name |-> q, required |-> r]

\* The manifests of a package that names only those before it.
Manifests(p) ==
    CASE p = 1 -> {<<>>}
      [] p = 2 -> {<<>>, <<On(1, TRUE)>>, <<On(1, FALSE)>>}
      [] OTHER -> {<<>>, <<On(1, TRUE)>>, <<On(2, TRUE)>>, <<On(2, FALSE)>>,
                   <<On(1, FALSE), On(2, TRUE)>>}

\* Where installations end while the game runs, there are fewer graphs.
MCFewKinds == {<<"service", "addon", "addon">>}

MCGraphs ==
    UNION {{g \in [installed -> UNION {Manifests(p) : p \in installed}] :
                \A p \in installed : g[p] \in Manifests(p)} :
           installed \in SUBSET Packages}

MCFewGraphs == {g \in MCGraphs : {1, 2} \subseteq Installed(g) /\ g[2] = <<On(1, TRUE)>>}

MCQuietGames == [kind : MCKinds, graph : MCGraphs, updates : {FALSE}]
MCGames == MCQuietGames \cup [kind : MCFewKinds, graph : MCFewGraphs, updates : {TRUE}]
=============================================================================
