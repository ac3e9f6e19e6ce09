--------------------------- MODULE MCPackageInstall ---------------------------
(***************************************************************************)
(* Two packages; a may depend on b, by the index or by its manifest.       *)
(***************************************************************************)
EXTENDS PackageInstall

CONSTANTS a, b

On(q) == [p \in Packages |-> IF p = a THEN q ELSE {}]

MCWorld(published, listed, required, overridden, installed, index) ==
    [published |-> published, listed |-> [p \in Packages |-> IF p = a THEN listed ELSE <<>>],
     required |-> On(required), overridden |-> overridden, installed |-> installed,
     index |-> index]

\* A first installation; an update that requires another package, which the index
\* may not say or the source not have; an override.
MCWorlds ==
    {MCWorld({a, b}, <<b>>, {b}, {}, {}, "none"),
     MCWorld({a, b}, <<>>, {b}, {}, {a}, "old"),
     MCWorld({a}, <<b>>, {b}, {}, {a}, "old"),
     MCWorld({a, b}, <<b>>, {}, {b}, {a}, "none")}

MCCommands ==
    {[kind |-> "install", names |-> <<a>>, force |-> FALSE],
     [kind |-> "updateall", names |-> <<>>, force |-> TRUE]}
=============================================================================
