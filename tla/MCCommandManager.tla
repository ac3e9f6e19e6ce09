--------------------------- MODULE MCCommandManager ---------------------------
(***************************************************************************)
(* Two addons and scripts that may all register the same two names; one of *)
(* them is a command of the core too, which an addon cannot hide.          *)
(***************************************************************************)
EXTENDS CommandManager

MCAliasArguments == {<<"draw", [component |-> "A", command |-> "load"]>>}
===============================================================================
