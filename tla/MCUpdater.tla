------------------------------- MODULE MCUpdater -------------------------------
(***************************************************************************)
(* Two launchers, one of which may be started while the other is updating  *)
(* or the cleanup of an update is still at work.                           *)
(***************************************************************************)
EXTENDS Updater
================================================================================
