---------------------------- MODULE MCRemoteLaunch ----------------------------
(***************************************************************************)
(* Two profiles, so that a launch follows one that was cancelled.          *)
(***************************************************************************)
EXTENDS RemoteLaunch
=============================================================================
