---------------------------- MODULE MCRemoteEvent ----------------------------
\* Instances of RemoteEvent for TLC.
EXTENDS RemoteEvent

CONSTANTS c1, c2
=============================================================================
