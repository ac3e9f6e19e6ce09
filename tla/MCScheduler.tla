----------------------------- MODULE MCScheduler -----------------------------
\* Instances of Scheduler for TLC.
EXTENDS Scheduler

MCDelays == {0, 1}
MCFrameDelays == {1}
=============================================================================
