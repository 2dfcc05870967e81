----------------------------- MODULE MCScheduler -----------------------------
(* The task table on small instances.  PML4 frames are interchangeable, which *)
(* the runs that check safety only make use of.                               *)
EXTENDS Scheduler, TLC

Frames == Permutations(Space)
=============================================================================
