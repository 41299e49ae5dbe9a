---------------------------- MODULE MCScheduler ----------------------------
(* Model-checking instances of Scheduler. *)
EXTENDS Scheduler

CONSTANTS t1, t2, t3

MCSymmetry == Permutations(Threads)
=============================================================================
