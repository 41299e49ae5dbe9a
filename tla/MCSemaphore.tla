---------------------------- MODULE MCSemaphore ----------------------------
(* Model-checking instances of Semaphore. *)
EXTENDS Semaphore, TLC

CONSTANTS t1, t2, t3

\* t1 is more urgent than the other two.
MCPrio == [t \in Threads |-> IF t = t1 THEN 1 ELSE 2]

MCSymmetry == Permutations({t2, t3})
=============================================================================
