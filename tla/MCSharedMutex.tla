--------------------------- MODULE MCSharedMutex ---------------------------
(* Model-checking instance of SharedMutex. *)
EXTENDS SharedMutex, TLC

CONSTANTS t1, t2, t3, t4, t5

MCSymmetry == Permutations(Threads)
=============================================================================
