----------------------------- MODULE MCLwMutex -----------------------------
(* Model-checking instance of LwMutex. *)
EXTENDS LwMutex, TLC

CONSTANTS t1, t2, t3

MCPrio == [t \in {t1, t2, t3} |-> IF t = t3 THEN 1 ELSE 2]

\* t3 is the most urgent, and the one that destroys and has timeouts.
MCSymmetry == Permutations({t1, t2})
=============================================================================
