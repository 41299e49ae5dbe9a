------------------------------ MODULE MCRwLock ------------------------------
(* Model-checking instances of RwLock. *)
EXTENDS RwLock

CONSTANTS t1, t2, t3

MCId == [t \in Threads |-> IF t = t1 THEN 1 ELSE IF t = t2 THEN 2 ELSE 3]

\* t1 is more urgent than the other two.
MCPrio == [t \in Threads |-> IF t = t1 THEN 1 ELSE 2]
=============================================================================
