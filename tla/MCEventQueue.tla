---------------------------- MODULE MCEventQueue ----------------------------
(* Model-checking instances of EventQueue. *)
EXTENDS EventQueue

CONSTANTS t1, t2, t3, t4

\* t1 is the most urgent, t2 as urgent as the sender t3.
MCPrio == [t \in Threads |-> IF t = t1 THEN 1 ELSE 2]

\* All alike.
SamePrio == [t \in Threads |-> 1]
=============================================================================
