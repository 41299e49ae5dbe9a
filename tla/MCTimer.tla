------------------------------ MODULE MCTimer ------------------------------
(* Model-checking instances of Timer. *)
EXTENDS Timer

CONSTANTS t1, t2, c1, c2

\* A oneshot; a period that is late twice at once and is over UMax after that; one
\* that is over UMax from the start.  t2 has the second only.
MCStarts == [t \in Timers |->
               IF t = t1 THEN {<<6, 0>>, <<2, 2>>, <<3, 6>>} ELSE {<<2, 2>>}]

\* A period for each.
OneStart == [t \in Timers |-> {<<2, 2>>}]
=============================================================================
