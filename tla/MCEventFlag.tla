---------------------------- MODULE MCEventFlag ----------------------------
(* Model-checking instances of EventFlag. *)
EXTENDS EventFlag

CONSTANTS t1, t2, t3, t4, t5

\* t1 is more urgent than the others.
MCPrio == [t \in Threads |-> IF t = t1 THEN 1 ELSE 2]

\* t1 and t2 wait, t3 sets bits, t4 takes and clears bits.
MCWaits == [t \in Threads |->
  IF t \in {t1, t2}
  THEN {[bits |-> {1, 2}, all |-> TRUE, clear |-> "bits"],
        [bits |-> {1}, all |-> FALSE, clear |-> "all"],
        [bits |-> {1, 2}, all |-> FALSE, clear |-> "none"]}
  ELSE {}]
MCTries == [t \in Threads |->
  IF t = t4 THEN {[bits |-> {2}, all |-> FALSE, clear |-> "bits"]} ELSE {}]
MCSets == [t \in Threads |-> IF t = t3 THEN {{1}, {2}} ELSE {}]
MCKeeps == [t \in Threads |-> IF t = t4 THEN {{2}} ELSE {}]

\* Three waits that get in each other's way, one thread that sets bits and one
\* that takes a bit.
RetryWaits == [t \in Threads |->
  CASE t = t1 -> {[bits |-> {1, 2}, all |-> TRUE, clear |-> "bits"]}
    [] t = t2 -> {[bits |-> {1}, all |-> TRUE, clear |-> "all"]}
    [] t = t3 -> {[bits |-> {3}, all |-> TRUE, clear |-> "none"]}
    [] OTHER  -> {}]
RetryTries == [t \in Threads |->
  IF t = t5 THEN {[bits |-> {2}, all |-> TRUE, clear |-> "bits"]} ELSE {}]
RetrySets == [t \in Threads |-> IF t = t4 THEN {{1, 3}} ELSE {}]
RetryKeeps == [t \in Threads |-> {}]
=============================================================================
