--------------------------- MODULE ReadersWriter ---------------------------
(***************************************************************************)
(* What the guest is promised by a reader-writer lock: RwLock implements   *)
(* it.                                                                     *)
(***************************************************************************)
CONSTANT Threads

VARIABLE hold  \* hold[t]: the locks of t

NoWriter == \A t \in Threads : "write" \notin hold[t]
NoReader == \A t \in Threads : "read" \notin hold[t]

Init == hold = [t \in Threads |-> {}]

Read(t) ==
  /\ NoWriter
  /\ hold' = [hold EXCEPT ![t] = @ \cup {"read"}]

Write(t) ==
  /\ NoWriter /\ NoReader
  /\ hold' = [hold EXCEPT ![t] = @ \cup {"write"}]

Release(t) ==
  \E k \in hold[t] : hold' = [hold EXCEPT ![t] = @ \ {k}]

Next == \E t \in Threads : Read(t) \/ Write(t) \/ Release(t)

Spec == Init /\ [][Next]_hold
=============================================================================
