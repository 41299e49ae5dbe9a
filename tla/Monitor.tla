------------------------------ MODULE Monitor ------------------------------
(***************************************************************************)
(* What the guest is promised by a recursive lv2 mutex and a condition     *)
(* variable bound to it, without owner words, queues or a scheduler:       *)
(* Mutex and Cond implement it.                                            *)
(***************************************************************************)
EXTENDS Naturals

CONSTANT Threads

VARIABLES
  locks,  \* locks[t]: how many times t has the mutex
  saved   \* saved[t]: locks that t gave up to wait and has not got back

vars == <<locks, saved>>

Free == \A t \in Threads : locks[t] = 0

Init ==
  /\ locks = [t \in Threads |-> 0]
  /\ saved = [t \in Threads |-> 0]

Lock(t) ==
  /\ Free \/ locks[t] > 0
  /\ saved[t] = 0
  /\ locks' = [locks EXCEPT ![t] = @ + 1]
  /\ UNCHANGED saved

Unlock(t) ==
  /\ locks[t] > 0
  /\ locks' = [locks EXCEPT ![t] = @ - 1]
  /\ UNCHANGED saved

\* A wait gives up the mutex, however many times it is locked,
Wait(t) ==
  /\ locks[t] > 0
  /\ saved' = [saved EXCEPT ![t] = locks[t]]
  /\ locks' = [locks EXCEPT ![t] = 0]

\* and does not return, signaled or timed out, before it has it back as it was.
Resume(t) ==
  /\ Free
  /\ saved[t] > 0
  /\ locks' = [locks EXCEPT ![t] = saved[t]]
  /\ saved' = [saved EXCEPT ![t] = 0]

Next == \E t \in Threads : Lock(t) \/ Unlock(t) \/ Wait(t) \/ Resume(t)

Spec == Init /\ [][Next]_vars
=============================================================================
