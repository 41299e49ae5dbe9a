------------------------------ MODULE Lv2Sync ------------------------------
(***************************************************************************)
(* What every lv2 synchronisation object shares (sys_sync.h): the wait     *)
(* queue linked through ppu_thread::next_cpu, and the contract with the    *)
(* PPU scheduler behind lv2_obj::sleep and lv2_obj::awake.                 *)
(*                                                                         *)
(* A wait queue is a sequence whose head is the list head, that is the     *)
(* thread queued last: emplace pushes at the head.  Thread priorities are  *)
(* smaller for more urgent threads.  With fixed priorities the tag that    *)
(* emplace writes into prio.order grows from the tail of the list to its   *)
(* head, so position stands for it.                                        *)
(***************************************************************************)
EXTENDS Integers, FiniteSets, Sequences, Functions

(***************************************************************************)
(* The scheduler contract.  A thread is                                    *)
(*   "run"    in g_ppu with no signal to consume,                          *)
(*   "sleep"  taken out of g_ppu by lv2_obj::sleep,                        *)
(*   "signal" put back by lv2_obj::awake; cpu_flag::signal is set, or will *)
(*            be as soon as schedule_all gives it a hardware thread.       *)
(***************************************************************************)
SchedStates == {"run", "sleep", "signal"}

sleep(sched, t) == [sched EXCEPT ![t] = "sleep"]

\* awake_unlocked leaves alone a thread that is already in g_ppu.
awake(sched, woken) ==
  [t \in DOMAIN sched |->
     IF t \in woken /\ sched[t] = "sleep" THEN "signal" ELSE sched[t]]

\* A thread that announces its sleep before it is ready for it (cancel_sleep
\* is 1) and is awakened in between finds the sleep cancelled (2).
awake_cancel(cancel, sched, woken) ==
  [t \in DOMAIN sched |->
     IF t \in woken /\ sched[t] = "run" /\ cancel[t] = 1
     THEN 2 ELSE cancel[t]]

\* A thread that calls check_state while suspended puts itself back in g_ppu
\* (cpu_sleep), waits to be scheduled and consumes the signal.
check_state(sched, t) == [sched EXCEPT ![t] = "run"]

----------------------------------------------------------------------------
Protocols == {"FIFO", "PRIORITY"}

emplace(sq, t) == <<t>> \o sq

\* lv2_obj::schedule picks position i: the tail, or the earliest queued of the
\* most urgent threads.
Schedules(sq, protocol, prio, i) ==
  IF protocol = "FIFO"
  THEN i = Len(sq)
  ELSE \A j \in DOMAIN sq : \/ prio[sq[i]] < prio[sq[j]]
                            \/ prio[sq[i]] = prio[sq[j]] /\ i >= j

\* The tail of the list and the rest.
Last(sq) == sq[Len(sq)]

Front(sq) == SubSeq(sq, 1, Len(sq) - 1)

\* unqueue and schedule unlink one thread.
RemoveAt(sq, i) == SubSeq(sq, 1, i - 1) \o SubSeq(sq, i + 1, Len(sq))

unqueue(sq, t) == RemoveAt(sq, CHOOSE i \in DOMAIN sq : sq[i] = t)

NoDuplicates(sq) == \A i, j \in DOMAIN sq : sq[i] = sq[j] => i = j
=============================================================================
