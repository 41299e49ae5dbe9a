----------------------------- MODULE Scheduler -----------------------------
(***************************************************************************)
(* The scheduler of PPU threads (lv2_obj::sleep, awake, yield and          *)
(* schedule_all in lv2.cpp) with the part of a PPU thread that meets it:   *)
(* the waiting loop of a system call, and cpu_thread::check_state, which   *)
(* ends every call.  A step is one critical section of lv2_obj::g_mutex or *)
(* one atomic access of a thread to its own state flags.                   *)
(*                                                                         *)
(* The objects threads wait for are the set queued: whom an object will    *)
(* awake.  An object takes a thread from its queue and awakes it in one    *)
(* critical section, so both are one step here.  Deadlines are left out: a *)
(* timeout passes at any time, and schedule_all finds any registered ones  *)
(* expired.  The notifications that schedule_all postpones only end the    *)
(* host's sleep early, and are left out too.                               *)
(***************************************************************************)
EXTENDS Integers, FiniteSets, Sequences, SequencesExt

CONSTANTS
  Threads,     \* PPU threads
  Prios,       \* priorities, smaller is more urgent
  ppu_threads, \* g_cfg.core.ppu_threads
  MaxAwake,    \* bound: threads one call awakes
  None         \* a caller that is no PPU thread

ASSUME SchedulerAssumption ==
  /\ IsFiniteSet(Threads)
  /\ Prios \subseteq Int /\ Prios # {}
  /\ ppu_threads \in Nat \ {0}
  /\ MaxAwake \in Nat
  /\ None \notin Threads

VARIABLES
  lv2,     \* the state below
  pc,      \* where each thread is
  back,    \* where check_state returns to
  called,  \* cpu_sleep_called of check_state
  timed,   \* the thread sleeps with a timeout
  queued   \* threads that wait in the queue of an object

vars == <<lv2, pc, back, called, timed, queued>>

\* The state of the scheduler and the flags of ppu_thread that it sets.
Lv2State ==
  [g_ppu: Seq(Threads),
   g_pending: Nat,
   g_waiting: [Threads -> Nat],
   prio: [Threads -> Prios],
   suspend: [Threads -> BOOLEAN],
   signal: [Threads -> BOOLEAN],
   notify: [Threads -> BOOLEAN],
   ack_suspend: [Threads -> BOOLEAN],
   cancel_sleep: [Threads -> 0..2]]

Labels == {"created", "guest", "announced", "blocked", "check", "cpu_sleep",
           "unqueue", "exited"}

TypeOK ==
  /\ lv2 \in Lv2State
  /\ pc \in [Threads -> Labels]
  /\ back \in [Threads -> {"guest", "unqueue"}]
  /\ called \in [Threads -> BOOLEAN]
  /\ timed \in [Threads -> BOOLEAN]
  /\ queued \subseteq Threads

\* Threads are created with cpu_flag::suspend.
Init ==
  /\ \E prio \in [Threads -> Prios] :
       lv2 = [g_ppu |-> <<>>,
              g_pending |-> 0,
              g_waiting |-> [t \in Threads |-> 0],
              prio |-> prio,
              suspend |-> [t \in Threads |-> TRUE],
              signal |-> [t \in Threads |-> FALSE],
              notify |-> [t \in Threads |-> FALSE],
              ack_suspend |-> [t \in Threads |-> FALSE],
              cancel_sleep |-> [t \in Threads |-> 0]]
  /\ pc = [t \in Threads |-> "created"]
  /\ back = [t \in Threads |-> "guest"]
  /\ called = [t \in Threads |-> FALSE]
  /\ timed = [t \in Threads |-> FALSE]
  /\ queued = {}

----------------------------------------------------------------------------
\* emplace_thread: walk g_ppu to the thread itself, whose announced sleep is then
\* cancelled, or to the first less urgent thread, before which it is put.  Then
\* its timeout is unregistered.
emplace_thread(k, t) ==
  LET i == SelectInSeq(k.g_ppu, LAMBDA u : u = t \/ k.prio[u] > k.prio[t])
  IN  IF i > 0 /\ k.g_ppu[i] = t
      THEN [k EXCEPT !.cancel_sleep[t] = IF @ = 1 THEN 2 ELSE @]
      ELSE [k EXCEPT !.g_ppu = InsertAt(@, IF i = 0 THEN Len(@) + 1 ELSE i, t),
                     !.g_waiting[t] = IF @ > 0 THEN @ - 1 ELSE 0]

\* Suspend threads if necessary: each has to acknowledge.
suspend_excess(k) ==
  LET E == {k.g_ppu[i] : i \in {j \in DOMAIN k.g_ppu :
                                  j > ppu_threads /\ ~k.suspend[k.g_ppu[j]]}}
  IN  [k EXCEPT !.suspend = [t \in Threads |-> @[t] \/ t \in E],
                !.ack_suspend = [t \in Threads |-> @[t] \/ t \in E],
                !.g_pending = @ + Cardinality(E)]

\* Remove pending if necessary.
acknowledge(k, t) ==
  IF t # None /\ k.ack_suspend[t]
  THEN [k EXCEPT !.ack_suspend[t] = FALSE, !.g_pending = @ - 1]
  ELSE k

\* Mutant of awake_unlocked: only the first thread of the list is awakened.
awake_first(k, t, list) ==
  LET first == SubSeq(list, 1, IF list = <<>> THEN 0 ELSE 1)
  IN  acknowledge(suspend_excess(FoldLeft(emplace_thread, k, first)), t)

\* awake_unlocked called by t for the threads of the list.
awake_unlocked(k, t, list) ==
  acknowledge(suspend_excess(FoldLeft(emplace_thread, k, list)), t)

\* sleep_unlocked; that no signal is set is part of AwakenedExactly below.
sleep_unlocked(k, t, timeout) ==
  LET a == acknowledge(k, t)
  IN  [a EXCEPT !.cancel_sleep[t] = 0,
                !.suspend[t] = TRUE,
                !.g_ppu = Remove(@, t),
                !.g_waiting[t] = IF timeout THEN @ + 1 ELSE @]

\* Mutant of schedule_all: threads are woken before everybody has acknowledged.
schedule_all_early(k, t, expired) ==
  LET N == IF Len(k.g_ppu) < ppu_threads THEN Len(k.g_ppu) ELSE ppu_threads
      R == {u \in {k.g_ppu[i] : i \in 1..N} : k.suspend[u]}
  IN  [k EXCEPT !.signal = [u \in Threads |-> @[u] \/ u \in R],
                !.suspend = [u \in Threads |-> @[u] /\ u \notin R],
                !.g_waiting = [u \in Threads |->
                                 IF u \in expired THEN @[u] - 1 ELSE @[u]],
                !.notify = [u \in Threads |->
                              @[u] \/ (u \in expired /\ u # t)]]

\* schedule_all called by t when the timeouts of the threads in expired have
\* passed: signal the threads that get a hardware thread, once everybody has
\* acknowledged.
schedule_all(k, t, expired) ==
  LET N == IF Len(k.g_ppu) < ppu_threads THEN Len(k.g_ppu) ELSE ppu_threads
      R == IF k.g_pending = 0
           THEN {u \in {k.g_ppu[i] : i \in 1..N} : k.suspend[u]} ELSE {}
  IN  [k EXCEPT !.signal = [u \in Threads |-> @[u] \/ u \in R],
                !.suspend = [u \in Threads |-> @[u] /\ u \notin R],
                !.g_waiting = [u \in Threads |->
                                 IF u \in expired THEN @[u] - 1 ELSE @[u]],
                !.notify = [u \in Threads |->
                              @[u] \/ (u \in expired /\ u # t)]]

\* What the end of a critical section of g_mutex makes of k.  The deadline that a
\* caller has just registered has not passed yet.
Scheduled(k, t) ==
  {schedule_all(k, t, expired) :
     expired \in SUBSET {u \in Threads \ {t} : k.g_waiting[u] > 0}}

\* The lists of threads that an object may awake.
Lists == {list \in SeqOf(queued, MaxAwake) : IsInjective(list)}

----------------------------------------------------------------------------
Goto(t, label) == pc' = [pc EXCEPT ![t] = label]

\* The end of a system call, and whatever else calls check_state.
CheckState(t, label) ==
  /\ Goto(t, "check")
  /\ back' = [back EXCEPT ![t] = label]
  /\ called' = [called EXCEPT ![t] = FALSE]

\* A thread that runs guest code looks at its flags now and then.
Poll(t) ==
  /\ pc[t] = "guest"
  /\ lv2.suspend[t]
  /\ CheckState(t, "guest")
  /\ UNCHANGED <<lv2, timed, queued>>

\* Before an object can see the thread in its queue: cancel_sleep = 1.
Announce(t) ==
  /\ pc[t] = "guest"
  /\ lv2' = [lv2 EXCEPT !.cancel_sleep[t] = 1]
  /\ queued' = queued \cup {t}
  /\ Goto(t, "announced")
  /\ UNCHANGED <<back, called, timed>>

\* lv2_obj::sleep, which also awakes the threads appended to g_to_awake.
SleepCall(t, timeout) ==
  \E list \in Lists :
     /\ t \notin ToSet(list)
     /\ LET k == sleep_unlocked(lv2, t, timeout)
        IN  lv2' \in Scheduled(IF list = <<>> THEN k
                               ELSE awake_unlocked(k, t, list), t)
     /\ timed' = [timed EXCEPT ![t] = timeout]
     /\ queued' = IF pc[t] = "announced" THEN queued \ ToSet(list)
                  ELSE (queued \cup {t}) \ ToSet(list)

Sleep(t) ==
  /\ \/ pc[t] = "guest"
     \/ pc[t] = "announced" /\ lv2.cancel_sleep[t] # 2
     \/ pc[t] = "unqueue" /\ t \in queued
  /\ \E timeout \in BOOLEAN : SleepCall(t, timeout)
  /\ Goto(t, "blocked")
  /\ UNCHANGED <<back, called>>

\* The object awoke the thread first: sleep returns false, having registered the
\* timeout all the same.
SleepCancelled(t) ==
  /\ pc[t] = "announced"
  /\ lv2.cancel_sleep[t] = 2
  /\ \E timeout \in BOOLEAN : SleepCall(t, timeout)
  /\ CheckState(t, "guest")

\* The waiting loop consumes the signal.
Signaled(t) ==
  /\ pc[t] = "blocked"
  /\ lv2.signal[t]
  /\ lv2' = [lv2 EXCEPT !.signal[t] = FALSE]
  /\ CheckState(t, "guest")
  /\ UNCHANGED <<timed, queued>>

\* wait_timeout says the time has passed.
TimedOut(t) ==
  /\ pc[t] = "blocked"
  /\ timed[t]
  /\ CheckState(t, "unqueue")
  /\ UNCHANGED <<lv2, timed, queued>>

\* The thread leaves the queue of the object, if it still is there.
Unqueue(t) ==
  /\ pc[t] = "unqueue"
  /\ queued' = queued \ {t}
  /\ CheckState(t, "guest")
  /\ UNCHANGED <<lv2, timed>>

\* One pass of check_state: the flags signal and notify are cleared, and the
\* thread goes on unless it is suspended.
CheckFlags(t) ==
  /\ pc[t] = "check"
  /\ \/ lv2.signal[t] \/ lv2.notify[t]
     \/ ~lv2.suspend[t] \/ ~called[t]
  /\ lv2' = [lv2 EXCEPT !.signal[t] = FALSE, !.notify[t] = FALSE]
  /\ called' = [called EXCEPT ![t] = @ /\ ~lv2.signal[t]]
  /\ Goto(t, IF ~lv2.suspend[t] THEN back[t]
             ELSE IF called'[t] THEN "check" ELSE "cpu_sleep")
  /\ UNCHANGED <<back, timed, queued>>

\* Mutant of CpuSleep: the last acknowledgement does not call schedule_all.
CpuSleepUnscheduled(t) ==
  /\ pc[t] = "cpu_sleep"
  /\ lv2' = awake_unlocked(lv2, t, <<t>>)
  /\ called' = [called EXCEPT ![t] = TRUE]
  /\ Goto(t, "check")
  /\ UNCHANGED <<back, timed, queued>>

\* cpu_sleep: the thread awakes itself.
CpuSleep(t) ==
  /\ pc[t] = "cpu_sleep"
  /\ lv2' \in Scheduled(awake_unlocked(lv2, t, <<t>>), t)
  /\ called' = [called EXCEPT ![t] = TRUE]
  /\ Goto(t, "check")
  /\ UNCHANGED <<back, timed, queued>>

----------------------------------------------------------------------------
\* awake and awake_all of an object, called by a PPU thread
Awake(t) ==
  /\ pc[t] = "guest"
  /\ \E list \in Lists \ {<<>>} :
       /\ lv2' \in Scheduled(awake_unlocked(lv2, t, list), t)
       /\ queued' = queued \ ToSet(list)
  /\ CheckState(t, "guest")
  /\ UNCHANGED timed

\* or by another thread of the emulator.
AwakeOutside ==
  /\ \E list \in Lists \ {<<>>} :
       /\ lv2' \in Scheduled(awake_unlocked(lv2, None, list), None)
       /\ queued' = queued \ ToSet(list)
  /\ UNCHANGED <<pc, back, called, timed>>

\* sys_ppu_thread_start by a thread, or by the emulator for the first one.
Start(t) ==
  /\ pc[t] = "created"
  /\ \/ /\ \A u \in Threads : pc[u] = "created"
        /\ lv2' \in Scheduled(awake_unlocked(lv2, None, <<t>>), None)
        /\ pc' = [pc EXCEPT ![t] = "check"]
     \/ \E u \in Threads :
          /\ pc[u] = "guest"
          /\ lv2' \in Scheduled(awake_unlocked(lv2, u, <<t>>), u)
          /\ pc' = [pc EXCEPT ![t] = "check", ![u] = "check"]
  /\ UNCHANGED <<back, called, timed, queued>>

\* _sys_ppu_thread_exit: sleep for good, awake the joiner.
Exit(t) ==
  /\ pc[t] = "guest"
  /\ \E list \in {l \in Lists : Len(l) <= 1} :
       LET k == sleep_unlocked(lv2, t, FALSE)
       IN  /\ \E s \in Scheduled(IF list = <<>> THEN k
                                 ELSE awake_unlocked(k, t, list), t) :
                lv2' = [s EXCEPT !.suspend[t] = FALSE]
           /\ queued' = queued \ ToSet(list)
  /\ Goto(t, "exited")
  /\ UNCHANGED <<back, called, timed>>

----------------------------------------------------------------------------
\* Positions of the threads behind position i with the same priority.
SamePrio(k, i) ==
  {j \in i..Len(k.g_ppu) :
     \A l \in i..j : k.prio[k.g_ppu[l]] = k.prio[k.g_ppu[i]]}

\* lv2_obj::yield: rotate the thread to the last position of its priority, unless
\* it is the last in g_ppu.  A rotation among the hardware threads is no context
\* switch.
Yield(t) ==
  /\ pc[t] = "guest"
  /\ \E i \in 1..(Len(lv2.g_ppu) - 1) :
       LET last == Max(SamePrio(lv2, i))
           k == [lv2 EXCEPT !.g_ppu = InsertAt(RemoveAt(@, i), last, t)]
       IN  /\ lv2.g_ppu[i] = t
           /\ lv2' \in Scheduled(IF last > i /\ last > ppu_threads
                                 THEN awake_unlocked(k, t, <<>>) ELSE k, t)
  /\ CheckState(t, "guest")
  /\ UNCHANGED <<timed, queued>>

\* Mutant of SetPriority: the thread keeps its place in g_ppu.
SetPriorityInPlace(t) ==
  /\ pc[t] = "guest"
  /\ \E u \in Threads, p \in Prios :
       /\ u = t => lv2.prio[u] # p
       /\ lv2' \in Scheduled([lv2 EXCEPT !.prio[u] = p], t)
  /\ CheckState(t, "guest")
  /\ UNCHANGED <<timed, queued>>

\* sys_ppu_thread_set_priority of u: a thread in g_ppu is queued again, behind
\* the others.  Setting one's own priority to what it is does nothing.
SetPriority(t) ==
  /\ pc[t] = "guest"
  /\ \E u \in Threads, p \in Prios :
       LET k == [lv2 EXCEPT !.prio[u] = p]
           requeued == [k EXCEPT !.g_ppu = Remove(@, u)]
       IN  /\ u = t => lv2.prio[u] # p
           /\ lv2' \in Scheduled(IF u \in ToSet(lv2.g_ppu)
                                 THEN awake_unlocked(requeued, t, <<u>>)
                                 ELSE k, t)
  /\ CheckState(t, "guest")
  /\ UNCHANGED <<timed, queued>>

Next ==
  \/ AwakeOutside
  \/ \E t \in Threads :
       \/ Poll(t) \/ Announce(t) \/ Sleep(t) \/ SleepCancelled(t) \/ Signaled(t)
       \/ TimedOut(t) \/ Unqueue(t) \/ CheckFlags(t) \/ CpuSleep(t) \/ Awake(t)
       \/ Start(t) \/ Exit(t) \/ Yield(t) \/ SetPriority(t)

Spec == Init /\ [][Next]_vars

\* Every PPU thread is a thread of the host: one that is in a system call, or is
\* to be suspended, goes on.  Guest code owes nothing.
Goes(t) ==
  \/ Poll(t) \/ SleepCancelled(t) \/ Signaled(t) \/ Unqueue(t)
  \/ CheckFlags(t) \/ CpuSleep(t)
  \/ pc[t] # "guest" /\ Sleep(t)

FairSpec == Spec /\ \A t \in Threads : WF_vars(Goes(t))

----------------------------------------------------------------------------
\* The threads that have left check_state: they execute guest code, or a call
\* made from it.
Running == {t \in Threads : pc[t] \in {"guest", "announced", "unqueue"}}

\* The scheduler emulates ppu_threads hardware threads: a thread that is to be
\* suspended is waited for before another one goes on.  g_pending is the number of
\* threads that have still to acknowledge, so schedule_all neither waits for nobody
\* nor goes on too early.
HardwareThreads ==
  /\ TypeOK
  /\ Cardinality(Running) <= ppu_threads
  /\ lv2.g_pending = Cardinality({t \in Threads : lv2.ack_suspend[t]})
  /\ \A t \in Threads : lv2.ack_suspend[t] =>
       lv2.suspend[t] /\ t \in ToSet(lv2.g_ppu)

\* Whenever nobody has to acknowledge, the most urgent threads have the hardware
\* threads, and nobody else.
MostUrgentRun ==
  /\ \A i, j \in DOMAIN lv2.g_ppu :
       i < j => lv2.prio[lv2.g_ppu[i]] <= lv2.prio[lv2.g_ppu[j]]
  /\ \A i \in DOMAIN lv2.g_ppu :
       IF i > ppu_threads THEN lv2.suspend[lv2.g_ppu[i]]
       ELSE lv2.g_pending = 0 => ~lv2.suspend[lv2.g_ppu[i]]

\* The contract of Lv2Sync.  A waiting loop is signaled only when an object awoke
\* its thread, and a thread in its waiting loop that no object has in its queue
\* is in g_ppu: an awakening that met it awake was turned into a cancelled sleep.
\* A thread that can call lv2_obj::sleep is in g_ppu, without a signal ("sleep()
\* failed (signaled)") and without a forced timeout (ensure in sleep_unlocked).  A
\* registered timeout belongs to a sleeping thread that has not been notified of
\* one: ensure(!test_and_set(notify)) in schedule_all.
AwakenedExactly ==
  /\ \A t \in Threads : pc[t] = "blocked" =>
       /\ lv2.signal[t] => t \notin queued
       /\ t \notin queued \/ lv2.signal[t] => t \in ToSet(lv2.g_ppu)
  /\ \A t \in Running : /\ t \in ToSet(lv2.g_ppu)
                        /\ ~lv2.signal[t]
                        /\ ~lv2.notify[t]
  /\ \A t \in Threads : lv2.g_waiting[t] > 0 =>
       /\ lv2.g_waiting[t] = 1
       /\ t \notin ToSet(lv2.g_ppu)
       /\ ~lv2.notify[t]

\* A thread that keeps one of the first ppu_threads places of g_ppu executes
\* guest code again and again: schedule_all is always called once more after the
\* last acknowledgement, and no signal is lost between check_state and the
\* waiting loop.  The threads to suspend all acknowledge, so nobody waits for their
\* hardware threads for ever.
HardwareThreadRuns ==
  /\ \A t \in Threads :
       []<>((\E i \in DOMAIN lv2.g_ppu : i <= ppu_threads /\ lv2.g_ppu[i] = t)
              => pc[t] = "guest")
  /\ lv2.g_pending > 0 ~> lv2.g_pending = 0
=============================================================================
