-------------------------------- MODULE Cond --------------------------------
(***************************************************************************)
(* One lv2 condition variable (sys_cond.cpp) bound to the mutex of module  *)
(* Mutex.  Its operations run inside mutex.mutex; only locking, queueing   *)
(* and releasing an uncontended mutex happen concurrently with them.       *)
(* A waiter moves from the queue of the condition variable to the mutex or *)
(* its queue (lv2_mutex::try_own), by a signal or by its own timeout.      *)
(*                                                                         *)
(* Bound: one condition variable at a time.                                *)
(***************************************************************************)
EXTENDS Mutex

VARIABLES
  calive,  \* the id is registered
  csq,     \* lv2_cond::sq
  cret,    \* cond.ret of each wait: the recursive locks it released
  moving,  \* the waiters sys_cond_signal_all has still to move
  saved    \* history: the locks a wait gave up and has not restored

condVars == <<calive, csq, cret, moving, saved>>

allVars == <<vars, condVars>>

CondLabels ==
  {"create", "cwait_sleep", "cwaiting", "ctimedout", "cunqueue", "signal_awake",
   "move"}

InCond(t) == pc[t] \in {"cwaiting", "ctimedout", "cunqueue"}

CondTypeOK ==
  /\ StateOK
  /\ pc \in [Threads -> MutexLabels \cup CondLabels]
  /\ calive \in BOOLEAN
  /\ csq \in Seq(Threads)
  /\ cret \in [Threads -> 0..MaxCount]
  /\ moving \in [Threads -> Seq(Threads)]
  /\ saved \in [Threads -> Nat]

CondInit ==
  /\ Init
  /\ calive = FALSE
  /\ csq = <<>>
  /\ cret = [t \in Threads |-> 0]
  /\ moving = [t \in Threads |-> <<>>]
  /\ saved = [t \in Threads |-> 0]

----------------------------------------------------------------------------
\* sys_cond_create finds the mutex without holding a lock,
CreateFind(t) ==
  /\ pc[t] = "idle"
  /\ ~calive /\ \A u \in Threads : pc[u] # "create"
  /\ alive
  /\ Goto(t, "create")
  /\ UNCHANGED <<condVars, alive, owner, sq, lock_count, cond_count, mutex,
                 sched, cancel, timed, woken, stopped, depth>>

\* and on_id_create looks, under the writer lock of id_manager::g_mutex,
\* whether it still exists.
CreateCommit(t) ==
  /\ pc[t] = "create"
  /\ \A u \in Threads : ~InIdm(u)
  /\ calive' = alive
  /\ cond_count' = IF alive THEN cond_count + 1 ELSE cond_count
  /\ Return(t)
  /\ UNCHANGED <<saved, csq, cret, moving, alive, owner, sq, lock_count, mutex,
                 sched, cancel, woken, stopped, depth>>

\* sys_cond_destroy, unless it is CELL_EBUSY.
CondDestroy(t) ==
  /\ pc[t] = "idle"
  /\ calive
  /\ \A u \in Threads : ~InIdm(u)
  /\ mutex = None
  /\ csq = <<>>
  /\ cond_count' = cond_count - 1
  /\ calive' = FALSE
  /\ UNCHANGED <<saved, csq, cret, moving, alive, owner, sq, lock_count, mutex,
                 sched, cancel, pc, timed, woken, stopped, depth>>

----------------------------------------------------------------------------
\* sys_cond_wait by the owner enters mutex.mutex; by any other thread it is
\* CELL_EPERM.
WaitEnter(t) ==
  /\ pc[t] = "idle"
  /\ calive
  /\ owner = t
  /\ mutex = None

\* The wait registers the thread and gives up all its locks.
WaitRegister(t) ==
  /\ csq' = emplace(csq, t)
  /\ cret' = [cret EXCEPT ![t] = lock_count]
  /\ lock_count' = 0
  /\ depth' = [depth EXCEPT ![t] = 0]
  /\ saved' = [saved EXCEPT ![t] = depth[t]]
  /\ \E timeout \in BOOLEAN : timed' = [timed EXCEPT ![t] = timeout]

\* Nobody waits for the mutex.
WaitRelease(t) ==
  /\ WaitEnter(t)
  /\ sq = <<>>
  /\ WaitRegister(t)
  /\ owner' = None
  /\ sched' = sleep(sched, t)
  /\ Goto(t, "cwaiting")
  /\ UNCHANGED <<calive, moving, alive, sq, cond_count, mutex, cancel, woken,
                 stopped>>

\* The mutex is handed over and its new owner appended to g_to_awake.
WaitReown(t) ==
  /\ WaitEnter(t)
  /\ WaitRegister(t)
  /\ \E i \in DOMAIN sq :
       /\ Reowns(i)
       /\ owner' = sq[i]
       /\ sq' = RemoveAt(sq, i)
       /\ woken' = [woken EXCEPT ![t] = {sq[i]}]
  /\ mutex' = t
  /\ Goto(t, "cwait_sleep")
  /\ UNCHANGED <<calive, moving, alive, cond_count, sched, cancel, stopped>>

\* The next owner is to repeat its lock after a savestate: the wait is undone
\* and repeated as well.  lock_count has been cleared by then.
WaitAgain(t) ==
  /\ WaitEnter(t)
  /\ ReownsAgain
  /\ lock_count' = 0
  /\ ReturnAgain(t)
  /\ UNCHANGED <<condVars, alive, owner, sq, cond_count, mutex, sched, cancel,
                 woken, stopped, depth>>

\* lv2_obj::sleep also awakes g_to_awake, under one lock of the scheduler.
WaitSleep(t) ==
  /\ pc[t] = "cwait_sleep"
  /\ sched' = awake(sleep(sched, t), woken[t])
  /\ cancel' = awake_cancel(cancel, sched, woken[t])
  /\ woken' = [woken EXCEPT ![t] = {}]
  /\ mutex' = None
  /\ Goto(t, "cwaiting")
  /\ UNCHANGED <<condVars, alive, owner, sq, lock_count, cond_count, timed,
                 stopped, depth>>

\* Mutant: the recursive value is not restored.
RestoreOne(t) ==
  /\ lock_count' = 0
  /\ depth' = [depth EXCEPT ![t] = cret[t] + 1]
  /\ cret' = [cret EXCEPT ![t] = 0]
  /\ saved' = [saved EXCEPT ![t] = 0]
  /\ Return(t)

\* The end of the wait: restore the recursive value.
Restore(t) ==
  /\ lock_count' = cret[t]
  /\ depth' = [depth EXCEPT ![t] = cret[t] + 1]
  /\ cret' = [cret EXCEPT ![t] = 0]
  /\ saved' = [saved EXCEPT ![t] = 0]
  /\ Return(t)

\* The waiting loop: the signal has come.
WaitSignaled(t) ==
  /\ pc[t] = "cwaiting"
  /\ sched[t] = "signal"
  /\ sched' = [sched EXCEPT ![t] = "run"]
  /\ Restore(t)
  /\ UNCHANGED <<calive, csq, moving, alive, owner, sq, cond_count, mutex,
                 cancel, woken, stopped>>

\* The waiting loop: the thread was told to stop while in one of the queues.
\* Which one it is in, and cret, go to the savestate.
WaitStopped(t) ==
  /\ pc[t] = "cwaiting"
  /\ stopped[t]
  /\ mutex = None
  /\ t \in Range(csq) \cup Range(sq)
  /\ ReturnAgain(t)
  /\ UNCHANGED <<condVars, alive, owner, sq, lock_count, cond_count, mutex,
                 sched, cancel, woken, stopped, depth>>

\* The waiting loop: the thread was told to stop when it owned the mutex again.
WaitStoppedOwner(t) ==
  /\ pc[t] = "cwaiting"
  /\ stopped[t]
  /\ mutex = None
  /\ t \notin Range(csq) \cup Range(sq)
  /\ Restore(t)
  /\ UNCHANGED <<calive, csq, moving, alive, owner, sq, cond_count, mutex,
                 sched, cancel, woken, stopped>>

\* The waiting loop: wait_timeout says the time has passed.
\* (A stop between the look at is_stopped and this comes as if after it.)
WaitTimeout(t) ==
  /\ pc[t] = "cwaiting"
  /\ timed[t]
  /\ ~stopped[t]
  /\ Goto(t, "ctimedout")
  /\ UNCHANGED <<condVars, alive, owner, sq, lock_count, cond_count, mutex,
                 sched, cancel, timed, woken, stopped, depth>>

\* Wait for rescheduling.
WaitCheckState(t) ==
  /\ pc[t] = "ctimedout"
  /\ ~stopped[t]
  /\ Goto(t, "cunqueue")
  /\ sched' = check_state(sched, t)
  /\ UNCHANGED <<condVars, alive, owner, sq, lock_count, cond_count, mutex,
                 cancel, timed, woken, stopped, depth>>

\* check_state returns true in a stopped thread, before cpu_sleep,
WaitCheckStateStopped(t) ==
  /\ pc[t] = "ctimedout"
  /\ stopped[t]
  /\ sched[t] # "signal"
  /\ Goto(t, "cwaiting")
  /\ UNCHANGED <<condVars, alive, owner, sq, lock_count, cond_count, mutex,
                 sched, cancel, timed, woken, stopped, depth>>

\* or after it, or with the signal consumed.
WaitCheckStateAwake(t) ==
  /\ pc[t] = "ctimedout"
  /\ stopped[t]
  /\ Goto(t, "cwaiting")
  /\ sched' = check_state(sched, t)
  /\ UNCHANGED <<condVars, alive, owner, sq, lock_count, cond_count, mutex,
                 cancel, timed, woken, stopped, depth>>

\* Try to cancel the waiting, in mutex.mutex.  CELL_ETIMEDOUT, and the mutex is
\* free.
WaitTimeoutOwn(t) ==
  /\ pc[t] = "cunqueue"
  /\ mutex = None
  /\ t \in Range(csq)
  /\ owner = None
  /\ csq' = unqueue(csq, t)
  /\ owner' = t
  /\ Restore(t)
  /\ UNCHANGED <<calive, moving, alive, sq, cond_count, mutex, sched, cancel,
                 woken, stopped>>

\* CELL_ETIMEDOUT, and the thread has to wait for the mutex.
WaitTimeoutRequeue(t) ==
  /\ pc[t] = "cunqueue"
  /\ mutex = None
  /\ t \in Range(csq)
  /\ owner # None
  /\ csq' = unqueue(csq, t)
  /\ sq' = emplace(sq, t)
  /\ sched' = sleep(sched, t)
  /\ timed' = [timed EXCEPT ![t] = FALSE]
  /\ Goto(t, "cwaiting")
  /\ UNCHANGED <<saved, calive, cret, moving, alive, owner, lock_count,
                 cond_count, mutex, cancel, woken, stopped, depth>>

\* Mutant: the owner is looked at without mutex.mutex.
WaitTimeoutOwnerUnlocked(t) ==
  /\ pc[t] = "cunqueue"
  /\ t \notin Range(csq)
  /\ owner = t
  /\ Restore(t)
  /\ UNCHANGED <<calive, csq, moving, alive, owner, sq, cond_count, mutex,
                 sched, cancel, woken, stopped>>

\* A signal came first and made the thread the owner.
WaitTimeoutOwner(t) ==
  /\ pc[t] = "cunqueue"
  /\ mutex = None
  /\ t \notin Range(csq)
  /\ owner = t
  /\ Restore(t)
  /\ UNCHANGED <<calive, csq, moving, alive, owner, sq, cond_count, mutex,
                 sched, cancel, woken, stopped>>

\* Mutant: the wait returns without the mutex.
WaitTimeoutMovedReturns(t) ==
  /\ pc[t] = "cunqueue"
  /\ mutex = None
  /\ t \notin Range(csq)
  /\ owner # t
  /\ Restore(t)
  /\ UNCHANGED <<calive, csq, moving, alive, owner, sq, cond_count, mutex,
                 sched, cancel, woken, stopped>>

\* A signal came first and moved the thread to the queue of the mutex.
WaitTimeoutMoved(t) ==
  /\ pc[t] = "cunqueue"
  /\ mutex = None
  /\ t \notin Range(csq)
  /\ owner # t
  /\ sched' = sleep(sched, t)
  /\ timed' = [timed EXCEPT ![t] = FALSE]
  /\ Goto(t, "cwaiting")
  /\ UNCHANGED <<condVars, alive, owner, sq, lock_count, cond_count, mutex,
                 cancel, woken, stopped, depth>>

----------------------------------------------------------------------------
\* try_own for the waiter w: it gets the mutex and is to be awakened by t, or
\* is queued on it and sleeps on.
TryOwn(t, w) ==
  IF owner = None
  THEN owner' = w /\ woken' = [woken EXCEPT ![t] = @ \cup {w}] /\ UNCHANGED sq
  ELSE sq' = emplace(sq, w) /\ UNCHANGED <<owner, woken>>

\* The signals enter mutex.mutex.
SignalEnter(t) ==
  /\ pc[t] = "idle"
  /\ calive
  /\ mutex = None

\* They return at once, to be repeated, in a thread that is told to stop.
SignalStopped(t) ==
  /\ pc[t] = "idle"
  /\ calive
  /\ stopped[t]
  /\ ReturnAgain(t)
  /\ UNCHANGED <<condVars, alive, owner, sq, lock_count, cond_count, mutex,
                 sched, cancel, woken, stopped, depth>>

\* sys_cond_signal picks the waiter lv2_obj::schedule picks, and
\* sys_cond_signal_to the waiter w it is told.
Picks(i) == Schedules(csq, Protocol, Prio, i)

SignalMove(t, i) ==
  /\ SignalEnter(t)
  /\ pc[csq[i]] # "again"
  /\ csq' = RemoveAt(csq, i)
  /\ TryOwn(t, csq[i])
  /\ mutex' = t
  /\ Goto(t, "signal_awake")
  /\ UNCHANGED <<saved, calive, cret, moving, alive, lock_count, cond_count,
                 sched, cancel, timed, stopped, depth>>

SignalAgain(t, i) ==
  /\ SignalEnter(t)
  /\ pc[csq[i]] = "again"
  /\ ReturnAgain(t)
  /\ UNCHANGED <<condVars, alive, owner, sq, lock_count, cond_count, mutex,
                 sched, cancel, woken, stopped, depth>>

Signal(t) ==
  \E i \in DOMAIN csq : Picks(i) /\ (SignalMove(t, i) \/ SignalAgain(t, i))

SignalTo(t) ==
  \E i \in DOMAIN csq : SignalMove(t, i) \/ SignalAgain(t, i)

\* sys_cond_signal_all takes the whole queue,
SignalAll(t) ==
  /\ SignalEnter(t)
  /\ csq # <<>>
  /\ \A w \in Range(csq) : pc[w] # "again"
  /\ moving' = [moving EXCEPT ![t] = csq]
  /\ csq' = <<>>
  /\ mutex' = t
  /\ Goto(t, "move")
  /\ UNCHANGED <<saved, calive, cret, alive, owner, sq, lock_count, cond_count,
                 sched, cancel, timed, woken, stopped, depth>>

SignalAllAgain(t) ==
  /\ SignalEnter(t)
  /\ \E w \in Range(csq) : pc[w] = "again"
  /\ ReturnAgain(t)
  /\ UNCHANGED <<condVars, alive, owner, sq, lock_count, cond_count, mutex,
                 sched, cancel, woken, stopped, depth>>

\* moves the waiters one by one, most urgent first,
Move(t) ==
  /\ pc[t] = "move"
  /\ \E i \in DOMAIN moving[t] :
       /\ Schedules(moving[t], "PRIORITY", Prio, i)
       /\ TryOwn(t, moving[t][i])
       /\ moving' = [moving EXCEPT ![t] = RemoveAt(@, i)]
  /\ UNCHANGED <<saved, calive, csq, cret, alive, lock_count, cond_count,
                 mutex, sched, cancel, pc, timed, stopped, depth>>

\* and awakes the one that got the mutex.
SignalAwake(t) ==
  /\ pc[t] \in {"signal_awake", "move"}
  /\ moving[t] = <<>>
  /\ sched' = awake(sched, woken[t])
  /\ cancel' = awake_cancel(cancel, sched, woken[t])
  /\ woken' = [woken EXCEPT ![t] = {}]
  /\ mutex' = None
  /\ Return(t)
  /\ UNCHANGED <<condVars, alive, owner, sq, lock_count, cond_count, stopped,
                 depth>>

CondLife(t) == CreateFind(t) \/ CreateCommit(t) \/ CondDestroy(t)

Wait(t) ==
  \/ WaitRelease(t) \/ WaitReown(t) \/ WaitAgain(t) \/ WaitSleep(t)
  \/ WaitSignaled(t) \/ WaitStopped(t) \/ WaitStoppedOwner(t) \/ WaitTimeout(t)
  \/ WaitCheckState(t) \/ WaitCheckStateStopped(t) \/ WaitCheckStateAwake(t)
  \/ WaitTimeoutOwn(t) \/ WaitTimeoutRequeue(t) \/ WaitTimeoutOwner(t)
  \/ WaitTimeoutMoved(t)

Signals(t) ==
  \/ SignalStopped(t) \/ Signal(t) \/ SignalTo(t) \/ SignalAll(t)
  \/ SignalAllAgain(t) \/ Move(t) \/ SignalAwake(t)

CondNext ==
  \/ Next /\ UNCHANGED condVars
  \/ \E t \in Threads : CondLife(t) \/ Wait(t) \/ Signals(t)

CondSpec == CondInit /\ [][CondNext]_allVars

----------------------------------------------------------------------------
\* Where a thread can wait: the queue of the condition variable, the queue of
\* the mutex, and the list that a signal_all under way has still to move.
Queued(t) ==
  t \in Range(csq) \cup Range(sq) \cup UNION {Range(moving[u]) : u \in Threads}

\* ensure(owner == ppu.id) at the end of sys_cond_wait: a waiter that is in no
\* queue any more owns the mutex, however signals, its own timeout, unlocks and
\* stops were interleaved.  So one waiter at most gets the mutex from
\* sys_cond_signal_all (ensure(!std::exchange(result, cpu))).
WaiterOwnsMutex ==
  \A t \in Threads : InCond(t) /\ ~Queued(t) => owner = t

\* A thread is queued once, in one place, and not while it owns the mutex, and
\* nobody is queued on a free mutex: in particular a waiter that is to go back to
\* the queue of the mutex when a savestate is loaded finds it owned
\* (ensure(!try_own) in sys_cond_wait).  A condition variable is never bound to a
\* destroyed mutex, and a destroyed one has no waiters.
QueuedOnce ==
  /\ (calive => alive) /\ (~calive => csq = <<>>)
  /\ NoDuplicates(sq \o csq)
  /\ \A t \in Threads : Range(moving[t]) \cap (Range(sq) \cup Range(csq)) = {}
  /\ owner # None => ~Queued(owner)
  /\ sq # <<>> => owner # None

\* A call that returned CELL_OK, or a wait that returned at all, left its thread
\* the owner with as many locks as it had; everybody else has none.  One that has
\* still to return, and is in no queue, owns the mutex already.
LocksRestored ==
  /\ CondTypeOK
  /\ WaiterOwnsMutex
  /\ \A t \in Threads :
       pc[t] = "idle" => depth[t] = IF owner = t THEN lock_count + 1 ELSE 0

\* sys_cond_wait, signal and signal_all: waiters sleep in one queue or are about
\* to be awakened, and no wake-up is left over for the next sleep of a thread.
CondWakeupsMatch ==
  /\ QueuedOnce
  /\ \A t \in Threads :
       /\ \/ (Waiting(t) \/ InCond(t)) /\ sched[t] = "sleep"
          \/ pc[t] = "lock_sleep" /\ cancel[t] # 2
          => Queued(t) \/ \E u \in Threads : t \in woken[u]
       /\ pc[t] \notin {"lock_sleep", "waiting", "timedout", "unqueue", "sync",
                        "cwaiting", "ctimedout", "cunqueue", "again", "halted"} =>
            sched[t] = "run" /\ \A u \in Threads : t \notin woken[u]

\* The mutex and the condition variable implement Monitor: whatever a thread
\* is told by lock, unlock and wait, the guest can explain without owner words,
\* queues and hand-overs.
Guest == INSTANCE Monitor WITH locks <- depth

ImplementsMonitor == Guest!Spec

\* The savestate has the recursive value of a thread that is to repeat its
\* sys_cond_wait.
SavestateKeepsCount ==
  \A t \in Threads :
     owner = t /\ pc[t] = "again" => depth[t] = lock_count + 1
=============================================================================
