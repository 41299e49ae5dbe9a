------------------------------- MODULE Mutex -------------------------------
(***************************************************************************)
(* One lv2 mutex (sys_mutex.h, sys_mutex.cpp) and the PPU threads that use *)
(* it.  owner and sq are the two halves of lv2_mutex::control, a 16-byte   *)
(* atomic: locking, queueing and releasing an uncontended mutex are single *)
(* atomic operations outside mutex.mutex.  Handing the mutex over (reown)  *)
(* and awakening the new owner are two steps inside mutex.mutex.           *)
(*                                                                         *)
(* try_lock and try_unlock read control and then compare and swap it.  The *)
(* queue is empty whenever owner is zero, so the swap of try_lock fails    *)
(* exactly when another thread owns the mutex by then, and the two         *)
(* accesses are one step here; likewise in try_unlock, where only a thread *)
(* that queued itself makes the swap fail.                                 *)
(***************************************************************************)
EXTENDS Lv2Sync

CONSTANTS
  Threads,    \* PPU threads
  Prio,       \* Prio[t]: priority of t, smaller is more urgent
  Protocol,   \* _attr.protocol (PRIORITY_INHERIT schedules like PRIORITY)
  Recursive,  \* _attr.recursive = SYS_SYNC_RECURSIVE
  MaxCount,   \* the largest lock_count, 0xffffffff in the code
  None        \* no thread, id 0

ASSUME MutexAssumption ==
  /\ IsFiniteSet(Threads)
  /\ Protocol \in Protocols
  /\ Prio \in [Threads -> Int]
  /\ Recursive \in BOOLEAN
  /\ MaxCount \in Nat
  /\ None \notin Threads

VARIABLES
  alive,      \* the id is registered
  owner,      \* control.owner
  sq,         \* control.sq
  lock_count, \* recursive locks
  cond_count, \* condition variables bound to the mutex
  mutex,      \* the thread inside a critical section of several steps
  sched,      \* scheduler contract, Lv2Sync
  cancel,     \* ppu_thread::cancel_sleep
  pc,         \* where each thread is
  timed,      \* the call under way has a timeout
  woken,      \* threads taken from a queue and not awakened yet
  stopped,    \* is_stopped(ppu.state)
  depth       \* history: locks that returned CELL_OK minus unlocks

vars == <<alive, owner, sq, lock_count, cond_count, mutex, sched, cancel, pc,
          timed, woken, stopped, depth>>

Waiting(t) == pc[t] \in {"waiting", "timedout", "unqueue", "sync"}

\* Inside the lambda that idm::get and idm::check run under the reader lock
\* of id_manager::g_mutex.
InIdm(t) == pc[t] \in {"own", "lock_sleep", "unlock", "unlock_awake"}

MutexLabels ==
  {"idle", "own", "lock_sleep", "waiting", "timedout", "unqueue", "sync",
   "unlock", "unlock_awake", "again", "halted"}

\* The type of everything but pc, to which Cond adds labels.
StateOK ==
  /\ alive \in BOOLEAN
  /\ owner \in Threads \cup {None}
  /\ sq \in Seq(Threads)
  /\ lock_count \in 0..MaxCount
  /\ cond_count \in Nat
  /\ mutex \in Threads \cup {None}
  /\ sched \in [Threads -> SchedStates]
  /\ cancel \in [Threads -> 0..2]
  /\ timed \in [Threads -> BOOLEAN]
  /\ woken \in [Threads -> SUBSET Threads]
  /\ stopped \in [Threads -> BOOLEAN]
  /\ depth \in [Threads -> Nat]

TypeOK == StateOK /\ pc \in [Threads -> MutexLabels]

Init ==
  /\ alive = TRUE
  /\ owner = None
  /\ sq = <<>>
  /\ lock_count = 0
  /\ cond_count = 0
  /\ mutex = None
  /\ sched = [t \in Threads |-> "run"]
  /\ cancel = [t \in Threads |-> 0]
  /\ pc = [t \in Threads |-> "idle"]
  /\ timed = [t \in Threads |-> FALSE]
  /\ woken = [t \in Threads |-> {}]
  /\ stopped = [t \in Threads |-> FALSE]
  /\ depth = [t \in Threads |-> 0]

----------------------------------------------------------------------------
\* The end of a system call: a stopped thread does not enter another one.
Return(t) ==
  /\ pc' = [pc EXCEPT ![t] = IF stopped[t] THEN "halted" ELSE "idle"]
  /\ timed' = [timed EXCEPT ![t] = FALSE]

\* return {} with cpu_flag::again: the call is repeated when the savestate is
\* loaded.
ReturnAgain(t) ==
  /\ pc' = [pc EXCEPT ![t] = "again"]
  /\ timed' = [timed EXCEPT ![t] = FALSE]

Goto(t, label) == pc' = [pc EXCEPT ![t] = label]

\* CELL_OK of a lock that found the mutex free or was handed it.
Acquired(t) == depth' = [depth EXCEPT ![t] = 1]

\* sys_mutex_lock and sys_mutex_trylock on a free mutex.
TryLock(t) ==
  /\ pc[t] = "idle"
  /\ alive
  /\ owner = None
  /\ owner' = t
  /\ Acquired(t)
  /\ UNCHANGED <<alive, sq, lock_count, cond_count, mutex, sched, cancel, pc,
                 timed, woken, stopped>>

\* Recursive locking; CELL_EDEADLK and CELL_EKRESOURCE change nothing.
Relock(t) ==
  /\ pc[t] = "idle"
  /\ alive
  /\ owner = t
  /\ Recursive
  /\ lock_count < MaxCount
  /\ lock_count' = lock_count + 1
  /\ depth' = [depth EXCEPT ![t] = @ + 1]
  /\ UNCHANGED <<alive, owner, sq, cond_count, mutex, sched, cancel, pc, timed,
                 woken, stopped>>

\* sys_mutex_lock, CELL_EBUSY after the busy waiting: cancel_sleep = 1.
LockBusy(t) ==
  /\ pc[t] = "idle"
  /\ alive
  /\ owner \notin {None, t}
  /\ Goto(t, "own")
  /\ cancel' = [cancel EXCEPT ![t] = 1]
  /\ \E timeout \in BOOLEAN : timed' = [timed EXCEPT ![t] = timeout]
  /\ UNCHANGED <<alive, owner, sq, lock_count, cond_count, mutex, sched, woken,
                 stopped, depth>>

\* try_own: the mutex was released meanwhile.
LockOwn(t) ==
  /\ pc[t] = "own"
  /\ owner = None
  /\ owner' = t
  /\ cancel' = [cancel EXCEPT ![t] = 0]
  /\ Acquired(t)
  /\ Return(t)
  /\ UNCHANGED <<alive, sq, lock_count, cond_count, mutex, sched, woken,
                 stopped>>

\* try_own: the thread is queued, and can be handed the mutex, before it
\* sleeps.
LockEnqueue(t) ==
  /\ pc[t] = "own"
  /\ owner # None
  /\ sq' = emplace(sq, t)
  /\ Goto(t, "lock_sleep")
  /\ UNCHANGED <<alive, owner, lock_count, cond_count, mutex, sched, cancel,
                 timed, woken, stopped, depth>>

\* lv2_obj::sleep of a thread nobody awakened in between.
LockSleep(t) ==
  /\ pc[t] = "lock_sleep"
  /\ cancel[t] # 2
  /\ sched' = sleep(sched, t)
  /\ cancel' = [cancel EXCEPT ![t] = 0]
  /\ Goto(t, "waiting")
  /\ UNCHANGED <<alive, owner, sq, lock_count, cond_count, mutex, timed, woken,
                 stopped, depth>>

\* lv2_obj::sleep returns false.  It still took the thread out of g_ppu, and
\* check_state puts it back unless the thread is stopped.
LockSleepCancelled(t) ==
  /\ pc[t] = "lock_sleep"
  /\ cancel[t] = 2
  /\ sched' = IF stopped[t] THEN sleep(sched, t) ELSE check_state(sched, t)
  /\ cancel' = [cancel EXCEPT ![t] = 0]
  /\ Acquired(t)
  /\ Return(t)
  /\ UNCHANGED <<alive, owner, sq, lock_count, cond_count, mutex, woken,
                 stopped>>

\* The waiting loop: the signal has come.
LockSignaled(t) ==
  /\ pc[t] = "waiting"
  /\ sched[t] = "signal"
  /\ sched' = [sched EXCEPT ![t] = "run"]
  /\ Acquired(t)
  /\ Return(t)
  /\ UNCHANGED <<alive, owner, sq, lock_count, cond_count, mutex, cancel,
                 woken, stopped>>

\* The waiting loop: the thread was told to stop while still queued.
LockStopped(t) ==
  /\ pc[t] = "waiting"
  /\ stopped[t]
  /\ mutex = None
  /\ t \in Range(sq)
  /\ ReturnAgain(t)
  /\ UNCHANGED <<alive, owner, sq, lock_count, cond_count, mutex, sched,
                 cancel, woken, stopped, depth>>

\* The waiting loop: the thread was told to stop after the hand-over.
LockStoppedGranted(t) ==
  /\ pc[t] = "waiting"
  /\ stopped[t]
  /\ mutex = None
  /\ t \notin Range(sq)
  /\ Acquired(t)
  /\ Return(t)
  /\ UNCHANGED <<alive, owner, sq, lock_count, cond_count, mutex, sched,
                 cancel, woken, stopped>>

\* The waiting loop: wait_timeout says the time has passed.
\* (A stop between the look at is_stopped and this comes as if after it.)
LockTimeout(t) ==
  /\ pc[t] = "waiting"
  /\ timed[t]
  /\ ~stopped[t]
  /\ Goto(t, "timedout")
  /\ UNCHANGED <<alive, owner, sq, lock_count, cond_count, mutex, sched,
                 cancel, timed, woken, stopped, depth>>

\* Wait for rescheduling.
LockCheckState(t) ==
  /\ pc[t] = "timedout"
  /\ ~stopped[t]
  /\ Goto(t, "unqueue")
  /\ sched' = check_state(sched, t)
  /\ UNCHANGED <<alive, owner, sq, lock_count, cond_count, mutex, cancel,
                 timed, woken, stopped, depth>>

\* check_state returns true in a stopped thread, before cpu_sleep.
LockCheckStateStopped(t) ==
  /\ pc[t] = "timedout"
  /\ stopped[t]
  /\ sched[t] # "signal"
  /\ Goto(t, "waiting")
  /\ UNCHANGED <<alive, owner, sq, lock_count, cond_count, mutex, sched,
                 cancel, timed, woken, stopped, depth>>

\* check_state returns true in a stopped thread, after cpu_sleep or with the
\* signal consumed.
LockCheckStateAwake(t) ==
  /\ pc[t] = "timedout"
  /\ stopped[t]
  /\ Goto(t, "waiting")
  /\ sched' = check_state(sched, t)
  /\ UNCHANGED <<alive, owner, sq, lock_count, cond_count, mutex, cancel,
                 timed, woken, stopped, depth>>

\* Mutant: return without passing through mutex.mutex.
LockQueueEmptyNoSync(t) ==
  /\ pc[t] = "unqueue"
  /\ sq = <<>>
  /\ Acquired(t)
  /\ Return(t)
  /\ UNCHANGED <<alive, owner, sq, lock_count, cond_count, mutex, sched,
                 cancel, woken, stopped>>

\* The queue is empty, so the thread must have been signaled: mutex.lock_unlock
\* waits for the thread that is about to awake it.
LockQueueEmpty(t) ==
  /\ pc[t] = "unqueue"
  /\ sq = <<>>
  /\ Goto(t, "sync")
  /\ UNCHANGED <<alive, owner, sq, lock_count, cond_count, mutex, sched,
                 cancel, timed, woken, stopped, depth>>

LockSync(t) ==
  /\ pc[t] = "sync"
  /\ mutex = None
  /\ Acquired(t)
  /\ Return(t)
  /\ UNCHANGED <<alive, owner, sq, lock_count, cond_count, mutex, sched,
                 cancel, woken, stopped>>

\* CELL_ETIMEDOUT: leave the queue.
LockUnqueue(t) ==
  /\ pc[t] = "unqueue"
  /\ mutex = None
  /\ t \in Range(sq)
  /\ sq' = unqueue(sq, t)
  /\ Return(t)
  /\ UNCHANGED <<alive, owner, lock_count, cond_count, mutex, sched, cancel,
                 woken, stopped, depth>>

\* Mutant: CELL_ETIMEDOUT without looking whether the hand-over came
\* first.
LockUnqueueLateTimedOut(t) ==
  /\ pc[t] = "unqueue"
  /\ mutex = None
  /\ t \notin Range(sq)
  /\ Return(t)
  /\ UNCHANGED <<alive, owner, sq, lock_count, cond_count, mutex, sched,
                 cancel, woken, stopped, depth>>

\* CELL_OK: the mutex was handed over before the thread entered mutex.mutex.
LockUnqueueLate(t) ==
  /\ pc[t] = "unqueue"
  /\ mutex = None
  /\ t \notin Range(sq)
  /\ Acquired(t)
  /\ Return(t)
  /\ UNCHANGED <<alive, owner, sq, lock_count, cond_count, mutex, sched,
                 cancel, woken, stopped>>

----------------------------------------------------------------------------
\* sys_mutex_unlock by the owner; by any other thread it is CELL_EPERM.
UnlockRecursive(t) ==
  /\ pc[t] = "idle"
  /\ alive
  /\ owner = t
  /\ lock_count > 0
  /\ lock_count' = lock_count - 1
  /\ depth' = [depth EXCEPT ![t] = @ - 1]
  /\ UNCHANGED <<alive, owner, sq, cond_count, mutex, sched, cancel, pc, timed,
                 woken, stopped>>

UnlockFast(t) ==
  /\ pc[t] = "idle"
  /\ alive
  /\ owner = t
  /\ lock_count = 0
  /\ sq = <<>>
  /\ owner' = None
  /\ depth' = [depth EXCEPT ![t] = 0]
  /\ UNCHANGED <<alive, sq, lock_count, cond_count, mutex, sched, cancel, pc,
                 timed, woken, stopped>>

UnlockBusy(t) ==
  /\ pc[t] = "idle"
  /\ alive
  /\ owner = t
  /\ lock_count = 0
  /\ sq # <<>>
  /\ Goto(t, "unlock")
  /\ UNCHANGED <<alive, owner, sq, lock_count, cond_count, mutex, sched,
                 cancel, timed, woken, stopped, depth>>

\* reown picks the thread at position i.  A thread that is to repeat its call
\* is left where it is, with the mutex.
Reowns(i) == Schedules(sq, Protocol, Prio, i) /\ pc[sq[i]] # "again"

ReownsAgain == \E i \in DOMAIN sq : /\ Schedules(sq, Protocol, Prio, i)
                                    /\ pc[sq[i]] = "again"

\* The critical section of the unlock: the waiters timed out meanwhile.
UnlockRelease(t) ==
  /\ pc[t] = "unlock"
  /\ mutex = None
  /\ sq = <<>>
  /\ owner' = None
  /\ depth' = [depth EXCEPT ![t] = 0]
  /\ Return(t)
  /\ UNCHANGED <<alive, sq, lock_count, cond_count, mutex, sched, cancel,
                 woken, stopped>>

UnlockAgain(t) ==
  /\ pc[t] = "unlock"
  /\ mutex = None
  /\ ReownsAgain
  /\ ReturnAgain(t)
  /\ UNCHANGED <<alive, owner, sq, lock_count, cond_count, mutex, sched,
                 cancel, woken, stopped, depth>>

\* The critical section of the unlock: hand the mutex over.
UnlockReown(t) ==
  /\ pc[t] = "unlock"
  /\ mutex = None
  /\ \E i \in DOMAIN sq :
       /\ Reowns(i)
       /\ owner' = sq[i]
       /\ sq' = RemoveAt(sq, i)
       /\ woken' = [woken EXCEPT ![t] = {sq[i]}]
  /\ depth' = [depth EXCEPT ![t] = 0]
  /\ mutex' = t
  /\ Goto(t, "unlock_awake")
  /\ UNCHANGED <<alive, lock_count, cond_count, sched, cancel, timed, stopped>>

\* Mutant: the awakening of a thread that is not asleep yet is dropped.
UnlockAwakeNoCancel(t) ==
  /\ pc[t] = "unlock_awake"
  /\ sched' = awake(sched, woken[t])
  /\ cancel' = cancel
  /\ woken' = [woken EXCEPT ![t] = {}]
  /\ mutex' = None
  /\ Return(t)
  /\ UNCHANGED <<alive, owner, sq, lock_count, cond_count, stopped, depth>>

\* awake, and the end of the critical section.
UnlockAwake(t) ==
  /\ pc[t] = "unlock_awake"
  /\ sched' = awake(sched, woken[t])
  /\ cancel' = awake_cancel(cancel, sched, woken[t])
  /\ woken' = [woken EXCEPT ![t] = {}]
  /\ mutex' = None
  /\ Return(t)
  /\ UNCHANGED <<alive, owner, sq, lock_count, cond_count, stopped, depth>>

\* sys_mutex_destroy: idm::withdraw holds the writer lock of
\* id_manager::g_mutex.
Destroy(t) ==
  /\ pc[t] = "idle"
  /\ alive
  /\ \A u \in Threads : ~InIdm(u)
  /\ mutex = None
  /\ owner = None
  /\ cond_count = 0
  /\ alive' = FALSE
  /\ UNCHANGED <<owner, sq, lock_count, cond_count, mutex, sched, cancel, pc,
                 timed, woken, stopped, depth>>

\* The emulator stops the thread, for good or to save its state.
Stop(t) ==
  /\ ~stopped[t]
  /\ stopped' = [stopped EXCEPT ![t] = TRUE]
  /\ UNCHANGED <<alive, owner, sq, lock_count, cond_count, mutex, sched,
                 cancel, pc, timed, woken, depth>>

Lock(t) ==
  \/ TryLock(t) \/ Relock(t) \/ LockBusy(t) \/ LockOwn(t) \/ LockEnqueue(t)
  \/ LockSleep(t) \/ LockSleepCancelled(t) \/ LockSignaled(t) \/ LockStopped(t)
  \/ LockStoppedGranted(t) \/ LockTimeout(t) \/ LockCheckState(t)
  \/ LockCheckStateStopped(t) \/ LockCheckStateAwake(t) \/ LockQueueEmpty(t)
  \/ LockSync(t) \/ LockUnqueue(t) \/ LockUnqueueLate(t)

Unlock(t) ==
  \/ UnlockRecursive(t) \/ UnlockFast(t) \/ UnlockBusy(t) \/ UnlockRelease(t)
  \/ UnlockAgain(t) \/ UnlockReown(t) \/ UnlockAwake(t)

Next == \E t \in Threads : Lock(t) \/ Unlock(t) \/ Destroy(t) \/ Stop(t)

Spec == Init /\ [][Next]_vars

\* What a thread does inside the emulator once it has called: everything but
\* calling, being told to stop and the passing of time.
Kernel(t) ==
  \/ LockOwn(t) \/ LockEnqueue(t) \/ LockSleep(t) \/ LockSleepCancelled(t)
  \/ LockSignaled(t) \/ LockStopped(t) \/ LockStoppedGranted(t)
  \/ LockCheckState(t) \/ LockCheckStateStopped(t) \/ LockCheckStateAwake(t)
  \/ LockQueueEmpty(t) \/ LockSync(t) \/ LockUnqueue(t) \/ LockUnqueueLate(t)
  \/ UnlockRelease(t) \/ UnlockAgain(t) \/ UnlockReown(t) \/ UnlockAwake(t)

\* Each PPU thread is a host thread, and with no more of them than hardware
\* threads (ppu_threads) schedule_all lets every one of them go on.
FairSpec == Spec /\ \A t \in Threads : WF_vars(Kernel(t))

----------------------------------------------------------------------------
\* Between being queued and the return of the lock.
InLock(t) == Waiting(t) \/ pc[t] = "lock_sleep"

\* A thread that was told CELL_OK owns the mutex, so no two threads are inside
\* at once, and one that was told CELL_ETIMEDOUT, or repeats its lock after a
\* savestate, was not handed it: owner and lock_count agree with what every
\* thread was told, whatever the order of hand-over, timeout and stop.  A waiter
\* that is not queued any more has been handed the mutex: the case "the thread
\* must have been signaled" of sys_mutex_lock.  Nobody is queued on a free mutex,
\* and sys_mutex_destroy leaves nobody queued on the dead object or owning it.
OwnershipAgrees ==
  /\ TypeOK
  /\ \A t \in Threads :
       IF InLock(t)
       THEN depth[t] = 0 /\ (owner = t <=> t \notin Range(sq))
       ELSE depth[t] = IF owner = t THEN lock_count + 1 ELSE 0
  /\ sq # <<>> => owner # None
  /\ ~alive => owner = None /\ \A t \in Threads : ~InIdm(t)

\* A waiter that sleeps is queued or about to be awakened, even when it was
\* handed the mutex between try_own and sleep, and no wake-up is left over for the
\* next sleep of a thread, in another call or on another object: it has no signal,
\* and nobody is about to awake it.
WakeupsMatch ==
  \A t \in Threads :
     /\ \/ Waiting(t) /\ sched[t] = "sleep"
        \/ pc[t] = "lock_sleep" /\ cancel[t] # 2
        => t \in Range(sq) \/ \E u \in Threads : t \in woken[u]
     /\ ~InLock(t) /\ pc[t] \notin {"again", "halted"} =>
          /\ sched[t] = "run"
          /\ cancel[t] = IF pc[t] = "own" THEN 1 ELSE 0
          /\ \A u \in Threads : t \notin woken[u]

\* Whoever is handed the mutex, awake, asleep, about to sleep, timing out or
\* told to stop, gets to know: its lock returns CELL_OK.
HandOverCompletes ==
  \A t \in Threads : (InLock(t) /\ owner = t) ~> (depth[t] > 0)
=============================================================================
