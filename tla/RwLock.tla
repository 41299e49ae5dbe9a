------------------------------- MODULE RwLock -------------------------------
(***************************************************************************)
(* One lv2 reader-writer lock (sys_rwlock.cpp) and the PPU threads that    *)
(* use it.  lv2_rwlock::owner is one signed number: zero when free, twice  *)
(* the id of the writer, or minus twice the number of readers; its lowest  *)
(* bit (wait bit) tells the lock-free paths that somebody is queued.       *)
(* A step is one atomic access to owner, one critical section of           *)
(* rwlock.mutex, or one pass of the waiting loop; a critical section that  *)
(* awakes threads ends with a step of its own.                             *)
(*                                                                         *)
(* The guest unlocks what it locked, and holds at most one read lock per   *)
(* thread.                                                                 *)
(***************************************************************************)
EXTENDS Lv2Sync

CONSTANTS
  Threads,    \* PPU threads
  Id,         \* Id[t]: ppu_thread::id
  Prio,       \* Prio[t]: priority of t, smaller is more urgent
  Protocol,   \* _attr.protocol
  MaxSize,    \* bound: readers one pass of the writer timeout counts
  None        \* no thread

ASSUME RwLockAssumption ==
  /\ IsFiniteSet(Threads)
  /\ Id \in [Threads -> Nat \ {0}]
  /\ \A t, u \in Threads : Id[t] = Id[u] => t = u
  /\ Protocol \in Protocols
  /\ Prio \in [Threads -> Int]
  /\ MaxSize \in Nat
  /\ None \notin Threads

VARIABLES
  alive,   \* the id is registered
  owner,   \* lv2_rwlock::owner
  rq,      \* lv2_rwlock::rq
  wq,      \* lv2_rwlock::wq
  mutex,   \* the thread inside a critical section of several steps
  sched,   \* scheduler contract, Lv2Sync
  pc,      \* where each thread is
  kind,    \* the lock a thread is waiting for
  arg,     \* the owner a lock-free path read, or readers counted so far
  timed,   \* the call under way has a timeout
  woken,   \* threads taken from a queue and not awakened yet
  stopped, \* is_stopped(ppu.state)
  hold     \* history: the locks each thread was told it has

vars == <<alive, owner, rq, wq, mutex, sched, pc, kind, arg, timed, woken,
          stopped, hold>>

\* Inside the lambda that idm::get and idm::check run under the reader lock
\* of id_manager::g_mutex.
InIdm(t) == pc[t] \in {"rlock_cas", "lock_slow", "runlock_cas"}

Waiting(t) == pc[t] \in {"waiting", "timedout", "unqueue", "sync"}

TypeOK ==
  /\ alive \in BOOLEAN
  /\ owner \in Int
  /\ owner >= -2 * Cardinality(Threads)
  /\ rq \in Seq(Threads)
  /\ wq \in Seq(Threads)
  /\ mutex \in Threads \cup {None}
  /\ sched \in [Threads -> SchedStates]
  /\ pc \in [Threads -> {"idle", "rlock_cas", "lock_slow", "waiting",
                         "timedout", "unqueue", "sync", "runlock_cas",
                         "runlock_slow", "wunlock_slow", "wake_readers",
                         "awake", "again", "halted"}]
  /\ kind \in [Threads -> {"read", "write"}]
  /\ arg \in [Threads -> Int]
  /\ timed \in [Threads -> BOOLEAN]
  /\ woken \in [Threads -> SUBSET Threads]
  /\ stopped \in [Threads -> BOOLEAN]
  /\ hold \in [Threads -> SUBSET {"read", "write"}]

Init ==
  /\ alive = TRUE
  /\ owner = 0
  /\ rq = <<>>
  /\ wq = <<>>
  /\ mutex = None
  /\ sched = [t \in Threads |-> "run"]
  /\ pc = [t \in Threads |-> "idle"]
  /\ kind = [t \in Threads |-> "read"]
  /\ arg = [t \in Threads |-> 0]
  /\ timed = [t \in Threads |-> FALSE]
  /\ woken = [t \in Threads |-> {}]
  /\ stopped = [t \in Threads |-> FALSE]
  /\ hold = [t \in Threads |-> {}]

----------------------------------------------------------------------------
\* The wait bit: val & 1, val | 1 and val & -2.
WaitBit(v) == v % 2 = 1
SetWaitBit(v) == IF WaitBit(v) THEN v ELSE v + 1
ClearWaitBit(v) == v - (v % 2)

\* The condition under which a reader enters without waiting.
Readable(v) == v <= 0 /\ ~WaitBit(v)

\* cpu->id << 1 | !!wq | !!rq.
WriterOwns(w, writers, readers) ==
  2 * Id[w] + (IF writers = <<>> /\ readers = <<>> THEN 0 ELSE 1)

Return(t) ==
  /\ pc' = [pc EXCEPT ![t] = IF stopped[t] THEN "halted" ELSE "idle"]
  /\ kind' = [kind EXCEPT ![t] = "read"]
  /\ arg' = [arg EXCEPT ![t] = 0]
  /\ timed' = [timed EXCEPT ![t] = FALSE]

\* return {} with cpu_flag::again: the call is repeated when the savestate is
\* loaded.
ReturnAgain(t) ==
  /\ pc' = [pc EXCEPT ![t] = "again"]
  /\ arg' = [arg EXCEPT ![t] = 0]
  /\ timed' = [timed EXCEPT ![t] = FALSE]
  /\ UNCHANGED kind

Goto(t, label) == pc' = [pc EXCEPT ![t] = label]

Queue(t) == IF kind[t] = "read" THEN rq ELSE wq

\* CELL_OK of a lock.
Locked(t, k) == hold' = [hold EXCEPT ![t] = @ \cup {k}]

Unlocked(t, k) == hold' = [hold EXCEPT ![t] = @ \ {k}]

\* sys_rwlock_rlock reads owner outside rwlock.mutex.
RLockRead(t) ==
  /\ pc[t] = "idle"
  /\ alive
  /\ "read" \notin hold[t]
  /\ Goto(t, IF Readable(owner) THEN "rlock_cas" ELSE "lock_slow")
  /\ arg' = [arg EXCEPT ![t] = owner]
  /\ kind' = [kind EXCEPT ![t] = "read"]
  /\ \E timeout \in BOOLEAN : timed' = [timed EXCEPT ![t] = timeout]
  /\ UNCHANGED <<alive, owner, rq, wq, mutex, sched, woken, stopped, hold>>

RLockCas(t) ==
  /\ pc[t] = "rlock_cas"
  /\ owner = arg[t]
  /\ owner' = owner - 2
  /\ Locked(t, "read")
  /\ Return(t)
  /\ UNCHANGED <<alive, rq, wq, mutex, sched, woken, stopped>>

RLockCasFailed(t) ==
  /\ pc[t] = "rlock_cas"
  /\ owner # arg[t]
  /\ Goto(t, "lock_slow")
  /\ arg' = [arg EXCEPT ![t] = 0]
  /\ UNCHANGED <<alive, owner, rq, wq, mutex, sched, kind, timed, woken,
                 stopped, hold>>

\* sys_rwlock_tryrlock; CELL_EBUSY changes nothing.
TryRLock(t) ==
  /\ pc[t] = "idle"
  /\ alive
  /\ "read" \notin hold[t]
  /\ Readable(owner)
  /\ owner' = owner - 2
  /\ Locked(t, "read")
  /\ UNCHANGED <<alive, rq, wq, mutex, sched, pc, kind, arg, timed, woken,
                 stopped>>

\* sys_rwlock_wlock and sys_rwlock_trywlock of a free lock.
TryWLock(t) ==
  /\ pc[t] = "idle"
  /\ alive
  /\ owner = 0
  /\ owner' = 2 * Id[t]
  /\ Locked(t, "write")
  /\ UNCHANGED <<alive, rq, wq, mutex, sched, pc, kind, arg, timed, woken,
                 stopped>>

\* sys_rwlock_wlock found owner taken, or taken before its swap.  Its own
\* lock is CELL_EDEADLK and changes nothing.
WLockBusy(t) ==
  /\ pc[t] = "idle"
  /\ alive
  /\ owner # 0
  /\ owner \div 2 # Id[t]
  /\ Goto(t, "lock_slow")
  /\ kind' = [kind EXCEPT ![t] = "write"]
  /\ \E timeout \in BOOLEAN : timed' = [timed EXCEPT ![t] = timeout]
  /\ UNCHANGED <<alive, owner, rq, wq, mutex, sched, arg, woken, stopped,
                 hold>>

\* The critical section of both locks: the lock became available.
RLockSlow(t) ==
  /\ pc[t] = "lock_slow"
  /\ kind[t] = "read"
  /\ mutex = None
  /\ Readable(owner)
  /\ owner' = owner - 2
  /\ Locked(t, "read")
  /\ Return(t)
  /\ UNCHANGED <<alive, rq, wq, mutex, sched, woken, stopped>>

WLockSlow(t) ==
  /\ pc[t] = "lock_slow"
  /\ kind[t] = "write"
  /\ mutex = None
  /\ owner = 0
  /\ owner' = 2 * Id[t]
  /\ Locked(t, "write")
  /\ Return(t)
  /\ UNCHANGED <<alive, rq, wq, mutex, sched, woken, stopped>>

\* The critical section of both locks: set the wait bit, sleep and queue.
RLockSleep(t) ==
  /\ pc[t] = "lock_slow"
  /\ kind[t] = "read"
  /\ mutex = None
  /\ ~Readable(owner)
  /\ owner' = SetWaitBit(owner)
  /\ sched' = sleep(sched, t)
  /\ rq' = emplace(rq, t)
  /\ arg' = [arg EXCEPT ![t] = 0]
  /\ Goto(t, "waiting")
  /\ UNCHANGED <<alive, wq, mutex, kind, timed, woken, stopped, hold>>

WLockSleep(t) ==
  /\ pc[t] = "lock_slow"
  /\ kind[t] = "write"
  /\ mutex = None
  /\ owner # 0
  /\ owner' = SetWaitBit(owner)
  /\ sched' = sleep(sched, t)
  /\ wq' = emplace(wq, t)
  /\ Goto(t, "waiting")
  /\ UNCHANGED <<alive, rq, mutex, kind, arg, timed, woken, stopped, hold>>

----------------------------------------------------------------------------
\* The waiting loop, alike in both locks: the signal has come.
LockSignaled(t) ==
  /\ pc[t] = "waiting"
  /\ sched[t] = "signal"
  /\ sched' = [sched EXCEPT ![t] = "run"]
  /\ Locked(t, kind[t])
  /\ Return(t)
  /\ UNCHANGED <<alive, owner, rq, wq, mutex, woken, stopped>>

\* The thread was told to stop while still queued.
LockStopped(t) ==
  /\ pc[t] = "waiting"
  /\ stopped[t]
  /\ mutex = None
  /\ t \in Range(Queue(t))
  /\ ReturnAgain(t)
  /\ UNCHANGED <<alive, owner, rq, wq, mutex, sched, woken, stopped, hold>>

\* The thread was told to stop after it was given the lock.
LockStoppedGranted(t) ==
  /\ pc[t] = "waiting"
  /\ stopped[t]
  /\ mutex = None
  /\ t \notin Range(Queue(t))
  /\ Locked(t, kind[t])
  /\ Return(t)
  /\ UNCHANGED <<alive, owner, rq, wq, mutex, sched, woken, stopped>>

\* wait_timeout says the time has passed.
\* (A stop between the look at is_stopped and this comes as if after it.)
LockTimeout(t) ==
  /\ pc[t] = "waiting"
  /\ timed[t]
  /\ ~stopped[t]
  /\ Goto(t, "timedout")
  /\ UNCHANGED <<alive, owner, rq, wq, mutex, sched, kind, arg, timed, woken,
                 stopped, hold>>

\* Wait for rescheduling.
LockCheckState(t) ==
  /\ pc[t] = "timedout"
  /\ ~stopped[t]
  /\ sched' = check_state(sched, t)
  /\ Goto(t, "unqueue")
  /\ UNCHANGED <<alive, owner, rq, wq, mutex, kind, arg, timed, woken, stopped,
                 hold>>

\* check_state returns true in a stopped thread, before cpu_sleep.
LockCheckStateStopped(t) ==
  /\ pc[t] = "timedout"
  /\ stopped[t]
  /\ sched[t] # "signal"
  /\ Goto(t, "waiting")
  /\ UNCHANGED <<alive, owner, rq, wq, mutex, sched, kind, arg, timed, woken,
                 stopped, hold>>

\* check_state returns true in a stopped thread, after cpu_sleep or with the
\* signal consumed.
LockCheckStateAwake(t) ==
  /\ pc[t] = "timedout"
  /\ stopped[t]
  /\ sched' = check_state(sched, t)
  /\ Goto(t, "waiting")
  /\ UNCHANGED <<alive, owner, rq, wq, mutex, kind, arg, timed, woken, stopped,
                 hold>>

\* Mutant: return without passing through rwlock.mutex.
RLockQueueEmptyNoSync(t) ==
  /\ pc[t] = "unqueue"
  /\ kind[t] = "read"
  /\ rq = <<>>
  /\ Locked(t, "read")
  /\ Return(t)
  /\ UNCHANGED <<alive, owner, rq, wq, mutex, sched, woken, stopped>>

\* A reader finds rq empty, so it must have been signaled: mutex.lock_unlock
\* waits for the thread that is about to awake it.
RLockQueueEmpty(t) ==
  /\ pc[t] = "unqueue"
  /\ kind[t] = "read"
  /\ rq = <<>>
  /\ Goto(t, "sync")
  /\ UNCHANGED <<alive, owner, rq, wq, mutex, sched, kind, arg, timed, woken,
                 stopped, hold>>

RLockSync(t) ==
  /\ pc[t] = "sync"
  /\ mutex = None
  /\ Locked(t, "read")
  /\ Return(t)
  /\ UNCHANGED <<alive, owner, rq, wq, mutex, sched, woken, stopped>>

\* CELL_ETIMEDOUT of a reader: the wait bit is left for the writers.
RLockUnqueue(t) ==
  /\ pc[t] = "unqueue"
  /\ kind[t] = "read"
  /\ mutex = None
  /\ t \in Range(rq)
  /\ rq' = unqueue(rq, t)
  /\ Return(t)
  /\ UNCHANGED <<alive, owner, wq, mutex, sched, woken, stopped, hold>>

\* CELL_OK of a lock that was given before the thread entered rwlock.mutex.
LockUnqueueLate(t) ==
  /\ pc[t] = "unqueue"
  /\ mutex = None
  /\ t \notin Range(Queue(t))
  /\ Locked(t, kind[t])
  /\ Return(t)
  /\ UNCHANGED <<alive, owner, rq, wq, mutex, sched, woken, stopped>>

\* CELL_ETIMEDOUT of a writer that is not the last, or behind which a writer
\* still has the lock.
WLockUnqueue(t) ==
  /\ pc[t] = "unqueue"
  /\ kind[t] = "write"
  /\ mutex = None
  /\ t \in Range(wq)
  /\ wq' = unqueue(wq, t)
  /\ \/ wq' # <<>>
     \/ rq # <<>> /\ owner >= 0
  /\ Return(t)
  /\ UNCHANGED <<alive, owner, rq, mutex, sched, woken, stopped, hold>>

\* Mutant: the last waiter leaves the wait bit set.
WLockUnqueueKeepsBit(t) ==
  /\ pc[t] = "unqueue"
  /\ kind[t] = "write"
  /\ mutex = None
  /\ wq = <<t>>
  /\ rq = <<>>
  /\ wq' = <<>>
  /\ owner' = owner
  /\ Return(t)
  /\ UNCHANGED <<alive, rq, mutex, sched, woken, stopped, hold>>

\* CELL_ETIMEDOUT of the last waiter: clear the wait bit.
WLockUnqueueLast(t) ==
  /\ pc[t] = "unqueue"
  /\ kind[t] = "write"
  /\ mutex = None
  /\ wq = <<t>>
  /\ rq = <<>>
  /\ wq' = <<>>
  /\ owner' = ClearWaitBit(owner)
  /\ Return(t)
  /\ UNCHANGED <<alive, rq, mutex, sched, woken, stopped, hold>>

\* CELL_ETIMEDOUT of the last writer while readers have the lock: the blocked
\* readers are taken from rq one by one in the critical section.
WLockUnqueueWake(t) ==
  /\ pc[t] = "unqueue"
  /\ kind[t] = "write"
  /\ mutex = None
  /\ wq = <<t>>
  /\ rq # <<>>
  /\ owner < 0
  /\ wq' = <<>>
  /\ mutex' = t
  /\ Goto(t, "wake_readers")
  /\ UNCHANGED <<alive, owner, rq, sched, kind, arg, timed, woken, stopped,
                 hold>>

\* One iteration: size++ and append.  lv2_obj::schedule returns a thread that
\* is to repeat its call without removing it.
WakeReader(t) ==
  /\ pc[t] = "wake_readers"
  /\ rq # <<>>
  /\ arg[t] < MaxSize
  /\ arg' = [arg EXCEPT ![t] = @ + 1]
  /\ woken' = [woken EXCEPT ![t] = @ \cup {Last(rq)}]
  /\ rq' = IF pc[Last(rq)] = "again" THEN rq ELSE Front(rq)
  /\ UNCHANGED <<alive, owner, wq, mutex, sched, pc, kind, timed, stopped,
                 hold>>

\* Mutant: the readers are not added.
WakeReadersUncounted(t) ==
  /\ pc[t] = "wake_readers"
  /\ rq = <<>>
  /\ owner' = ClearWaitBit(owner)
  /\ Goto(t, "awake")
  /\ UNCHANGED <<alive, rq, wq, mutex, sched, kind, arg, timed, woken, stopped,
                 hold>>

\* Add the readers, clear the wait bit.
WakeReadersDone(t) ==
  /\ pc[t] = "wake_readers"
  /\ rq = <<>>
  /\ owner' = ClearWaitBit(owner - 2 * arg[t])
  /\ Goto(t, "awake")
  /\ UNCHANGED <<alive, rq, wq, mutex, sched, kind, arg, timed, woken, stopped,
                 hold>>

\* awake or awake_all, and the end of the critical section.
Awake(t) ==
  /\ pc[t] = "awake"
  /\ sched' = awake(sched, woken[t])
  /\ woken' = [woken EXCEPT ![t] = {}]
  /\ mutex' = None
  /\ Return(t)
  /\ UNCHANGED <<alive, owner, rq, wq, stopped, hold>>
----------------------------------------------------------------------------
\* sys_rwlock_runlock reads owner outside rwlock.mutex.
RUnlockRead(t) ==
  /\ pc[t] = "idle"
  /\ alive
  /\ "read" \in hold[t]
  /\ Goto(t, IF owner < 0 /\ ~WaitBit(owner) THEN "runlock_cas"
             ELSE "runlock_slow")
  /\ arg' = [arg EXCEPT ![t] = owner]
  /\ UNCHANGED <<alive, owner, rq, wq, mutex, sched, kind, timed, woken,
                 stopped, hold>>

RUnlockCas(t) ==
  /\ pc[t] = "runlock_cas"
  /\ owner = arg[t]
  /\ owner' = owner + 2
  /\ Unlocked(t, "read")
  /\ Return(t)
  /\ UNCHANGED <<alive, rq, wq, mutex, sched, woken, stopped>>

RUnlockCasFailed(t) ==
  /\ pc[t] = "runlock_cas"
  /\ owner # arg[t]
  /\ Goto(t, "runlock_slow")
  /\ UNCHANGED <<alive, owner, rq, wq, mutex, sched, kind, arg, timed, woken,
                 stopped, hold>>

\* The critical section: remove one reader.  The last one with the wait bit
\* hands the lock over (below) unless no writer waits, the case that the code
\* follows by ensure(!rq).  owner is negative: this thread is a reader.
WithoutReader(v) == IF v < -1 THEN v + 2 ELSE 0

RUnlockSlow(t) ==
  /\ pc[t] = "runlock_slow"
  /\ mutex = None
  /\ ~(owner = -1 /\ wq # <<>>)
  /\ owner' = WithoutReader(owner)
  /\ Unlocked(t, "read")
  /\ Return(t)
  /\ UNCHANGED <<alive, rq, wq, mutex, sched, woken, stopped>>

\* lv2_obj::schedule picks position i of wq; a thread that is to repeat its
\* call is left where it is.
Picks(i) == Schedules(wq, Protocol, Prio, i) /\ pc[wq[i]] # "again"

PicksAgain == \E i \in DOMAIN wq : /\ Schedules(wq, Protocol, Prio, i)
                                   /\ pc[wq[i]] = "again"

\* Hand the lock over to a writer.
HandOver(t) ==
  /\ \E i \in DOMAIN wq :
       /\ Picks(i)
       /\ wq' = RemoveAt(wq, i)
       /\ owner' = WriterOwns(wq[i], RemoveAt(wq, i), rq)
       /\ woken' = [woken EXCEPT ![t] = {wq[i]}]
  /\ mutex' = t
  /\ Goto(t, "awake")

\* Mutant: any reader that leaves hands the lock over.
RUnlockHandOverEarly(t) ==
  /\ pc[t] = "runlock_slow"
  /\ mutex = None
  /\ owner < 0
  /\ HandOver(t)
  /\ Unlocked(t, "read")
  /\ UNCHANGED <<alive, rq, sched, kind, arg, timed, stopped>>

\* The last reader leaves.
RUnlockHandOver(t) ==
  /\ pc[t] = "runlock_slow"
  /\ mutex = None
  /\ owner = -1
  /\ HandOver(t)
  /\ Unlocked(t, "read")
  /\ UNCHANGED <<alive, rq, sched, kind, arg, timed, stopped>>

RUnlockAgain(t) ==
  /\ pc[t] = "runlock_slow"
  /\ mutex = None
  /\ owner = -1
  /\ PicksAgain
  /\ ReturnAgain(t)
  /\ UNCHANGED <<alive, owner, rq, wq, mutex, sched, woken, stopped, hold>>

\* sys_rwlock_wunlock by the owner; by any other thread it is CELL_EPERM.
WUnlockFast(t) ==
  /\ pc[t] = "idle"
  /\ alive
  /\ owner = 2 * Id[t]
  /\ owner' = 0
  /\ Unlocked(t, "write")
  /\ UNCHANGED <<alive, rq, wq, mutex, sched, pc, kind, arg, timed, woken,
                 stopped>>

WUnlockBusy(t) ==
  /\ pc[t] = "idle"
  /\ alive
  /\ owner = 2 * Id[t] + 1
  /\ Goto(t, "wunlock_slow")
  /\ UNCHANGED <<alive, owner, rq, wq, mutex, sched, kind, arg, timed, woken,
                 stopped, hold>>

WUnlockHandOver(t) ==
  /\ pc[t] = "wunlock_slow"
  /\ mutex = None
  /\ HandOver(t)
  /\ Unlocked(t, "write")
  /\ UNCHANGED <<alive, rq, sched, kind, arg, timed, stopped>>

\* The thread picked, or a reader when no writer waits, is to repeat its call:
\* so is this one.
WUnlockAgain(t) ==
  /\ pc[t] = "wunlock_slow"
  /\ mutex = None
  /\ \/ PicksAgain
     \/ wq = <<>> /\ \E u \in Range(rq) : pc[u] = "again"
  /\ ReturnAgain(t)
  /\ UNCHANGED <<alive, owner, rq, wq, mutex, sched, woken, stopped, hold>>

\* All the readers enter at once.
WUnlockReaders(t) ==
  /\ pc[t] = "wunlock_slow"
  /\ mutex = None
  /\ wq = <<>>
  /\ rq # <<>>
  /\ \A u \in Range(rq) : pc[u] # "again"
  /\ owner' = -2 * Len(rq)
  /\ woken' = [woken EXCEPT ![t] = Range(rq)]
  /\ rq' = <<>>
  /\ mutex' = t
  /\ Goto(t, "awake")
  /\ Unlocked(t, "write")
  /\ UNCHANGED <<alive, wq, sched, kind, arg, timed, stopped>>

WUnlockLast(t) ==
  /\ pc[t] = "wunlock_slow"
  /\ mutex = None
  /\ wq = <<>>
  /\ rq = <<>>
  /\ owner' = 0
  /\ Unlocked(t, "write")
  /\ Return(t)
  /\ UNCHANGED <<alive, rq, wq, mutex, sched, woken, stopped>>

\* sys_rwlock_destroy: idm::withdraw holds the writer lock of
\* id_manager::g_mutex, and owner is read without rwlock.mutex.
Destroy(t) ==
  /\ pc[t] = "idle"
  /\ alive
  /\ \A u \in Threads : ~InIdm(u)
  /\ owner = 0
  /\ alive' = FALSE
  /\ UNCHANGED <<owner, rq, wq, mutex, sched, pc, kind, arg, timed, woken,
                 stopped, hold>>

\* The emulator stops the thread, for good or to save its state.
Stop(t) ==
  /\ ~stopped[t]
  /\ stopped' = [stopped EXCEPT ![t] = TRUE]
  /\ UNCHANGED <<alive, owner, rq, wq, mutex, sched, pc, kind, arg, timed,
                 woken, hold>>

Lock(t) ==
  \/ RLockRead(t) \/ RLockCas(t) \/ RLockCasFailed(t) \/ TryRLock(t)
  \/ TryWLock(t) \/ WLockBusy(t) \/ RLockSlow(t) \/ WLockSlow(t)
  \/ RLockSleep(t) \/ WLockSleep(t)

Wait(t) ==
  \/ LockSignaled(t) \/ LockStopped(t) \/ LockStoppedGranted(t)
  \/ LockTimeout(t) \/ LockCheckState(t) \/ LockCheckStateStopped(t)
  \/ LockCheckStateAwake(t) \/ RLockQueueEmpty(t) \/ RLockSync(t)
  \/ RLockUnqueue(t) \/ LockUnqueueLate(t) \/ WLockUnqueue(t)
  \/ WLockUnqueueLast(t) \/ WLockUnqueueWake(t) \/ WakeReader(t)
  \/ WakeReadersDone(t)

Unlock(t) ==
  \/ RUnlockRead(t) \/ RUnlockCas(t) \/ RUnlockCasFailed(t) \/ RUnlockSlow(t)
  \/ RUnlockHandOver(t) \/ RUnlockAgain(t)
  \/ WUnlockFast(t) \/ WUnlockBusy(t) \/ WUnlockHandOver(t)
  \/ WUnlockAgain(t) \/ WUnlockReaders(t) \/ WUnlockLast(t) \/ Awake(t)

Next ==
  \E t \in Threads : Lock(t) \/ Wait(t) \/ Unlock(t) \/ Destroy(t) \/ Stop(t)

Spec == Init /\ [][Next]_vars

----------------------------------------------------------------------------
\* Told that it has the lock, or given it and not told yet.
Has(t, k) ==
  \/ k \in hold[t]
  \/ Waiting(t) /\ kind[t] = k /\ t \notin Range(Queue(t))

Readers == {t \in Threads : Has(t, "read")}
Writers == {t \in Threads : Has(t, "write")}

\* owner counts exactly the readers, or names exactly the writer, that were
\* told CELL_OK or are about to be, through hand-overs, timeouts and stops:
\* so no writer is inside together with anybody else, and sys_rwlock_destroy
\* leaves nobody with the lock or queued for it.
OwnerAgrees ==
  /\ TypeOK
  /\ mutex = None =>
       \/ Writers = {} /\ owner - (owner % 2) = -2 * Cardinality(Readers)
       \/ /\ Readers = {}
          /\ \E t \in Threads : Writers = {t} /\ owner \div 2 = Id[t]
  /\ ~alive => /\ owner = 0
               /\ rq = <<>> /\ wq = <<>>
               /\ Readers = {} /\ Writers = {}
               /\ \A t \in Threads : ~InIdm(t)

\* The lock-free paths see a waiter: they cannot pass a queue that is not
\* empty, and readers that hold the lock do not turn away others for a writer
\* that has gone.  Readers wait only behind a writer: the ensure(!rq) of
\* sys_rwlock_runlock, and no reader stays blocked when the last writer quits the
\* queue.
WaitBitAgrees ==
  mutex = None =>
    /\ (rq # <<>> \/ wq # <<>>) => WaitBit(owner)
    /\ owner < 0 /\ WaitBit(owner) => wq # <<>>
    /\ rq # <<>> => owner > 0 \/ wq # <<>>

\* A waiter that sleeps is queued or about to be awakened, and no wake-up is left
\* over for the next sleep of a thread, in another call or on another object: it
\* has no signal, and nobody is about to awake it.
WakeupsMatch ==
  \A t \in Threads :
     /\ Waiting(t) /\ sched[t] = "sleep" =>
          t \in Range(Queue(t)) \/ \E u \in Threads : t \in woken[u]
     /\ ~Waiting(t) /\ pc[t] \notin {"again", "halted"} =>
          sched[t] = "run" /\ \A u \in Threads : t \notin woken[u]

\* Readers share and writers exclude, in terms of what each thread was told.
Guest == INSTANCE ReadersWriter

ImplementsReadersWriter == Guest!Spec

\* The writer that times out counts every blocked reader once, "since they are
\* all enqueued anyways" (sys_rwlock_wlock).
ReadersCountedOnce ==
  \A t \in Threads :
     pc[t] = "wake_readers" => arg[t] = Cardinality(woken[t])
=============================================================================
