------------------------------ MODULE LwMutex ------------------------------
(***************************************************************************)
(* Lightweight mutexes: the lock word in guest memory that sys_lwmutex_*   *)
(* (Modules/sys_lwmutex_.cpp) work on, and the lv2 object behind it        *)
(* (sys_lwmutex.cpp, sys_lwmutex.h) that is called when the word is not    *)
(* free.                                                                   *)
(*                                                                         *)
(* A step is one atomic operation on the word or on lv2_control, one       *)
(* critical section of the lv2 object, or one call of the scheduler.  The  *)
(* kernel part of a lock runs with the id manager locked for reading, and  *)
(* destroy with it locked for writing.  Condition variables, which use the *)
(* same object, are not part of this module.                               *)
(***************************************************************************)
EXTENDS Lv2Sync

CONSTANTS
  Threads,    \* PPU threads
  Prio,       \* their priorities, smaller is more urgent
  Kinds,      \* protocols the mutex may be created with
  MaxCount,   \* bound on recursive_count, 0 if the mutex is not recursive
  Timed,      \* threads that may lock with a timeout
  Destroyers, \* threads that may destroy the mutex
  Stoppable,  \* threads that may be stopped for a savestate
  Saved,      \* calls that may be waiting to be repeated in a savestate
  MaxLoads    \* bound on savestates loaded

LwProtocols == Protocols \cup {"RETRY"}

ASSUME LwMutexAssumption ==
  /\ Prio \in [Threads -> Int]
  /\ Kinds \subseteq LwProtocols
  /\ Saved \subseteq {"aborted", "unlock"}
  /\ MaxCount \in Nat /\ MaxLoads \in Nat

VARIABLES
  protocol,        \* attribute and lv2_lwmutex::protocol
  alive,           \* the lv2 object is in the id manager
  owner,           \* sys_lwmutex_t::owner
  waiter,          \* sys_lwmutex_t::waiter
  recursive_count, \* sys_lwmutex_t::recursive_count
  signaled,        \* the bits of lv2_control.signaled: "own" (1), "retry" (smin)
  sq,              \* lv2_control.sq
  mutex,           \* who is in lv2_lwmutex::mutex
  woken,           \* whom that thread is about to awake
  sched, cancel,   \* see Lv2Sync
  pc,              \* where each thread is
  res,             \* result of the system call (gpr[3])
  call,            \* "lock", "retry" (its loop), "aborted" (repeated after a
                   \* savestate), "trylock", "destroy" or "unlock"
  timed,           \* the lock has a timeout
  stopped,         \* the thread was told to stop
  loads,           \* savestates loaded
  gaveup,          \* history: a thread told to retry found its time passed
  depth            \* history: how many times each thread has the mutex

word == <<owner, waiter, recursive_count>>
object == <<signaled, sq, mutex, woken>>
scheduler == <<sched, cancel>>
thread == <<pc, res, call, timed>>
world == <<protocol, loads, gaveup>>
vars == <<world, alive, word, object, scheduler, thread, stopped, depth>>

Words == Threads \cup {"free", "reserved", "dead"}

TypeOK ==
  /\ protocol \in Kinds
  /\ alive \in BOOLEAN
  /\ owner \in Words /\ waiter \in Nat /\ recursive_count \in 0 .. MaxCount
  /\ signaled \subseteq {"own", "retry"}
  /\ sq \in Seq(Threads)
  /\ mutex \in Threads \cup {"none"} /\ woken \subseteq Threads
  /\ sched \in [Threads -> SchedStates] /\ cancel \in [Threads -> 0 .. 2]
  /\ res \in [Threads -> {"OK", "EBUSY", "ETIMEDOUT", "ESRCH"}]
  /\ call \in [Threads -> {"lock", "retry", "aborted", "trylock", "destroy",
                          "unlock"}]
  /\ timed \in [Threads -> BOOLEAN] /\ stopped \in [Threads -> BOOLEAN]
  /\ gaveup \in BOOLEAN
  /\ depth \in [Threads -> Nat]

Init ==
  /\ protocol \in Kinds
  /\ alive = TRUE
  /\ owner = "free" /\ waiter = 0 /\ recursive_count = 0
  /\ signaled = {} /\ sq = <<>> /\ mutex = "none" /\ woken = {}
  /\ sched = [t \in Threads |-> "run"]
  /\ cancel = [t \in Threads |-> 0]
  /\ pc = [t \in Threads |-> "idle"]
  /\ res = [t \in Threads |-> "OK"]
  /\ call = [t \in Threads |-> "lock"]
  /\ timed = [t \in Threads |-> FALSE]
  /\ stopped = [t \in Threads |-> FALSE]
  /\ loads = 0
  /\ gaveup = FALSE
  /\ depth = [t \in Threads |-> 0]

----------------------------------------------------------------------------
Goto(t, label) == pc' = [pc EXCEPT ![t] = label] /\ UNCHANGED <<res, call, timed>>

Result(t, r, label) ==
  /\ pc' = [pc EXCEPT ![t] = label]
  /\ res' = [res EXCEPT ![t] = r]
  /\ UNCHANGED <<call, timed>>

\* The library function returns: a stopped thread does not call another one.
Return(t) ==
  /\ pc' = [pc EXCEPT ![t] = IF stopped[t] THEN "halted" ELSE "idle"]
  /\ res' = [res EXCEPT ![t] = "OK"]
  /\ call' = [call EXCEPT ![t] = "lock"]
  /\ timed' = [timed EXCEPT ![t] = FALSE]

\* cpu_flag::again: the library function is called again, from its beginning,
\* when the savestate is loaded.
ReturnAgain(t, op) ==
  /\ pc' = [pc EXCEPT ![t] = "again"]
  /\ call' = [call EXCEPT ![t] = op]
  /\ UNCHANGED <<res, timed>>

\* The word is set to t, which has the mutex now.
Own(t) ==
  /\ owner' = t
  /\ depth' = [depth EXCEPT ![t] = 1]

Idle(t) == pc[t] = "idle" /\ owner # "dead"

----------------------------------------------------------------------------
\* sys_lwmutex_lock and sys_lwmutex_trylock on a free word
LockFree(t) ==
  /\ Idle(t)
  /\ owner = "free"
  /\ Own(t)
  /\ Return(t)
  /\ UNCHANGED <<world, alive, waiter, recursive_count, object, scheduler, stopped>>

\* Recursive locking; CELL_EDEADLK and CELL_EKRESOURCE change nothing.
Relock(t) ==
  /\ Idle(t)
  /\ owner = t
  /\ recursive_count < MaxCount
  /\ recursive_count' = recursive_count + 1
  /\ depth' = [depth EXCEPT ![t] = @ + 1]
  /\ Return(t)
  /\ UNCHANGED <<world, alive, owner, waiter, object, scheduler, stopped>>

\* sys_lwmutex_lock on a word that is not free, or again after a savestate
LockBusy(t) ==
  /\ Idle(t)
  /\ owner \notin {"free", t}
  /\ \E timeout \in BOOLEAN :
       /\ timeout => t \in Timed
       /\ timed' = [timed EXCEPT ![t] = timeout]
  /\ pc' = [pc EXCEPT ![t] = "spin"]
  /\ UNCHANGED <<world, alive, word, object, scheduler, res, call, stopped, depth>>

\* The busy waiting finds the word free.
SpinLock(t) ==
  /\ pc[t] = "spin"
  /\ owner = "free"
  /\ Own(t)
  /\ Return(t)
  /\ UNCHANGED <<world, alive, waiter, recursive_count, object, scheduler, stopped>>

\* all_info++
SpinEnd(t) ==
  /\ pc[t] = "spin"
  /\ waiter' = IF call[t] = "aborted" THEN waiter ELSE waiter + 1
  /\ Goto(t, "recheck")
  /\ UNCHANGED <<world, alive, owner, recursive_count, object, scheduler,
                 stopped, depth>>

\* The word is tried once more before the system call.
Recheck(t) ==
  /\ pc[t] = "recheck"
  /\ IF owner = "free"
     THEN Own(t) /\ Goto(t, "uncount")
     ELSE UNCHANGED <<owner, depth>> /\ Goto(t, "syscall")
  /\ UNCHANGED <<world, alive, waiter, recursive_count, object, scheduler, stopped>>

\* all_info-- of a thread that has the mutex
Uncount(t) ==
  /\ pc[t] = "uncount"
  /\ waiter' = waiter - 1
  /\ Return(t)
  /\ UNCHANGED <<world, alive, owner, recursive_count, object, scheduler,
                 stopped, depth>>

\* What the loop after CELL_EBUSY does with the result.
RetryResult(t) ==
  /\ pc[t] = "result"
  /\ call[t] = "retry"
  /\ waiter' = waiter - 1
  /\ CASE res[t] = "OK" -> Own(t) /\ Return(t)
       [] res[t] = "EBUSY" ->
            /\ UNCHANGED <<owner, depth>>
            /\ \/ timed[t] /\ Return(t)
               \/ Result(t, "OK", "spin")
       [] OTHER -> UNCHANGED <<owner, depth>> /\ Return(t)
  /\ gaveup' = (gaveup \/ (res[t] = "EBUSY" /\ pc'[t] # "spin"))
  /\ UNCHANGED <<protocol, loads, alive, recursive_count, object, scheduler, stopped>>

\* all_info--, and what is left to do for the first result
LockResult(t) ==
  /\ pc[t] = "result"
  /\ call[t] \in {"lock", "aborted"}
  /\ waiter' = waiter - 1
  /\ CASE res[t] = "OK" -> Goto(t, "exchange")
       [] res[t] = "EBUSY" /\ protocol = "RETRY" ->
            /\ pc' = [pc EXCEPT ![t] = "spin"]
            /\ res' = [res EXCEPT ![t] = "OK"]
            /\ call' = [call EXCEPT ![t] = "retry"]
            /\ UNCHANGED timed
       [] OTHER -> Return(t)
  /\ UNCHANGED <<world, alive, owner, recursive_count, object, scheduler,
                 stopped, depth>>

\* owner.exchange(tid) after a lock or trylock by system call
Exchange(t) ==
  /\ pc[t] = "exchange"
  /\ Own(t)
  /\ IF call[t] = "destroy" THEN Goto(t, "destroy") ELSE Return(t)
  /\ UNCHANGED <<world, alive, waiter, recursive_count, object, scheduler, stopped>>

----------------------------------------------------------------------------
\* The result that a signal found in lv2_control stands for
SignalResult == IF "own" \in signaled THEN "OK" ELSE "EBUSY"

\* _sys_lwmutex_lock: no such object, a signal to take, or cancel_sleep = 1
LockEnter(t) ==
  /\ pc[t] = "syscall"
  /\ IF ~alive
     THEN Result(t, "ESRCH", "result") /\ UNCHANGED <<signaled, cancel>>
     ELSE IF signaled # {}
          THEN /\ Result(t, SignalResult, "result")
               /\ signaled' = {}
               /\ UNCHANGED cancel
          ELSE /\ Goto(t, "own")
               /\ cancel' = [cancel EXCEPT ![t] = 1]
               /\ UNCHANGED signaled
  /\ UNCHANGED <<world, alive, word, sq, mutex, woken, sched, stopped, depth>>

\* Mutant: a signal that has come meanwhile is not looked for.
TryOwnBlind(t) ==
  /\ pc[t] = "own"
  /\ sq' = emplace(sq, t)
  /\ Result(t, "OK", "sleep")
  /\ UNCHANGED <<world, alive, word, signaled, mutex, woken, sched, cancel,
                 stopped, depth>>

\* try_own: take a signal or get in the queue, before the sleep
TryOwn(t) ==
  /\ pc[t] = "own"
  /\ IF signaled # {}
     THEN /\ Result(t, SignalResult, "result")
          /\ signaled' = {}
          /\ cancel' = [cancel EXCEPT ![t] = 0]
          /\ UNCHANGED sq
     ELSE /\ sq' = emplace(sq, t)
          /\ Result(t, "OK", "sleep")
          /\ UNCHANGED <<signaled, cancel>>
  /\ UNCHANGED <<world, alive, word, mutex, woken, sched, stopped, depth>>

\* lv2_obj::sleep; one that was cancelled is undone when the thread next checks
\* its state, unless it is stopped.
LockSleep(t) ==
  /\ pc[t] = "sleep"
  /\ cancel' = [cancel EXCEPT ![t] = 0]
  /\ IF cancel[t] = 2
     THEN /\ sched' = IF stopped[t] THEN sleep(sched, t) ELSE check_state(sched, t)
          /\ Goto(t, "result")
     ELSE sched' = sleep(sched, t) /\ Goto(t, "waiting")
  /\ UNCHANGED <<world, alive, word, object, stopped, depth>>

\* The waiting loop: the signal has come,
LockSignaled(t) ==
  /\ pc[t] = "waiting"
  /\ sched[t] = "signal"
  /\ sched' = [sched EXCEPT ![t] = "run"]
  /\ Goto(t, "result")
  /\ UNCHANGED <<world, alive, word, object, cancel, stopped, depth>>

\* Mutant: a thread that will repeat its lock is not counted meanwhile.
LockStoppedUncounted(t) ==
  /\ pc[t] = "waiting"
  /\ stopped[t]
  /\ mutex = "none"
  /\ IF t \in Range(sq)
     THEN waiter' = waiter - 1 /\ ReturnAgain(t, "aborted")
     ELSE UNCHANGED waiter /\ Goto(t, "result")
  /\ UNCHANGED <<world, alive, owner, recursive_count, object, scheduler,
                 stopped, depth>>

\* the thread is stopped, and repeats the lock if it is still in the queue,
LockStopped(t) ==
  /\ pc[t] = "waiting"
  /\ stopped[t]
  /\ mutex = "none"
  /\ IF t \in Range(sq) THEN ReturnAgain(t, "aborted") ELSE Goto(t, "result")
  /\ UNCHANGED <<world, alive, word, object, scheduler, stopped, depth>>

\* or the time has passed.
LockTimeout(t) ==
  /\ pc[t] = "waiting"
  /\ timed[t]
  /\ ~stopped[t]
  /\ Goto(t, "timedout")
  /\ UNCHANGED <<world, alive, word, object, scheduler, stopped, depth>>

\* Wait for rescheduling; a stopped thread goes back to the loop.
LockCheckState(t) ==
  /\ pc[t] = "timedout"
  /\ \/ stopped[t] /\ sched[t] # "signal" /\ UNCHANGED sched
     \/ sched' = check_state(sched, t)
  /\ Goto(t, IF stopped[t] THEN "waiting" ELSE "unqueue")
  /\ UNCHANGED <<world, alive, word, object, cancel, stopped, depth>>

\* Sleep queue is empty, so the thread must have been signaled: lock_unlock
LockQueueEmpty(t) ==
  /\ pc[t] = "unqueue"
  /\ sq = <<>>
  /\ Goto(t, "sync")
  /\ UNCHANGED <<world, alive, word, object, scheduler, stopped, depth>>

LockSync(t) ==
  /\ pc[t] = "sync"
  /\ mutex = "none"
  /\ Goto(t, "result")
  /\ UNCHANGED <<world, alive, word, object, scheduler, stopped, depth>>

\* Mutant: CELL_ETIMEDOUT, whether or not the mutex was handed over first.
UnqueueTimedOut(t) ==
  /\ pc[t] = "unqueue"
  /\ mutex = "none"
  /\ sq' = SelectSeq(sq, LAMBDA u : u # t)
  /\ Result(t, "ETIMEDOUT", "result")
  /\ UNCHANGED <<world, alive, word, signaled, mutex, woken, scheduler,
                 stopped, depth>>

\* Leave the queue with CELL_ETIMEDOUT, or with the result of the hand-over.
LockUnqueue(t) ==
  /\ pc[t] = "unqueue"
  /\ mutex = "none"
  /\ IF t \in Range(sq)
     THEN sq' = unqueue(sq, t) /\ Result(t, "ETIMEDOUT", "result")
     ELSE UNCHANGED sq /\ Goto(t, "result")
  /\ UNCHANGED <<world, alive, word, signaled, mutex, woken, scheduler,
                 stopped, depth>>

----------------------------------------------------------------------------
\* sys_lwmutex_trylock or sys_lwmutex_destroy on a reserved word
TryReserved(t, op) ==
  /\ Idle(t)
  /\ owner = "reserved"
  /\ op \in {"trylock"} \cup (IF t \in Destroyers THEN {"destroy"} ELSE {})
  /\ pc' = [pc EXCEPT ![t] = "try"]
  /\ call' = [call EXCEPT ![t] = op]
  /\ UNCHANGED <<world, alive, word, object, scheduler, res, timed, stopped, depth>>

\* _sys_lwmutex_trylock takes the signal, if there is one.
Try(t) ==
  /\ pc[t] = "try"
  /\ IF alive /\ "own" \in signaled
     THEN signaled' = {} /\ Goto(t, "exchange")
     ELSE UNCHANGED signaled /\ Return(t)
  /\ UNCHANGED <<world, alive, word, sq, mutex, woken, scheduler, stopped, depth>>

\* sys_lwmutex_destroy on a free word
DestroyFree(t) ==
  /\ Idle(t)
  /\ t \in Destroyers
  /\ owner = "free"
  /\ Own(t)
  /\ Goto(t, "destroy")
  /\ UNCHANGED <<world, alive, waiter, recursive_count, object, scheduler, stopped>>

\* t is in a lambda that idm runs with its mutex locked for reading.
InIdm(t) == pc[t] \in {"own", "sleep", "awake"}

\* _sys_lwmutex_destroy; the mutex is unlocked again if that fails.
Destroy(t) ==
  /\ pc[t] = "destroy"
  /\ \A u \in Threads : ~InIdm(u)
  /\ alive' = (sq # <<>>)
  /\ Goto(t, IF sq = <<>> THEN "bury" ELSE "unlock")
  /\ UNCHANGED <<world, word, object, scheduler, stopped, depth>>

Bury(t) ==
  /\ pc[t] = "bury"
  /\ owner' = "dead"
  /\ depth' = [depth EXCEPT ![t] = 0]
  /\ Return(t)
  /\ UNCHANGED <<world, alive, waiter, recursive_count, object, scheduler, stopped>>

----------------------------------------------------------------------------
Unlocking(t) == (Idle(t) \/ pc[t] = "unlock") /\ owner = t

UnlockRecursive(t) ==
  /\ Unlocking(t)
  /\ recursive_count > 0
  /\ recursive_count' = recursive_count - 1
  /\ depth' = [depth EXCEPT ![t] = @ - 1]
  /\ Return(t)
  /\ UNCHANGED <<world, alive, owner, waiter, object, scheduler, stopped>>

\* ensure that waiter is zero
UnlockFast(t) ==
  /\ Unlocking(t)
  /\ recursive_count = 0
  /\ waiter = 0
  /\ owner' = "free"
  /\ depth' = [depth EXCEPT ![t] = 0]
  /\ Return(t)
  /\ UNCHANGED <<world, alive, waiter, recursive_count, object, scheduler, stopped>>

UnlockBusy(t) ==
  /\ Unlocking(t)
  /\ recursive_count = 0
  /\ waiter # 0
  /\ Goto(t, "release")
  /\ UNCHANGED <<world, alive, word, object, scheduler, stopped, depth>>

\* Mutant: the word is free as soon as its owner lets go.
UnlockReleaseFree(t) ==
  /\ pc[t] = "release"
  /\ owner' = "free"
  /\ depth' = [depth EXCEPT ![t] = 0]
  /\ Goto(t, "kunlock")
  /\ UNCHANGED <<world, alive, waiter, recursive_count, object, scheduler, stopped>>

\* The word is set to free or reserved; unlock2 or unlock follows.
UnlockRelease(t) ==
  /\ pc[t] = "release"
  /\ owner' = IF protocol = "RETRY" THEN "free" ELSE "reserved"
  /\ depth' = [depth EXCEPT ![t] = 0]
  /\ Goto(t, "kunlock")
  /\ UNCHANGED <<world, alive, waiter, recursive_count, object, scheduler, stopped>>

\* No such object, or nobody in the queue: try_unlock, or reown under the mutex
UnlockSignal(t) ==
  /\ pc[t] = "kunlock"
  /\ ~alive \/ sq = <<>>
  /\ signaled' = IF ~alive THEN signaled
                 ELSE signaled \cup {IF protocol = "RETRY" THEN "retry" ELSE "own"}
  /\ Return(t)
  /\ UNCHANGED <<world, alive, word, sq, mutex, woken, scheduler, stopped, depth>>

Picks(i) == Schedules(sq, IF protocol = "RETRY" THEN "PRIORITY" ELSE protocol, Prio, i)

\* reown: the thread it picks is to repeat its lock.
UnlockAgain(t) ==
  /\ pc[t] = "kunlock"
  /\ alive /\ mutex = "none"
  /\ \E i \in DOMAIN sq : Picks(i) /\ pc[sq[i]] = "again"
  /\ ReturnAgain(t, "unlock")
  /\ UNCHANGED <<world, alive, word, object, scheduler, stopped, depth>>

\* reown: the thread it picks is handed the mutex, or told to retry.
UnlockReown(t) ==
  /\ pc[t] = "kunlock"
  /\ alive /\ mutex = "none"
  /\ \E i \in DOMAIN sq :
       /\ Picks(i) /\ pc[sq[i]] # "again"
       /\ sq' = RemoveAt(sq, i)
       /\ woken' = {sq[i]}
       /\ res' = [res EXCEPT ![sq[i]] = IF protocol = "RETRY" THEN "EBUSY" ELSE "OK"]
  /\ mutex' = t
  /\ pc' = [pc EXCEPT ![t] = "awake"]
  /\ UNCHANGED <<world, alive, word, signaled, scheduler, call, timed, stopped, depth>>

\* awake, and the end of the critical section
UnlockAwake(t) ==
  /\ pc[t] = "awake"
  /\ sched' = awake(sched, woken)
  /\ cancel' = awake_cancel(cancel, sched, woken)
  /\ woken' = {}
  /\ mutex' = "none"
  /\ Return(t)
  /\ UNCHANGED <<world, alive, word, signaled, sq, stopped, depth>>

----------------------------------------------------------------------------
\* The emulator stops the thread.
Stop(t) ==
  /\ t \in Stoppable
  /\ ~stopped[t]
  /\ stopped' = [stopped EXCEPT ![t] = TRUE]
  /\ pc' = [pc EXCEPT ![t] = IF @ = "idle" THEN "halted" ELSE @]
  /\ UNCHANGED <<world, alive, word, object, scheduler, res, call, timed, depth>>

\* All threads are saved and loaded; the queue is not part of the savestate.  An
\* unlock that is repeated finds the word changed by its first part: CELL_EPERM.
Load ==
  /\ loads < MaxLoads
  /\ \A t \in Threads : \/ pc[t] = "halted"
                        \/ pc[t] = "again" /\ call[t] \in Saved
  /\ loads' = loads + 1
  /\ sq' = <<>>
  /\ sched' = [t \in Threads |-> "run"]
  /\ stopped' = [t \in Threads |-> FALSE]
  /\ call' = [t \in Threads |-> IF call[t] = "aborted" THEN "aborted" ELSE "lock"]
  /\ pc' = [t \in Threads |-> IF call[t] = "aborted" THEN "repeat" ELSE "idle"]
  /\ UNCHANGED <<protocol, gaveup, alive, word, signaled, mutex, woken, cancel,
                 res, timed, depth>>

\* sys_lwmutex_lock is called again; CELL_EINVAL if the mutex was destroyed since.
Repeat(t) ==
  /\ pc[t] = "repeat"
  /\ CASE owner = "free" -> Own(t) /\ Return(t)
       [] owner = "dead" -> UNCHANGED <<owner, depth>> /\ Return(t)
       [] OTHER -> UNCHANGED <<owner, depth>> /\ Goto(t, "spin")
  /\ UNCHANGED <<world, alive, waiter, recursive_count, object, scheduler, stopped>>

----------------------------------------------------------------------------
Lock(t) ==
  \/ LockFree(t) \/ Relock(t) \/ LockBusy(t)
  \/ SpinLock(t) \/ SpinEnd(t) \/ Recheck(t) \/ Uncount(t)
  \/ RetryResult(t) \/ LockResult(t) \/ Exchange(t)
  \/ LockEnter(t) \/ TryOwn(t) \/ LockSleep(t)
  \/ LockSignaled(t) \/ LockStopped(t) \/ LockTimeout(t) \/ LockCheckState(t)
  \/ LockQueueEmpty(t) \/ LockSync(t) \/ LockUnqueue(t) \/ Repeat(t)

TryOrDestroy(t) ==
  \/ \E op \in {"trylock", "destroy"} : TryReserved(t, op)
  \/ Try(t) \/ DestroyFree(t) \/ Destroy(t) \/ Bury(t)

Unlock(t) ==
  \/ UnlockRecursive(t) \/ UnlockFast(t) \/ UnlockBusy(t) \/ UnlockRelease(t)
  \/ UnlockSignal(t) \/ UnlockAgain(t) \/ UnlockReown(t) \/ UnlockAwake(t)

Next ==
  \/ Load
  \/ \E t \in Threads : Lock(t) \/ TryOrDestroy(t) \/ Unlock(t) \/ Stop(t)

Spec == Init /\ [][Next]_vars

----------------------------------------------------------------------------
\* Lock, trylock and unlock implement a mutex: whatever the word, the signal and
\* the queue do, nobody is told to have it while somebody else has.
Guest == INSTANCE Monitor WITH locks <- depth, saved <- [t \in Threads |-> 0]

ImplementsMutex == Guest!Spec

\* t was handed the mutex and has not set the word yet.
Heir(t) ==
  \/ pc[t] = "exchange"
  \/ /\ pc[t] \in {"sleep", "waiting", "timedout", "unqueue", "sync", "result"}
     /\ t \notin Range(sq)
     /\ res[t] = "OK"

\* t has given the word up and is still to pass the mutex on, perhaps after a
\* savestate: "Thread must complete the syscall after deserialization".
Unlocker(t) ==
  \/ pc[t] = "kunlock"
  \/ pc[t] = "again" /\ call[t] = "unlock"

\* "Locking failed" is never thrown, and the mutex is never lost: while the word
\* is reserved there is exactly one who brings it on, the thread that unlocks,
\* a signal, or the thread it was handed to; and otherwise there is none.
ReservedHasHeir ==
  protocol # "RETRY" =>
    Cardinality({t \in Threads : Unlocker(t) \/ Heir(t)})
      + Cardinality(signaled) = IF owner = "reserved" THEN 1 ELSE 0

\* Whoever is queued will be thought of: the owner sees a waiter, or somebody is
\* about to unlock or to set the word; with the RETRY protocol somebody is about
\* to look at a word that is free, unless a thread that was told to had no time
\* left.
WaiterHasWaker ==
  /\ TypeOK
  /\ sq # <<>> =>
       /\ alive /\ signaled = {}
       /\ owner \in Threads => waiter > 0
       /\ owner = "free" =>
            /\ protocol = "RETRY"
            /\ \/ gaveup
               \/ \E t \in Threads : \/ pc[t] \in {"spin", "recheck"}
                                     \/ Unlocker(t)
                                     \/ res[t] = "EBUSY"

\* t has counted itself and not taken itself back.
Counted(t) ==
  \/ pc[t] \in {"recheck", "uncount", "syscall", "own", "sleep", "waiting",
                "timedout", "unqueue", "sync", "result"}
  \/ call[t] = "aborted" /\ pc[t] \in {"again", "repeat", "spin"}

\* The count of waiters that unlock relies on never falls short of them, although
\* a lock that is repeated after a savestate does not count itself again.
WaitersCounted ==
  waiter >= Cardinality({t \in Threads : Counted(t)})
=============================================================================
