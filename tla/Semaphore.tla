----------------------------- MODULE Semaphore -----------------------------
(***************************************************************************)
(* One lv2 semaphore (sys_semaphore.cpp) and the PPU threads that use it.  *)
(* A step is one atomic access to val, one critical section of sema.mutex, *)
(* or one pass of the waiting loop; the loop of sys_semaphore_post that    *)
(* schedules the waiters is kept step by step because the lock-free paths  *)
(* run between its iterations.                                             *)
(***************************************************************************)
EXTENDS Lv2Sync

CONSTANTS
  Threads,    \* PPU threads
  Prio,       \* Prio[t]: priority of t, smaller is more urgent
  Protocol,   \* _attr.protocol
  MaxVal,     \* max_val of sys_semaphore_create
  InitVal,    \* initial_val of sys_semaphore_create
  Modulus,    \* number of values of an s32
  Counts,     \* the counts threads post
  None        \* no thread

\* The bounds that sys_semaphore_create enforces, and room for one waiter per
\* thread below zero.
ASSUME SemaAssumption ==
  /\ IsFiniteSet(Threads)
  /\ Protocol \in Protocols
  /\ Prio \in [Threads -> Int]
  /\ MaxVal \in Nat \ {0}
  /\ InitVal \in 0..MaxVal
  /\ Modulus \in Nat
  /\ MaxVal + Cardinality(Threads) < Modulus
  /\ Counts \subseteq Int /\ \A c \in Counts : c < Modulus
  /\ None \notin Threads

VARIABLES
  alive,   \* the id is registered
  val,     \* lv2_sema::val
  sq,      \* lv2_sema::sq
  mutex,   \* the thread inside a critical section of several steps
  sched,   \* scheduler contract, Lv2Sync
  pc,      \* where each thread is
  arg,     \* the val a lock-free path read, or the waiters left to schedule
  count,   \* the count of the post under way
  timed,   \* the wait under way has a timeout
  woken,   \* g_to_awake of each thread
  stopped, \* is_stopped(ppu.state)
  tokens   \* history: initial value, plus posted, minus acquired

vars == <<alive, val, sq, mutex, sched, pc, arg, count, timed, woken, stopped,
          tokens>>

\* Inside the lambda that idm::get and idm::check run under the reader lock
\* of id_manager::g_mutex.
InIdm(t) == pc[t] \in {"wait_cas", "wait_slow", "post_cas"}

Waiting(t) == pc[t] \in {"waiting", "timedout", "unqueue"}

TypeOK ==
  /\ alive \in BOOLEAN
  /\ val \in Int
  /\ sq \in Seq(Threads)
  /\ mutex \in Threads \cup {None}
  /\ sched \in [Threads -> SchedStates]
  /\ pc \in [Threads -> {"idle", "wait_cas", "wait_slow", "waiting", "timedout",
                         "unqueue", "post_cas", "post_slow", "post_wake",
                         "again", "halted"}]
  /\ arg \in [Threads -> Int]
  /\ count \in [Threads -> Counts \cup {0}]
  /\ timed \in [Threads -> BOOLEAN]
  /\ woken \in [Threads -> SUBSET Threads]
  /\ stopped \in [Threads -> BOOLEAN]
  /\ tokens \in Int

Init ==
  /\ alive = TRUE
  /\ val = InitVal
  /\ sq = <<>>
  /\ mutex = None
  /\ sched = [t \in Threads |-> "run"]
  /\ pc = [t \in Threads |-> "idle"]
  /\ arg = [t \in Threads |-> 0]
  /\ count = [t \in Threads |-> 0]
  /\ timed = [t \in Threads |-> FALSE]
  /\ woken = [t \in Threads |-> {}]
  /\ stopped = [t \in Threads |-> FALSE]
  /\ tokens = InitVal

----------------------------------------------------------------------------
\* The end of a system call.  Every call sets cpu_flag::wait, so check_state
\* runs after it and a stopped thread does not enter another one.
Return(t) ==
  /\ pc' = [pc EXCEPT ![t] = IF stopped[t] THEN "halted" ELSE "idle"]
  /\ arg' = [arg EXCEPT ![t] = 0]
  /\ count' = [count EXCEPT ![t] = 0]
  /\ timed' = [timed EXCEPT ![t] = FALSE]

\* return {} with cpu_flag::again: the call is repeated when the savestate is
\* loaded.
ReturnAgain(t) ==
  /\ pc' = [pc EXCEPT ![t] = "again"]
  /\ arg' = [arg EXCEPT ![t] = 0]
  /\ count' = [count EXCEPT ![t] = 0]
  /\ timed' = [timed EXCEPT ![t] = FALSE]

Goto(t, label) == pc' = [pc EXCEPT ![t] = label]

\* sys_semaphore_wait reads val outside sema.mutex.
WaitRead(t) ==
  /\ pc[t] = "idle"
  /\ alive
  /\ Goto(t, IF val > 0 THEN "wait_cas" ELSE "wait_slow")
  /\ arg' = [arg EXCEPT ![t] = val]
  /\ \E timeout \in BOOLEAN : timed' = [timed EXCEPT ![t] = timeout]
  /\ UNCHANGED <<alive, val, sq, mutex, sched, count, woken, stopped, tokens>>

WaitCas(t) ==
  /\ pc[t] = "wait_cas"
  /\ val = arg[t]
  /\ val' = val - 1
  /\ tokens' = tokens - 1
  /\ Return(t)
  /\ UNCHANGED <<alive, sq, mutex, sched, woken, stopped>>

WaitCasFailed(t) ==
  /\ pc[t] = "wait_cas"
  /\ val # arg[t]
  /\ Goto(t, "wait_slow")
  /\ UNCHANGED <<alive, val, sq, mutex, sched, arg, count, timed, woken,
                 stopped, tokens>>

\* The critical section of the wait: a token came after all.
WaitTake(t) ==
  /\ pc[t] = "wait_slow"
  /\ mutex = None
  /\ val > 0
  /\ val' = val - 1
  /\ tokens' = tokens - 1
  /\ Return(t)
  /\ UNCHANGED <<alive, sq, mutex, sched, woken, stopped>>

\* The critical section of the wait: the thread sleeps and is queued.
WaitEnqueue(t) ==
  /\ pc[t] = "wait_slow"
  /\ mutex = None
  /\ val <= 0
  /\ val' = val - 1
  /\ sched' = sleep(sched, t)
  /\ sq' = emplace(sq, t)
  /\ Goto(t, "waiting")
  /\ arg' = [arg EXCEPT ![t] = 0]
  /\ UNCHANGED <<alive, mutex, count, timed, woken, stopped, tokens>>

\* The waiting loop: the signal has come.
WaitSignaled(t) ==
  /\ pc[t] = "waiting"
  /\ sched[t] = "signal"
  /\ sched' = [sched EXCEPT ![t] = "run"]
  /\ tokens' = tokens - 1
  /\ Return(t)
  /\ UNCHANGED <<alive, val, sq, mutex, woken, stopped>>

\* The waiting loop: the thread was told to stop while still queued.
WaitStopped(t) ==
  /\ pc[t] = "waiting"
  /\ stopped[t]
  /\ mutex = None
  /\ t \in Range(sq)
  /\ ReturnAgain(t)
  /\ UNCHANGED <<alive, val, sq, mutex, sched, woken, stopped, tokens>>

\* Mutant: the stopped thread repeats its wait without looking at the queue.
WaitStoppedForgets(t) ==
  /\ pc[t] = "waiting"
  /\ stopped[t]
  /\ mutex = None
  /\ t \notin Range(sq)
  /\ ReturnAgain(t)
  /\ UNCHANGED <<alive, val, sq, mutex, sched, woken, stopped, tokens>>

\* The waiting loop: the thread was told to stop after a post granted it a
\* token.
WaitStoppedGranted(t) ==
  /\ pc[t] = "waiting"
  /\ stopped[t]
  /\ mutex = None
  /\ t \notin Range(sq)
  /\ tokens' = tokens - 1
  /\ Return(t)
  /\ UNCHANGED <<alive, val, sq, mutex, sched, woken, stopped>>

\* The waiting loop: wait_timeout says the time has passed.  The signal may
\* come at any moment after that.
WaitTimeout(t) ==
  /\ pc[t] = "waiting"
  /\ timed[t]
  /\ Goto(t, "timedout")
  /\ UNCHANGED <<alive, val, sq, mutex, sched, arg, count, timed, woken,
                 stopped, tokens>>

\* Mutant: the timed-out thread does not wait for rescheduling.
WaitNoCheckState(t) ==
  /\ pc[t] = "timedout"
  /\ ~stopped[t]
  /\ Goto(t, "unqueue")
  /\ UNCHANGED <<alive, val, sq, mutex, sched, arg, count, timed, woken,
                 stopped, tokens>>

\* Wait for rescheduling.
WaitCheckState(t) ==
  /\ pc[t] = "timedout"
  /\ ~stopped[t]
  /\ Goto(t, "unqueue")
  /\ sched' = check_state(sched, t)
  /\ UNCHANGED <<alive, val, sq, mutex, arg, count, timed, woken, stopped,
                 tokens>>

\* check_state returns true in a stopped thread, before or after cpu_sleep.
WaitCheckStateStopped(t) ==
  /\ pc[t] = "timedout"
  /\ stopped[t]
  /\ Goto(t, "waiting")
  /\ \/ sched[t] # "signal" /\ UNCHANGED sched
     \/ sched' = check_state(sched, t)
  /\ UNCHANGED <<alive, val, sq, mutex, arg, count, timed, woken, stopped,
                 tokens>>

\* Mutant: the timed-out thread leaves the queue but not the count.
WaitUnqueueKeepsVal(t) ==
  /\ pc[t] = "unqueue"
  /\ mutex = None
  /\ t \in Range(sq)
  /\ sq' = unqueue(sq, t)
  /\ Return(t)
  /\ UNCHANGED <<alive, val, mutex, sched, woken, stopped, tokens>>

\* CELL_ETIMEDOUT: leave the queue and return what the wait took from val.
WaitUnqueue(t) ==
  /\ pc[t] = "unqueue"
  /\ mutex = None
  /\ t \in Range(sq)
  /\ sq' = unqueue(sq, t)
  /\ val' = IF val < 0 THEN val + 1 ELSE val
  /\ Return(t)
  /\ UNCHANGED <<alive, mutex, sched, woken, stopped, tokens>>

\* CELL_OK: a post has already taken the thread out of the queue.
WaitUnqueueLate(t) ==
  /\ pc[t] = "unqueue"
  /\ mutex = None
  /\ t \notin Range(sq)
  /\ tokens' = tokens - 1
  /\ Return(t)
  /\ UNCHANGED <<alive, val, sq, mutex, sched, woken, stopped>>

\* sys_semaphore_trywait: try_dec(0).
TryWait(t) ==
  /\ pc[t] = "idle"
  /\ alive
  /\ val > 0
  /\ val' = val - 1
  /\ tokens' = tokens - 1
  /\ UNCHANGED <<alive, sq, mutex, sched, pc, arg, count, timed, woken,
                 stopped>>

----------------------------------------------------------------------------
\* sys_semaphore_post reads val outside sema.mutex.
PostRead(t) ==
  /\ pc[t] = "idle"
  /\ alive
  /\ \E c \in Counts :
       /\ count' = [count EXCEPT ![t] = c]
       /\ Goto(t, IF val >= 0 /\ c > 0 /\ c <= MaxVal - val
                  THEN "post_cas" ELSE "post_slow")
  /\ arg' = [arg EXCEPT ![t] = val]
  /\ UNCHANGED <<alive, val, sq, mutex, sched, timed, woken, stopped, tokens>>

PostCas(t) ==
  /\ pc[t] = "post_cas"
  /\ val = arg[t]
  /\ val' = val + count[t]
  /\ tokens' = tokens + count[t]
  /\ Return(t)
  /\ UNCHANGED <<alive, sq, mutex, sched, woken, stopped>>

PostCasFailed(t) ==
  /\ pc[t] = "post_cas"
  /\ val # arg[t]
  /\ Goto(t, "post_slow")
  /\ UNCHANGED <<alive, val, sq, mutex, sched, arg, count, timed, woken,
                 stopped, tokens>>

PostInvalid(t) ==
  /\ pc[t] = "post_slow"
  /\ count[t] <= 0
  /\ Return(t)
  /\ UNCHANGED <<alive, val, sq, mutex, sched, woken, stopped, tokens>>

\* Mutant: one token too many fits.
FitsOffByOne(c, v) == c % Modulus <= (MaxVal - v + 1) % Modulus

\* The test of the slow path, in 32-bit unsigned arithmetic.
Fits(c, v) == c % Modulus <= (MaxVal - v) % Modulus

Smaller(a, b) == IF a < b THEN a ELSE b

\* The slow path enters sema.mutex.
PostEnter(t) ==
  /\ pc[t] = "post_slow"
  /\ count[t] > 0
  /\ mutex = None

\* A queued thread is waiting for the savestate: repeat the post after it.
PostAgain(t) ==
  /\ PostEnter(t)
  /\ \E w \in Range(sq) : pc[w] = "again"
  /\ ReturnAgain(t)
  /\ UNCHANGED <<alive, val, sq, mutex, sched, woken, stopped, tokens>>

PostBusy(t) ==
  /\ PostEnter(t)
  /\ \A w \in Range(sq) : pc[w] # "again"
  /\ ~Fits(count[t], val)
  /\ Return(t)
  /\ UNCHANGED <<alive, val, sq, mutex, sched, woken, stopped, tokens>>

\* Add the count; to_awake waiters are to be scheduled.
PostAdd(t) ==
  /\ PostEnter(t)
  /\ \A w \in Range(sq) : pc[w] # "again"
  /\ Fits(count[t], val)
  /\ val' = val + count[t]
  /\ tokens' = tokens + count[t]
  /\ mutex' = t
  /\ arg' = [arg EXCEPT ![t] = Smaller(-Smaller(val, 0), count[t])]
  /\ Goto(t, "post_wake")
  /\ UNCHANGED <<alive, sq, sched, count, timed, woken, stopped>>

\* One iteration of the loop that appends waiters to g_to_awake.
PostSchedule(t) ==
  /\ pc[t] = "post_wake"
  /\ arg[t] > 0
  /\ \E i \in DOMAIN sq :
       /\ Schedules(sq, Protocol, Prio, i)
       /\ woken' = [woken EXCEPT ![t] = @ \cup {sq[i]}]
       /\ sq' = RemoveAt(sq, i)
  /\ arg' = [arg EXCEPT ![t] = @ - 1]
  /\ UNCHANGED <<alive, val, mutex, sched, pc, count, timed, stopped, tokens>>

\* awake_all, and the end of the critical section.
PostAwake(t) ==
  /\ pc[t] = "post_wake"
  /\ arg[t] = 0
  /\ sched' = awake(sched, woken[t])
  /\ woken' = [woken EXCEPT ![t] = {}]
  /\ mutex' = None
  /\ Return(t)
  /\ UNCHANGED <<alive, val, sq, stopped, tokens>>

\* sys_semaphore_destroy: idm::withdraw holds the writer lock of
\* id_manager::g_mutex.
Destroy(t) ==
  /\ pc[t] = "idle"
  /\ alive
  /\ \A u \in Threads : ~InIdm(u)
  /\ val >= 0
  /\ alive' = FALSE
  /\ UNCHANGED <<val, sq, mutex, sched, pc, arg, count, timed, woken, stopped,
                 tokens>>

\* The emulator stops the thread, for good or to save its state.
Stop(t) ==
  /\ ~stopped[t]
  /\ stopped' = [stopped EXCEPT ![t] = TRUE]
  /\ UNCHANGED <<alive, val, sq, mutex, sched, pc, arg, count, timed, woken,
                 tokens>>

Wait(t) ==
  \/ WaitRead(t) \/ WaitCas(t) \/ WaitCasFailed(t) \/ WaitTake(t)
  \/ WaitEnqueue(t) \/ WaitSignaled(t) \/ WaitStopped(t)
  \/ WaitStoppedGranted(t) \/ WaitTimeout(t) \/ WaitCheckState(t)
  \/ WaitCheckStateStopped(t) \/ WaitUnqueue(t) \/ WaitUnqueueLate(t)

Post(t) ==
  \/ PostRead(t) \/ PostCas(t) \/ PostCasFailed(t) \/ PostInvalid(t)
  \/ PostAgain(t) \/ PostBusy(t) \/ PostAdd(t) \/ PostSchedule(t)
  \/ PostAwake(t)

Next ==
  \E t \in Threads : Wait(t) \/ TryWait(t) \/ Post(t) \/ Destroy(t) \/ Stop(t)

Spec == Init /\ [][Next]_vars

----------------------------------------------------------------------------
\* Threads that a post took out of the queue and whose wait has not returned.
Granted == {t \in Threads : Waiting(t) /\ t \notin Range(sq)}

\* Waiters that the post under way has still to schedule.
Unscheduled == IF mutex = None THEN 0 ELSE arg[mutex]

\* No token is lost or handed out twice, whatever the order of posts, waits,
\* timeouts and stops: what is in val, plus the waiters it counts below zero,
\* plus the waiters that were granted a token they have not reported yet.
TokensConserved == val + Len(sq) + Cardinality(Granted) = tokens

\* Below zero, val counts the queued threads: the relation on which to_awake
\* and ensure(schedule(...)) in sys_semaphore_post rely.
QueueMatchesVal == Len(sq) = Unscheduled - Smaller(val, 0)

\* sys_semaphore_wait: ensure(0 > val) of the timeout path, and the value
\* never leaves the range that sys_semaphore_create sets up, although the
\* slow path of the post compares unsigned numbers.
ValInRange ==
  /\ val <= MaxVal
  /\ \A t \in Threads :
       pc[t] = "unqueue" /\ mutex = None /\ t \in Range(sq) => val < 0

\* The value is exact: it counts the waiters, and it stays in its range.
ValAgrees == QueueMatchesVal /\ ValInRange

\* A sleeping waiter is in the queue or in the list that the post under way
\* is about to awake: nobody can be forgotten between the two.
NoLostWakeup ==
  \A t \in Threads :
     Waiting(t) /\ sched[t] = "sleep" =>
        t \in Range(sq) \/ \E u \in Threads : t \in woken[u]

\* No wake-up is left over: a thread outside a wait has no signal pending, so
\* its next lv2_obj::sleep neither fails nor returns at once.
NoStaleSignal ==
  \A t \in Threads :
     pc[t] \in {"idle", "wait_cas", "wait_slow", "post_cas", "post_slow",
                "post_wake"} => sched[t] = "run"

\* sys_semaphore_destroy leaves nobody queued on the dead object, although a
\* post that found it earlier may still be scheduling waiters.
DestroyedIsEmpty == ~alive /\ mutex = None => sq = <<>>

\* sys_semaphore_wait, sys_semaphore_post and sys_semaphore_destroy: wake-ups and
\* sleeping waiters match.  Nobody sleeps out of reach of the posts, on a dead
\* object or otherwise, and nobody is left with a signal it did not wait for.
WakeupsMatch == NoLostWakeup /\ NoStaleSignal /\ DestroyedIsEmpty

\* Once every thread is between calls, halted or to repeat its call, the value
\* lv2_sema::save writes (val, or zero when it is negative) is the number of
\* tokens: repeating the interrupted waits and posts loses nothing.
SavestateKeepsTokens ==
  (\A t \in Threads : pc[t] \in {"idle", "halted", "again"}) =>
     val - Smaller(val, 0) = tokens
=============================================================================
