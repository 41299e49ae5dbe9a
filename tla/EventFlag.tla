----------------------------- MODULE EventFlag -----------------------------
(***************************************************************************)
(* One lv2 event flag (sys_event_flag.cpp) and the threads that use it.    *)
(* The pattern is a set of bits.  Waits and trywaits that find their bits, *)
(* and clears, change it outside of flag.mutex, and so only ever remove    *)
(* bits while sys_event_flag_set, which is inside, serves the waiters: it  *)
(* reads the pattern, computes in one go whom the new bits serve and what  *)
(* they leave, and then changes the pattern in one atomic operation if the *)
(* bits it relied on are still there, or begins again.                     *)
(*                                                                         *)
(* A step is one atomic access to the pattern, one critical section of     *)
(* flag.mutex, or one pass of the waiting loop; the reading of the pattern *)
(* by a set, its atomic operation and the awakening are three steps.       *)
(***************************************************************************)
EXTENDS Lv2Sync

Seqs == INSTANCE SequencesExt

CONSTANTS
  Threads,    \* PPU threads
  Prio,       \* Prio[t]: priority of t, smaller is more urgent
  Protocol,   \* _attr.protocol
  Bits,       \* the bits of the pattern
  Waits,      \* Waits[t]: the waits t calls
  Tries,      \* Tries[t]: the trywaits t calls
  Sets,       \* Sets[t]: the bits t sets at once
  Keeps,      \* Keeps[t]: the masks with which t clears
  Cancelers,  \* threads that call sys_event_flag_cancel
  Stoppable,  \* threads the emulator may stop
  None        \* no thread

\* bitptn and mode of a wait: all bits or any of them, and what is cleared.
WaitArgs == [bits: SUBSET Bits, all: BOOLEAN,
             clear: {"none", "bits", "all"}]

NoWait == [bits |-> {}, all |-> TRUE, clear |-> "none"]

ASSUME EventFlagAssumption ==
  /\ IsFiniteSet(Threads)
  /\ Protocol \in Protocols
  /\ Prio \in [Threads -> Int]
  /\ Waits \in [Threads -> SUBSET WaitArgs]
  /\ Tries \in [Threads -> SUBSET WaitArgs]
  /\ Sets \in [Threads -> SUBSET SUBSET Bits]
  /\ Keeps \in [Threads -> SUBSET SUBSET Bits]
  /\ Cancelers \subseteq Threads
  /\ Stoppable \subseteq Threads
  /\ None \notin Threads

VARIABLES
  single,  \* type = SYS_SYNC_WAITER_SINGLE, chosen when the flag is created
  alive,   \* the id is registered
  pattern, \* lv2_event_flag::pattern
  sq,      \* lv2_event_flag::sq
  mutex,   \* the thread inside a critical section of several steps
  sched,   \* scheduler contract, Lv2Sync
  pc,      \* where each thread is
  wait,    \* gpr[4] and gpr[5] of a wait
  ret,     \* gpr[3] of a wait: -1 is "none"
  result,  \* gpr[6] of a wait
  timed,   \* the wait under way has a timeout
  set,     \* the locals of a set
  woken,   \* g_to_awake of each thread
  stopped  \* is_stopped(ppu.state)

vars == <<single, alive, pattern, sq, mutex, sched, pc, wait, ret, result, timed, set,
          woken, stopped>>

InIdm(t) == pc[t] = "wait_slow"

Waiting(t) == pc[t] \in {"waiting", "timedout", "unqueue"}

\* bitptn, pattern, to_write, dependant_mask and count # 0.
SetLocals == [bits: SUBSET Bits, seen: SUBSET Bits, to_write: SUBSET Bits,
              dependant: SUBSET Bits, any: BOOLEAN]

NoSet == [bits |-> {}, seen |-> {}, to_write |-> {}, dependant |-> {},
          any |-> FALSE]

TypeOK ==
  /\ single \in BOOLEAN
  /\ alive \in BOOLEAN
  /\ pattern \subseteq Bits
  /\ sq \in Seq(Threads)
  /\ mutex \in Threads \cup {None}
  /\ sched \in [Threads -> SchedStates]
  /\ pc \in [Threads -> {"idle", "wait_slow", "waiting", "timedout", "unqueue",
                         "set_slow", "set_commit", "awake", "again", "halted"}]
  /\ wait \in [Threads -> WaitArgs]
  /\ ret \in [Threads -> {"none", "ok", "canceled"}]
  /\ result \in [Threads -> SUBSET Bits]
  /\ timed \in [Threads -> BOOLEAN]
  /\ set \in [Threads -> SetLocals]
  /\ \A t \in Threads : set[t].dependant \cap set[t].bits = {}
  /\ woken \in [Threads -> SUBSET Threads]
  /\ stopped \in [Threads -> BOOLEAN]

Init ==
  /\ single \in BOOLEAN
  /\ alive = TRUE
  /\ pattern \in SUBSET Bits
  /\ sq = <<>>
  /\ mutex = None
  /\ sched = [t \in Threads |-> "run"]
  /\ pc = [t \in Threads |-> "idle"]
  /\ wait = [t \in Threads |-> NoWait]
  /\ ret = [t \in Threads |-> "none"]
  /\ result = [t \in Threads |-> {}]
  /\ timed = [t \in Threads |-> FALSE]
  /\ set = [t \in Threads |-> NoSet]
  /\ woken = [t \in Threads |-> {}]
  /\ stopped = [t \in Threads |-> FALSE]

----------------------------------------------------------------------------
\* check_pattern: whether the pattern has what the wait asks for, and what the
\* wait then leaves of it.
Satisfied(pat, w) ==
  IF w.all THEN w.bits \subseteq pat ELSE w.bits \cap pat # {}

Left(pat, w) ==
  CASE w.clear = "none" -> pat
    [] w.clear = "bits" -> pat \ w.bits
    [] w.clear = "all"  -> {}

\* The end of a system call; the registers of a wait are dead after it.
Finish(t, label) ==
  /\ pc' = [pc EXCEPT ![t] = label]
  /\ wait' = [wait EXCEPT ![t] = NoWait]
  /\ ret' = [ret EXCEPT ![t] = "none"]
  /\ result' = [result EXCEPT ![t] = {}]
  /\ timed' = [timed EXCEPT ![t] = FALSE]
  /\ set' = [set EXCEPT ![t] = NoSet]

Return(t) == Finish(t, IF stopped[t] THEN "halted" ELSE "idle")

\* return {} with cpu_flag::again: the call is repeated when the savestate is
\* loaded.
ReturnAgain(t) == Finish(t, "again")

Goto(t, label) == pc' = [pc EXCEPT ![t] = label]

----------------------------------------------------------------------------
\* sys_event_flag_trywait, and the first attempt of sys_event_flag_wait, when
\* the bits are there.
Take(t) ==
  /\ pc[t] = "idle"
  /\ alive
  /\ \E w \in Waits[t] \cup Tries[t] :
       Satisfied(pattern, w) /\ pattern' = Left(pattern, w)
  /\ Return(t)
  /\ UNCHANGED <<single, alive, sq, mutex, sched, woken, stopped>>

\* The first attempt of sys_event_flag_wait, when they are not.
WaitFirst(t) ==
  /\ pc[t] = "idle"
  /\ alive
  /\ \E w \in Waits[t] :
       /\ ~Satisfied(pattern, w)
       /\ wait' = [wait EXCEPT ![t] = w]
  /\ \E timeout \in BOOLEAN : timed' = [timed EXCEPT ![t] = timeout]
  /\ result' = [result EXCEPT ![t] = pattern]
  /\ Goto(t, "wait_slow")
  /\ UNCHANGED <<single, alive, pattern, sq, mutex, sched, ret, set, woken,
                 stopped>>

\* The critical section of the wait: the bits came after all.
WaitTake(t) ==
  /\ pc[t] = "wait_slow"
  /\ mutex = None
  /\ Satisfied(pattern, wait[t])
  /\ pattern' = Left(pattern, wait[t])
  /\ Return(t)
  /\ UNCHANGED <<single, alive, sq, mutex, sched, woken, stopped>>

\* The critical section of the wait: CELL_EPERM.
WaitRefused(t) ==
  /\ pc[t] = "wait_slow"
  /\ mutex = None
  /\ ~Satisfied(pattern, wait[t])
  /\ single /\ sq # <<>>
  /\ Return(t)
  /\ UNCHANGED <<single, alive, pattern, sq, mutex, sched, woken, stopped>>

\* Mutant: the pattern is not looked at again inside flag.mutex.
WaitEnqueueBlind(t) ==
  /\ pc[t] = "wait_slow"
  /\ mutex = None
  /\ ~single \/ sq = <<>>
  /\ sched' = sleep(sched, t)
  /\ sq' = emplace(sq, t)
  /\ result' = [result EXCEPT ![t] = pattern]
  /\ Goto(t, "waiting")
  /\ UNCHANGED <<single, alive, pattern, mutex, wait, ret, timed, set, woken,
                 stopped>>

\* The critical section of the wait: the thread sleeps and is queued.
WaitEnqueue(t) ==
  /\ pc[t] = "wait_slow"
  /\ mutex = None
  /\ ~Satisfied(pattern, wait[t])
  /\ ~single \/ sq = <<>>
  /\ sched' = sleep(sched, t)
  /\ sq' = emplace(sq, t)
  /\ result' = [result EXCEPT ![t] = pattern]
  /\ Goto(t, "waiting")
  /\ UNCHANGED <<single, alive, pattern, mutex, wait, ret, timed, set, woken,
                 stopped>>

\* The waiting loop: the signal has come.
WaitSignaled(t) ==
  /\ pc[t] = "waiting"
  /\ sched[t] = "signal"
  /\ sched' = [sched EXCEPT ![t] = "run"]
  /\ Return(t)
  /\ UNCHANGED <<single, alive, pattern, sq, mutex, woken, stopped>>

\* The waiting loop: the thread was told to stop while still queued.
WaitStopped(t) ==
  /\ pc[t] = "waiting"
  /\ stopped[t]
  /\ mutex = None
  /\ t \in Range(sq)
  /\ Goto(t, "again")
  /\ UNCHANGED <<single, alive, pattern, sq, mutex, sched, wait, ret, result,
                 timed, set, woken, stopped>>

\* The waiting loop: the thread was told to stop after its wait was served or
\* canceled.
WaitStoppedServed(t) ==
  /\ pc[t] = "waiting"
  /\ stopped[t]
  /\ mutex = None
  /\ t \notin Range(sq)
  /\ Return(t)
  /\ UNCHANGED <<single, alive, pattern, sq, mutex, sched, woken, stopped>>

\* The waiting loop: wait_timeout says the time has passed.
WaitTimeout(t) ==
  /\ pc[t] = "waiting"
  /\ timed[t]
  /\ Goto(t, "timedout")
  /\ UNCHANGED <<single, alive, pattern, sq, mutex, sched, wait, ret, result,
                 timed, set, woken, stopped>>

\* Wait for rescheduling.
WaitCheckState(t) ==
  /\ pc[t] = "timedout"
  /\ ~stopped[t]
  /\ Goto(t, "unqueue")
  /\ sched' = check_state(sched, t)
  /\ UNCHANGED <<single, alive, pattern, sq, mutex, wait, ret, result, timed,
                 set, woken, stopped>>

\* check_state returns true in a stopped thread, before or after cpu_sleep.
WaitCheckStateStopped(t) ==
  /\ pc[t] = "timedout"
  /\ stopped[t]
  /\ Goto(t, "waiting")
  /\ \/ sched[t] # "signal" /\ UNCHANGED sched
     \/ sched' = check_state(sched, t)
  /\ UNCHANGED <<single, alive, pattern, sq, mutex, wait, ret, result, timed,
                 set, woken, stopped>>

\* CELL_ETIMEDOUT, with the pattern of that moment.
WaitUnqueue(t) ==
  /\ pc[t] = "unqueue"
  /\ mutex = None
  /\ t \in Range(sq)
  /\ sq' = unqueue(sq, t)
  /\ Return(t)
  /\ UNCHANGED <<single, alive, pattern, mutex, sched, woken, stopped>>

\* The wait was served or canceled before it entered flag.mutex; when the queue
\* is empty, lock_unlock waits for whoever is inside.
WaitUnqueueLate(t) ==
  /\ pc[t] = "unqueue"
  /\ mutex = None
  /\ t \notin Range(sq)
  /\ Return(t)
  /\ UNCHANGED <<single, alive, pattern, sq, mutex, sched, woken, stopped>>

----------------------------------------------------------------------------
\* get_next: the waiters in the order in which a set serves them.
ServiceOrder ==
  Seqs!SetToSortSeq(Range(sq), LAMBDA t, u :
    LET Place(w) == CHOOSE i \in DOMAIN sq : sq[i] = w
    IN  IF Protocol = "FIFO" \/ Prio[t] = Prio[u]
        THEN Place(t) > Place(u)
        ELSE Prio[t] < Prio[u])

\* Mutant of DependsOn: no wait depends on the bits that were there before.
DependsOnNothing(w, bitptn, to_write) == {}

\* dependant_mask_or: the bits a wait needs that the set does not bring.
DependsOn(w, bitptn, to_write) ==
  IF ~w.all \/ bitptn \cap w.bits \cap to_write = w.bits THEN {} ELSE w.bits

\* One waiter is served: a is what the ones before it have left.  The loop ends
\* when no bit is left.
ServeOne(a, t, bitptn) ==
  LET w == wait[t]
      left == Left(a.to_write, w)
  IN  IF a.done THEN a
      ELSE IF ~Satisfied(a.to_write, w)
           THEN [a EXCEPT !.ret[t] = "none", !.result[t] = a.to_write]
           ELSE [to_write |-> left,
                 dependant |-> a.dependant
                               \cup DependsOn(w, bitptn, a.to_write),
                 ret |-> [a.ret EXCEPT ![t] = "ok"],
                 result |-> [a.result EXCEPT ![t] = a.to_write],
                 any |-> TRUE,
                 done |-> left = {}]

\* All waiters are served from the pattern pat and the bits bitptn; rets is what
\* gpr[3] of each waiter was before.
Serve(pat, bitptn, rets) ==
  Seqs!FoldLeft(LAMBDA a, t : ServeOne(a, t, bitptn),
                [to_write |-> pat \cup bitptn, dependant |-> {}, ret |-> rets,
                 result |-> result, any |-> FALSE, done |-> FALSE],
                ServiceOrder)

\* One turn of the loop of sys_event_flag_set, up to its atomic operation.
SetServe(t, bitptn) ==
  LET a == Serve(pattern, bitptn, ret)
  IN  /\ set' = [set EXCEPT ![t] = [bits |-> bitptn, seen |-> pattern,
                                    to_write |-> a.to_write,
                                    dependant |-> a.dependant \ bitptn,
                                    any |-> a.any]]
      /\ ret' = a.ret
      /\ result' = a.result

\* sys_event_flag_set looks at the pattern outside of flag.mutex.
SetFirst(t) ==
  /\ pc[t] = "idle"
  /\ alive
  /\ \E bitptn \in Sets[t] :
       /\ ~(bitptn \subseteq pattern)
       /\ set' = [set EXCEPT ![t].bits = bitptn]
  /\ Goto(t, "set_slow")
  /\ UNCHANGED <<single, alive, pattern, sq, mutex, sched, wait, ret, result,
                 timed, woken, stopped>>

\* A queued thread is waiting for the savestate: repeat the set after it.
SetAgain(t) ==
  /\ pc[t] = "set_slow"
  /\ mutex = None
  /\ \E w \in Range(sq) : pc[w] = "again"
  /\ ReturnAgain(t)
  /\ UNCHANGED <<single, alive, pattern, sq, mutex, sched, woken, stopped>>

SetEnter(t) ==
  /\ pc[t] = "set_slow"
  /\ mutex = None
  /\ \A w \in Range(sq) : pc[w] # "again"
  /\ mutex' = t
  /\ SetServe(t, set[t].bits)
  /\ Goto(t, "set_commit")
  /\ UNCHANGED <<single, alive, pattern, sq, sched, wait, timed, woken,
                 stopped>>

\* The atomic operation meets a pattern in which the bits it relies on changed.
Outdated(t) ==
  ((pattern \ set[t].seen) \cup (set[t].seen \ pattern)) \cap set[t].dependant
    # {}

SetRetry(t) ==
  /\ pc[t] = "set_commit"
  /\ Outdated(t)
  /\ SetServe(t, set[t].bits)
  /\ UNCHANGED <<single, alive, pattern, sq, mutex, sched, pc, wait, timed,
                 woken, stopped>>

\* The waiters that leave the queue.
Served == {w \in Range(sq) : ret[w] = "ok"}

\* The pattern that the atomic operation writes.
Written(t) ==
  (pattern \cup set[t].bits)
    \ ((set[t].seen \cup set[t].bits) \ set[t].to_write)

\* The atomic operation succeeds, and serves nobody.
SetOnly(t) ==
  /\ pc[t] = "set_commit"
  /\ ~Outdated(t)
  /\ ~set[t].any
  /\ pattern' = Written(t)
  /\ mutex' = None
  /\ Return(t)
  /\ UNCHANGED <<single, alive, sq, sched, woken, stopped>>

\* The atomic operation succeeds, and those it serves leave the queue.
SetCommit(t) ==
  /\ pc[t] = "set_commit"
  /\ ~Outdated(t)
  /\ set[t].any
  /\ pattern' = Written(t)
  /\ sq' = SelectSeq(sq, LAMBDA w : w \notin Served)
  /\ woken' = [woken EXCEPT ![t] = Served]
  /\ Goto(t, "awake")
  /\ UNCHANGED <<single, alive, mutex, sched, wait, ret, result, timed, set,
                 stopped>>

\* awake_all of a set or a cancel, and the end of its critical section.
AwakeAll(t) ==
  /\ pc[t] = "awake"
  /\ sched' = awake(sched, woken[t])
  /\ woken' = [woken EXCEPT ![t] = {}]
  /\ mutex' = None
  /\ Return(t)
  /\ UNCHANGED <<single, alive, pattern, sq, stopped>>

----------------------------------------------------------------------------
\* sys_event_flag_clear keeps the bits of its mask.
Clear(t) ==
  /\ pc[t] = "idle"
  /\ alive
  /\ \E bitptn \in Keeps[t] : pattern' = pattern \cap bitptn
  /\ UNCHANGED <<single, alive, sq, mutex, sched, pc, wait, ret, result, timed,
                 set, woken, stopped>>

\* sys_event_flag_cancel, when a queued thread is waiting for the savestate.
CancelAgain(t) ==
  /\ pc[t] = "idle"
  /\ t \in Cancelers
  /\ alive
  /\ mutex = None
  /\ \E w \in Range(sq) : pc[w] = "again"
  /\ ReturnAgain(t)
  /\ UNCHANGED <<single, alive, pattern, sq, mutex, sched, woken, stopped>>

\* sys_event_flag_cancel takes all waiters out of the queue.
Cancel(t) ==
  /\ pc[t] = "idle"
  /\ t \in Cancelers
  /\ alive
  /\ mutex = None
  /\ sq # <<>> /\ \A w \in Range(sq) : pc[w] # "again"
  /\ ret' = [w \in Threads |-> IF w \in Range(sq) THEN "canceled" ELSE ret[w]]
  /\ result' = [w \in Threads |->
                  IF w \in Range(sq) THEN pattern ELSE result[w]]
  /\ woken' = [woken EXCEPT ![t] = Range(sq)]
  /\ sq' = <<>>
  /\ mutex' = t
  /\ Goto(t, "awake")
  /\ UNCHANGED <<single, alive, pattern, sched, wait, timed, set, stopped>>

\* sys_event_flag_destroy, unless it is CELL_EBUSY.  It looks at the queue
\* without flag.mutex.
Destroy(t) ==
  /\ pc[t] = "idle"
  /\ alive
  /\ \A u \in Threads : ~InIdm(u)
  /\ sq = <<>>
  /\ alive' = FALSE
  /\ UNCHANGED <<single, pattern, sq, mutex, sched, pc, wait, ret, result,
                 timed, set, woken, stopped>>

\* The emulator stops the thread, for good or to save its state.
Stop(t) ==
  /\ t \in Stoppable
  /\ ~stopped[t]
  /\ stopped' = [stopped EXCEPT ![t] = TRUE]
  /\ UNCHANGED <<single, alive, pattern, sq, mutex, sched, pc, wait, ret,
                 result, timed, set, woken>>

Wait(t) ==
  \/ WaitFirst(t) \/ WaitTake(t) \/ WaitRefused(t) \/ WaitEnqueue(t)
  \/ WaitSignaled(t) \/ WaitStopped(t) \/ WaitStoppedServed(t)
  \/ WaitTimeout(t) \/ WaitCheckState(t) \/ WaitCheckStateStopped(t)
  \/ WaitUnqueue(t) \/ WaitUnqueueLate(t)

Set(t) ==
  \/ SetFirst(t) \/ SetAgain(t) \/ SetEnter(t) \/ SetRetry(t)
  \/ SetOnly(t) \/ SetCommit(t)

Next ==
  \E t \in Threads :
    \/ Take(t) \/ Wait(t) \/ Set(t) \/ AwakeAll(t)
    \/ Clear(t) \/ CancelAgain(t) \/ Cancel(t) \/ Destroy(t) \/ Stop(t)

Spec == Init /\ [][Next]_vars

----------------------------------------------------------------------------
\* Nobody sleeps beside the bits it waits for: whenever no set is under way, the
\* pattern satisfies no queued wait, although waits queue themselves, take bits
\* and clear them while sets serve others.  A sleeping waiter is queued or about
\* to be awakened, and no wake-up is left over for the next sleep of a thread, on
\* this object or on another.
NobodyMissed ==
  /\ TypeOK
  /\ mutex = None => \A t \in Range(sq) : ~Satisfied(pattern, wait[t])
  /\ \A t \in Threads :
       /\ Waiting(t) /\ sched[t] = "sleep" =>
            t \in Range(sq) \/ \E u \in Threads : t \in woken[u]
       /\ ~Waiting(t) /\ pc[t] \notin {"again", "halted"} =>
            sched[t] = "run" /\ \A u \in Threads : t \notin woken[u]

\* What the loop of sys_event_flag_set would do if nobody interfered with it.
Atomic(t) ==
  Serve(pattern, set[t].bits, [u \in Threads |-> "none"])

\* "Process all waiters in single atomic op" (sys_event_flag_set): although the
\* pattern was read earlier, it becomes what serving all waiters at the moment of
\* the atomic operation makes of it, and everybody who is served at that moment
\* leaves the queue.
SetIsAtomic ==
  [][\A t \in Threads :
       pc[t] = "set_commit" /\ pc'[t] # "set_commit" =>
         /\ pattern' = Atomic(t).to_write
         /\ \A w \in Range(sq) :
              Atomic(t).ret[w] = "ok" => w \notin Range(sq')]_vars

\* "Process all waiters in single atomic op" (sys_event_flag_set): only waiters
\* that are served by the atomic operation leave the queue.
ServedAtomically ==
  [][\A t \in Threads :
       pc[t] = "set_commit" /\ pc'[t] # "set_commit" =>
         \A w \in Range(sq) \ Range(sq') : Atomic(t).ret[w] = "ok"]_vars

\* "Process all waiters in single atomic op" (sys_event_flag_set): the pattern
\* that a wait returns is the one that served it.
ResultIsAtomic ==
  [][\A t \in Threads :
       pc[t] = "set_commit" /\ pc'[t] # "set_commit" =>
         \A w \in Range(sq) \ Range(sq') :
           Atomic(t).ret[w] = "ok" => result[w] = Atomic(t).result[w]]_vars
=============================================================================
