# Verification of the lv2 kernel emulation

ARMSX3 runs PlayStation 3 programs on phones and desktops.  It is built on
RPCS3: a PPU (main processor) thread of the guest is a host thread that executes
recompiled guest code, and a system call of the guest is a C++ function that
emulates the lv2 kernel.  Dozens of such threads call into the same kernel
objects at once.  Each object is protected by a small lock of its own, by
lock-free fast paths around that lock, and by a contract with a scheduler that
decides which threads may run.  This directory holds TLA+ models of that part,
the properties that make it correct, TLC configurations that check them on small
instances, and TLAPS proofs for every size.

## The parts of the system

| Part | Source | Here |
|---|---|---|
| lv2 semaphore | `sys_semaphore.cpp`, `.h` | `Semaphore`, proofs in `SemaphoreProofs` |
| lv2 mutex | `sys_mutex.cpp`, `.h` | `Mutex`, proofs in `MutexProofs` |
| lv2 condition variable | `sys_cond.cpp`, `.h` | `Cond`, on top of `Mutex`; `Monitor` is what both promise |
| lv2 reader-writer lock | `sys_rwlock.cpp`, `.h` | `RwLock`, proofs in `RwLockProofs`; `ReadersWriter` is what it promises |
| PPU scheduler | `lv2.cpp`, `sys_sync.h`, `CPUThread.cpp` | `Scheduler`; its contract with the objects is in `Lv2Sync` |
| PPU thread life cycle | `sys_ppu_thread.cpp` | `PpuThread`, proofs in `PpuThreadProofs`; priorities in `Scheduler` |
| identifier manager | `IdManager.h` | its locking discipline, in the object modules |
| savestates | `System.cpp`, the `again` paths of the objects | stopping a thread inside a call, in the object modules |
| lv2 event flag | `sys_event_flag.cpp`, `.h` | `EventFlag` |
| lv2 event queues and ports | `sys_event.cpp`, `.h` | `EventQueue`, proofs in `EventQueueProofs`; `BoundedQueue` is what it promises |
| lv2 timers | `sys_timer.cpp`, `.h` | `Timer`, proofs in `TimerProofs` |
| lightweight mutex | `sys_lwmutex.cpp`, `Modules/sys_lwmutex_.cpp` | `LwMutex`, library and kernel part together; it implements `Monitor` |
| lightweight condition variable | `sys_lwcond.cpp`, `Modules/sys_lwcond_.cpp` | planned |
| SPU thread groups | `sys_spu.cpp` | planned |
| host `shared_mutex` | `Utilities/mutex.cpp`, `mutex.h` | `SharedMutex`, proofs in `SharedMutexProofs` |
| other host primitives | `Utilities/cond.cpp`, `lockless.h`, `util/atomic.cpp` | planned |
| guest memory and reservations | `Emu/Memory` | candidate |
| PPU and SPU interpreters and recompilers | `Emu/Cell` | not modelled: instruction semantics and code generation |
| graphics, audio, devices, network services | `Emu/RSX`, `Audio`, `Io`, `NP` | not modelled: host devices and remote services |
| loaders, cryptography, file systems | `Loader`, `Crypto`, `VFS.cpp`, `sys_fs.cpp` | not modelled: sequential code on byte strings and files |
| user interfaces | `rpcs3qt`, `android`, `darwin` | not modelled: presentation |

The kernel objects depend on the scheduler for putting threads to sleep, on
the identifier manager for finding objects, and on `shared_mutex` for their locks.
A timer sends to an event queue from a host thread of its own.  Everything a program does with
threads goes through them, their code is short and subtle, and the orders in
which threads meet in it are out of reach of a test.  That is why the project
begins there.

## How the code becomes a model

**Threads.** One PPU thread is one label in `pc`: `idle` when it runs guest code,
or a place inside a system call.  Whichever call the guest makes next is open:
every call may start whenever the thread is idle.

**Steps.** A step is one atomic access to a shared word (a compare-and-swap, a
`fetch_op`), one critical section of the object's own lock, or one pass of the
waiting loop.  A critical section that awakes a thread takes two steps or more
(take from the queue and hand over; awake), and holds `mutex` in between, because
the waiting loops of other threads run meanwhile.  A fast path reads and swaps in
two steps, with the value it read in `arg`, where anything can depend on it
(`Semaphore`, `RwLock`); `Mutex` says at its head why one step is enough there.

**Finding objects.** `idm::get` and `idm::check` run their callback under the
reader lock of `id_manager::g_mutex`, and `idm::withdraw` under the writer lock.
So `Destroy` needs every thread outside of such a callback (`InIdm`).  A thread
that waits holds a reference and no lock.

**Scheduler contract.** The objects see of the scheduler only that `sleep` takes a
thread out of the run queue, `awake` puts it back and lets it have
`cpu_flag::signal`, and `check_state` brings a thread back by itself
(`sched[t]` is `run`, `sleep` or `signal`, `Lv2Sync`).  `cancel` is
`ppu_thread::cancel_sleep`: a thread that announced its sleep and is awakened
before it sleeps does not sleep.  `Scheduler` models what is behind that contract.

**Wait queues.** `lv2_obj` queues are lists whose head is the thread queued last.
`Schedules` says which position `lv2_obj::schedule` picks for FIFO and for
PRIORITY; a thread's `prio.order` tag is its position.

**Timeouts.** A call with a timeout may find at any pass of its loop that the time
is over.  It then goes through `check_state` and only after that enters the lock
of the object: everything else can happen in between.

**Savestates.** `Stop` tells a thread to stop at any time.  A thread that is queued
then returns with `cpu_flag::again` (label `again`): it stays in the queue, for the
savestate, and repeats the call when it is loaded.  A thread that has what it waited
for completes the call (`halted`).  A thread that would hand something to one
that is to repeat its call repeats its own call too.  `EventQueue` and `LwMutex` go
on from there: once every thread has stopped, `Load` makes of the state what the
savestate keeps of it, and the repeated calls run.

Definitions named after a step say which function they belong to by their prefix
(`Lock...` is `sys_mutex_lock`, `WUnlock...` is `sys_rwlock_wunlock`).  Definitions
marked *Mutant* change one step the way a plausible mistake would; they are not
part of any specification, and serve to show that each property can fail.

## Modules

`Semaphore`.  `val` is positive for tokens and negative for waiters.  The history
variable `tokens` (the initial value, plus what was posted, minus what was
acquired) gives the conservation law.  `Modulus` stands for 2^32 in the unsigned
test of `sys_semaphore_post`.

`Mutex`.  `owner` and `sq` are the two parts of the atomic `control`.  `depth` is
what each thread was told: `CELL_OK` of locks minus unlocks.

`Cond` extends `Mutex` with the queue of a condition variable, and with `cret`, the
recursive count that a wait keeps on its stack.  Waiters go from `csq` to `sq` or
straight to `owner`.  `Monitor` has only the locks each thread has and the locks it
gave up in a wait; `ImplementsMonitor` maps `depth` to the former, and `saved` is a
history variable with the name of the latter.

`RwLock`.  `owner` is the signed word of the code with its wait bit.  `hold` is what
each thread was told, which `ReadersWriter` specifies alone.

`EventFlag`.  `pattern` is the set of the bits that are set.  `wait`, `ret` and
`result` are the registers through which a set talks to a waiter, and `set` has the
locals of a set.  `Serve` folds the loop of `sys_event_flag_set` over the waiters in
the order of `get_next`; it serves as the code, with the pattern that was read
earlier, and as the reference (`Atomic`), with the pattern at the atomic operation.

`EventQueue`.  `events` and `pq` are the stored events and the waiting receivers.  A
send puts its event into the registers of a receiver (`event`) or stores it; `taken`
is the history of what receivers were given, which `BoundedQueue` specifies.  `is_busy`
is the count in the port that a sender raises until it is scheduled again.  `resend`
is the history of the events whose senders were stopped in that time: they repeat the
call and offer the event once more, which `BoundedQueue` allows for those events only.

`Timer`.  Each system call reads the clock when it begins and works under the mutex
of the timer later; the timer thread walks its list with the time it read at the
beginning, looks at a timer without its mutex and then takes it.  Before each look
(`Turn`) it asks for its own state, which consumes a notification (`wake`).  `fired` is
the history of the expirations sent.  `LoopEnds` is the loop of the firmware that
`_sys_timer_start` replaces by a division (`Align`).  `UMax` stands for the largest u64,
at which the sums of the code are cut off (`Saturate`).

`LwMutex`.  `owner`, `waiter` and `recursive_count` are the words in guest memory;
`signaled` and `sq` are the kernel object.  The library part of a lock spins, counts
itself as a waiter, and calls the kernel, which sleeps or takes the signal; the
library part of an unlock reserves the word and has the kernel pass it on.  With the
RETRY protocol the kernel only tells a waiter to try again.

`PpuThread`.  `joiner` is the word that settles who cleans up after a thread: a joiner,
a detacher, or the next thread that exits (`cleaner`, `old`).  `used` and `stacks` are
the memory container and the stack areas.

`SharedMutex`.  `m_value` is the word: readers count 1, a writer or waiter counts
`c_one`, a signal counts `c_sig`.  `ahead` is the history of who was inside when
`lock_unlock` was called.

`Scheduler`.  `lv2` is a record with the run queue `g_ppu`, `g_pending`, the
registered timeouts `g_waiting` and the flags that are set in threads.  The
functions of the code (`emplace_thread`, `awake_unlocked`, `sleep_unlocked`,
`schedule_all`) are operators from record to record, and an action applies those
that the critical section of `g_mutex` calls.  Objects are reduced to a set
`queued` of the threads that somebody will awake.

## Runs

All runs take three threads unless stated.  Every thread makes every call, except
where the constants of a module say which calls each thread makes (`EventFlag`,
`EventQueue`, `LwMutex`).  Deadlock is checked in `shared_mutex`: its callers always
leave again, so that nobody being able to go on is an error.  In the other runs it is
not: a guest may stop, exit or deadlock itself, and a stopped thread stays stopped.
That threads inside the emulator go on is stated there by the invariants on lost
wake-ups and by the liveness properties.

| Run | Bounds | What it shows |
|---|---|---|
| `semaphore` | maximum 3, posts of 0, 1 and 3, word size 8, PRIORITY with one thread more urgent | Tokens are conserved; a negative value is the number of waiters, and the value stays in range; no wake-up is lost or left over, and destroy strands nobody; a savestate repeats exactly the waits without a token. 950 thousand states. |
| `mutex` | recursive, count up to 2 locks, FIFO, fairness | What threads were told agrees with the owner word; a waiter outside the queue is the owner; no wake-up is lost or left over; a hand-over is always noticed by the new owner. 56 thousand states. |
| `cond` | recursive, one condition variable at a time, PRIORITY | Every wait ends as owner with its locks; nobody is queued twice or on a free mutex; mutex and condition variable implement `Monitor`. 700 thousand states. |
| `rwlock` | one read lock per thread, PRIORITY | The owner word counts the readers or names the writer; the wait bit is set exactly as needed, and readers never wait for nobody; no wake-up is lost or left over; the lock implements `ReadersWriter`. 1.7 million states. |
| `event_flag` | four threads, two bits: two wait (for all bits, for any, with each kind of clearing), one sets, one takes, clears and cancels; single and multiple waiters | Nobody sleeps beside the bits it waits for; a set that read the pattern early changes it as if it served everybody in one atomic operation, and misses nobody. 1.3 million states. |
| `event_queue` | two stored events, three sent, one load; two receivers, two senders, one thread that drains, connects and destroys; both types of port | The queue implements `BoundedQueue`: events come out in order, once for each time they went in; a receiver that was given an event returns it, even timed out, canceled or stopped; a busy port stays connected while the queue exists; a repeated receive loses no event, and a repeated send doubles one only if its sender was stopped after delivering it (Divergences 6). 1.8 million states. |
| `timer` | two timers, one of them polled, one caller, guest times 4 and 6, largest time 7; a oneshot, a period that is late twice at once and then beyond the largest time, and one that is beyond it from the start, the second for both timers; fairness | Each expiration is sent once, none early and none left out; a start with a base expires first where the firmware's loop ends, or never; a timer that is late is served (`TimersFire` excepts two cases, see Divergences 7 and 11). 890 thousand states. |
| `lwmutex` | PRIORITY and RETRY, recursion up to 2 locks, one thread with timeouts that also destroys, one load | Word and kernel object, changed in separate steps, implement a mutex; a reserved word has exactly one thread or signal that brings it on; whoever is queued will be thought of; the count of waiters never falls short. 3.2 million states. |
| `ppu_thread` | room for two stacks, fairness | Each thread is cleaned up once, by whoever the joiner word names; no join sleeps through the exit it waits for; a join repeated after a savestate finds its thread; the container counts exactly, whichever step of a creation fails; exits end although each waits for the one before it. 36 thousand states. |
| `scheduler` | one hardware thread, two priorities, up to two threads awakened at once | No more threads run than there are hardware threads, and acknowledgements are counted exactly; the run queue is sorted and its head runs; timeouts are registered only for sleepers, and the contract in `Lv2Sync` is kept. 200 thousand states. |
| `scheduler_live` | two threads, one hardware thread, fairness | Suspensions are always acknowledged; the thread at the head of the run queue keeps running. 9 thousand states. |
| `shared_mutex` | five threads, three readers at most, room for six writers and waiters | The word counts readers, writers and waiters exactly; a writer is alone; there is a signal exactly when one is needed, and it is seen; `lock_unlock` waits for everybody who was inside; no deadlock. 57 thousand states up to symmetry. |

Why the bounds are enough: three threads give a holder, a thread that is being
handed the object, and one that interferes; with two priorities, or FIFO, the
order of the queue matters already with two waiters.  `shared_mutex` needs five for
a reader, a writer, two waiters and a thread that passes.  The recursive maximum, the
semaphore maximum, the word sizes and the room for readers are small so that they
are reached.  In `event_queue` three events fill a queue of two and leave one that is
refused or passed on.  The two times of `timer` are such that a timer is late by two
periods, is due now, and lies ahead; `Times` are the times at which anything happens, and
the clock may pass over any of them.  Two timers are what it takes for the timer thread to
be notified of one while it turns to the other.  A period without a base is not among the
starts of the run; the proofs are about every start.

Some constants are there to leave a case out by name.  `Saved` (`LwMutex`) and `Guessed`
(`Timer`) open a case in which the code does not do what its comments say, and are set by
the configurations under Divergences only.
`Polled` (`Timer`) says on which timers a thread may call `sys_timer_get_information`
while they run, or start them twice; the `timer` run has one such timer.  `MaxSize` (`RwLock`) bounds the loop that
does not end in Divergences 2.  `gaveup` (`LwMutex`) is a history variable:
with the RETRY protocol a thread that is told to try again and has no time left
returns without passing that on, and `WaiterHasWaker` does not claim more then,
since nothing in the repository says what the firmware does.

### Fairness

`mutex`, `ppu_thread`, `scheduler_live` and `timer` assume weak fairness for the steps
of a thread inside the emulator, one condition per thread.  Each PPU thread is a
host thread, so is the timer thread, and the host schedules all of them; no step of
those is a choice of the guest.  Calls of the guest, stops and the passing of time
are not fair.  In `mutex` a thread inside a call is never kept waiting by the PPU
scheduler, which is so when there are no more threads than hardware threads:
`schedule_all` signals all of them.  `scheduler_live` is about the other case.  In
`ppu_thread` only what follows an exit that nobody can stop any more is fair.

## Divergences

Each of these configurations ends in a counterexample: the code does not do what a
comment beside it, or the meaning of a flag, says.  To see one, for example the
first:

    tlc -config MCCondSavestate.cfg MCCond

1. `MCCondSavestate.cfg` (`MCCond`), `SavestateKeepsCount`.  `sys_cond_wait`
   (`sys_cond.cpp:448`) clears the recursive count of the mutex before it finds that
   the next owner is stopped for a savestate.  It then undoes the wait, but not the
   count, and the savestate has the mutex locked once however often it was locked.
2. `MCRwLockTimeout.cfg` (`MCRwLock`), `ReadersCountedOnce`.  When the last queued
   writer times out, `sys_rwlock_wlock` (`sys_rwlock.cpp:459`) takes all blocked
   readers from their queue.  A reader that is stopped for a savestate is returned by
   `schedule` again and again without being taken out, so the loop does not end.
   `sys_rwlock_wunlock` looks for such readers first.
3. `MCEventFlagRetry.cfg` (`MCEventFlag`), `ServedAtomically`.  `sys_event_flag_set`
   (`sys_event_flag.cpp:402`) stops serving waiters when no bit is left.  If its atomic
   operation had failed before, the waiters it does not get to still have the
   `CELL_OK` of the failed attempt in `gpr[3]`, and are awakened.  It takes three
   waiters, a set and a trywait.  The comment says "Process all waiters in single
   atomic op".
4. `MCEventFlagResult.cfg` (`MCEventFlag`), `ResultIsAtomic`.  `sys_event_flag_set`
   (`sys_event_flag.cpp:394`) hands its waiters the pattern it read before the atomic
   operation.  A bit that a trywait took in between is in it, so two threads see
   the same bit although it was cleared for one of them.
5. `MCEventQueueBusy.cfg` (`MCEventQueue`), `BusyPortKept`.  `sys_event_port_destroy`
   (`sys_event.cpp:665`) looks at the queue of the port and not at `is_busy`.  Once the
   queue has been destroyed, the port can be destroyed while a sender still waits to
   be scheduled, and lowers `is_busy` of a port that is gone.
6. `MCEventQueueResend.cfg` (`MCEventQueue`), `SentOnce`.  A sender that is stopped after
   its event was delivered returns with `cpu_flag::again` (`sys_event.cpp:854`, "Wait again
   on savestate load").  It never left the run queue, so it is saved as runnable and
   does not know of the savestate when it repeats the call: it sends the event again.
   `SavestateKeepsEvents` and `BoundedQueue` say that this is the only way in which an
   event is doubled.
7. `MCTimerPoll.cfg` (`MCTimer`), `AllFire`.  `lv2_timer::check` sees without the mutex that
   a periodic timer is late (`sys_timer.cpp:62`).  When `sys_timer_get_information` or a
   second start has sent that expiration in between, `check_unlocked` returns `umax` for
   a timer that runs, and the timer thread sleeps without end.
8. `MCTimerCreate.cfg` (`MCTimer`), `NoTimerLeft`.  `sys_timer_create` (`sys_timer.cpp:184`) adds
   the timer to the list of the timer thread if it is not there, having said that it
   may have been destroyed by now.  A destroyed timer is not there either, and is
   added for ever.
9. `MCPpuThreadStack.cfg` (`MCPpuThread`), `StackAreasPaid`.  When the name cannot be read,
   `_sys_ppu_thread_create` (`sys_ppu_thread.cpp:528`) gives the memory back to the container
   and keeps the stack area.
10. `MCLwMutexUnlock.cfg` (`MCLwMutex`), `ReservedHasHeir`.  `sys_lwmutex_unlock`
    (`sys_lwmutex_.cpp:392`) reserves the word and calls the kernel, which asks for the call
    to be repeated when the queued thread is stopped for a savestate.  The library
    function is then repeated from its beginning, does not own the word any more, and
    returns `CELL_EPERM`: the word stays reserved.
11. `MCTimerScan.cfg` (`MCTimer`), `AllFire`.  Before it looks at a timer, the timer thread
    calls `thread_ctrl::state` (`sys_timer.cpp:152`), which runs what was queued for the
    thread (`Thread.cpp:3516`), and so consumes the notification of a start.  When the
    timer that was started is one that it has looked at already, and no other runs, it
    sleeps without end although the timer is late.  It takes two timers.

## Proofs

`SemaphoreProofs` proves each invariant of the `semaphore` run for every set of
threads, priorities, both protocols, every maximum and every word size that
`SemaAssumption` allows.  That is what `sys_semaphore_create` enforces, and that
the maximum and the number of threads together fit in the word.

None of the invariants is inductive alone.  The inductive invariant `IInv` is their
conjunction with

- `Places`: for each label of `pc`, whether the thread is queued, asleep, about to
  be awakened or inside the critical section, and that nobody else is inside;
- `Reads`: what a thread may still conclude from the value it read outside of
  `sema.mutex`;
- `Dead`: a destroyed semaphore has no debt and nobody inside a callback.

`TokensConserved` needs `QueueMatchesVal`, since a post converts missing tokens to
waiters; that needs `Places`, so that a timeout removes exactly one waiter; and
`NoLostWakeup` needs both.  There is one lemma per action, which shows that the
action preserves `IInv`; under it the conjuncts that the action can disturb have a
step each.  `QueueLemmas` has what `emplace`, `unqueue` and `RemoveAt` do to the
length and to the elements of a queue without duplicates.

`MutexProofs` proves the two invariants of the `mutex` run, for every set of threads,
priorities, both protocols and every recursion limit, and that the mutex implements
`Monitor`.  Its `IInv` is their conjunction with `Places` (for each label, whether the
thread is queued, asleep, about to be awakened, or inside `mutex.mutex`, and that a
queued thread has no signal) and `Owners` (who can be the owner at which label, and
that a mutex that is handed over is locked once).  `OwnershipAgrees` needs `Owners`,
since an unlock outside of `mutex.mutex` is decided by `owner` alone; `WakeupsMatch`
needs `Places`, which says that a thread taken from the queue is awakened once.  That
each step is a step of `Monitor` follows from `OwnershipAgrees`: a thread that was told
it has the mutex is the owner, so a lock is granted only if nobody has it.

`SharedMutexProofs` proves the four properties of the `shared_mutex` run for every
number of threads and every `c_one` and `c_sig` with room for them
(`SharedMutexAssumption`; the code has 2^14 and 2^30).  The difficulty is that one number is read as several.  `Arith` says how the word is made of
the numbers of readers, writers and waiters and of the signal, and how these depend on
each other; `Fields`, `Parts` and `Look` take a word apart by division; and one lemma
for each way of changing the word says that `Arith` is kept.  `Move` gives the change
of each number from the labels a thread goes from and to.  `Heard` and `PassInv` are
added for the signal that must be seen and for `lock_unlock`: as long as somebody
who was inside is so still, the number of waiters cannot fall below what it saw.

`RwLockProofs` proves the three invariants of the `rwlock` run and that the lock implements
`ReadersWriter`, for every set of threads with ids, priorities and both protocols.  Its
`IInv` is made of

- `Places`: for each thread, whether it is queued, asleep, about to be awakened or inside
  `rwlock.mutex` (`Place`), and what it holds and has read when it is about to lock or
  unlock (`Claim`);
- `Held`: the owner word stands for the readers or the writer (`Agrees`) and its wait bit
  for the queues (`Marked`).  While a writer that timed out takes the blocked readers from
  their queue, the word lacks those it has taken; `Held` then says that the local count
  makes up for them, unless the next reader to be taken is stopped (`Stuck`), where
  the loop of Divergences 2 counts it again and again and never leaves the mutex;
- `Dead`: nobody uses a lock that was destroyed.

The properties speak of the word only when `mutex` is free, so none of them is inductive.
The lemmas on `Agrees` say what adding and removing a reader, a writer and the wait bit do
to a word; the lemma of each action uses them for `Held` and treats the places of the other
threads by frame lemmas (`Others`).

`PpuThreadProofs` proves the four invariants of the `ppu_thread` run for every number of
threads and every size of the memory container.  `IInv` says of each thread which id, joiner
word and host thread go with its label (`Life`), that a creation has a new thread of its
own (`Makes`), what a join or detach may assume of the thread it waits for (`Awaits`) and
what a thread may assume of the joiner it names (`Named`); and, of all of them, who is left
to be cleaned up and by whom (`Reaped`).  `JoinerAgrees` needs `Awaits` and `Named` together:
each is what the other needs when a thread exits.  `ReapedOnce` needs `Reaped`, because
`cleaner` passes an ended thread from one exit to the next.  `ContainerExact` is inductive
beside them; its lemmas count the stacks that an action adds or frees.  The proof uses that
the ids of threads differ from the four states that `joiner` can have beside them, which is
how `ppu_join_status` is numbered.

`EventQueueProofs` proves the three invariants of the `event_queue` run and that the queue
implements `BoundedQueue`, for every number of threads, events and savestates and every
size.  `IInv` has, beside `BusyPortConnected`,

- `Place`: for each thread, whether it is queued, asleep, canceled, was given an event, or
  is to repeat which call;
- `Queues`: receivers wait only while no event is stored, and those of a destroyed queue
  are still being canceled;
- `Loading`: until the receivers of a savestate sleep again, there is a queue and no
  event in it;
- `Once`: an event that will be sent again is neither stored nor taken unless it is in
  `resend`, and no two senders have the same.

Each action changes `events`, `taken` and `resend` as one step of `BoundedQueue`, or not at
all.  For that a send needs `Once`, so that its event is new or is one to be offered again,
and one that passes its event to a waiting receiver needs `Queues`, so that the event
overtakes none.

`TimerProofs` proves the two safety properties of the `timer` run for all bases and periods
up to `UMax`, all clocks below it, and any number of timers and callers; `UMax` is any
number.  `StartAligned` says that the division in `_sys_timer_start` finds what the
firmware's loop finds, or `UMax` if that is more.  The provers do not know
that a multiple of p leaves nothing when divided by p (`Multiple`); `Aligned` is about the
times without a largest one, `AlignEnds` about the two sums that are cut off, and
`FirstIsAligned` adds the starts before the first period.  `ExpiriesExact` needs
that the times which calls and the timer thread have read are not after the clock, so that
nothing is sent early and an expiration at `UMax` never, and that a timer that has sent
something runs with the period it was sent with.  `Exact` states with an existential what
the property states with the least expiration sent, and `Between` is the set of expirations,
which the next one extends by one (`BetweenNext`), whether or not it is cut off.

What is only model-checked, and why:

- the liveness properties (`mutex`, `ppu_thread`, `scheduler_live`, `timer`), which the proof
  system cannot treat;
- the invariants of `Scheduler` and `EventFlag`.  `schedule_all`, `awake` and `Serve` are
  folds over the run queue or the waiters.  What a fold computes for every queue takes an
  induction over its length, which none of the provers can do;
- the invariants of `Cond` and `LwMutex` and that they implement `Monitor`.  Nothing is known
  to stand in the way but the number of cases.

## What is not modelled in these parts

- Loading a savestate, but for `EventQueue` and `LwMutex`: objects start in their
  created state.
- `sys_*_create`: the initial state is what it returns.  Sharing of objects
  between processes (`key`, `flags`) is left out.
- The errors that change nothing (`CELL_ESRCH`, `CELL_EPERM`, `CELL_EBUSY`...).
- The retry of `sys_cond_signal` when its thread was suspended, which repeats the
  call from its beginning.
- Notifications of the host (`notify_all_t`, `state.notify_one`): waiting loops
  are taken to look at their flags again when these change.
- SPU queues (`EventQueue`), whose waiters are SPU threads; `sys_timer_usleep` and
  `sys_timer_sleep`, which only sleep in the scheduler.
- What lightweight condition variables do to a lightweight mutex
  (`_sys_lwmutex_unlock2`, `lwcond_waiters`).
- In `SharedMutex`: the number of attempts before a thread waits, and wake-ups
  of the host without a reason, which only make it look again.
- In `Scheduler`: the start after loading a savestate (`g_to_sleep`), the
  preemption timer, and SPU threads.

The models cover a small part of the whole repository, and most of it will stay
outside.  More than nine tenths of its lines are instruction semantics, code
generation, rendering, reimplementations of firmware libraries, file formats, devices
and user interfaces: sequential code on large data.  A small instance says little
about it, and a model would be as long as the code.  What is concurrent and small enough
to be exhausted is the kernel emulation and the primitives under it, and that is where
the models are.

## Plan

1. Lightweight condition variables on top of `LwMutex`, to implement `Monitor`
   as `Cond` does.
2. SPU thread groups; `suspend_all` in `CPUThread.cpp`; the lock-free queues and
   `cond_variable` in `Utilities`; range locks and reservations in `Emu/Memory`.
3. Proofs: `Cond` on top of `MutexProofs`; then `LwMutex`.
4. Composition: the semaphore on the scheduler instead of on the contract, timers on
   event queues.
