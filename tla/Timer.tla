------------------------------- MODULE Timer -------------------------------
(***************************************************************************)
(* lv2 timers (sys_timer.cpp, sys_timer.h): the system calls on a timer,   *)
(* and the timer thread that sends the events of all of them.              *)
(*                                                                         *)
(* A system call reads the clock first and does its work under the mutex   *)
(* of the timer later, in one step.  The timer thread turns to a timer,    *)
(* looks at it without its mutex (lv2_timer::check) and takes that, in a   *)
(* step each.  It holds the mutex of its list from the first timer to the  *)
(* last; the order of the list is left open.  A sleep of the timer thread  *)
(* has an end or has none; when it has one it may end at any time.         *)
(***************************************************************************)
EXTENDS Integers, FiniteSets, FiniteSetsExt

CONSTANTS
  Timers,   \* timer ids
  Callers,  \* PPU threads
  Starts,   \* Starts[t]: <<base, period>> that t is started with; a oneshot
            \* has the period 0
  Times,    \* bound: the guest times at which something happens
  UMax,     \* the largest u64
  Polled,   \* timers that get_information or another start is called on while
            \* they run or are being started
  Guessed   \* timers used before sys_timer_create has returned their id

ASSUME TimerAssumption ==
  /\ UMax \in Nat
  /\ Starts \in [Timers -> SUBSET ((0..UMax) \X (0..UMax))]
  /\ Times \subseteq 0..(UMax - 1)
  /\ Polled \subseteq Timers /\ Guessed \subseteq Timers

VARIABLES
  clock,   \* get_guest_system_time
  exists,  \* the timer in the id manager: "no", "yes" or "gone"
  timers,  \* lv2_timer_thread::timers
  state,   \* lv2_timer::state
  expire,  \* lv2_timer::expire
  period,  \* lv2_timer::period
  port,    \* lv2_timer::port is set
  queue,   \* the event queue it is set to exists
  thread,  \* the timer thread: where, _now, the timers ahead, the one at hand
  endless, \* sleep_time is umax
  wake,    \* the timer thread was notified
  call,    \* the system call of each thread: what, timer, time, base, period
  fired    \* history: the expirations sent since the timer was started

vars == <<clock, exists, timers, state, expire, period, port, queue,
          thread, endless, wake, call, fired>>
object == <<state, expire, period, port, fired>>
tables == <<exists, timers>>
daemon == <<thread, endless>>

Idle == [op |-> "idle"]
Asleep == [at |-> "sleep"]

Ops == {"stop", "disconnect", "info", "connect", "destroy"}

TypeOK ==
  /\ clock \in Times
  /\ exists \in [Timers -> {"no", "yes", "gone"}]
  /\ timers \subseteq Timers
  /\ state \in [Timers -> {"stop", "run"}]
  /\ expire \in [Timers -> 0..UMax] /\ period \in [Timers -> 0..UMax]
  /\ port \in [Timers -> BOOLEAN] /\ queue \in BOOLEAN
  /\ endless \in BOOLEAN /\ wake \in BOOLEAN
  /\ \A c \in Callers :
       call[c].op \in Ops \cup {"idle", "enlist", "start", "notify", "delist"}
  /\ thread.at \in {"sleep", "scan", "turn", "look", "lock"}

Init ==
  /\ clock \in Times
  /\ exists = [t \in Timers |-> "no"]
  /\ timers = {}
  /\ state = [t \in Timers |-> "stop"]
  /\ expire = [t \in Timers |-> 0]
  /\ period = [t \in Timers |-> 0]
  /\ port = [t \in Timers |-> FALSE]
  /\ queue = TRUE
  /\ thread = Asleep
  /\ endless = FALSE
  /\ wake = FALSE
  /\ call = [c \in Callers |-> Idle]
  /\ fired = [t \in Timers |-> {}]

Tick ==
  /\ clock' \in Times
  /\ clock' > clock
  /\ UNCHANGED <<exists, timers, state, expire, period, port, queue, thread,
                 endless, wake, call, fired>>

\* sys_event_queue_destroy, of the queue the timers are connected to
QueueDestroy ==
  /\ queue
  /\ queue' = FALSE
  /\ UNCHANGED <<clock, tables, object, daemon, wake, call>>

----------------------------------------------------------------------------
\* utils::add_saturate(a, b) is Saturate(a + b).
Saturate(x) == IF x > UMax THEN UMax ELSE x

\* Mutant: the conditions are those of lv2_timer::check, before the mutex.
AlwaysDue(t, now) == TRUE

\* The first lines of check_unlocked
Due(t, now) == now >= expire[t] /\ state[t] = "run"

\* The rest of it: the event is sent to the port, whatever comes of it, and the
\* timer is moved to its next expiration or stopped.
Fire(t, now) ==
  IF Due(t, now)
  THEN /\ fired' = [fired EXCEPT ![t] = @ \cup {expire[t]}]
       /\ expire' = [expire EXCEPT ![t] = Saturate(@ + period[t])]
       /\ state' = [state EXCEPT ![t] = IF period[t] # 0 THEN @ ELSE "stop"]
  ELSE UNCHANGED <<fired, expire, state>>

\* The same, by a call that stops the timer.
FireAndStop(t, now) ==
  /\ fired' = [fired EXCEPT ![t] =
                 IF Due(t, now) THEN @ \cup {expire[t]} ELSE @]
  /\ expire' = [expire EXCEPT ![t] =
                  IF Due(t, now) THEN Saturate(@ + period[t]) ELSE @]
  /\ state' = [state EXCEPT ![t] = "stop"]

----------------------------------------------------------------------------
\* wait_for returns; the time is read and the list is locked.
Wake ==
  /\ thread = Asleep
  /\ wake \/ ~endless
  /\ wake' = FALSE
  /\ endless' = TRUE
  /\ thread' = [at |-> "scan", now |-> clock, todo |-> timers]
  /\ UNCHANGED <<clock, tables, object, queue, call>>

\* The next timer, or the same again.  thread_ctrl::state runs what was queued for
\* the thread, an empty task in the case of a notification.
Turn(t) ==
  /\ \/ thread.at = "scan" /\ t \in thread.todo
     \/ thread.at = "turn" /\ t = thread.timer
  /\ IF exists[t] = "yes"
     THEN /\ thread' = [at |-> "look", now |-> thread.now,
                        todo |-> thread.todo, timer |-> t]
          /\ wake' = FALSE
     ELSE /\ thread' = [at |-> "scan", now |-> thread.now,
                        todo |-> thread.todo \ {t}]
          /\ UNCHANGED wake
  /\ UNCHANGED <<clock, tables, object, queue, endless, call>>

\* lv2_timer::check up to the mutex
Check ==
  /\ thread.at = "look"
  /\ LET t == thread.timer
     IN  IF state[t] = "run" /\ thread.now >= expire[t]
         THEN /\ thread' = [thread EXCEPT !.at = "lock"]
              /\ UNCHANGED endless
         ELSE /\ thread' = [at |-> "scan", now |-> thread.now,
                            todo |-> thread.todo \ {t}]
              /\ endless' = (endless /\ state[t] # "run")
  /\ UNCHANGED <<clock, tables, object, queue, wake, call>>

\* Mutant: a timer that was sent needs no other look.
CheckLockedOnce ==
  /\ thread.at = "lock"
  /\ Fire(thread.timer, thread.now)
  /\ thread' = [at |-> "scan", now |-> thread.now,
                todo |-> thread.todo \ {thread.timer}]
  /\ UNCHANGED <<clock, tables, period, port, queue, endless, wake, call>>

\* check_unlocked under the mutex.  The thread turns again to a timer that is still
\* late; any other advises a sleep: without end, unless it was moved to a later
\* time.
CheckLocked ==
  /\ thread.at = "lock"
  /\ LET t     == thread.timer
         now   == thread.now
         moved == Due(t, now) /\ period[t] # 0
         again == moved /\ Saturate(expire[t] + period[t]) <= now
     IN  /\ Fire(t, now)
         /\ thread' = IF again THEN [thread EXCEPT !.at = "turn"]
                      ELSE [at |-> "scan", now |-> now,
                            todo |-> thread.todo \ {t}]
         /\ endless' = (endless /\ (again \/ ~moved))
  /\ UNCHANGED <<clock, tables, period, port, queue, wake, call>>

Sleep ==
  /\ thread.at = "scan"
  /\ thread.todo = {}
  /\ thread' = Asleep
  /\ UNCHANGED <<clock, tables, object, queue, endless, wake, call>>

----------------------------------------------------------------------------
Do(c, next) == call' = [call EXCEPT ![c] = next]

\* The timers whose ids the program has.
Known == {t \in Timers : exists[t] # "no"
            /\ (t \in Guessed \/ \A c \in Callers :
                                   call[c] # [op |-> "enlist", timer |-> t])}

\* sys_timer_create: the id,
Create(c, t) ==
  /\ call[c] = Idle
  /\ exists[t] = "no"
  /\ exists' = [exists EXCEPT ![t] = "yes"]
  /\ Do(c, [op |-> "enlist", timer |-> t])
  /\ UNCHANGED <<clock, timers, object, queue, daemon, wake>>

\* and the list, once the timer thread is not using it.
Enlist(c) ==
  /\ call[c].op = "enlist"
  /\ thread = Asleep
  /\ timers' = timers \cup {call[c].timer}
  /\ Do(c, Idle)
  /\ UNCHANGED <<clock, exists, object, queue, daemon, wake>>

\* A system call on a timer begins, and has read the time.
Call(c, t, op) ==
  /\ call[c] = Idle
  /\ t \in Known
  /\ op = "info" => t \in Polled
  /\ Do(c, [op |-> op, timer |-> t, now |-> clock])
  /\ UNCHANGED <<clock, tables, object, queue, daemon, wake>>

StartOf(c, t) == call[c].op = "start" /\ call[c].timer = t

\* _sys_timer_start begins.
CallStart(c, t, b, p) ==
  /\ call[c] = Idle
  /\ t \in Known
  /\ state[t] = "run" \/ (\E d \in Callers : StartOf(d, t)) => t \in Polled
  /\ Do(c, [op |-> "start", timer |-> t, now |-> clock, base |-> b, period |-> p])
  /\ UNCHANGED <<clock, tables, object, queue, daemon, wake>>

\* The id manager does not find the timer any more.
NotFound(c) ==
  /\ call[c].op \in Ops \cup {"start"}
  /\ exists[call[c].timer] # "yes"
  /\ Do(c, Idle)
  /\ UNCHANGED <<clock, tables, object, queue, daemon, wake>>

Locked(c, op) ==
  /\ call[c].op = op
  /\ exists[call[c].timer] = "yes"

\* Mutant: a time that is met exactly is passed over.
AlignPast(b, p, now) ==
  LET r == Saturate(now - (now % p) + (b % p))
  IN  Saturate(r + (IF r <= now THEN p ELSE 0))

\* The first multiple of the period from the base that is not before now.
Align(b, p, now) ==
  LET r == Saturate(now - (now % p) + (b % p))
  IN  Saturate(r + (IF r < now THEN p ELSE 0))

\* The expiration that _sys_timer_start sets
FirstExpire(b, p, now) ==
  CASE p = 0                 -> b
    [] b = 0                 -> Saturate(now + p)
    [] now < Saturate(b + p) -> Saturate(b + p)
    [] OTHER                 -> Align(b, p, now)

Start(c) ==
  /\ Locked(c, "start")
  /\ LET t    == call[c].timer
         now  == call[c].now
         b    == call[c].base
         p    == call[c].period
         busy == state[t] = "run" /\ ~(Due(t, now) /\ period[t] = 0)
     IN  IF ~port[t]
         THEN UNCHANGED object /\ Do(c, Idle)
         ELSE IF busy \/ (p = 0 /\ now >= b)
              THEN /\ Fire(t, now)
                   /\ Do(c, Idle)
                   /\ UNCHANGED <<period, port>>
              ELSE /\ expire' = [expire EXCEPT ![t] = FirstExpire(b, p, now)]
                   /\ period' = [period EXCEPT ![t] = p]
                   /\ state' = [state EXCEPT ![t] = "run"]
                   /\ fired' = [fired EXCEPT ![t] = {}]
                   /\ Do(c, [op |-> "notify"])
                   /\ UNCHANGED port
  /\ UNCHANGED <<clock, tables, queue, daemon, wake>>

\* It wakes the timer thread.
StartNotify(c) ==
  /\ call[c].op = "notify"
  /\ wake' = TRUE
  /\ Do(c, Idle)
  /\ UNCHANGED <<clock, tables, object, queue, daemon>>

\* sys_timer_get_information
GetInformation(c) ==
  /\ Locked(c, "info")
  /\ Fire(call[c].timer, call[c].now)
  /\ Do(c, Idle)
  /\ UNCHANGED <<clock, tables, period, port, queue, daemon, wake>>

\* sys_timer_stop
Stop(c) ==
  /\ Locked(c, "stop")
  /\ FireAndStop(call[c].timer, call[c].now)
  /\ Do(c, Idle)
  /\ UNCHANGED <<clock, tables, period, port, queue, daemon, wake>>

\* sys_timer_connect_event_queue
Connect(c) ==
  /\ Locked(c, "connect")
  /\ port' = [port EXCEPT ![call[c].timer] = @ \/ queue]
  /\ Do(c, Idle)
  /\ UNCHANGED <<clock, tables, state, expire, period, fired, queue, daemon, wake>>

\* sys_timer_disconnect_event_queue
Disconnect(c) ==
  /\ Locked(c, "disconnect")
  /\ FireAndStop(call[c].timer, call[c].now)
  /\ port' = [port EXCEPT ![call[c].timer] = @ /\ ~queue]
  /\ Do(c, Idle)
  /\ UNCHANGED <<clock, tables, period, queue, daemon, wake>>

\* sys_timer_destroy: the id, unless the timer is connected,
Destroy(c) ==
  /\ Locked(c, "destroy")
  /\ LET t == call[c].timer
     IN  IF port[t] /\ queue
         THEN Do(c, Idle) /\ UNCHANGED exists
         ELSE /\ exists' = [exists EXCEPT ![t] = "gone"]
              /\ Do(c, [op |-> "delist", timer |-> t])
  /\ UNCHANGED <<clock, timers, object, queue, daemon, wake>>

\* and the list.
Delist(c) ==
  /\ call[c].op = "delist"
  /\ thread = Asleep
  /\ timers' = timers \ {call[c].timer}
  /\ Do(c, Idle)
  /\ UNCHANGED <<clock, exists, object, queue, daemon, wake>>

----------------------------------------------------------------------------
TimerThread == Wake \/ (\E t \in Timers : Turn(t)) \/ Check \/ CheckLocked \/ Sleep

Begin(c) ==
  \E t \in Timers :
    \/ Create(c, t)
    \/ \E op \in Ops : Call(c, t, op)
    \/ \E s \in Starts[t] : CallStart(c, t, s[1], s[2])

Syscall(c) ==
  \/ Enlist(c) \/ NotFound(c) \/ Start(c) \/ StartNotify(c) \/ GetInformation(c)
  \/ Stop(c) \/ Connect(c) \/ Disconnect(c) \/ Destroy(c) \/ Delist(c)

Next ==
  \/ Tick
  \/ QueueDestroy
  \/ TimerThread
  \/ \E c \in Callers : Begin(c) \/ Syscall(c)

Spec == Init /\ [][Next]_vars

\* The timer thread is a host thread that is never stopped while the emulator
\* runs, and a system call that has begun goes on.
LiveSpec ==
  /\ Spec
  /\ WF_vars(TimerThread)
  /\ \A c \in Callers : WF_vars(Syscall(c))

----------------------------------------------------------------------------
\* x is what base_time is when the loop of the firmware ends.
LoopEnds(b, p, now, x) ==
  /\ x >= b + p /\ (x - b) % p = 0
  /\ x >= now
  /\ x = b + p \/ x - p < now

\* "Optimized from a loop in LV2: do { base_time += period; } while (base_time
\* < start_time);".  A periodic timer that is started with a base expires first
\* at the time that loop ends with, or never (2^64 - 1) if that time is no u64.
StartAligned ==
  [][\A c \in Callers :
       call[c].op = "start" /\ call'[c].op = "notify"
         /\ call[c].base # 0 /\ call[c].period # 0 =>
           LET first == call[c].base + call[c].period
           IN  \E x \in first .. (first + call[c].now) :
                 /\ LoopEnds(call[c].base, call[c].period, call[c].now, x)
                 /\ expire'[call[c].timer] = Saturate(x)]_vars

\* However many threads check a timer, with whatever time they read before they
\* got its mutex, each expiration of a run is sent once, none is left out, and
\* none before its time: a running timer has sent exactly the expirations
\* between its first and the next.  The next is a period later, or never if that
\* is no u64.
ExpiriesExact ==
  /\ TypeOK
  /\ \A t \in Timers :
       /\ \A x \in fired[t] : x <= clock
       /\ state[t] = "run" /\ fired[t] # {} =>
            LET first == Min(fired[t])
            IN  /\ fired[t] = {x \in first .. (expire[t] - 1) :
                                 (x - first) % period[t] = 0}
                /\ expire[t] = UMax \/ (expire[t] - first) % period[t] = 0

\* Nobody is about to notify the timer thread.
Quiet == \A c \in Callers : call[c].op # "notify"

\* The timer thread is about to lock a timer whose expiration another thread has
\* sent since, by sys_timer_get_information or a start that failed, and nobody
\* will notify it.  It then sleeps without end (check_unlocked returns umax).
Overtaken ==
  /\ thread.at = "lock"
  /\ state[thread.timer] = "run" /\ ~Due(thread.timer, thread.now)
  /\ ~wake /\ Quiet

\* The timer thread was notified of a timer that it has already looked at, and is
\* about to turn to another, which consumes the notification.  It then sleeps
\* without end if the others do not run.
Consumed ==
  /\ thread.at \in {"scan", "turn"}
  /\ wake /\ Quiet /\ endless
  /\ \E t \in timers \ thread.todo : state[t] = "run"
  /\ \E t \in thread.todo : exists[t] = "yes"

Late(t) == exists[t] = "yes" /\ state[t] = "run" /\ expire[t] <= clock

\* Every timer that is late is served.
AllFire == \A t \in Timers : Late(t) ~> ~Late(t)

\* A timer that is late is served: its event is sent, or it is stopped, however
\* it and others were started and stopped while the timer thread looked at them
\* and went to sleep, unless another thread sent an event of a running timer in
\* between or the notification of a start was consumed.
TimersFire == [](~Overtaken /\ ~Consumed) => AllFire

\* "Theoretically could have been destroyed by sys_timer_destroy by now": a
\* timer that is gone, and that no call is about to take out, is not in the list
\* of the timer thread.
NoTimerLeft ==
  \A t \in timers :
    exists[t] = "gone" =>
      \E c \in Callers : call[c] = [op |-> "delist", timer |-> t]
=============================================================================
