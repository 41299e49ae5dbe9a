----------------------------- MODULE EventQueue -----------------------------
(***************************************************************************)
(* One lv2 event queue and one event port (sys_event.cpp), and the threads *)
(* that use them.  The queue is a PPU queue.  A send passes its event      *)
(* straight into the registers of a waiting receiver, or stores it while   *)
(* there is room.  A sender that is less urgent than the receiver it       *)
(* awakens holds the port busy until it is scheduled again.                *)
(*                                                                         *)
(* A step is one critical section of queue.mutex or of id_manager::g_mutex *)
(* or one pass of the waiting loop; the forced destruction of a queue      *)
(* leaves id_manager::g_mutex before it awakens the waiters, still inside  *)
(* queue.mutex.  When all threads have been stopped, a savestate may be    *)
(* made and loaded: calls that returned with cpu_flag::again are repeated. *)
(***************************************************************************)
EXTENDS Lv2Sync

CONSTANTS
  Threads,    \* PPU threads
  Prio,       \* Prio[t]: priority of t, smaller is more urgent
  Protocol,   \* lv2_event_queue::protocol
  Size,       \* lv2_event_queue::size
  PortTypes,  \* types the port may have
  MaxEvents,  \* bound: events that are sent
  Receivers,  \* threads that receive
  Senders,    \* threads that send
  Managers,   \* threads that drain, connect, disconnect and destroy
  Stoppable,  \* threads the emulator may stop
  MaxLoads,   \* bound: savestates that are loaded
  None        \* no thread

ASSUME EventQueueAssumption ==
  /\ IsFiniteSet(Threads)
  /\ Protocol \in Protocols
  /\ Prio \in [Threads -> Int]
  /\ Size \in 1..127
  /\ PortTypes \subseteq {"LOCAL", "IPC"}
  /\ MaxEvents \in Nat
  /\ Receivers \cup Senders \cup Managers \subseteq Threads
  /\ Stoppable \subseteq Threads
  /\ MaxLoads \in Nat
  /\ None \notin Threads

VARIABLES
  registered, \* the id of the queue is registered
  exists,     \* lv2_obj::exists of the queue
  events,     \* lv2_event_queue::events
  pq,         \* lv2_event_queue::pq
  mutex,      \* the thread inside a critical section of several steps
  type,       \* lv2_event_port::type
  port,       \* the id of the port is registered
  connected,  \* lv2_event_port::queue is not null
  is_busy,    \* lv2_event_port::is_busy
  sched,      \* scheduler contract, Lv2Sync
  pc,         \* where each thread is
  call,       \* the call to repeat after a savestate
  event,      \* gpr[4..7]: the event of a send, or given to a receive; 0: none
  ret,        \* gpr[3] of a receive
  timed,      \* the receive under way has a timeout
  loaded,     \* ppu_thread::loaded_from_savestate
  stopped,    \* is_stopped(ppu.state)
  woken,      \* g_to_awake of the thread that destroys the queue
  next,       \* the event that is sent next
  taken,      \* history: events given to receivers, in this order
  resend,     \* history: events of senders that were stopped after they had
              \* passed them on, and have yet to repeat the call
  loads       \* savestates loaded so far

queueVars == <<registered, exists, events, pq, mutex, woken, taken>>
portVars == <<port, connected, is_busy>>
callVars == <<pc, call, event, ret, timed, loaded>>
world == <<type, loads, resend>>
vars == <<queueVars, portVars, callVars, sched, stopped, next, world>>

Calls == {"receive", "send", "destroy"}

Waiting(t) == pc[t] \in {"waiting", "timedout", "unqueue"}

TypeOK ==
  /\ registered \in BOOLEAN /\ exists \in BOOLEAN
  /\ events \in Seq(1..MaxEvents) /\ Len(events) <= Size
  /\ pq \in Seq(Threads) /\ NoDuplicates(pq)
  /\ mutex \in Threads \cup {None}
  /\ type \in PortTypes
  /\ port \in BOOLEAN /\ connected \in BOOLEAN
  /\ is_busy \in Nat
  /\ sched \in [Threads -> SchedStates]
  /\ pc \in [Threads -> {"idle", "waiting", "timedout", "unqueue", "try",
                         "notified", "cancel", "awake", "ipc", "again",
                         "halted", "repeat"}]
  /\ call \in [Threads -> Calls \cup {"none"}]
  /\ event \in [Threads -> 0..MaxEvents]
  /\ ret \in [Threads -> {"ok", "canceled"}]
  /\ timed \in [Threads -> BOOLEAN]
  /\ loaded \in [Threads -> BOOLEAN]
  /\ stopped \in [Threads -> BOOLEAN]
  /\ woken \in [Threads -> SUBSET Threads]
  /\ next \in 1..(MaxEvents + 1)
  /\ taken \in Seq(1..MaxEvents)
  /\ resend \subseteq 1..MaxEvents
  /\ loads \in 0..MaxLoads

Init ==
  /\ registered = TRUE /\ exists = TRUE
  /\ events = <<>>
  /\ pq = <<>>
  /\ mutex = None
  /\ type \in PortTypes
  /\ port = TRUE /\ connected = FALSE
  /\ is_busy = 0
  /\ sched = [t \in Threads |-> "run"]
  /\ pc = [t \in Threads |-> "idle"]
  /\ call = [t \in Threads |-> "none"]
  /\ event = [t \in Threads |-> 0]
  /\ ret = [t \in Threads |-> "ok"]
  /\ timed = [t \in Threads |-> FALSE]
  /\ loaded = [t \in Threads |-> FALSE]
  /\ stopped = [t \in Threads |-> FALSE]
  /\ woken = [t \in Threads |-> {}]
  /\ next = 1
  /\ taken = <<>>
  /\ resend = {}
  /\ loads = 0

----------------------------------------------------------------------------
\* A thread may make a call between calls; one that has to be repeated comes
\* first, and the emulator runs only when every thread that was asleep when the
\* state was saved is asleep again (g_to_sleep).
Calling(t, name) ==
  \/ pc[t] = "idle" /\ \A u \in Threads : ~loaded[u]
  \/ /\ pc[t] = "repeat"
     /\ call[t] = name
     /\ loaded[t] \/ \A u \in Threads : ~loaded[u]

Finish(t, label) ==
  /\ pc' = [pc EXCEPT ![t] = label]
  /\ call' = [call EXCEPT ![t] = "none"]
  /\ event' = [event EXCEPT ![t] = 0]
  /\ ret' = [ret EXCEPT ![t] = "ok"]
  /\ timed' = [timed EXCEPT ![t] = FALSE]
  /\ loaded' = [loaded EXCEPT ![t] = FALSE]

Return(t) == Finish(t, IF stopped[t] THEN "halted" ELSE "idle")

\* return with cpu_flag::again: the call is repeated when the savestate is
\* loaded, with the arguments it had.
ReturnAgain(t, name, data) ==
  /\ pc' = [pc EXCEPT ![t] = "again"]
  /\ call' = [call EXCEPT ![t] = name]
  /\ event' = [event EXCEPT ![t] = data]
  /\ ret' = [ret EXCEPT ![t] = "ok"]
  /\ timed' = [timed EXCEPT ![t] = FALSE]
  /\ loaded' = [loaded EXCEPT ![t] = FALSE]

Goto(t, label) ==
  pc' = [pc EXCEPT ![t] = label] /\ UNCHANGED <<call, event, ret, timed, loaded>>

----------------------------------------------------------------------------
\* sys_event_queue_receive: there is an event.
ReceiveTake(t) ==
  /\ t \in Receivers /\ Calling(t, "receive")
  /\ registered /\ mutex = None
  /\ events # <<>>
  /\ events' = Tail(events)
  /\ taken' = Append(taken, Head(events))
  /\ Return(t)
  /\ UNCHANGED <<registered, exists, pq, mutex, woken, portVars, sched, stopped,
                 next, world>>

\* There is none: the thread sleeps and is queued.
ReceiveEnqueue(t) ==
  /\ t \in Receivers /\ Calling(t, "receive")
  /\ registered /\ mutex = None
  /\ events = <<>>
  /\ sched' = sleep(sched, t)
  /\ pq' = emplace(pq, t)
  /\ pc' = [pc EXCEPT ![t] = "waiting"]
  /\ \E timeout \in BOOLEAN : timed' = [timed EXCEPT ![t] = timeout]
  /\ loaded' = [loaded EXCEPT ![t] = FALSE]
  /\ call' = [call EXCEPT ![t] = "none"]
  /\ UNCHANGED <<registered, exists, events, mutex, woken, taken, portVars,
                 event, ret, stopped, next, world>>

\* The waiting loop: the signal has come.
ReceiveSignaled(t) ==
  /\ pc[t] = "waiting"
  /\ sched[t] = "signal"
  /\ sched' = [sched EXCEPT ![t] = "run"]
  /\ Return(t)
  /\ UNCHANGED <<queueVars, portVars, stopped, next, world>>

\* Mutant: a stopped receive is repeated even if it was given an event.
ReceiveStoppedBlind(t) ==
  /\ pc[t] = "waiting"
  /\ stopped[t]
  /\ mutex = None
  /\ ReturnAgain(t, "receive", event[t])
  /\ UNCHANGED <<queueVars, portVars, sched, stopped, next, world>>

\* The waiting loop: the thread was told to stop; still queued, it repeats the
\* call, and otherwise returns what it was given.
ReceiveStopped(t) ==
  /\ pc[t] = "waiting"
  /\ stopped[t]
  /\ mutex = None
  /\ IF t \in Range(pq) THEN ReturnAgain(t, "receive", event[t]) ELSE Return(t)
  /\ UNCHANGED <<queueVars, portVars, sched, stopped, next, world>>

\* The waiting loop: wait_timeout says the time has passed.
ReceiveTimeout(t) ==
  /\ pc[t] = "waiting"
  /\ timed[t]
  /\ Goto(t, "timedout")
  /\ UNCHANGED <<queueVars, portVars, sched, stopped, next, world>>

\* Wait for rescheduling.
ReceiveCheckState(t) ==
  /\ pc[t] = "timedout"
  /\ ~stopped[t]
  /\ sched' = check_state(sched, t)
  /\ Goto(t, "unqueue")
  /\ UNCHANGED <<queueVars, portVars, stopped, next, world>>

\* check_state returns true in a stopped thread, before or after cpu_sleep.
ReceiveCheckStateStopped(t) ==
  /\ pc[t] = "timedout"
  /\ stopped[t]
  /\ \/ sched[t] # "signal" /\ UNCHANGED sched
     \/ sched' = check_state(sched, t)
  /\ Goto(t, "waiting")
  /\ UNCHANGED <<queueVars, portVars, stopped, next, world>>

\* CELL_ETIMEDOUT.
ReceiveUnqueue(t) ==
  /\ pc[t] = "unqueue"
  /\ mutex = None
  /\ t \in Range(pq)
  /\ pq' = unqueue(pq, t)
  /\ Return(t)
  /\ UNCHANGED <<registered, exists, events, mutex, woken, taken, portVars,
                 sched, stopped, next, world>>

\* Mutant: a receive that finds the queue empty does not wait for queue.mutex.
ReceiveUnqueueUnlocked(t) ==
  /\ pc[t] = "unqueue"
  /\ t \notin Range(pq)
  /\ Return(t)
  /\ UNCHANGED <<queueVars, portVars, sched, stopped, next, world>>

\* The receive was given an event or canceled before it entered queue.mutex; when
\* the queue is empty, lock_unlock waits for whoever is inside.
ReceiveUnqueueLate(t) ==
  /\ pc[t] = "unqueue"
  /\ mutex = None
  /\ t \notin Range(pq)
  /\ Return(t)
  /\ UNCHANGED <<queueVars, portVars, sched, stopped, next, world>>

\* sys_event_queue_tryreceive finds the queue,
TryLookup(t) ==
  /\ t \in Receivers /\ Calling(t, "try")
  /\ registered
  /\ Goto(t, "try")
  /\ UNCHANGED <<queueVars, portVars, sched, stopped, next, world>>

\* which may be gone when it enters queue.mutex.
TryTake(t) ==
  /\ pc[t] = "try"
  /\ mutex = None
  /\ IF exists
     THEN \E count \in 0..Len(events) :
            /\ taken' = taken \o SubSeq(events, 1, count)
            /\ events' = SubSeq(events, count + 1, Len(events))
     ELSE UNCHANGED <<events, taken>>
  /\ Return(t)
  /\ UNCHANGED <<registered, exists, pq, mutex, woken, portVars, sched, stopped,
                 next, world>>

----------------------------------------------------------------------------
\* sys_event_port_send of a new event, or of the one that is sent again.
Sending(t, e) ==
  /\ t \in Senders /\ Calling(t, "send")
  /\ port
  /\ IF pc[t] = "idle"
     THEN e = next /\ next <= MaxEvents /\ next' = next + 1
     ELSE e = event[t] /\ UNCHANGED next

\* Mutant: a full queue still takes an event.
RoomForOneMore == Len(events) <= Size

HasRoom == Len(events) < Size

\* Nobody waits: the event is stored, or refused with CELL_EBUSY.
SendStore(t) ==
  /\ \E e \in 1..MaxEvents :
       /\ Sending(t, e) /\ ~loaded[t]
       /\ connected /\ exists /\ mutex = None
       /\ pq = <<>>
       /\ events' = IF HasRoom THEN Append(events, e) ELSE events
       /\ resend' = resend \ {e}
  /\ Return(t)
  /\ UNCHANGED <<registered, exists, pq, mutex, woken, taken, portVars, sched,
                 stopped, type, loads>>

\* The event goes into the registers of a receiver.  If that is more urgent than
\* the sender, the sender marks the port and waits to be scheduled again.
SendPass(t) ==
  /\ \E e \in 1..MaxEvents, i \in DOMAIN pq :
       /\ Sending(t, e) /\ ~loaded[t]
       /\ connected /\ exists /\ mutex = None
       /\ Schedules(pq, Protocol, Prio, i)
       /\ pc[pq[i]] # "again"
       /\ pq' = RemoveAt(pq, i)
       /\ sched' = awake(sched, {pq[i]})
       /\ taken' = Append(taken, e)
       /\ resend' = resend \ {e}
       /\ LET yields == Prio[pq[i]] < Prio[t]
          IN  /\ is_busy' = IF yields THEN is_busy + 1 ELSE is_busy
              /\ event' = [event EXCEPT ![pq[i]] = e,
                                        ![t] = IF yields THEN e ELSE 0]
              /\ pc' = [pc EXCEPT ![t] = IF yields THEN "notified"
                                         ELSE IF stopped[t] THEN "halted"
                                         ELSE "idle"]
  /\ call' = [call EXCEPT ![t] = "none"]
  /\ UNCHANGED <<registered, exists, events, mutex, woken, port, connected, ret,
                 timed, loaded, stopped, type, loads>>

\* The receiver will repeat its call after the savestate, and so will the
\* sender.  lv2_obj::schedule leaves such a receiver in the queue.
SendAgain(t) ==
  /\ \E e \in 1..MaxEvents, i \in DOMAIN pq :
       /\ Sending(t, e) /\ ~loaded[t]
       /\ connected /\ exists /\ mutex = None
       /\ Schedules(pq, Protocol, Prio, i)
       /\ pc[pq[i]] = "again"
       /\ ReturnAgain(t, "send", e)
  /\ UNCHANGED <<queueVars, portVars, sched, stopped, world>>

\* CELL_ENOTCONN.  A repeated send that knows of the savestate only waits.
SendElse(t) ==
  /\ \E e \in 1..MaxEvents : Sending(t, e) /\ resend' = resend \ {e}
  /\ loaded[t] \/ ~(connected /\ exists)
  /\ IF loaded[t]
     THEN /\ is_busy' = is_busy + 1
          /\ pc' = [pc EXCEPT ![t] = "notified"]
          /\ loaded' = [loaded EXCEPT ![t] = FALSE]
          /\ UNCHANGED <<call, event, ret, timed>>
     ELSE Return(t) /\ UNCHANGED is_busy
  /\ UNCHANGED <<queueVars, port, connected, sched, stopped, type, loads>>

\* The sender is scheduled again, or stopped while it waits for that: it then
\* repeats the call after the savestate, although its event was passed on.
SendRequeued(t) ==
  /\ pc[t] = "notified"
  /\ is_busy' = is_busy - 1
  /\ IF stopped[t]
     THEN ReturnAgain(t, "send", event[t]) /\ resend' = resend \cup {event[t]}
     ELSE Return(t) /\ UNCHANGED resend
  /\ UNCHANGED <<queueVars, port, connected, sched, stopped, next, type, loads>>

----------------------------------------------------------------------------
\* sys_event_queue_drain
Drain(t) ==
  /\ t \in Managers /\ Calling(t, "drain")
  /\ registered /\ mutex = None
  /\ events' = <<>>
  /\ Return(t)
  /\ UNCHANGED <<registered, exists, pq, mutex, woken, taken, portVars, sched,
                 stopped, next, world>>

\* sys_event_queue_destroy, unless it is CELL_EBUSY: with waiters it is forced.
Destroy(t) ==
  /\ t \in Managers /\ Calling(t, "destroy")
  /\ registered /\ mutex = None
  /\ \A w \in Range(pq) : pc[w] # "again"
  /\ registered' = FALSE /\ exists' = FALSE
  /\ IF pq = <<>>
     THEN Return(t) /\ UNCHANGED mutex
     ELSE mutex' = t /\ Goto(t, "cancel")
  /\ UNCHANGED <<events, pq, woken, taken, portVars, sched, stopped, next,
                 world>>

\* A waiter will repeat its call after the savestate, and so will the destroy.
DestroyAgain(t) ==
  /\ t \in Managers /\ Calling(t, "destroy")
  /\ registered /\ mutex = None
  /\ \E w \in Range(pq) : pc[w] = "again"
  /\ ReturnAgain(t, "destroy", 0)
  /\ UNCHANGED <<queueVars, portVars, sched, stopped, next, world>>

\* The waiters are told CELL_ECANCELED and leave the queue,
DestroyCancel(t) ==
  /\ pc[t] = "cancel"
  /\ ret' = [w \in Threads |-> IF w \in Range(pq) THEN "canceled" ELSE ret[w]]
  /\ woken' = [woken EXCEPT ![t] = Range(pq)]
  /\ pq' = <<>>
  /\ pc' = [pc EXCEPT ![t] = "awake"]
  /\ UNCHANGED <<registered, exists, events, mutex, taken, portVars, sched, call,
                 event, timed, loaded, stopped, next, world>>

\* and are awakened.
DestroyAwake(t) ==
  /\ pc[t] = "awake"
  /\ sched' = awake(sched, woken[t])
  /\ woken' = [woken EXCEPT ![t] = {}]
  /\ mutex' = None
  /\ Return(t)
  /\ UNCHANGED <<registered, exists, events, pq, taken, portVars, stopped, next,
                 world>>

\* sys_event_port_connect_local
Connect(t) ==
  /\ t \in Managers /\ Calling(t, "connect")
  /\ type = "LOCAL"
  /\ port /\ registered /\ ~(connected /\ exists)
  /\ connected' = TRUE
  /\ Return(t)
  /\ UNCHANGED <<queueVars, port, is_busy, sched, stopped, next, world>>

\* sys_event_port_connect_ipc finds the queue by its key,
IpcFind(t) ==
  /\ t \in Managers /\ Calling(t, "connect")
  /\ type = "IPC"
  /\ registered
  /\ Goto(t, "ipc")
  /\ UNCHANGED <<queueVars, portVars, sched, stopped, next, world>>

\* and connects to it even if it is gone by then.
ConnectIpc(t) ==
  /\ pc[t] = "ipc"
  /\ connected' = (connected \/ port)
  /\ Return(t)
  /\ UNCHANGED <<queueVars, port, is_busy, sched, stopped, next, world>>

\* Mutant: the port is disconnected while it is busy.
DisconnectBusy(t) ==
  /\ t \in Managers /\ Calling(t, "disconnect")
  /\ port /\ connected /\ exists
  /\ connected' = FALSE
  /\ Return(t)
  /\ UNCHANGED <<queueVars, port, is_busy, sched, stopped, next, world>>

\* sys_event_port_disconnect
Disconnect(t) ==
  /\ t \in Managers /\ Calling(t, "disconnect")
  /\ port /\ connected /\ exists
  /\ is_busy = 0
  /\ connected' = FALSE
  /\ Return(t)
  /\ UNCHANGED <<queueVars, port, is_busy, sched, stopped, next, world>>

\* sys_event_port_destroy
PortDestroy(t) ==
  /\ t \in Managers /\ Calling(t, "port_destroy")
  /\ port /\ ~(connected /\ exists)
  /\ port' = FALSE
  /\ Return(t)
  /\ UNCHANGED <<queueVars, connected, is_busy, sched, stopped, next, world>>

\* The emulator stops the thread, for good or to save its state.
Stop(t) ==
  /\ t \in Stoppable
  /\ ~stopped[t]
  /\ stopped' = [stopped EXCEPT ![t] = TRUE]
  /\ pc' = [pc EXCEPT ![t] = IF @ = "idle" THEN "halted" ELSE @]
  /\ UNCHANGED <<queueVars, portVars, sched, call, event, ret, timed, loaded,
                 next, world>>

\* The state of all threads, of the queue and of the port is saved and loaded:
\* neither the waiters nor is_busy are part of it.  A call that is repeated knows
\* of the savestate (loaded_from_savestate) if its thread was asleep.
Load ==
  /\ loads < MaxLoads
  /\ \A t \in Threads : pc[t] \in {"again", "halted"}
  /\ loads' = loads + 1
  /\ pq' = <<>>
  /\ is_busy' = 0
  /\ connected' = (connected /\ exists)
  /\ loaded' = [t \in Threads |-> pc[t] = "again" /\ sched[t] = "sleep"]
  /\ sched' = [t \in Threads |-> IF loaded'[t] THEN "sleep" ELSE "run"]
  /\ pc' = [t \in Threads |-> IF pc[t] = "again" THEN "repeat" ELSE "idle"]
  /\ stopped' = [t \in Threads |-> FALSE]
  /\ UNCHANGED <<registered, exists, events, mutex, woken, taken, type, port, call,
                 event, ret, timed, next, resend>>

Receive(t) ==
  \/ ReceiveTake(t) \/ ReceiveEnqueue(t) \/ ReceiveSignaled(t)
  \/ ReceiveStopped(t) \/ ReceiveTimeout(t) \/ ReceiveCheckState(t)
  \/ ReceiveCheckStateStopped(t) \/ ReceiveUnqueue(t) \/ ReceiveUnqueueLate(t)
  \/ TryLookup(t) \/ TryTake(t)

Send(t) ==
  \/ SendStore(t) \/ SendPass(t) \/ SendAgain(t) \/ SendElse(t)
  \/ SendRequeued(t)

Next ==
  \/ \E t \in Threads :
       \/ Receive(t) \/ Send(t) \/ Drain(t)
       \/ Destroy(t) \/ DestroyAgain(t) \/ DestroyCancel(t) \/ DestroyAwake(t)
       \/ Connect(t) \/ IpcFind(t) \/ ConnectIpc(t) \/ Disconnect(t) \/ PortDestroy(t)
       \/ Stop(t)
  \/ Load

Spec == Init /\ [][Next]_vars

----------------------------------------------------------------------------
\* What the queue promises: BoundedQueue.
Queue == INSTANCE BoundedQueue WITH
           Capacity <- Size, Events <- 1..MaxEvents,
           stored <- events, given <- taken, again <- resend

\* Events are stored while there is room, and come out once for each time they
\* went in, in that order, although senders pass them to waiting receivers, and
\* receivers time out, are canceled, stopped and loaded from a savestate.  An event
\* goes in once, and once more for each time that its sender was stopped for a
\* savestate between passing it to a receiver and returning.
ImplementsBoundedQueue == Queue!Spec

\* A receive waits only while no event is stored, and one that has been given an
\* event is neither queued nor canceled: it returns the event, whether awakened,
\* timed out or stopped.  A sleeping receiver is queued or about to be awakened,
\* and no wake-up is left over for the next sleep of a thread.
ReceiversServed ==
  /\ TypeOK
  /\ pq # <<>> => events = <<>>
  /\ \A t \in Threads :
       /\ t \in Range(pq) => event[t] = 0 /\ (Waiting(t) \/ pc[t] = "again")
       /\ Waiting(t) /\ event[t] # 0 => ret[t] = "ok"
       /\ Waiting(t) /\ sched[t] = "sleep" =>
            t \in Range(pq) \/ \E u \in Threads : t \in woken[u]
       /\ pc[t] \in {"idle", "try", "notified", "cancel", "awake", "ipc"} =>
            sched[t] = "run" /\ \A u \in Threads : t \notin woken[u]

\* While a sender waits to be scheduled again, the port stays connected as long
\* as the queue exists, and it is busy for nobody else.
BusyPortConnected ==
  /\ is_busy = Cardinality({t \in Threads : pc[t] = "notified"})
  /\ is_busy > 0 /\ exists => port /\ connected

\* A savestate loses no event: a receive that is repeated was given none.  It
\* doubles none but those of senders that were stopped while they waited to be
\* scheduled again: a send that is repeated has delivered its event in that case
\* only.  Every receiver that was asleep when the state was saved goes to sleep
\* again, that is it finds the queue and no event: the emulator waits for all of
\* them before it runs.
SavestateKeepsEvents ==
  \A t \in Threads :
    /\ pc[t] = "again" /\ call[t] = "receive" => event[t] = 0
    /\ pc[t] = "again" /\ call[t] = "send" =>
         (event[t] \in Range(taken \o events) <=> event[t] \in resend)
    /\ loaded[t] /\ call[t] = "receive" => registered /\ events = <<>>

\* "Block event port disconnection for the time being of sending events"
\* (lv2_event_queue::send): the port that a sender is about to release is there.
BusyPortKept == is_busy > 0 => port

\* "Wait again on savestate load" (sys_event_port_send): a send that has passed
\* its event on only waits when it is repeated.  No event is given out twice.
SentOnce == NoDuplicates(taken \o events)
=============================================================================
