-------------------------- MODULE EventQueueProofs --------------------------
(***************************************************************************)
(* The safety properties of EventQueue for any number of threads, events,  *)
(* savestates and any size of the queue, and that the queue implements     *)
(* BoundedQueue.                                                           *)
(***************************************************************************)
EXTENDS EventQueue, QueueLemmas

\* Inside a critical section of several steps: a forced destruction.
Inside(t) == pc[t] \in {"cancel", "awake"}

\* Where t can be: queued, canceled, asleep, or about to repeat a call.
Place(t) ==
  /\ t \in Range(pq) =>
       /\ event[t] = 0 /\ ret[t] = "ok" /\ sched[t] # "signal"
       /\ Waiting(t) \/ pc[t] = "again"
  /\ Waiting(t) =>
       /\ event[t] # 0 => ret[t] = "ok"
       /\ sched[t] = "sleep" => t \in Range(pq) \/ \E u \in Threads : t \in woken[u]
  /\ \A u \in Threads : t \in woken[u] =>
       /\ pc[u] = "awake"
       /\ Waiting(t) /\ event[t] = 0 /\ sched[t] # "signal" /\ t \notin Range(pq)
  /\ pc[t] \in {"idle", "unqueue", "try", "notified", "cancel", "awake", "ipc"} =>
       sched[t] = "run"
  /\ pc[t] \in {"idle", "halted"} => event[t] = 0 /\ ret[t] = "ok"
  /\ pc[t] = "again" =>
       /\ ret[t] = "ok"
       /\ IF call[t] = "receive" THEN t \in Range(pq) /\ event[t] = 0 ELSE sched[t] = "run"
  /\ pc[t] = "repeat" =>
       /\ ret[t] = "ok"
       /\ call[t] = "receive" => event[t] = 0
       /\ ~loaded[t] => sched[t] = "run"
  /\ loaded[t] => pc[t] = "repeat" /\ call[t] = "receive"
  /\ Inside(t) <=> mutex = t

\* The queue of receivers and the queue of events.
Queues ==
  /\ registered = exists
  /\ pq # <<>> => events = <<>>
  /\ pq # <<>> /\ ~registered => \E u \in Threads : pc[u] = "cancel"
  /\ \A u \in Threads : pc[u] = "cancel" => \A t \in Range(pq) : pc[t] # "again"

\* A savestate has been loaded and a receiver is not asleep again yet.
Loading ==
  (\E u \in Threads : loaded[u]) =>
    /\ registered /\ events = <<>>
    /\ \A t \in Threads : pc[t] \notin {"try", "notified", "cancel", "awake", "ipc"}

\* A send of t that is repeated after a savestate.
Resends(t) == pc[t] \in {"again", "repeat"} /\ call[t] = "send"

\* t has an event to send, or has passed it on and not returned yet.
Holds(t) == Resends(t) \/ pc[t] = "notified"

\* The events that are in the queue or were given to a receiver.
Sent == Range(events) \cup Range(taken)

\* Every event is sent once, unless its sender was stopped before it returned.
Once ==
  /\ \A e \in Sent : e < next
  /\ resend \subseteq Range(taken)
  /\ \A t \in Threads : Holds(t) =>
       /\ event[t] # 0 /\ event[t] < next
       /\ \A u \in Threads \ {t} : Holds(u) => event[u] # event[t]
  /\ \A t \in Threads :
       /\ Resends(t) /\ event[t] \in Sent => event[t] \in resend
       /\ pc[t] = "notified" => event[t] \in Range(taken)

\* The inductive invariant.
IInv ==
  /\ TypeOK
  /\ \A t \in Threads : Place(t)
  /\ Queues
  /\ Loading
  /\ BusyPortConnected
  /\ Once

\* What is_busy needs of the sizes of sets of threads.  It follows from the
\* threads being finitely many (Counting, at the end).
Counted ==
  /\ Cardinality({}) = 0
  /\ \A S \in SUBSET Threads :
       /\ Cardinality(S) \in Nat
       /\ \A t \in Threads \ S : Cardinality(S \cup {t}) = Cardinality(S) + 1
       /\ \A t \in S : /\ Cardinality(S \ {t}) = Cardinality(S) - 1
                      /\ Cardinality(S \ {t}) \in Nat

----------------------------------------------------------------------------
(* What several actions have in common. *)

\* The types of what belongs to a call.
CallOK ==
  /\ pc \in [Threads -> {"idle", "waiting", "timedout", "unqueue", "try",
                         "notified", "cancel", "awake", "ipc", "again",
                         "halted", "repeat"}]
  /\ call \in [Threads -> Calls \cup {"none"}]
  /\ event \in [Threads -> 0..MaxEvents]
  /\ ret \in [Threads -> {"ok", "canceled"}]
  /\ timed \in [Threads -> BOOLEAN]
  /\ loaded \in [Threads -> BOOLEAN]

\* The call of u goes on as it was.
SameCall(u) ==
  /\ pc'[u] = pc[u] /\ call'[u] = call[u] /\ event'[u] = event[u]
  /\ ret'[u] = ret[u] /\ loaded'[u] = loaded[u]

\* So do all calls but that of t.
SameCalls(t) == CallOK' /\ \A u \in Threads \ {t} : SameCall(u)

\* t has returned,
Returned(t) ==
  /\ pc'[t] = IF stopped[t] THEN "halted" ELSE "idle"
  /\ call'[t] = "none" /\ event'[t] = 0 /\ ret'[t] = "ok" /\ ~loaded'[t]

\* will repeat its call after a savestate,
PutOff(t, name, data) ==
  /\ pc'[t] = "again"
  /\ call'[t] = name /\ event'[t] = data /\ ret'[t] = "ok" /\ ~loaded'[t]

\* or went on to another step of it.
Moved(t, label) ==
  /\ pc'[t] = label
  /\ call'[t] = call[t] /\ event'[t] = event[t]
  /\ ret'[t] = ret[t] /\ loaded'[t] = loaded[t]

\* A call returns and clears what it used.
LEMMA Returns ==
  ASSUME TypeOK, NEW t \in Threads, Return(t)
  PROVE  SameCalls(t) /\ Returned(t)
  <1>1. CallOK'
    BY EventQueueAssumption DEF TypeOK, CallOK, Return, Finish
  <1> QED  BY Zenon, <1>1 DEF TypeOK, Return, Finish, SameCalls, SameCall, Returned

\* cpu_flag::again.
LEMMA PutsOff ==
  ASSUME TypeOK, NEW t \in Threads, NEW name \in Calls, NEW data \in 0..MaxEvents,
         ReturnAgain(t, name, data)
  PROVE  SameCalls(t) /\ PutOff(t, name, data)
  <1>1. CallOK'
    BY Zenon DEF TypeOK, CallOK, ReturnAgain
  <1> QED  BY Zenon, <1>1 DEF TypeOK, ReturnAgain, SameCalls, SameCall, PutOff

\* The next step of a call.
LEMMA Moves ==
  ASSUME TypeOK, NEW t \in Threads,
         NEW label \in {"waiting", "timedout", "unqueue", "try", "cancel", "ipc"},
         Goto(t, label)
  PROVE  SameCalls(t) /\ Moved(t, label)
  <1>1. CallOK'
    BY Zenon DEF TypeOK, CallOK, Goto
  <1> QED  BY Zenon, <1>1 DEF TypeOK, Goto, SameCalls, SameCall, Moved

\* t is in no queue, not inside queue.mutex, and nobody is about to awaken it.
Out(t) == t \notin Range(pq) /\ mutex # t /\ \A u \in Threads : t \notin woken[u]

\* So is a thread that makes a call; only a receive knows of a savestate.
Caller(t, name) ==
  /\ Out(t)
  /\ pc[t] \in {"idle", "repeat"}
  /\ ret[t] = "ok"
  /\ pc[t] = "repeat" => call[t] = name
  /\ pc[t] = "idle" \/ name = "receive" => event[t] = 0
  /\ loaded[t] => name = "receive"
  /\ ~loaded[t] => sched[t] = "run" /\ \A u \in Threads : ~loaded[u]

\* The calls of sys_event.cpp are made between calls.
LEMMA Callers ==
  ASSUME IInv, NEW t \in Threads, NEW name, Calling(t, name)
  PROVE  Caller(t, name)
  BY Zenon DEF IInv, Place, Calling, Caller, Out, Waiting, Inside

\* Nobody is inside a critical section of several steps that is free, and nobody
\* is about to be awakened.
LEMMA NobodyInside ==
  ASSUME IInv, mutex = None, NEW u \in Threads
  PROVE  ~Inside(u) /\ \A w \in Threads : u \notin woken[w]
  BY EventQueueAssumption DEF IInv, Place, Inside

\* A call that does not wait runs, and its thread is in no queue.
LEMMA OutsideWait ==
  ASSUME IInv, NEW t \in Threads, pc[t] \in {"try", "notified", "ipc"}
  PROVE  Out(t) /\ sched[t] = "run"
  BY Zenon DEF IInv, Place, Out, Waiting, Inside

\* A thread that has returned is in its place.
LEMMA ReturnPlace ==
  ASSUME NEW t \in Threads, Returned(t), Out(t)', pc'[t] = "idle" => sched'[t] = "run"
  PROVE  Place(t)'
  BY Zenon DEF Place, Out, Returned, Waiting, Inside

\* A thread that will repeat its call is in its place.
LEMMA PutOffPlace ==
  ASSUME NEW t \in Threads, NEW name, NEW data, PutOff(t, name, data), name # "receive",
         Out(t)', sched'[t] = "run"
  PROVE  Place(t)'
  BY Zenon DEF Place, Out, PutOff, Waiting, Inside

\* So is one that goes on with a call.
LEMMA CallPlace ==
  ASSUME NEW t \in Threads, NEW name, Caller(t, name), name # "receive",
         NEW label \in {"try", "ipc"}, Moved(t, label), Out(t)', sched'[t] = sched[t]
  PROVE  Place(t)'
  BY Zenon DEF Place, Caller, Out, Moved, Waiting, Inside

\* A thread goes on waiting.
LEMMA WaitPlace ==
  ASSUME NEW t \in Threads, Place(t), Waiting(t), SameCalls(t),
         NEW label \in {"waiting", "timedout", "unqueue"}, Moved(t, label),
         UNCHANGED <<pq, mutex, woken>>, sched'[t] \in {sched[t], "run"},
         label = "unqueue" => sched'[t] = "run"
  PROVE  Place(t)'
  <1>1. ASSUME NEW w \in Threads, t \in woken'[w]  PROVE pc'[w] = "awake"
    BY Zenon, <1>1 DEF Place, Waiting, SameCalls, SameCall
  <1>2. Waiting(t)' /\ ~loaded[t] /\ mutex' # t /\ ~Inside(t)'
    BY Zenon DEF Place, Moved, Waiting, Inside
  <1> QED  BY Zenon, <1>1, <1>2 DEF Place, Moved, Waiting

\* Nothing happens to u.
Untouched(u) ==
  /\ SameCall(u)
  /\ sched'[u] = sched[u]
  /\ u \in Range(pq)' <=> u \in Range(pq)
  /\ mutex' = u <=> mutex = u
  /\ \A w \in Threads : /\ u \in woken'[w] <=> u \in woken[w]
                        /\ u \in woken[w] => pc'[w] = "awake"

\* Then u stays where it is.
LEMMA Stays ==
  ASSUME NEW u \in Threads, Place(u), Untouched(u)
  PROVE  Place(u)'
  BY Zenon DEF Place, Untouched, SameCall, Waiting, Inside

\* A step of t that nobody else notices.
Alone(t) ==
  /\ SameCalls(t)
  /\ mutex' = mutex /\ woken' = woken
  /\ pc[t] # "awake" \/ pc'[t] = "awake"
  /\ \A u \in Threads \ {t} : /\ sched'[u] = sched[u]
                              /\ u \in Range(pq)' <=> u \in Range(pq)

\* Everybody else stays in their place.
LEMMA KeepsPlaces ==
  ASSUME IInv, NEW t \in Threads, Alone(t), NEW u \in Threads \ {t}
  PROVE  Place(u)'
  <1>1. ASSUME NEW w \in Threads, u \in woken[w]  PROVE pc'[w] = "awake"
    BY <1>1 DEF IInv, Place, Alone, SameCalls, SameCall
  <1>2. Untouched(u)
    BY Zenon, <1>1 DEF Alone, SameCalls, Untouched
  <1> QED  BY Zenon, <1>2, Stays DEF IInv

\* Only t moves, neither into nor out of a forced destruction, and nothing is
\* added to a queue, unless an event while nobody waits.
SameQueues(t) ==
  /\ UNCHANGED <<registered, exists>>
  /\ pq = <<>> \/ (events = <<>> => events' = <<>>)
  /\ Range(pq)' \subseteq Range(pq) /\ (pq = <<>> => pq' = <<>>)
  /\ SameCalls(t)
  /\ pc'[t] = "cancel" <=> pc[t] = "cancel"
  /\ pc'[t] = "again" => pc[t] = "again" \/ mutex = None

\* Such a step keeps the facts about the queues.
LEMMA KeepsQueues ==
  ASSUME IInv, NEW t \in Threads, SameQueues(t)
  PROVE  Queues'
  <1>1. registered' = exists' /\ (pq' # <<>> => events' = <<>>)
    BY Zenon DEF SameQueues, IInv, Queues
  <1>2. ASSUME NEW u \in Threads  PROVE pc'[u] = "cancel" <=> pc[u] = "cancel"
    BY Zenon DEF SameQueues, SameCalls, SameCall
  <1>3. pq' # <<>> /\ ~registered' => \E u \in Threads : pc'[u] = "cancel"
    BY Zenon, <1>2 DEF SameQueues, IInv, Queues
  <1>4. ASSUME NEW u \in Threads, pc'[u] = "cancel", NEW w \in Range(pq)'
        PROVE  pc'[w] # "again"
    <2>1. pc[u] = "cancel" /\ w \in Range(pq) /\ pc[w] # "again"
      BY Zenon, <1>2, <1>4 DEF SameQueues, IInv, Queues
    <2>2. mutex # None
      BY Zenon, <2>1, NobodyInside DEF Inside
    <2>3. w \in Threads
      BY Zenon, <2>1, Members DEF IInv, TypeOK
    <2> QED  BY Zenon, <2>1, <2>2, <2>3 DEF SameQueues, SameCalls, SameCall
  <1> QED  BY Zenon, <1>1, <1>3, <1>4 DEF Queues

\* Steps that no thread takes while a receiver has yet to sleep again.
Running == {"try", "notified", "cancel", "awake", "ipc"}

\* Only t moves, and it starts nothing before the receivers sleep.
SameLoading(t) ==
  /\ registered' = registered
  /\ (events = <<>> => events' = <<>>) \/ \A u \in Threads : ~loaded[u]
  /\ SameCalls(t)
  /\ loaded'[t] => loaded[t]
  /\ pc'[t] \in Running => pc[t] \in Running \/ \A u \in Threads : ~loaded[u]

\* Such a step keeps what the receivers need to sleep again.
LEMMA KeepsLoading ==
  ASSUME Loading, NEW t \in Threads, SameLoading(t)
  PROVE  Loading'
  <1>1. ASSUME NEW u \in Threads  PROVE loaded'[u] => loaded[u]
    BY Zenon DEF SameLoading, SameCalls, SameCall
  <1>2. ASSUME NEW u \in Threads, NEW w \in Threads, loaded[w]
        PROVE  pc'[u] \in Running => pc[u] \in Running
    BY Zenon, <1>2 DEF SameLoading, SameCalls, SameCall
  <1> QED  BY Zenon, <1>1, <1>2 DEF Loading, SameLoading, Running

\* No thread enters or leaves the wait in a send, and the port is as it was.
SamePort ==
  /\ is_busy' = is_busy
  /\ \A u \in Threads : pc'[u] = "notified" <=> pc[u] = "notified"
  /\ exists' => exists
  /\ exists' /\ port => port' \/ is_busy = 0
  /\ exists' /\ connected => connected' \/ is_busy = 0

\* Such a step keeps a busy port connected.
LEMMA KeepsPort ==
  ASSUME BusyPortConnected, SamePort
  PROVE  BusyPortConnected'
  <1>1. {t \in Threads : pc[t] = "notified"}' = {t \in Threads : pc[t] = "notified"}
    BY Zenon DEF SamePort
  <1> QED  BY <1>1 DEF SamePort, BusyPortConnected

\* u sends and holds no event that it did not before.
SameSend(u) ==
  /\ Resends(u)' => Resends(u) /\ event'[u] = event[u]
  /\ pc'[u] = "notified" => pc[u] = "notified" /\ event'[u] = event[u]

\* Others are not affected by a step of t.
LEMMA OtherSends ==
  ASSUME NEW t \in Threads, SameCalls(t), NEW u \in Threads \ {t}
  PROVE  SameSend(u)
  BY Zenon DEF SameCalls, SameCall, SameSend, Resends

\* No event is sent, and no send is put off.
SameSends(t) ==
  /\ next' = next /\ resend' = resend
  /\ Sent' \subseteq Sent /\ Range(taken) \subseteq Range(taken)'
  /\ SameCalls(t)
  /\ SameSend(t)

\* If nobody does, no event is sent twice.
LEMMA AllSame ==
  ASSUME Once, next' = next, resend' = resend, Sent' \subseteq Sent,
         Range(taken) \subseteq Range(taken)', \A u \in Threads : SameSend(u)
  PROVE  Once'
  <1>1. ASSUME NEW e \in Sent'  PROVE e < next'
    BY Zenon DEF Once
  <1>2. ASSUME NEW u \in Threads, Holds(u)'
        PROVE  Holds(u) /\ event'[u] = event[u]
    BY Zenon, <1>2 DEF SameSend, Holds
  <1>3. ASSUME NEW u \in Threads, Holds(u)'
        PROVE  /\ event'[u] # 0 /\ event'[u] < next'
               /\ \A w \in Threads \ {u} : Holds(w)' => event'[w] # event'[u]
    BY Zenon, <1>2, <1>3 DEF Once
  <1>4. ASSUME NEW u \in Threads
        PROVE  /\ Resends(u)' /\ event'[u] \in Sent' => event'[u] \in resend'
               /\ pc'[u] = "notified" => event'[u] \in Range(taken)'
    BY Zenon DEF SameSend, Once
  <1> QED  BY Zenon, <1>1, <1>3, <1>4 DEF Once

\* Such a step sends no event twice.
LEMMA KeepsOnce ==
  ASSUME NEW t \in Threads, SameSends(t), Once
  PROVE  Once'
  <1>1. ASSUME NEW u \in Threads  PROVE SameSend(u)
    BY Zenon, OtherSends DEF SameSends
  <1> QED  BY Zenon, <1>1, AllSame DEF SameSends

\* There is an event that was not sent yet, or all were.
LEMMA NextRange ==
  ASSUME TypeOK, NEW t \in Threads, NEW e, Sending(t, e)
  PROVE  next' \in 1..(MaxEvents + 1)
  <1>1. next \in 1..(MaxEvents + 1)
    BY Zenon DEF TypeOK
  <1>2. next' = next \/ (next <= MaxEvents /\ next' = next + 1)
    BY Zenon DEF Sending
  <1> QED  BY <1>1, <1>2, EventQueueAssumption

\* t sends the event e, which nobody else holds, and was not sent before unless
\* the sender was stopped.
SendsOne(t, e) ==
  /\ e \in 1..MaxEvents /\ e < next'
  /\ e \in Sent => e \in resend
  /\ next <= next'
  /\ \A u \in Threads \ {t} : Holds(u) => event[u] # e

\* A send has a new event, or its own that it sends again.
LEMMA Fresh ==
  ASSUME TypeOK, Once, NEW t \in Threads, Caller(t, "send"), NEW e \in 1..MaxEvents,
         Sending(t, e)
  PROVE  SendsOne(t, e)
  <1>1. next \in 1..(MaxEvents + 1)
    BY Zenon DEF TypeOK
  <1>2. CASE pc[t] = "idle"
    <2>1. e = next /\ next' = next + 1
      BY Zenon, <1>2 DEF Sending
    <2>2. e \notin Sent
      BY <1>1, <2>1 DEF Once
    <2>3. \A u \in Threads : Holds(u) => event[u] # e
      BY <1>1, <2>1 DEF Once
    <2> QED  BY <1>1, <2>1, <2>2, <2>3 DEF SendsOne
  <1>3. CASE pc[t] = "repeat"
    <2>1. e = event[t] /\ next' = next /\ Resends(t) /\ Holds(t)
      BY Zenon, <1>3 DEF Sending, Caller, Resends, Holds
    <2>2. /\ e < next /\ (e \in Sent => e \in resend)
          /\ \A u \in Threads \ {t} : Holds(u) => event[u] # e
      BY Zenon, <2>1 DEF Once
    <2> QED  BY <1>1, <2>1, <2>2 DEF SendsOne
  <1> QED  BY Zenon, <1>2, <1>3 DEF Caller

\* Events are numbers.
LEMMA SentRange ==
  ASSUME TypeOK
  PROVE  Sent \subseteq Nat
  <1>1. events \in Seq(1..MaxEvents) /\ taken \in Seq(1..MaxEvents)
    BY Zenon DEF TypeOK
  <1>2. ASSUME NEW x \in Range(events)  PROVE x \in 1..MaxEvents
    BY Zenon, <1>1, Members
  <1>3. ASSUME NEW x \in Range(taken)  PROVE x \in 1..MaxEvents
    BY Zenon, <1>1, Members
  <1> QED  BY <1>2, <1>3 DEF Sent

\* t has sent e or been refused, and others hold what they did.
Unsent(t, e) ==
  /\ ~Resends(t)'
  /\ pc'[t] = "notified" => event'[t] = e /\ e \in Range(taken)'
  /\ \A u \in Threads \ {t} : SameSend(u)

\* The event is sent or refused,
LEMMA SendOnce ==
  ASSUME TypeOK, TypeOK', Once, NEW t \in Threads, NEW e, SendsOne(t, e), Unsent(t, e),
         Sent' \subseteq Sent \cup {e}, Range(taken) \subseteq Range(taken)',
         resend' = resend \ {e}
  PROVE  Once'
  <1>0. next \in Nat /\ next' \in Nat
    BY DEF TypeOK
  <1>s. Sent \subseteq Nat
    BY Zenon, SentRange
  <1>1. ASSUME NEW x \in Sent'  PROVE x < next'
    <2>1. CASE x = e
      BY Zenon, <2>1 DEF SendsOne
    <2>2. CASE x \in Sent
      <3>1. x < next /\ next <= next'
        BY Zenon, <2>2 DEF SendsOne, Once
      <3> QED  BY <1>0, <1>s, <2>2, <3>1
    <2> QED  BY Zenon, <2>1, <2>2
  <1>2. ASSUME NEW u \in Threads \ {t}, Holds(u)'
        PROVE  Holds(u) /\ event'[u] = event[u] /\ event[u] # e
    BY Zenon, <1>2 DEF Unsent, SameSend, SendsOne, Holds
  <1>3. Holds(t)' => event'[t] = e
    BY Zenon DEF Unsent, Holds
  <1>4. ASSUME NEW u \in Threads, Holds(u)'  PROVE event'[u] # 0 /\ event'[u] < next'
    <2>1. CASE u = t
      BY <1>3, <1>4, <2>1 DEF SendsOne
    <2>2. CASE u # t
      <3>1. event'[u] = event[u] /\ event[u] # 0 /\ event[u] < next /\ event[u] \in Nat
        <4>1. event[u] \in Nat
          BY DEF TypeOK
        <4> QED  BY Zenon, <1>2, <1>4, <2>2, <4>1 DEF Once
      <3> QED  BY <1>0, <3>1 DEF SendsOne
    <2> QED  BY Zenon, <2>1, <2>2
  <1>5. ASSUME NEW u \in Threads, Holds(u)', NEW w \in Threads \ {u}, Holds(w)'
        PROVE  event'[w] # event'[u]
    BY Zenon, <1>2, <1>3, <1>5 DEF Once
  <1>6. ASSUME NEW u \in Threads, Resends(u)', event'[u] \in Sent'
        PROVE  event'[u] \in resend'
    <2>1. u # t /\ Resends(u) /\ event'[u] = event[u] /\ event[u] # e
      BY Zenon, <1>2, <1>6 DEF Unsent, SameSend, Holds
    <2> QED  BY Zenon, <1>6, <2>1 DEF Once
  <1>7. ASSUME NEW u \in Threads, pc'[u] = "notified"
        PROVE  event'[u] \in Range(taken)'
    BY Zenon, <1>7 DEF Unsent, SameSend, Once
  <1>8. resend' \subseteq Range(taken)'
    BY Zenon DEF Once
  <1> QED  BY Zenon, <1>1, <1>4, <1>5, <1>6, <1>7, <1>8 DEF Once

\* or put off.
LEMMA PutOffOnce ==
  ASSUME TypeOK, TypeOK', Once, NEW t \in Threads, NEW e, SendsOne(t, e), SameCalls(t),
         UNCHANGED <<events, taken, resend>>, event'[t] = e, pc'[t] = "again"
  PROVE  Once'
  <1>0. next \in Nat /\ next' \in Nat
    BY DEF TypeOK
  <1>s. Sent \subseteq Nat /\ Sent' = Sent /\ Range(taken)' = Range(taken)
    BY Zenon, SentRange DEF Sent
  <1>1. ASSUME NEW x \in Sent'  PROVE x < next'
    <2>1. x \in Sent /\ x < next /\ next <= next'
      BY Zenon, <1>s DEF SendsOne, Once
    <2> QED  BY <1>0, <1>s, <2>1
  <1>o. ASSUME NEW u \in Threads \ {t}  PROVE SameSend(u)
    BY Zenon, OtherSends
  <1>2. ASSUME NEW u \in Threads \ {t}, Holds(u)'
        PROVE  Holds(u) /\ event'[u] = event[u] /\ event[u] # e
    BY Zenon, <1>o, <1>2 DEF SameSend, Holds, SendsOne
  <1>4. ASSUME NEW u \in Threads, Holds(u)'  PROVE event'[u] # 0 /\ event'[u] < next'
    <2>1. CASE u = t
      BY <2>1 DEF SendsOne
    <2>2. CASE u # t
      <3>1. event'[u] = event[u] /\ event[u] # 0 /\ event[u] < next /\ event[u] \in Nat
        <4>1. event[u] \in Nat
          BY DEF TypeOK
        <4> QED  BY Zenon, <1>2, <1>4, <2>2, <4>1 DEF Once
      <3> QED  BY <1>0, <3>1 DEF SendsOne
    <2> QED  BY Zenon, <2>1, <2>2
  <1>5. ASSUME NEW u \in Threads, Holds(u)', NEW w \in Threads \ {u}, Holds(w)'
        PROVE  event'[w] # event'[u]
    BY Zenon, <1>2, <1>5 DEF Once
  <1>6. ASSUME NEW u \in Threads, Resends(u)', event'[u] \in Sent'
        PROVE  event'[u] \in resend'
    BY Zenon, <1>o, <1>s, <1>6 DEF SameSend, SendsOne, Once
  <1>7. ASSUME NEW u \in Threads, pc'[u] = "notified"
        PROVE  event'[u] \in Range(taken)'
    BY Zenon, <1>o, <1>s, <1>7 DEF SameSend, Once
  <1> QED  BY Zenon, <1>s, <1>1, <1>4, <1>5, <1>6, <1>7 DEF Once

\* The parts of the invariant come together after a step of t that nobody notices.
LEMMA Whole ==
  ASSUME IInv, NEW t \in Threads, TypeOK', Alone(t), Place(t)', Queues', Loading',
         BusyPortConnected', Once'
  PROVE  IInv'
  <1>1. ASSUME NEW u \in Threads \ {t}  PROVE Place(u)'
    BY Zenon, KeepsPlaces
  <1> QED  BY Zenon, <1>1 DEF IInv

\* What most steps of one thread leave alone.
Keeps(t) == SameQueues(t) /\ SameLoading(t) /\ SamePort

\* A step that sends no event preserves the inductive invariant,
LEMMA QuietStep ==
  ASSUME IInv, NEW t \in Threads, TypeOK', Alone(t), Place(t)', Keeps(t), SameSends(t)
  PROVE  IInv'
  <1>1. TypeOK /\ Loading /\ BusyPortConnected /\ Once
    BY Zenon DEF IInv
  <1>2. Queues'
    BY Zenon, KeepsQueues DEF Keeps
  <1>3. Loading' /\ BusyPortConnected'
    BY Zenon, <1>1, KeepsLoading, KeepsPort DEF Keeps
  <1>4. Once'
    BY Zenon, <1>1, KeepsOnce
  <1> QED  BY Zenon, <1>2, <1>3, <1>4, Whole

\* and one that sends an event does if it sends no event twice.
LEMMA SendStep ==
  ASSUME IInv, NEW t \in Threads, TypeOK', Alone(t), Place(t)', Keeps(t),
         Once'
  PROVE  IInv'
  <1>1. Loading /\ BusyPortConnected
    BY Zenon DEF IInv
  <1>2. Queues'
    BY Zenon, KeepsQueues DEF Keeps
  <1>3. Loading' /\ BusyPortConnected'
    BY Zenon, <1>1, KeepsLoading, KeepsPort DEF Keeps
  <1> QED  BY Zenon, <1>2, <1>3, Whole

----------------------------------------------------------------------------
(* One lemma per action: it preserves the inductive invariant. *)

\* ReceiveTake preserves the inductive invariant.
LEMMA ReceiveTakePreserves ==
  ASSUME IInv, NEW t \in Threads, ReceiveTake(t)
  PROVE  IInv'
  <1> SUFFICES ASSUME TypeOK, Place(t), Queues, Loading, BusyPortConnected,
                      Once
               PROVE  IInv'
    BY Zenon DEF IInv
  <1>c. Caller(t, "receive")
    BY Zenon, Callers DEF ReceiveTake
  <1>r. SameCalls(t) /\ Returned(t)
    BY Zenon, Returns DEF ReceiveTake, Caller
  <1>e. /\ events' \in Seq(1..MaxEvents) /\ Len(events') <= Size
        /\ taken' \in Seq(1..MaxEvents) /\ Sent' \subseteq Sent
        /\ Range(taken) \subseteq Range(taken')
    <2>1. events \in Seq(1..MaxEvents) /\ events # <<>> /\ taken \in Seq(1..MaxEvents)
      BY Zenon DEF TypeOK, ReceiveTake
    <2>2. /\ Head(events) \in 1..MaxEvents /\ Head(events) \in Range(events)
          /\ events' \in Seq(1..MaxEvents) /\ Len(events') = Len(events) - 1
          /\ Range(events') \subseteq Range(events)
      BY Zenon, EventQueueAssumption, <2>1, TakeOne DEF ReceiveTake
    <2>3. /\ taken' \in Seq(1..MaxEvents)
          /\ Range(taken') = Range(taken) \cup {Head(events)}
      BY <2>1, <2>2, AddOne DEF ReceiveTake
    <2>4. Len(events) \in Nat /\ Len(events) <= Size
      BY <2>1 DEF TypeOK
    <2>5. Len(events') <= Size
      BY EventQueueAssumption, <2>2, <2>4
    <2> QED  BY Zenon, <2>2, <2>3, <2>5 DEF Sent
  <1>1. TypeOK'
    BY Zenon, <1>r, <1>e DEF TypeOK, SameCalls, CallOK, ReceiveTake, portVars, world
  <1>2. Alone(t)
    BY Zenon, <1>c, <1>r, <1>e DEF Alone, TypeOK, Returned, Moved, PutOff,
       ReceiveTake, Caller, queueVars, portVars, world
  <1>3. Place(t)'
    <2>1. ~loaded[t]
      BY Zenon DEF ReceiveTake, Loading
    <2>2. Out(t)' /\ sched'[t] = "run"
      BY Zenon, <1>c, <2>1 DEF Out, Caller, ReceiveTake
    <2> QED  BY Zenon, <1>r, <2>2, ReturnPlace
  <1>4. Keeps(t) /\ SameSends(t)
    BY Zenon, <1>c, <1>r, <1>e DEF Keeps, SameQueues, SameLoading, SamePort,
       SameSends, Returned, ReceiveTake, Caller, queueVars, portVars, world,
       Running, SameCalls, SameCall, Resends, SameSend
  <1> QED  BY Zenon, <1>1, <1>2, <1>3, <1>4, QuietStep

\* ReceiveEnqueue preserves the inductive invariant.
LEMMA ReceiveEnqueuePreserves ==
  ASSUME IInv, NEW t \in Threads, ReceiveEnqueue(t)
  PROVE  IInv'
  <1> SUFFICES ASSUME TypeOK, \A u \in Threads : Place(u), Queues, Loading, BusyPortConnected,
                      Once
               PROVE  IInv'
    BY Zenon DEF IInv
  <1>c. Caller(t, "receive")
    BY Zenon, Callers DEF ReceiveEnqueue
  <1>r. /\ SameCalls(t)
        /\ pc'[t] = "waiting" /\ event'[t] = 0 /\ ret'[t] = "ok" /\ ~loaded'[t]
    <2>1. PICK timeout \in BOOLEAN : timed' = [timed EXCEPT ![t] = timeout]
      BY Zenon DEF ReceiveEnqueue
    <2>2. CallOK'
      BY Zenon, <2>1 DEF TypeOK, CallOK, ReceiveEnqueue
    <2> QED  BY Zenon, <1>c, <2>2 DEF TypeOK, SameCalls, SameCall, Caller,
                ReceiveEnqueue
  <1>q. /\ pq' \in Seq(Threads) /\ NoDuplicates(pq')
        /\ Range(pq') = Range(pq) \cup {t}
    <2>1. pq \in Seq(Threads) /\ NoDuplicates(pq) /\ t \notin Range(pq)
      BY Zenon, <1>c DEF TypeOK, Caller, Out
    <2>2. pq' = emplace(pq, t)
      BY Zenon DEF ReceiveEnqueue
    <2>3. /\ emplace(pq, t) \in Seq(Threads) /\ NoDuplicates(emplace(pq, t))
          /\ Range(emplace(pq, t)) = Range(pq) \cup {t}
      BY Zenon, <2>1, EmplaceSet
    <2> QED  BY Zenon, <2>2, <2>3
  <1>s. /\ sched' \in [Threads -> SchedStates] /\ sched'[t] = "sleep"
        /\ \A u \in Threads \ {t} : sched'[u] = sched[u]
    BY Zenon DEF ReceiveEnqueue, sleep, TypeOK, SchedStates
  <1>n. \A u \in Threads : ~Inside(u) /\ \A w \in Threads : u \notin woken[w]
    BY Zenon, NobodyInside DEF ReceiveEnqueue
  <1>1. TypeOK'
    BY Zenon, <1>r, <1>q, <1>s DEF TypeOK, SameCalls, CallOK, ReceiveEnqueue, portVars,
       world
  <1>2. Alone(t)
    BY Zenon, <1>r, <1>c, <1>q, <1>s DEF Alone, Caller, ReceiveEnqueue
  <1>3. Place(t)'
    <2>1. mutex' = mutex /\ woken' = woken /\ mutex # t
      BY Zenon, <1>c DEF ReceiveEnqueue, Caller, Out
    <2>2. t \in Range(pq)' /\ \A w \in Threads : t \notin woken[w]
      BY Zenon, <1>n, <1>q
    <2> QED  BY Zenon, <1>r, <1>s, <2>1, <2>2 DEF Place, Waiting, Inside
  <1>4. Queues'
    <2>1. ASSUME NEW u \in Threads  PROVE pc'[u] # "cancel"
      BY Zenon, <1>n, <1>r DEF Inside, SameCalls, SameCall
    <2> QED  BY Zenon, <2>1 DEF Queues, ReceiveEnqueue
  <1>5. Loading'
    BY Zenon, <1>r, KeepsLoading DEF SameLoading, Running, ReceiveEnqueue
  <1>6. BusyPortConnected'
    BY Zenon, <1>c, <1>r, KeepsPort DEF SamePort, SameCalls, SameCall, Caller,
       ReceiveEnqueue, portVars
  <1>7. Once'
    <2>1. Sent' = Sent
      BY Zenon DEF Sent, ReceiveEnqueue
    <2> QED  BY Zenon, <1>r, <2>1, KeepsOnce DEF SameSends, Resends, SameSend,
             ReceiveEnqueue, world
  <1> QED  BY Zenon, <1>1, <1>2, <1>3, <1>4, <1>5, <1>6, <1>7, Whole

\* ReceiveSignaled preserves the inductive invariant.
LEMMA ReceiveSignaledPreserves ==
  ASSUME IInv, NEW t \in Threads, ReceiveSignaled(t)
  PROVE  IInv'
  <1> SUFFICES ASSUME TypeOK, Place(t), Queues, Loading, BusyPortConnected,
                      Once
               PROVE  IInv'
    BY Zenon DEF IInv
  <1>r. SameCalls(t) /\ Returned(t)
    BY Zenon, Returns DEF ReceiveSignaled
  <1>1. TypeOK'
    BY Zenon, <1>r DEF TypeOK, SameCalls, CallOK, SchedStates, ReceiveSignaled,
       queueVars, portVars, world
  <1>2. Alone(t)
    BY Zenon, <1>r DEF Alone, TypeOK, Returned, Moved, PutOff, ReceiveSignaled,
       queueVars, portVars, world
  <1>o. Out(t)
    BY Zenon DEF Out, Place, Waiting, Inside, ReceiveSignaled
  <1>3. Place(t)'
    BY Zenon, <1>r, <1>o, ReturnPlace DEF Out, Returned, TypeOK, ReceiveSignaled,
       queueVars, portVars, world
  <1>4. Keeps(t) /\ SameSends(t)
    BY Zenon, <1>r DEF Keeps, SameQueues, SameLoading, SamePort, SameSends, Returned,
       ReceiveSignaled, queueVars, portVars, world, Running, SameCalls,
       SameCall, Sent, Resends, SameSend
  <1> QED  BY Zenon, <1>1, <1>2, <1>3, <1>4, QuietStep

\* ReceiveStopped preserves the inductive invariant.
LEMMA ReceiveStoppedPreserves ==
  ASSUME IInv, NEW t \in Threads, ReceiveStopped(t)
  PROVE  IInv'
  <1> SUFFICES ASSUME TypeOK, Place(t), Queues, Loading, BusyPortConnected,
                      Once
               PROVE  IInv'
    BY Zenon DEF IInv
  <1>r. SameCalls(t) /\ (IF t \in Range(pq) THEN PutOff(t, "receive", event[t]) ELSE Returned(t))
    BY Zenon, Returns, PutsOff DEF TypeOK, Calls, ReceiveStopped
  <1>1. TypeOK'
    BY Zenon, <1>r DEF TypeOK, SameCalls, CallOK, SchedStates, ReceiveStopped,
       queueVars, portVars, world
  <1>2. Alone(t)
    BY Zenon, <1>r DEF Alone, TypeOK, Returned, Moved, PutOff, ReceiveStopped,
       queueVars, portVars, world
  <1>o. mutex # t /\ \A w \in Threads : t \notin woken[w]
    BY Zenon, EventQueueAssumption, NobodyInside DEF ReceiveStopped
  <1>3. Place(t)'
    <2>1. CASE t \in Range(pq)
      <3>1. event[t] = 0 /\ sched[t] # "signal" /\ Out(t)' = FALSE
        BY Zenon, <2>1 DEF Place, Out, ReceiveStopped, queueVars
      <3> QED  BY Zenon, <1>r, <1>o, <2>1, <3>1 DEF PutOff, Place, Waiting, Inside,
               ReceiveStopped, queueVars
    <2>2. CASE t \notin Range(pq)
      <3>1. Out(t)' /\ pc'[t] # "idle"
        BY Zenon, <1>r, <1>o, <2>2 DEF Out, Returned, ReceiveStopped, queueVars
      <3> QED  BY Zenon, <1>r, <2>2, <3>1, ReturnPlace
    <2> QED  BY Zenon, <2>1, <2>2
  <1>4. Keeps(t) /\ SameSends(t)
    BY Zenon, <1>r DEF Keeps, SameQueues, SameLoading, SamePort, SameSends, Returned,
       PutOff, ReceiveStopped, queueVars, portVars, world, Running, SameCalls,
       SameCall, Sent, Resends, SameSend
  <1> QED  BY Zenon, <1>1, <1>2, <1>3, <1>4, QuietStep

\* ReceiveTimeout preserves the inductive invariant.
LEMMA ReceiveTimeoutPreserves ==
  ASSUME IInv, NEW t \in Threads, ReceiveTimeout(t)
  PROVE  IInv'
  <1> SUFFICES ASSUME TypeOK, Place(t), Queues, Loading, BusyPortConnected,
                      Once
               PROVE  IInv'
    BY Zenon DEF IInv
  <1>r. SameCalls(t) /\ Moved(t, "timedout")
    BY Zenon, Moves DEF ReceiveTimeout
  <1>1. TypeOK'
    BY Zenon, <1>r DEF TypeOK, SameCalls, CallOK, SchedStates, ReceiveTimeout,
       queueVars, portVars, world
  <1>2. Alone(t)
    BY Zenon, <1>r DEF Alone, TypeOK, Returned, Moved, PutOff, ReceiveTimeout,
       queueVars, portVars, world
  <1>3. Place(t)'
    BY Zenon, <1>r, WaitPlace DEF Waiting, TypeOK, ReceiveTimeout, queueVars,
       portVars, world
  <1>4. Keeps(t) /\ SameSends(t)
    BY Zenon, <1>r DEF Keeps, SameQueues, SameLoading, SamePort, SameSends, Moved,
       ReceiveTimeout, queueVars, portVars, world, Running, SameCalls,
       SameCall, Sent, Resends, SameSend
  <1> QED  BY Zenon, <1>1, <1>2, <1>3, <1>4, QuietStep

\* ReceiveCheckState preserves the inductive invariant.
LEMMA ReceiveCheckStatePreserves ==
  ASSUME IInv, NEW t \in Threads, ReceiveCheckState(t)
  PROVE  IInv'
  <1> SUFFICES ASSUME TypeOK, Place(t), Queues, Loading, BusyPortConnected,
                      Once
               PROVE  IInv'
    BY Zenon DEF IInv
  <1>r. SameCalls(t) /\ Moved(t, "unqueue")
    BY Zenon, Moves DEF ReceiveCheckState, check_state
  <1>1. TypeOK'
    BY Zenon, <1>r DEF TypeOK, SameCalls, CallOK, SchedStates, ReceiveCheckState,
       check_state, queueVars, portVars, world
  <1>2. Alone(t)
    BY Zenon, <1>r DEF Alone, TypeOK, Returned, Moved, PutOff, ReceiveCheckState,
       check_state, queueVars, portVars, world
  <1>3. Place(t)'
    BY Zenon, <1>r, WaitPlace DEF Waiting, TypeOK, ReceiveCheckState, check_state,
       queueVars, portVars, world
  <1>4. Keeps(t) /\ SameSends(t)
    BY Zenon, <1>r DEF Keeps, SameQueues, SameLoading, SamePort, SameSends, Moved,
       ReceiveCheckState, check_state, queueVars, portVars, world, Running,
       SameCalls, SameCall, Sent, Resends, SameSend
  <1> QED  BY Zenon, <1>1, <1>2, <1>3, <1>4, QuietStep

\* ReceiveCheckStateStopped preserves the inductive invariant.
LEMMA ReceiveCheckStateStoppedPreserves ==
  ASSUME IInv, NEW t \in Threads, ReceiveCheckStateStopped(t)
  PROVE  IInv'
  <1> SUFFICES ASSUME TypeOK, Place(t), Queues, Loading, BusyPortConnected,
                      Once
               PROVE  IInv'
    BY Zenon DEF IInv
  <1>r. SameCalls(t) /\ Moved(t, "waiting")
    BY Zenon, Moves DEF ReceiveCheckStateStopped, check_state
  <1>s. /\ sched' \in [Threads -> SchedStates] /\ sched'[t] \in {sched[t], "run"}
        /\ \A u \in Threads \ {t} : sched'[u] = sched[u]
    <2>1. CASE sched' = sched
      BY Zenon, <2>1 DEF TypeOK
    <2>2. CASE sched' = [sched EXCEPT ![t] = "run"]
      BY Zenon, <2>2 DEF TypeOK, SchedStates
    <2> QED  BY Zenon, <2>1, <2>2 DEF ReceiveCheckStateStopped, check_state
  <1>1. TypeOK'
    BY Zenon, <1>r, <1>s DEF TypeOK, SameCalls, CallOK, SchedStates,
       ReceiveCheckStateStopped, check_state, queueVars, portVars, world
  <1>2. Alone(t)
    BY Zenon, <1>r, <1>s DEF Alone, TypeOK, Returned, Moved, PutOff,
       ReceiveCheckStateStopped, check_state, queueVars, portVars, world
  <1>3. Place(t)'
    BY Zenon, <1>r, <1>s, WaitPlace DEF Waiting, TypeOK, ReceiveCheckStateStopped,
       check_state, queueVars, portVars, world
  <1>4. Keeps(t) /\ SameSends(t)
    BY Zenon, <1>r, <1>s DEF Keeps, SameQueues, SameLoading, SamePort, SameSends,
       Moved, ReceiveCheckStateStopped, check_state, queueVars, portVars,
       world, Running, SameCalls, SameCall, Sent, Resends, SameSend
  <1> QED  BY Zenon, <1>1, <1>2, <1>3, <1>4, QuietStep

\* ReceiveUnqueue preserves the inductive invariant.
LEMMA ReceiveUnqueuePreserves ==
  ASSUME IInv, NEW t \in Threads, ReceiveUnqueue(t)
  PROVE  IInv'
  <1> SUFFICES ASSUME TypeOK, Place(t), Queues, Loading, BusyPortConnected,
                      Once
               PROVE  IInv'
    BY Zenon DEF IInv
  <1>r. SameCalls(t) /\ Returned(t)
    BY Zenon, Returns DEF ReceiveUnqueue
  <1>q. /\ pq' \in Seq(Threads) /\ NoDuplicates(pq') /\ pq # <<>>
        /\ Range(pq') = Range(pq) \ {t}
    BY UnqueueSet, EmptyQueue DEF TypeOK, ReceiveUnqueue
  <1>1. TypeOK'
    BY Zenon, <1>r, <1>q DEF TypeOK, SameCalls, CallOK, ReceiveUnqueue, portVars, world
  <1>2. Alone(t)
    BY Zenon, <1>r, <1>q DEF Alone, ReceiveUnqueue
  <1>o. Out(t)' /\ sched[t] = "run"
    BY Zenon, <1>q, NobodyInside DEF Out, Place, ReceiveUnqueue
  <1>3. Place(t)'
    BY Zenon, <1>r, <1>o, ReturnPlace DEF ReceiveUnqueue
  <1>4. Keeps(t) /\ SameSends(t)
    BY Zenon, <1>r, <1>q DEF Keeps, SameQueues, SameLoading, SamePort, SameSends,
       Returned, ReceiveUnqueue, Running, queueVars, portVars, world,
       SameCalls, SameCall, Sent, Resends, SameSend
  <1> QED  BY Zenon, <1>1, <1>2, <1>3, <1>4, QuietStep

\* ReceiveUnqueueLate preserves the inductive invariant.
LEMMA ReceiveUnqueueLatePreserves ==
  ASSUME IInv, NEW t \in Threads, ReceiveUnqueueLate(t)
  PROVE  IInv'
  <1> SUFFICES ASSUME TypeOK, Place(t), Queues, Loading, BusyPortConnected,
                      Once
               PROVE  IInv'
    BY Zenon DEF IInv
  <1>r. SameCalls(t) /\ Returned(t)
    BY Zenon, Returns DEF ReceiveUnqueueLate
  <1>1. TypeOK'
    BY Zenon, <1>r DEF TypeOK, SameCalls, CallOK, SchedStates, ReceiveUnqueueLate,
       queueVars, portVars, world
  <1>2. Alone(t)
    BY Zenon, <1>r DEF Alone, TypeOK, Returned, Moved, PutOff, ReceiveUnqueueLate,
       queueVars, portVars, world
  <1>o. Out(t) /\ sched[t] = "run"
    BY Zenon, NobodyInside DEF Out, Place, ReceiveUnqueueLate
  <1>3. Place(t)'
    BY Zenon, <1>r, <1>o, ReturnPlace DEF Out, Returned, TypeOK, ReceiveUnqueueLate,
       queueVars, portVars, world
  <1>4. Keeps(t) /\ SameSends(t)
    BY Zenon, <1>r DEF Keeps, SameQueues, SameLoading, SamePort, SameSends, Returned,
       ReceiveUnqueueLate, queueVars, portVars, world, Running, SameCalls,
       SameCall, Sent, Resends, SameSend
  <1> QED  BY Zenon, <1>1, <1>2, <1>3, <1>4, QuietStep

\* TryLookup preserves the inductive invariant.
LEMMA TryLookupPreserves ==
  ASSUME IInv, NEW t \in Threads, TryLookup(t)
  PROVE  IInv'
  <1> SUFFICES ASSUME TypeOK, Place(t), Queues, Loading, BusyPortConnected,
                      Once
               PROVE  IInv'
    BY Zenon DEF IInv
  <1>c. Caller(t, "try")
    BY Zenon, Callers DEF TryLookup
  <1>r. SameCalls(t) /\ Moved(t, "try")
    BY Zenon, Moves DEF TryLookup, Caller
  <1>1. TypeOK'
    BY Zenon, <1>c, <1>r DEF TypeOK, SameCalls, CallOK, SchedStates, TryLookup,
       Caller, queueVars, portVars, world
  <1>2. Alone(t)
    BY Zenon, <1>c, <1>r DEF Alone, TypeOK, Returned, Moved, PutOff, TryLookup,
       Caller, queueVars, portVars, world
  <1>3. Place(t)'
    BY Zenon, <1>c, <1>r, CallPlace DEF Out, TypeOK, TryLookup, Caller, queueVars,
       portVars, world
  <1>4. Keeps(t) /\ SameSends(t)
    BY Zenon, <1>c, <1>r DEF Keeps, SameQueues, SameLoading, SamePort, SameSends,
       Moved, TryLookup, Caller, queueVars, portVars, world, Running,
       SameCalls, SameCall, Sent, Resends, SameSend
  <1> QED  BY Zenon, <1>1, <1>2, <1>3, <1>4, QuietStep

\* TryTake preserves the inductive invariant.
LEMMA TryTakePreserves ==
  ASSUME IInv, NEW t \in Threads, TryTake(t)
  PROVE  IInv'
  <1> SUFFICES ASSUME TypeOK, Place(t), Queues, Loading, BusyPortConnected,
                      Once
               PROVE  IInv'
    BY Zenon DEF IInv
  <1>r. SameCalls(t) /\ Returned(t)
    BY Zenon, Returns DEF TryTake
  <1>e. /\ events' \in Seq(1..MaxEvents) /\ Len(events') <= Size
        /\ events = <<>> => events' = <<>>
        /\ taken' \in Seq(1..MaxEvents) /\ Sent' \subseteq Sent
        /\ Range(taken) \subseteq Range(taken')
    <2>1. CASE ~exists
      BY Zenon, <2>1 DEF TypeOK, TryTake, Sent
    <2>2. CASE exists
      <3>1. PICK count \in 0..Len(events) :
              /\ taken' = taken \o SubSeq(events, 1, count)
              /\ events' = SubSeq(events, count + 1, Len(events))
        BY Zenon, <2>2 DEF TryTake
      <3>2. /\ SubSeq(events, 1, count) \in Seq(1..MaxEvents)
            /\ Range(SubSeq(events, 1, count)) \subseteq Range(events)
            /\ events' \in Seq(1..MaxEvents) /\ Len(events') = Len(events) - count
            /\ Range(events') \subseteq Range(events)
        BY Zenon, EventQueueAssumption, <3>1, TakeSome DEF TypeOK
      <3>3. /\ taken' \in Seq(1..MaxEvents)
            /\ Range(taken') \subseteq Range(taken) \cup Range(events)
            /\ Range(taken) \subseteq Range(taken')
        <4>1. taken \in Seq(1..MaxEvents)
          BY Zenon DEF TypeOK
        <4>2. PICK a \in Seq(1..MaxEvents) :
                taken' = taken \o a /\ Range(a) \subseteq Range(events)
          BY Zenon, EventQueueAssumption, <3>1, <3>2
        <4>3. taken' \in Seq(1..MaxEvents) /\ Range(taken') = Range(taken) \cup Range(a)
          BY <4>1, <4>2, JoinSets
        <4> QED  BY Zenon, <4>2, <4>3
      <3>4. Len(events) \in Nat /\ Len(events) <= Size /\ (events = <<>> => Len(events) = 0)
        BY DEF TypeOK
      <3>5. Len(events') <= Size /\ (events = <<>> => Len(events') = 0)
        BY EventQueueAssumption, <3>1, <3>2, <3>4
      <3>6. events = <<>> => events' = <<>>
        BY <3>2, <3>5
      <3> QED  BY Zenon, <3>2, <3>3, <3>5, <3>6 DEF Sent
    <2> QED  BY Zenon, <2>1, <2>2
  <1>1. TypeOK'
    BY Zenon, <1>r, <1>e DEF TypeOK, SameCalls, CallOK, TryTake, portVars, world
  <1>2. Alone(t)
    BY Zenon, <1>r, <1>e DEF Alone, TypeOK, Returned, Moved, PutOff, TryTake,
       queueVars, portVars, world
  <1>o. Out(t) /\ sched[t] = "run"
    BY Zenon, OutsideWait DEF TryTake
  <1>3. Place(t)'
    <2>1. Out(t)' /\ sched'[t] = "run"
      BY Zenon, <1>o DEF Out, TryTake
    <2> QED  BY Zenon, <1>r, <2>1, ReturnPlace
  <1>4. Keeps(t) /\ SameSends(t)
    BY Zenon, <1>r, <1>e DEF Keeps, SameQueues, SameLoading, SamePort, SameSends,
       Returned, TryTake, Running, SameCalls, SameCall, queueVars, portVars,
       world, Resends, SameSend
  <1> QED  BY Zenon, <1>1, <1>2, <1>3, <1>4, QuietStep

\* SendStore preserves the inductive invariant.
LEMMA SendStorePreserves ==
  ASSUME IInv, NEW t \in Threads, SendStore(t)
  PROVE  IInv'
  <1> SUFFICES ASSUME TypeOK, Place(t), Queues, Loading, BusyPortConnected,
                      Once
               PROVE  IInv'
    BY Zenon DEF IInv
  <1>c. Caller(t, "send")
    BY Zenon, Callers DEF SendStore, Sending
  <1>r. SameCalls(t) /\ Returned(t)
    BY Zenon, Returns DEF SendStore, Sending, Caller
  <1>k. pq = <<>> /\ mutex = None /\ ~loaded[t] /\ next' \in 1..(MaxEvents + 1)
    BY Zenon, NextRange DEF SendStore
  <1>f. PICK e \in 1..MaxEvents :
          /\ Sending(t, e)
          /\ events' = IF HasRoom THEN Append(events, e) ELSE events
          /\ resend' = resend \ {e}
    BY Zenon DEF SendStore
  <1>e. /\ events' \in Seq(1..MaxEvents) /\ Len(events') <= Size
        /\ Range(events') \subseteq Range(events) \cup {e}
    <2>1. events \in Seq(1..MaxEvents) /\ Len(events) \in Nat /\ Len(events) <= Size
      BY DEF TypeOK
    <2>2. CASE HasRoom
      <3>1. /\ events' \in Seq(1..MaxEvents) /\ Len(events') = Len(events) + 1
            /\ Range(events') = Range(events) \cup {e}
        BY EventQueueAssumption, <1>f, <2>1, <2>2, AddOne
      <3>2. Len(events) + 1 <= Size
        BY EventQueueAssumption, <2>1, <2>2 DEF HasRoom
      <3> QED  BY Zenon, <3>1, <3>2
    <2>3. CASE ~HasRoom
      BY Zenon, <1>f, <2>1, <2>3
    <2> QED  BY Zenon, <2>2, <2>3
  <1>1. TypeOK'
    BY Zenon, <1>r, <1>k, <1>f, <1>e DEF TypeOK, SameCalls, CallOK, SendStore,
       portVars
  <1>2. Alone(t)
    BY Zenon, <1>c, <1>r, <1>k, <1>e DEF Alone, TypeOK, Returned, Moved, PutOff,
       SendStore, Sending, Caller, queueVars, portVars, world
  <1>3. Place(t)'
    BY Zenon, <1>c, <1>r, <1>k, <1>e, ReturnPlace DEF Out, Returned, TypeOK,
       SendStore, Sending, Caller, queueVars, portVars, world
  <1>4. Keeps(t)
    BY Zenon, <1>c, <1>r, <1>k, <1>e DEF Keeps, SameQueues, SameLoading, SamePort,
       Returned, SendStore, Sending, Caller, queueVars, portVars, world,
       Running, SameCalls, SameCall
  <1>5. Once'
    <2>1. SendsOne(t, e)
      BY Zenon, <1>c, <1>f, Fresh
    <2>2. Sent' \subseteq Sent \cup {e} /\ Range(taken)' = Range(taken)
      BY Zenon, <1>e DEF Sent, SendStore
    <2>3. Unsent(t, e)
      BY Zenon, <1>r, OtherSends DEF Unsent, Resends, Returned
    <2> QED  BY Zenon, <1>f, <1>1, <2>1, <2>2, <2>3, SendOnce
  <1> QED  BY Zenon, <1>1, <1>2, <1>3, <1>4, <1>5, SendStep

\* SendPass preserves the inductive invariant.
LEMMA SendPassPreserves ==
  ASSUME Counted, IInv, NEW t \in Threads, SendPass(t)
  PROVE  IInv'
  <1> SUFFICES ASSUME TypeOK, \A u \in Threads : Place(u), Queues, Loading, BusyPortConnected,
                      Once
               PROVE  IInv'
    BY Zenon DEF IInv
  <1>f. PICK e \in 1..MaxEvents, i \in DOMAIN pq :
          /\ Sending(t, e) /\ ~loaded[t]
          /\ connected /\ exists /\ mutex = None
          /\ pc[pq[i]] # "again"
          /\ pq' = RemoveAt(pq, i)
          /\ sched' = awake(sched, {pq[i]})
          /\ taken' = Append(taken, e)
          /\ resend' = resend \ {e}
          /\ is_busy' = IF Prio[pq[i]] < Prio[t] THEN is_busy + 1 ELSE is_busy
          /\ event' = [event EXCEPT ![pq[i]] = e,
                                    ![t] = IF Prio[pq[i]] < Prio[t] THEN e ELSE 0]
          /\ pc' = [pc EXCEPT ![t] = IF Prio[pq[i]] < Prio[t] THEN "notified"
                                     ELSE IF stopped[t] THEN "halted" ELSE "idle"]
    BY Zenon DEF SendPass
  <1>c. Caller(t, "send")
    BY Zenon, <1>f, Callers DEF Sending
  <1>q. /\ pq[i] \in Range(pq) /\ pq[i] \in Threads /\ pq # <<>>
        /\ pq' \in Seq(Threads) /\ NoDuplicates(pq')
        /\ Range(pq') = Range(pq) \ {pq[i]}
    <2>1. pq \in Seq(Threads) /\ NoDuplicates(pq)
      BY Zenon DEF TypeOK
    <2>2. pq[i] \in Range(pq)
      BY Zenon DEF Range
    <2>3. pq' \in Seq(Threads) /\ NoDuplicates(pq') /\ Range(pq') = Range(pq) \ {pq[i]}
      BY Zenon, <1>f, <2>1, RemoveAtElements, RemoveAtSet
    <2> QED  BY Zenon, <2>1, <2>2, <2>3, Members, EmptyQueue
  <1>n. PICK n \in Threads : n = pq[i]
    BY Zenon, <1>q
  <1>w. /\ Waiting(n) /\ event[n] = 0 /\ ret[n] = "ok" /\ sched[n] # "signal"
        /\ n \in Range(pq) /\ n # t /\ ~loaded[n] /\ events = <<>>
    BY Zenon, <1>c, <1>f, <1>n, <1>q DEF Place, Queues, Waiting, Caller
  <1>b. PICK yields \in BOOLEAN :
          /\ is_busy' = IF yields THEN is_busy + 1 ELSE is_busy
          /\ event' = [event EXCEPT ![n] = e, ![t] = IF yields THEN e ELSE 0]
          /\ pc' = [pc EXCEPT ![t] = IF yields THEN "notified"
                                     ELSE IF stopped[t] THEN "halted" ELSE "idle"]
    BY Zenon, <1>f, <1>n
  <1>i. \A u \in Threads : ~Inside(u) /\ ~loaded[u] /\ \A w \in Threads : u \notin woken[w]
    BY Zenon, <1>c, <1>f, NobodyInside DEF Caller
  <1>s. /\ sched' \in [Threads -> SchedStates]
        /\ sched'[n] # "sleep" /\ (sched[n] = "run" => sched'[n] = "run")
        /\ \A u \in Threads \ {n} : sched'[u] = sched[u]
    BY Zenon, <1>f, <1>n, <1>w DEF awake, TypeOK, SchedStates
  <1>u. /\ \A u \in Threads \ {t} : pc'[u] = pc[u]
        /\ \A u \in Threads \ {t, n} : event'[u] = event[u]
        /\ event'[n] = e
        /\ pc'[t] \in {"idle", "halted", "notified"}
        /\ pc'[t] # "notified" => event'[t] = 0
        /\ pc'[t] = "notified" => event'[t] = e
        /\ pc'[t] = "notified" <=> yields
        /\ call' = [call EXCEPT ![t] = "none"]
        /\ UNCHANGED <<registered, exists, events, mutex, woken, port, connected, ret,
                       timed, loaded, stopped, type, loads>>
    <2>1. /\ call' = [call EXCEPT ![t] = "none"]
          /\ UNCHANGED <<registered, exists, events, mutex, woken, port, connected, ret,
                         timed, loaded, stopped, type, loads>>
      BY Zenon DEF SendPass
    <2>2. /\ \A u \in Threads \ {t} : pc'[u] = pc[u]
          /\ pc'[t] \in {"idle", "halted", "notified"}
          /\ pc'[t] = "notified" <=> yields
      BY Zenon, <1>b DEF TypeOK
    <2>3. /\ \A u \in Threads \ {t, n} : event'[u] = event[u]
          /\ event'[n] = e
          /\ event'[t] = IF yields THEN e ELSE 0
      BY <1>b, <1>w DEF TypeOK
    <2> QED  BY Zenon, <2>1, <2>2, <2>3
  <1>1. TypeOK'
    <2>1. is_busy' \in Nat
      BY <1>b DEF TypeOK
    <2>2. pc' \in [Threads -> {"idle", "waiting", "timedout", "unqueue", "try",
                               "notified", "cancel", "awake", "ipc", "again",
                               "halted", "repeat"}]
      BY Zenon, <1>b DEF TypeOK
    <2>3. event' \in [Threads -> 0..MaxEvents]
      <3>1. e \in 0..MaxEvents /\ 0 \in 0..MaxEvents
        BY EventQueueAssumption
      <3>2. PICK d \in 0..MaxEvents : event' = [event EXCEPT ![n] = e, ![t] = d]
        BY Zenon, <1>b, <3>1
      <3>3. event \in [Threads -> 0..MaxEvents]
        BY Zenon DEF TypeOK
      <3>4. [event EXCEPT ![n] = e] \in [Threads -> 0..MaxEvents]
        BY Zenon, <3>1, <3>3
      <3> QED  BY Zenon, <3>2, <3>4
    <2>4. call' \in [Threads -> Calls \cup {"none"}]
      BY Zenon, <1>u DEF TypeOK
    <2>5. taken' \in Seq(1..MaxEvents)
      BY Zenon, <1>f, AddOne DEF TypeOK
    <2>6. next' \in 1..(MaxEvents + 1)
      BY Zenon, <1>f, NextRange
    <2>7. resend' \subseteq 1..MaxEvents
      BY Zenon, <1>f DEF TypeOK
    <2> QED  BY Zenon, <1>q, <1>s, <1>u, <2>1, <2>2, <2>3, <2>4, <2>5, <2>6, <2>7 DEF
                TypeOK
  <1>2. ASSUME NEW u \in Threads \ {t, n}  PROVE Place(u)'
    <2>1. SameCall(u)
      BY Zenon, <1>u DEF SameCall, TypeOK
    <2>2. Untouched(u)
      BY Zenon, <1>i, <1>n, <1>q, <1>s, <1>u, <2>1 DEF Untouched
    <2> QED  BY Zenon, <2>2, Stays
  <1>3. Place(n)'
    <2>1. n \notin Range(pq)' /\ mutex' # n /\ ~loaded'[n] /\ ret'[n] = "ok" /\ pc'[n] = pc[n]
      BY Zenon, EventQueueAssumption, <1>f, <1>n, <1>q, <1>u, <1>w
    <2> QED  BY Zenon, <1>i, <1>s, <1>u, <1>w, <2>1 DEF Place, Waiting, Inside
  <1>4. Place(t)'
    <2>1. /\ t \notin Range(pq)' /\ mutex' # t /\ ~loaded'[t] /\ ret'[t] = "ok"
          /\ sched'[t] = "run"
      BY Zenon, <1>c, <1>f, <1>q, <1>s, <1>u, <1>w DEF Caller, Out
    <2> QED  BY Zenon, <1>i, <1>u, <2>1 DEF Place, Waiting, Inside
  <1>5. Queues'
    <2>1. ASSUME NEW u \in Threads  PROVE pc'[u] # "cancel"
      BY Zenon, <1>i, <1>u DEF Inside
    <2> QED  BY Zenon, <1>f, <1>u, <1>w, <2>1 DEF Queues
  <1>6. Loading'
    BY Zenon, <1>i, <1>u DEF Loading
  <1>7. BusyPortConnected'
    <2> DEFINE N == {u \in Threads : pc[u] = "notified"}
    <2>1. N \in SUBSET Threads /\ t \notin N /\ is_busy = Cardinality(N)
      BY Zenon, <1>c DEF Caller, BusyPortConnected
    <2>2. {u \in Threads : pc'[u] = "notified"} = IF yields THEN N \cup {t} ELSE N
      BY Zenon, <1>u, <2>1
    <2>3. Cardinality(N \cup {t}) = Cardinality(N) + 1
      BY Zenon, <2>1 DEF Counted
    <2>4. port' /\ connected'
      BY Zenon, <1>f, <1>u DEF Sending
    <2> QED  BY Zenon, <1>b, <2>1, <2>2, <2>3, <2>4 DEF BusyPortConnected
  <1>8. Once'
    <2>1. SendsOne(t, e)
      BY Zenon, <1>c, <1>f, Fresh
    <2>2. Sent' \subseteq Sent \cup {e} /\ Range(taken)' = Range(taken) \cup {e}
      <3>1. taken \in Seq(1..MaxEvents)
        BY Zenon DEF TypeOK
      <3>2. Range(Append(taken, e)) = Range(taken) \cup {e}
        BY EventQueueAssumption, <3>1, AddOne
      <3>3. taken' = Append(taken, e)
        BY Zenon, <1>f
      <3> QED  BY Zenon, <1>u, <3>2, <3>3 DEF Sent
    <2>3. ASSUME NEW u \in Threads \ {t}  PROVE SameSend(u)
      BY Zenon, <1>u, <1>w DEF SameSend, Resends, Waiting, TypeOK
    <2>4. Unsent(t, e)
      BY Zenon, <1>u, <2>2, <2>3 DEF Unsent, Resends
    <2> QED  BY Zenon, <1>f, <1>1, <2>1, <2>2, <2>4, SendOnce
  <1> QED  BY Zenon, <1>1, <1>2, <1>3, <1>4, <1>5, <1>6, <1>7, <1>8 DEF IInv

\* SendAgain preserves the inductive invariant.
LEMMA SendAgainPreserves ==
  ASSUME IInv, NEW t \in Threads, SendAgain(t)
  PROVE  IInv'
  <1> SUFFICES ASSUME TypeOK, Place(t), Queues, Loading, BusyPortConnected,
                      Once
               PROVE  IInv'
    BY Zenon DEF IInv
  <1>c. Caller(t, "send")
    BY Zenon, Callers DEF SendAgain, Sending
  <1>f. PICK e \in 1..MaxEvents : Sending(t, e) /\ ReturnAgain(t, "send", e)
    BY Zenon DEF SendAgain
  <1>k. mutex = None /\ ~loaded[t] /\ next' \in 1..(MaxEvents + 1)
    BY Zenon, <1>f, NextRange DEF SendAgain
  <1>r. SameCalls(t) /\ PutOff(t, "send", e)
    <2>1. e \in 0..MaxEvents /\ "send" \in Calls
      BY DEF Calls
    <2> QED  BY Zenon, <1>f, <2>1, PutsOff
  <1>1. TypeOK'
    BY Zenon, <1>r, <1>k DEF TypeOK, SameCalls, CallOK, SendAgain, queueVars, portVars,
       world
  <1>2. Alone(t)
    BY Zenon, <1>c, <1>r, <1>k DEF Alone, TypeOK, Returned, Moved, PutOff, SendAgain,
       Sending, Caller, queueVars, portVars, world
  <1>3. Place(t)'
    BY Zenon, <1>c, <1>r, <1>k, PutOffPlace DEF Out, TypeOK, SendAgain, Sending,
       Caller, queueVars, portVars, world
  <1>4. Keeps(t)
    BY Zenon, <1>c, <1>r, <1>k DEF Keeps, SameQueues, SameLoading, SamePort, PutOff,
       SendAgain, Sending, Caller, queueVars, portVars, world, Running,
       SameCalls, SameCall
  <1>5. Once'
    <2>1. SendsOne(t, e)
      BY Zenon, <1>c, <1>f, Fresh
    <2>2. UNCHANGED <<events, taken, resend>>
      BY Zenon DEF SendAgain, queueVars, world
    <2>3. event'[t] = e /\ pc'[t] = "again"
      BY Zenon, <1>r DEF PutOff
    <2> QED  BY Zenon, <1>r, <1>1, <2>1, <2>2, <2>3, PutOffOnce
  <1> QED  BY Zenon, <1>1, <1>2, <1>3, <1>4, <1>5, SendStep

\* SendElse preserves the inductive invariant.
LEMMA SendElsePreserves ==
  ASSUME IInv, NEW t \in Threads, SendElse(t)
  PROVE  IInv'
  <1> SUFFICES ASSUME TypeOK, Place(t), Queues, Loading, BusyPortConnected,
                      Once
               PROVE  IInv'
    BY Zenon DEF IInv
  <1>c. Caller(t, "send")
    BY Zenon, Callers DEF SendElse, Sending
  <1>r. SameCalls(t) /\ Returned(t)
    BY Zenon, <1>c, Returns DEF SendElse, Sending, Caller
  <1>k. ~loaded[t] /\ is_busy' = is_busy /\ next' \in 1..(MaxEvents + 1)
    BY Zenon, <1>c, NextRange DEF SendElse, Caller
  <1>f. PICK e \in 1..MaxEvents : Sending(t, e) /\ resend' = resend \ {e}
    BY Zenon DEF SendElse
  <1>1. TypeOK'
    BY Zenon, <1>r, <1>k, <1>f DEF TypeOK, SameCalls, CallOK, SendElse, queueVars
  <1>2. Alone(t)
    BY Zenon, <1>c, <1>r, <1>k DEF Alone, TypeOK, Returned, Moved, PutOff, SendElse,
       Sending, Caller, queueVars, portVars, world
  <1>3. Place(t)'
    BY Zenon, <1>c, <1>r, <1>k, ReturnPlace DEF Out, Returned, TypeOK, SendElse,
       Sending, Caller, queueVars, portVars, world
  <1>4. Keeps(t)
    BY Zenon, <1>c, <1>r, <1>k DEF Keeps, SameQueues, SameLoading, SamePort, Returned,
       SendElse, Sending, Caller, queueVars, portVars, world, Running,
       SameCalls, SameCall
  <1>5. Once'
    <2>1. SendsOne(t, e)
      BY Zenon, <1>c, <1>f, Fresh
    <2>2. Sent' \subseteq Sent \cup {e} /\ Range(taken)' = Range(taken)
      BY Zenon DEF Sent, SendElse, queueVars
    <2>3. Unsent(t, e)
      BY Zenon, <1>r, OtherSends DEF Unsent, Resends, Returned
    <2> QED  BY Zenon, <1>f, <1>1, <2>1, <2>2, <2>3, SendOnce
  <1> QED  BY Zenon, <1>1, <1>2, <1>3, <1>4, <1>5, SendStep

\* SendRequeued preserves the inductive invariant.
LEMMA SendRequeuedPreserves ==
  ASSUME Counted, IInv, NEW t \in Threads, SendRequeued(t)
  PROVE  IInv'
  <1> SUFFICES ASSUME TypeOK, Place(t), Queues, Loading, BusyPortConnected,
                      Once
               PROVE  IInv'
    BY Zenon DEF IInv
  <1>r. SameCalls(t) /\ (IF stopped[t] THEN PutOff(t, "send", event[t]) ELSE Returned(t))
    BY Zenon, Returns, PutsOff DEF TypeOK, Calls, SendRequeued
  <1>n. is_busy - 1 \in Nat /\ is_busy - 1 = Cardinality({u \in Threads : pc'[u] = "notified"})
    <2> DEFINE N == {u \in Threads : pc[u] = "notified"}
    <2>1. {u \in Threads : pc'[u] = "notified"} = N \ {t}
      BY Zenon, <1>r DEF SameCalls, SameCall, Returned, PutOff
    <2>2. N \in SUBSET Threads /\ t \in N
      BY Zenon DEF SendRequeued
    <2>3. Cardinality(N) \in Nat /\ Cardinality(N \ {t}) = Cardinality(N) - 1
          /\ Cardinality(N \ {t}) \in Nat
      BY Zenon, <2>2 DEF Counted
    <2>4. is_busy = Cardinality(N)
      BY Zenon DEF BusyPortConnected
    <2> QED  BY Zenon, <2>1, <2>3, <2>4
  <1>a. /\ pc[t] = "notified" /\ Holds(t) /\ event[t] \in Range(taken)
        /\ event[t] \in 1..MaxEvents
        /\ resend' = IF stopped[t] THEN resend \cup {event[t]} ELSE resend
    <2>1. event[t] \in 0..MaxEvents /\ event[t] # 0
      BY Zenon DEF TypeOK, Once, Holds, SendRequeued
    <2>2. event[t] \in 1..MaxEvents
      BY EventQueueAssumption, <2>1
    <2> QED  BY Zenon, <2>2 DEF Once, Holds, SendRequeued
  <1>1. TypeOK'
    <2>1. resend' \subseteq 1..MaxEvents
      BY Zenon, <1>a DEF TypeOK
    <2> QED  BY Zenon, <1>r, <1>n, <2>1 DEF TypeOK, SameCalls, CallOK, SendRequeued,
                queueVars
  <1>2. Alone(t)
    BY Zenon, <1>r, <1>n DEF Alone, TypeOK, Returned, Moved, PutOff, SendRequeued,
       queueVars, portVars, world
  <1>o. Out(t) /\ sched[t] = "run"
    BY Zenon, OutsideWait DEF SendRequeued
  <1>3. Place(t)'
    <2>1. Out(t)' /\ sched'[t] = "run"
      BY Zenon, <1>o DEF Out, SendRequeued, queueVars
    <2> QED  BY Zenon, <1>r, <2>1, ReturnPlace, PutOffPlace
  <1>4. Queues'
    <2>1. pc'[t] # "cancel" /\ pc[t] = "notified"
      BY Zenon, <1>r DEF Returned, PutOff, SendRequeued
    <2>2. CASE \A u \in Threads : pc[u] # "cancel"
      <3>1. \A u \in Threads : pc'[u] # "cancel"
        BY Zenon, <1>r, <2>1, <2>2 DEF SameCalls, SameCall
      <3> QED  BY Zenon, <2>2, <3>1 DEF Queues, SendRequeued, queueVars
    <2>3. CASE \E u \in Threads : pc[u] = "cancel"
      <3>1. t \notin Range(pq)
        BY Zenon, <1>o DEF Out
      <3>2. ASSUME NEW w \in Range(pq)  PROVE w \in Threads /\ pc'[w] = pc[w]
        BY Zenon, <1>r, <3>1, Members DEF SameCalls, SameCall, TypeOK
      <3>3. ASSUME NEW u \in Threads  PROVE pc'[u] = "cancel" <=> pc[u] = "cancel"
        BY Zenon, <1>r, <2>1 DEF SameCalls, SameCall
      <3> QED  BY Zenon, <3>2, <3>3 DEF Queues, SendRequeued, queueVars
    <2> QED  BY Zenon, <2>2, <2>3
  <1>5. Loading'
    BY Zenon, <1>r, <1>n, KeepsLoading DEF SameLoading, Running, Returned, PutOff,
       SendRequeued, queueVars, portVars, world
  <1>6. BusyPortConnected'
    <2>1. is_busy \in Nat /\ is_busy > 0
      BY <1>n DEF TypeOK
    <2> QED  BY Zenon, <1>n, <2>1 DEF BusyPortConnected, SendRequeued, queueVars
  <1>7. Once'
    <2>1. UNCHANGED <<events, taken, next>>
      BY Zenon DEF SendRequeued, queueVars
    <2>2. Sent' = Sent /\ Range(taken)' = Range(taken)
      BY Zenon, <2>1 DEF Sent
    <2>3. CASE ~stopped[t]
      BY Zenon, <1>r, <1>a, <2>1, <2>2, <2>3, KeepsOnce DEF SameSends, SameSend,
         Resends, Returned
    <2>4. CASE stopped[t]
      <3>1. PutOff(t, "send", event[t]) /\ resend' = resend \cup {event[t]}
        BY Zenon, <1>r, <1>a, <2>4
      <3>2. ASSUME NEW u \in Threads, Holds(u)'
            PROVE  Holds(u) /\ event'[u] = event[u]
        BY Zenon, <1>r, <1>a, <3>1, <3>2, OtherSends DEF SameSend, Holds, PutOff
      <3>3. ASSUME NEW u \in Threads, Resends(u)', event'[u] \in Sent'
            PROVE  event'[u] \in resend'
        BY Zenon, <1>r, <2>2, <3>1, <3>3, OtherSends DEF SameSend, Once, PutOff
      <3>4. ASSUME NEW u \in Threads, pc'[u] = "notified"
            PROVE  event'[u] \in Range(taken)'
        BY Zenon, <1>r, <2>2, <3>1, <3>4, OtherSends DEF SameSend, Once, PutOff
      <3>5. ASSUME NEW u \in Threads, Holds(u)'
            PROVE  /\ event'[u] # 0 /\ event'[u] < next'
                   /\ \A w \in Threads \ {u} : Holds(w)' => event'[w] # event'[u]
        BY Zenon, <2>1, <3>2, <3>5 DEF Once
      <3>6. resend' \subseteq Range(taken)' /\ \A x \in Sent' : x < next'
        BY Zenon, <1>a, <2>1, <2>2, <3>1 DEF Once
      <3> QED  BY Zenon, <3>3, <3>4, <3>5, <3>6 DEF Once
    <2> QED  BY Zenon, <2>3, <2>4
  <1> QED  BY Zenon, <1>1, <1>2, <1>3, <1>4, <1>5, <1>6, <1>7, Whole

\* Drain preserves the inductive invariant.
LEMMA DrainPreserves ==
  ASSUME IInv, NEW t \in Threads, Drain(t)
  PROVE  IInv'
  <1> SUFFICES ASSUME TypeOK, Place(t), Queues, Loading, BusyPortConnected,
                      Once
               PROVE  IInv'
    BY Zenon DEF IInv
  <1>c. Caller(t, "drain")
    BY Zenon, Callers DEF Drain
  <1>r. SameCalls(t) /\ Returned(t)
    BY Zenon, Returns DEF Drain, Caller
  <1>1. TypeOK'
    BY EventQueueAssumption, <1>c, <1>r DEF TypeOK, SameCalls, CallOK,
       SchedStates, Drain, Caller, queueVars, portVars, world
  <1>2. Alone(t)
    BY Zenon, <1>c, <1>r DEF Alone, TypeOK, Returned, Moved, PutOff, Drain, Caller,
       queueVars, portVars, world
  <1>3. Place(t)'
    BY Zenon, <1>c, <1>r, ReturnPlace DEF Out, Returned, TypeOK, Drain, Caller,
       queueVars, portVars, world
  <1>e. Sent' \subseteq Sent
    BY DEF Sent, Drain, Range
  <1>4. Keeps(t) /\ SameSends(t)
    BY Zenon, <1>c, <1>r, <1>e DEF Keeps, SameQueues, SameLoading, SamePort,
       SameSends, Returned, Drain, Caller, queueVars, portVars, world, Running,
       SameCalls, SameCall, Resends, SameSend
  <1> QED  BY Zenon, <1>1, <1>2, <1>3, <1>4, QuietStep

\* Destroy preserves the inductive invariant.
LEMMA DestroyPreserves ==
  ASSUME IInv, NEW t \in Threads, Destroy(t)
  PROVE  IInv'
  <1> SUFFICES ASSUME TypeOK, \A u \in Threads : Place(u), Queues, Loading, BusyPortConnected,
                      Once
               PROVE  IInv'
    BY Zenon DEF IInv
  <1>c. Caller(t, "destroy")
    BY Zenon, Callers DEF Destroy
  <1>r. SameCalls(t) /\ (IF pq = <<>> THEN Returned(t) ELSE Moved(t, "cancel"))
    BY Zenon, Returns, Moves DEF Destroy, Caller
  <1>n. /\ \A u \in Threads : ~Inside(u) /\ ~loaded[u] /\ \A w \in Threads : u \notin woken[w]
        /\ pc[t] \in {"idle", "repeat"} /\ sched[t] = "run"
    BY Zenon, <1>c, NobodyInside DEF Destroy, Caller
  <1>m. /\ pq = <<>> => Returned(t) /\ mutex' = None
        /\ pq # <<>> => Moved(t, "cancel") /\ mutex' = t
    BY Zenon, <1>r DEF Destroy
  <1>1. TypeOK'
    BY Zenon, <1>r, <1>m DEF TypeOK, SameCalls, CallOK, Destroy, portVars, world
  <1>2. ASSUME NEW u \in Threads \ {t}  PROVE Place(u)'
    <2>1. Untouched(u)
      BY Zenon, EventQueueAssumption, <1>r, <1>n, <1>m DEF Untouched, SameCalls,
         Destroy
    <2> QED  BY Zenon, <2>1, Stays
  <1>3. Place(t)'
    <2>1. CASE pq = <<>>
      <3>1. Out(t)' /\ sched'[t] = "run"
        BY Zenon, <1>c, <1>n, <1>m, <2>1 DEF Out, Caller, Destroy
      <3> QED  BY Zenon, <1>m, <2>1, <3>1, ReturnPlace
    <2>2. CASE pq # <<>>
      <3>1. /\ pc'[t] = "cancel" /\ mutex' = t /\ sched'[t] = "run" /\ ~loaded'[t]
            /\ t \notin Range(pq)' /\ \A w \in Threads : t \notin woken'[w]
        BY Zenon, <1>c, <1>n, <1>m, <2>2 DEF Moved, Out, Caller, Destroy
      <3> QED  BY Zenon, <3>1 DEF Place, Waiting, Inside
    <2> QED  BY Zenon, <2>1, <2>2
  <1>4. Queues'
    <2>1. registered' = exists' /\ (pq' # <<>> => events' = <<>>)
      BY Zenon DEF Queues, Destroy
    <2>2. pq' # <<>> => \E u \in Threads : pc'[u] = "cancel"
      BY Zenon, <1>m DEF Moved, Destroy
    <2>3. ASSUME NEW w \in Range(pq)'  PROVE pc'[w] # "again"
      <3>1. w \in Range(pq) /\ w \in Threads /\ pc[w] # "again"
        BY Zenon, Members DEF TypeOK, Destroy
      <3>2. w # t
        BY Zenon, <1>c, <3>1 DEF Caller, Out
      <3> QED  BY Zenon, <1>r, <3>1, <3>2 DEF SameCalls, SameCall
    <2> QED  BY Zenon, <2>1, <2>2, <2>3 DEF Queues
  <1>5. Loading'
    BY Zenon, <1>r, <1>n, <1>m DEF Loading, SameCalls, SameCall, Returned, Moved
  <1>6. BusyPortConnected'
    <2>1. ASSUME NEW u \in Threads  PROVE pc'[u] = "notified" <=> pc[u] = "notified"
      BY Zenon, <1>r, <1>n, <1>m DEF SameCalls, SameCall, Returned, Moved
    <2> QED  BY Zenon, <2>1, KeepsPort DEF SamePort, Destroy, portVars
  <1>7. Once'
    <2>1. SameSend(t)
      BY Zenon, <1>m DEF SameSend, Resends, Returned, Moved
    <2>2. Sent' = Sent /\ next' = next /\ resend' = resend /\ Range(taken)' = Range(taken)
      BY Zenon DEF Sent, Destroy, world
    <2> QED  BY Zenon, <1>r, <2>1, <2>2, KeepsOnce DEF SameSends
  <1> QED  BY Zenon, <1>1, <1>2, <1>3, <1>4, <1>5, <1>6, <1>7 DEF IInv

\* DestroyAgain preserves the inductive invariant.
LEMMA DestroyAgainPreserves ==
  ASSUME IInv, NEW t \in Threads, DestroyAgain(t)
  PROVE  IInv'
  <1> SUFFICES ASSUME TypeOK, Place(t), Queues, Loading, BusyPortConnected,
                      Once
               PROVE  IInv'
    BY Zenon DEF IInv
  <1>c. Caller(t, "destroy")
    BY Zenon, Callers DEF DestroyAgain
  <1>r. SameCalls(t) /\ PutOff(t, "destroy", 0)
    <2>1. 0 \in 0..MaxEvents /\ "destroy" \in Calls
      BY EventQueueAssumption DEF Calls
    <2> QED  BY Zenon, <2>1, PutsOff DEF DestroyAgain
  <1>1. TypeOK'
    BY Zenon, <1>c, <1>r DEF TypeOK, SameCalls, CallOK, SchedStates, DestroyAgain,
       Caller, queueVars, portVars, world
  <1>2. Alone(t)
    BY Zenon, <1>c, <1>r DEF Alone, TypeOK, Returned, Moved, PutOff, DestroyAgain,
       Caller, queueVars, portVars, world
  <1>3. Place(t)'
    BY Zenon, <1>c, <1>r, PutOffPlace DEF Out, TypeOK, DestroyAgain, Caller,
       queueVars, portVars, world
  <1>4. Keeps(t) /\ SameSends(t)
    BY Zenon, <1>c, <1>r DEF Keeps, SameQueues, SameLoading, SamePort, SameSends,
       PutOff, DestroyAgain, Caller, queueVars, portVars, world, Running,
       SameCalls, SameCall, Sent, Resends, SameSend
  <1> QED  BY Zenon, <1>1, <1>2, <1>3, <1>4, QuietStep

\* DestroyCancel preserves the inductive invariant.
LEMMA DestroyCancelPreserves ==
  ASSUME IInv, NEW t \in Threads, DestroyCancel(t)
  PROVE  IInv'
  <1> SUFFICES ASSUME TypeOK, \A u \in Threads : Place(u), Queues, Loading, BusyPortConnected,
                      Once
               PROVE  IInv'
    BY Zenon DEF IInv
  <1>t. /\ mutex = t /\ sched[t] = "run" /\ t \notin Range(pq) /\ ~loaded[t]
        /\ pc[t] = "cancel"
    BY Zenon DEF DestroyCancel, Place, Inside, Waiting
  <1>n. \A u, w \in Threads : u \notin woken[w]
    BY Zenon, <1>t DEF Place, Inside
  <1>p. /\ \A u \in Threads \ {t} : pc'[u] = pc[u]
        /\ pc'[t] = "awake"
    BY Zenon DEF DestroyCancel, TypeOK
  <1>q. Range(pq') = {} /\ pq' = <<>>
    BY Zenon, ClearedQueue DEF DestroyCancel
  <1>w. /\ woken' \in [Threads -> SUBSET Threads]
        /\ \A u, w \in Threads : u \in woken'[w] <=> w = t /\ u \in Range(pq)
    <2>1. Range(pq) \subseteq Threads
      BY Zenon, Members DEF TypeOK
    <2> QED  BY Zenon, <1>n, <2>1 DEF DestroyCancel, TypeOK
  <1>1. TypeOK'
    <2>1. ret' \in [Threads -> {"ok", "canceled"}]
      BY Zenon DEF TypeOK, DestroyCancel
    <2>2. pq' \in Seq(Threads) /\ NoDuplicates(pq')
      BY <1>q DEF NoDuplicates
    <2> QED  BY Zenon, <1>w, <2>1, <2>2 DEF TypeOK, DestroyCancel, portVars, world
  <1>2. ASSUME NEW u \in Threads, u \in Range(pq)  PROVE Place(u)'
    <2>1. /\ Waiting(u) /\ event[u] = 0 /\ sched[u] # "signal" /\ u # t /\ mutex # u
          /\ ~loaded[u]
      BY Zenon, <1>2, <1>t DEF Place, Queues, Inside, Waiting
    <2>2. UNCHANGED <<event, sched, loaded, mutex>> /\ pc'[u] = pc[u]
      BY Zenon, <1>p, <2>1 DEF DestroyCancel
    <2> QED  BY Zenon, <1>2, <1>p, <1>q, <1>w, <1>t, <2>1, <2>2 DEF Place, Waiting,
                Inside
  <1>3. ASSUME NEW u \in Threads \ {t}, u \notin Range(pq)  PROVE Place(u)'
    <2>1. SameCall(u)
      BY Zenon, <1>3, <1>p DEF SameCall, DestroyCancel
    <2>2. Untouched(u)
      BY Zenon, <1>3, <1>n, <1>q, <1>w, <2>1 DEF Untouched, DestroyCancel
    <2> QED  BY Zenon, <2>2, Stays
  <1>4. Place(t)'
    <2>1. mutex' = t /\ sched'[t] = "run" /\ ~loaded'[t]
      BY Zenon, <1>t DEF DestroyCancel
    <2> QED  BY Zenon, <1>p, <1>q, <1>w, <1>t, <2>1 DEF Place, Waiting, Inside
  <1>5. Queues'
    BY Zenon, <1>q DEF Queues, DestroyCancel
  <1>6. Loading'
    BY Zenon, <1>t DEF Loading, DestroyCancel
  <1>7. BusyPortConnected'
    BY Zenon, <1>p, <1>t, KeepsPort DEF SamePort, DestroyCancel, portVars
  <1>8. Once'
    <2>1. /\ Sent' = Sent /\ next' = next /\ event' = event /\ resend' = resend
          /\ Range(taken)' = Range(taken) /\ call' = call
      BY Zenon DEF Sent, DestroyCancel, world
    <2>2. ASSUME NEW u \in Threads  PROVE SameSend(u)
      BY Zenon, <1>p, <2>1 DEF SameSend, Resends
    <2> QED  BY Zenon, <2>1, <2>2, AllSame
  <1> QED  BY Zenon, <1>1, <1>2, <1>3, <1>4, <1>5, <1>6, <1>7, <1>8 DEF IInv

\* DestroyAwake preserves the inductive invariant.
LEMMA DestroyAwakePreserves ==
  ASSUME IInv, NEW t \in Threads, DestroyAwake(t)
  PROVE  IInv'
  <1> SUFFICES ASSUME TypeOK, \A u \in Threads : Place(u), Queues, Loading, BusyPortConnected,
                      Once
               PROVE  IInv'
    BY Zenon DEF IInv
  <1>r. SameCalls(t) /\ Returned(t)
    BY Zenon, Returns DEF DestroyAwake, awake
  <1>t. /\ mutex = t /\ sched[t] = "run" /\ t \notin Range(pq)
        /\ \A w \in Threads : t \notin woken[w]
    BY Zenon DEF DestroyAwake, Place, Inside, Waiting
  <1>n. \A u, w \in Threads : u \in woken[w] => w = t
    BY Zenon, <1>t DEF Place, Inside
  <1>w. /\ woken' \in [Threads -> SUBSET Threads]
        /\ \A u, w \in Threads : u \notin woken'[w]
    BY Zenon, <1>n DEF DestroyAwake, TypeOK
  <1>s. /\ sched' \in [Threads -> SchedStates]
        /\ \A u \in Threads : sched'[u] = IF u \in woken[t] /\ sched[u] = "sleep"
                                          THEN "signal" ELSE sched[u]
    BY Zenon DEF DestroyAwake, awake, TypeOK, SchedStates
  <1>1. TypeOK'
    BY Zenon, <1>r, <1>w, <1>s DEF TypeOK, SameCalls, CallOK, DestroyAwake, portVars,
       world
  <1>2. ASSUME NEW u \in Threads \ {t}  PROVE Place(u)'
    <2>1. SameCall(u) /\ pq' = pq /\ mutex' # u /\ mutex # u
      BY Zenon, EventQueueAssumption, <1>r, <1>t DEF SameCalls, DestroyAwake
    <2>2. CASE u \in woken[t]
      <3>1. /\ Waiting(u) /\ event[u] = 0 /\ sched[u] # "signal" /\ u \notin Range(pq)
            /\ ~loaded[u]
        BY Zenon, <2>2 DEF Place, Waiting
      <3>2. sched'[u] # "sleep" /\ (sched[u] = "run" => sched'[u] = "run")
        BY Zenon, <1>s, <2>2, <3>1 DEF TypeOK, SchedStates
      <3> QED  BY Zenon, <1>w, <2>1, <3>1, <3>2 DEF Place, SameCall, Waiting, Inside
    <2>3. CASE u \notin woken[t]
      <3>1. sched'[u] = sched[u] /\ \A w \in Threads : u \notin woken[w]
        BY Zenon, <1>n, <1>s, <2>3
      <3> QED  BY Zenon, <1>w, <2>1, <3>1, Stays DEF Untouched
    <2> QED  BY Zenon, <2>2, <2>3
  <1>3. Place(t)'
    <2>1. Out(t)' /\ sched'[t] = "run"
      BY Zenon, EventQueueAssumption, <1>t, <1>w, <1>s DEF Out, DestroyAwake
    <2> QED  BY Zenon, <1>r, <2>1, ReturnPlace
  <1>4. Queues'
    BY Zenon, <1>r, KeepsQueues DEF SameQueues, Returned, DestroyAwake, awake,
       queueVars, portVars, world
  <1>5. Loading'
    BY Zenon, <1>r, KeepsLoading DEF SameLoading, Running, Returned, DestroyAwake,
       awake, queueVars, portVars, world
  <1>6. BusyPortConnected'
    BY Zenon, <1>r, KeepsPort DEF SamePort, SameCalls, SameCall, Returned,
       DestroyAwake, awake, queueVars, portVars, world
  <1>7. Once'
    BY Zenon, <1>r, KeepsOnce DEF SameSends, Sent, Resends, SameSend, Returned, DestroyAwake,
       awake, queueVars, portVars, world
  <1> QED  BY Zenon, <1>1, <1>2, <1>3, <1>4, <1>5, <1>6, <1>7 DEF IInv

\* Connect preserves the inductive invariant.
LEMMA ConnectPreserves ==
  ASSUME IInv, NEW t \in Threads, Connect(t)
  PROVE  IInv'
  <1> SUFFICES ASSUME TypeOK, Place(t), Queues, Loading, BusyPortConnected,
                      Once
               PROVE  IInv'
    BY Zenon DEF IInv
  <1>c. Caller(t, "connect")
    BY Zenon, Callers DEF Connect
  <1>r. SameCalls(t) /\ Returned(t)
    BY Zenon, Returns DEF Connect, Caller
  <1>1. TypeOK'
    BY Zenon, <1>c, <1>r DEF TypeOK, SameCalls, CallOK, SchedStates, Connect, Caller,
       queueVars, portVars, world
  <1>2. Alone(t)
    BY Zenon, <1>c, <1>r DEF Alone, TypeOK, Returned, Moved, PutOff, Connect, Caller,
       queueVars, portVars, world
  <1>3. Place(t)'
    BY Zenon, <1>c, <1>r, ReturnPlace DEF Out, Returned, TypeOK, Connect, Caller,
       queueVars, portVars, world
  <1>4. Keeps(t) /\ SameSends(t)
    BY Zenon, <1>c, <1>r DEF Keeps, SameQueues, SameLoading, SamePort, SameSends,
       Returned, Connect, Caller, queueVars, portVars, world, Running,
       SameCalls, SameCall, Sent, Resends, SameSend
  <1> QED  BY Zenon, <1>1, <1>2, <1>3, <1>4, QuietStep

\* IpcFind preserves the inductive invariant.
LEMMA IpcFindPreserves ==
  ASSUME IInv, NEW t \in Threads, IpcFind(t)
  PROVE  IInv'
  <1> SUFFICES ASSUME TypeOK, Place(t), Queues, Loading, BusyPortConnected,
                      Once
               PROVE  IInv'
    BY Zenon DEF IInv
  <1>c. Caller(t, "connect")
    BY Zenon, Callers DEF IpcFind
  <1>r. SameCalls(t) /\ Moved(t, "ipc")
    BY Zenon, Moves DEF IpcFind, Caller
  <1>1. TypeOK'
    BY Zenon, <1>c, <1>r DEF TypeOK, SameCalls, CallOK, SchedStates, IpcFind, Caller,
       queueVars, portVars, world
  <1>2. Alone(t)
    BY Zenon, <1>c, <1>r DEF Alone, TypeOK, Returned, Moved, PutOff, IpcFind, Caller,
       queueVars, portVars, world
  <1>3. Place(t)'
    BY Zenon, <1>c, <1>r, CallPlace DEF Out, TypeOK, IpcFind, Caller, queueVars,
       portVars, world
  <1>4. Keeps(t) /\ SameSends(t)
    BY Zenon, <1>c, <1>r DEF Keeps, SameQueues, SameLoading, SamePort, SameSends,
       Moved, IpcFind, Caller, queueVars, portVars, world, Running, SameCalls,
       SameCall, Sent, Resends, SameSend
  <1> QED  BY Zenon, <1>1, <1>2, <1>3, <1>4, QuietStep

\* ConnectIpc preserves the inductive invariant.
LEMMA ConnectIpcPreserves ==
  ASSUME IInv, NEW t \in Threads, ConnectIpc(t)
  PROVE  IInv'
  <1> SUFFICES ASSUME TypeOK, Place(t), Queues, Loading, BusyPortConnected,
                      Once
               PROVE  IInv'
    BY Zenon DEF IInv
  <1>r. SameCalls(t) /\ Returned(t)
    BY Zenon, Returns DEF ConnectIpc
  <1>1. TypeOK'
    BY Zenon, <1>r DEF TypeOK, SameCalls, CallOK, SchedStates, ConnectIpc, queueVars,
       portVars, world
  <1>2. Alone(t)
    BY Zenon, <1>r DEF Alone, TypeOK, Returned, Moved, PutOff, ConnectIpc, queueVars,
       portVars, world
  <1>o. Out(t) /\ sched[t] = "run"
    BY Zenon, OutsideWait DEF ConnectIpc
  <1>3. Place(t)'
    BY Zenon, <1>r, <1>o, ReturnPlace DEF Out, Returned, TypeOK, ConnectIpc,
       queueVars, portVars, world
  <1>4. Keeps(t) /\ SameSends(t)
    BY Zenon, <1>r DEF Keeps, SameQueues, SameLoading, SamePort, SameSends, Returned,
       ConnectIpc, queueVars, portVars, world, Running, SameCalls, SameCall,
       Sent, Resends, SameSend
  <1> QED  BY Zenon, <1>1, <1>2, <1>3, <1>4, QuietStep

\* Disconnect preserves the inductive invariant.
LEMMA DisconnectPreserves ==
  ASSUME IInv, NEW t \in Threads, Disconnect(t)
  PROVE  IInv'
  <1> SUFFICES ASSUME TypeOK, Place(t), Queues, Loading, BusyPortConnected,
                      Once
               PROVE  IInv'
    BY Zenon DEF IInv
  <1>c. Caller(t, "disconnect")
    BY Zenon, Callers DEF Disconnect
  <1>r. SameCalls(t) /\ Returned(t)
    BY Zenon, Returns DEF Disconnect, Caller
  <1>1. TypeOK'
    BY Zenon, <1>c, <1>r DEF TypeOK, SameCalls, CallOK, SchedStates, Disconnect,
       Caller, queueVars, portVars, world
  <1>2. Alone(t)
    BY Zenon, <1>c, <1>r DEF Alone, TypeOK, Returned, Moved, PutOff, Disconnect,
       Caller, queueVars, portVars, world
  <1>3. Place(t)'
    BY Zenon, <1>c, <1>r, ReturnPlace DEF Out, Returned, TypeOK, Disconnect, Caller,
       queueVars, portVars, world
  <1>4. Keeps(t) /\ SameSends(t)
    BY Zenon, <1>c, <1>r DEF Keeps, SameQueues, SameLoading, SamePort, SameSends,
       Returned, Disconnect, Caller, queueVars, portVars, world, Running,
       SameCalls, SameCall, Sent, Resends, SameSend
  <1> QED  BY Zenon, <1>1, <1>2, <1>3, <1>4, QuietStep

\* PortDestroy preserves the inductive invariant.
LEMMA PortDestroyPreserves ==
  ASSUME IInv, NEW t \in Threads, PortDestroy(t)
  PROVE  IInv'
  <1> SUFFICES ASSUME TypeOK, Place(t), Queues, Loading, BusyPortConnected,
                      Once
               PROVE  IInv'
    BY Zenon DEF IInv
  <1>c. Caller(t, "port_destroy")
    BY Zenon, Callers DEF PortDestroy
  <1>r. SameCalls(t) /\ Returned(t)
    BY Zenon, Returns DEF PortDestroy, Caller
  <1>1. TypeOK'
    BY Zenon, <1>c, <1>r DEF TypeOK, SameCalls, CallOK, SchedStates, PortDestroy,
       Caller, queueVars, portVars, world
  <1>2. Alone(t)
    BY Zenon, <1>c, <1>r DEF Alone, TypeOK, Returned, Moved, PutOff, PortDestroy,
       Caller, queueVars, portVars, world
  <1>3. Place(t)'
    BY Zenon, <1>c, <1>r, ReturnPlace DEF Out, Returned, TypeOK, PortDestroy, Caller,
       queueVars, portVars, world
  <1>4. Keeps(t) /\ SameSends(t)
    <2>1. SameQueues(t) /\ SameLoading(t)
      BY EventQueueAssumption, <1>c, <1>r DEF SameQueues, SameLoading, Returned,
         PortDestroy, Caller, queueVars, Running
    <2>2. SamePort
      <3>1. UNCHANGED <<is_busy, exists, connected>> /\ ~(connected /\ exists)
        BY Zenon DEF PortDestroy, queueVars
      <3>2. ASSUME NEW u \in Threads
            PROVE  pc'[u] = "notified" <=> pc[u] = "notified"
        BY Zenon, <1>c, <1>r DEF Returned, Caller, SameCalls, SameCall
      <3>3. exists => is_busy = 0
        BY <3>1 DEF BusyPortConnected, TypeOK
      <3> QED  BY Zenon, <3>1, <3>2, <3>3 DEF SamePort
    <2>3. SameSends(t)
      BY Zenon, <1>c, <1>r DEF SameSends, Returned, PortDestroy, Caller, queueVars,
         world, Sent, Resends, SameSend
    <2> QED  BY Zenon, <2>1, <2>2, <2>3 DEF Keeps
  <1> QED  BY Zenon, <1>1, <1>2, <1>3, <1>4, QuietStep

\* Stop preserves the inductive invariant.
LEMMA StopPreserves ==
  ASSUME IInv, NEW t \in Threads, Stop(t)
  PROVE  IInv'
  <1> SUFFICES ASSUME TypeOK, \A u \in Threads : Place(u), Queues, Loading, BusyPortConnected,
                      Once
               PROVE  IInv'
    BY Zenon DEF IInv
  <1>r. /\ SameCalls(t)
        /\ pc'[t] = IF pc[t] = "idle" THEN "halted" ELSE pc[t]
        /\ event'[t] = event[t] /\ call'[t] = call[t] /\ ret'[t] = ret[t]
        /\ loaded'[t] = loaded[t]
    <2>1. CallOK'
      BY Zenon DEF TypeOK, CallOK, Stop
    <2> QED  BY Zenon, <2>1 DEF TypeOK, SameCalls, SameCall, Stop
  <1>1. TypeOK'
    BY Zenon, <1>r DEF TypeOK, SameCalls, CallOK, Stop, queueVars, portVars, world
  <1>2. Alone(t)
    BY Zenon, <1>r DEF Alone, Stop, queueVars
  <1>3. Place(t)'
    <2>1. CASE pc[t] = "idle"
      <3>1. Out(t)' /\ event'[t] = 0 /\ ret'[t] = "ok" /\ ~loaded'[t]
        BY Zenon, <1>r, <2>1 DEF Place, Out, Waiting, Inside, Stop, queueVars
      <3> QED  BY Zenon, <1>r, <2>1, <3>1 DEF Place, Out, Waiting, Inside
    <2>2. CASE pc[t] # "idle"
      <3>1. ASSUME NEW w \in Threads  PROVE pc[w] = "awake" => pc'[w] = "awake"
        BY Zenon, <1>r DEF SameCalls, SameCall
      <3>2. Untouched(t)
        BY Zenon, <1>r, <2>2, <3>1 DEF Untouched, SameCall, Place, Stop, queueVars
      <3> QED  BY Zenon, <3>2, Stays
    <2> QED  BY Zenon, <2>1, <2>2
  <1>4. Keeps(t) /\ SameSends(t)
    <2>1. UNCHANGED <<registered, exists, events, pq, taken, port, connected,
                      is_busy, next, resend>>
      BY Zenon DEF Stop, queueVars, portVars, world
    <2>2. ASSUME NEW u \in Threads
          PROVE  pc'[u] = pc[u] \/ (pc[u] = "idle" /\ pc'[u] = "halted")
      BY Zenon, <1>r DEF SameCalls, SameCall
    <2>3. SameQueues(t) /\ SamePort
      BY Zenon, <1>r, <2>1, <2>2 DEF SameQueues, SamePort
    <2>4. SameLoading(t)
      BY Zenon, <1>r, <2>1 DEF SameLoading, Running
    <2>5. SameSends(t)
      BY Zenon, <1>r, <2>1 DEF SameSends, Sent, Resends, SameSend
    <2> QED  BY Zenon, <2>3, <2>4, <2>5 DEF Keeps
  <1> QED  BY Zenon, <1>1, <1>2, <1>3, <1>4, QuietStep

\* Load preserves the inductive invariant.
LEMMA LoadPreserves ==
  ASSUME Counted, IInv, Load
  PROVE  IInv'
  <1> SUFFICES ASSUME TypeOK, \A u \in Threads : Place(u), Queues, Loading, BusyPortConnected,
                      Once
               PROVE  IInv'
    BY Zenon DEF IInv
  <1>h. ASSUME NEW t \in Threads
        PROVE  pc[t] \in {"again", "halted"} /\ mutex # t /\ \A w \in Threads : t \notin woken[w]
    BY Zenon DEF Load, Place, Inside
  <1>q. Range(pq') = {} /\ pq' = <<>>
    BY Zenon, ClearedQueue DEF Load
  <1>t. /\ loaded' \in [Threads -> BOOLEAN]
        /\ \A t \in Threads : loaded'[t] <=> pc[t] = "again" /\ sched[t] = "sleep"
    BY Zenon DEF Load
  <1>s. /\ sched' \in [Threads -> SchedStates]
        /\ \A t \in Threads : sched'[t] = IF loaded'[t] THEN "sleep" ELSE "run"
    BY Zenon DEF Load, SchedStates
  <1>p. /\ pc' \in [Threads -> {"repeat", "idle"}]
        /\ \A t \in Threads : pc'[t] = IF pc[t] = "again" THEN "repeat" ELSE "idle"
    BY Zenon DEF Load
  <1>u. /\ loads' \in 0..MaxLoads /\ stopped' \in [Threads -> BOOLEAN]
        /\ connected' \in BOOLEAN /\ is_busy' = 0
        /\ UNCHANGED <<registered, exists, events, mutex, woken, taken, type, port,
                       call, event, ret, timed, next, resend>>
    BY EventQueueAssumption DEF Load, TypeOK
  <1>l. ASSUME NEW t \in Threads, loaded'[t]
        PROVE  call[t] = "receive" /\ registered /\ events = <<>>
    <2>1. call[t] = "receive" /\ t \in Range(pq)
      BY Zenon, <1>l, <1>t DEF Place
    <2>2. pq # <<>>
      BY Zenon, <2>1, EmptyQueue DEF TypeOK
    <2> QED  BY Zenon, <1>h, <2>1, <2>2 DEF Queues
  <1>1. TypeOK'
    <2>1. pq' \in Seq(Threads) /\ NoDuplicates(pq')
      BY <1>q DEF NoDuplicates
    <2>2. pc' \in [Threads -> {"idle", "waiting", "timedout", "unqueue", "try",
                               "notified", "cancel", "awake", "ipc", "again",
                               "halted", "repeat"}]
      BY Zenon, <1>p
    <2> QED  BY Zenon, <1>s, <1>t, <1>u, <2>1, <2>2 DEF TypeOK
  <1>2. ASSUME NEW t \in Threads  PROVE Place(t)'
    <2>1. /\ t \notin Range(pq)' /\ mutex' # t /\ \A w \in Threads : t \notin woken'[w]
          /\ pc'[t] \in {"repeat", "idle"}
      BY Zenon, <1>h, <1>p, <1>q, <1>u
    <2>2. /\ ret'[t] = "ok" /\ (pc'[t] = "idle" => event'[t] = 0 /\ ~loaded'[t])
          /\ (call'[t] = "receive" => event'[t] = 0)
      BY Zenon, <1>h, <1>p, <1>t, <1>u DEF Place
    <2>3. /\ loaded'[t] => pc'[t] = "repeat" /\ call'[t] = "receive"
          /\ ~loaded'[t] => sched'[t] = "run"
      BY Zenon, <1>l, <1>p, <1>s, <1>t, <1>u
    <2> QED  BY Zenon, <2>1, <2>2, <2>3 DEF Place, Waiting, Inside
  <1>3. Queues'
    BY Zenon, <1>q, <1>u DEF Queues
  <1>4. Loading'
    BY Zenon, <1>l, <1>p, <1>u DEF Loading
  <1>5. BusyPortConnected'
    <2>1. {t \in Threads : pc'[t] = "notified"} = {}
      BY Zenon, <1>p
    <2>2. Cardinality({}) = 0
      BY Zenon DEF Counted
    <2>3. is_busy' = Cardinality({t \in Threads : pc'[t] = "notified"})
      BY Zenon, <1>u, <2>1, <2>2
    <2>4. ~(is_busy' > 0)
      BY <1>u
    <2> QED  BY Zenon, <2>3, <2>4 DEF BusyPortConnected
  <1>6. Once'
    <2>1. Sent' = Sent /\ Range(taken)' = Range(taken)
      BY Zenon, <1>u DEF Sent
    <2>2. ASSUME NEW t \in Threads  PROVE SameSend(t)
      BY Zenon, <1>p, <1>u DEF SameSend, Resends
    <2> QED  BY Zenon, <1>u, <2>1, <2>2, AllSame
  <1> QED  BY Zenon, <1>1, <1>2, <1>3, <1>4, <1>5, <1>6 DEF IInv

\* The invariant holds at first.
LEMMA First ==
  ASSUME Counted, Init
  PROVE  IInv
  <1> USE EventQueueAssumption
  <1>q. Range(pq) = {} /\ Range(events) = {} /\ Range(taken) = {}
    BY Zenon, ClearedQueue DEF Init
  <1>1. TypeOK
    <2>1. pq \in Seq(Threads) /\ NoDuplicates(pq) /\ events \in Seq(1..MaxEvents)
          /\ taken \in Seq(1..MaxEvents) /\ Len(events) = 0
      BY DEF Init, NoDuplicates
    <2>2. /\ sched \in [Threads -> SchedStates] /\ woken \in [Threads -> SUBSET Threads]
          /\ timed \in [Threads -> BOOLEAN] /\ loaded \in [Threads -> BOOLEAN]
          /\ stopped \in [Threads -> BOOLEAN]
      BY Zenon DEF Init, SchedStates
    <2>3. /\ next \in 1..(MaxEvents + 1) /\ loads \in 0..MaxLoads /\ is_busy \in Nat
          /\ event \in [Threads -> 0..MaxEvents] /\ Len(events) <= Size
      BY <2>1 DEF Init
    <2> QED  BY Zenon, <2>1, <2>2, <2>3 DEF Init, TypeOK
  <1>2. ASSUME NEW t \in Threads  PROVE Place(t)
    BY Zenon, <1>q DEF Init, Place, Waiting, Inside
  <1>3. Queues /\ Loading
    BY Zenon DEF Init, Queues, Loading
  <1>4. BusyPortConnected
    <2>1. {t \in Threads : pc[t] = "notified"} = {} /\ Cardinality({}) = 0
      BY Zenon DEF Init, Counted
    <2>2. is_busy = 0
      BY Zenon DEF Init
    <2>3. is_busy = Cardinality({t \in Threads : pc[t] = "notified"})
      BY Zenon, <2>1, <2>2
    <2>4. ~(is_busy > 0)
      BY <2>2
    <2> QED  BY Zenon, <2>3, <2>4 DEF BusyPortConnected
  <1>5. Once
    BY Zenon, <1>q DEF Once, Holds, Sent, Resends, Init
  <1> QED  BY Zenon, <1>1, <1>2, <1>3, <1>4, <1>5 DEF IInv

\* Every step keeps the invariant.
LEMMA Inductive ==
  ASSUME Counted, IInv, [Next]_vars
  PROVE  IInv'
  <1>1. ASSUME NEW t \in Threads, Receive(t)  PROVE IInv'
    BY Zenon, <1>1, ReceiveTakePreserves, ReceiveEnqueuePreserves,
       ReceiveSignaledPreserves, ReceiveStoppedPreserves,
       ReceiveTimeoutPreserves, ReceiveCheckStatePreserves,
       ReceiveCheckStateStoppedPreserves, ReceiveUnqueuePreserves,
       ReceiveUnqueueLatePreserves, TryLookupPreserves, TryTakePreserves DEF
       Receive
  <1>2. ASSUME NEW t \in Threads, Send(t)  PROVE IInv'
    BY Zenon, <1>2, SendStorePreserves, SendPassPreserves, SendAgainPreserves,
       SendElsePreserves, SendRequeuedPreserves DEF Send
  <1>3. ASSUME NEW t \in Threads,
               \/ Drain(t) \/ Destroy(t) \/ DestroyAgain(t) \/ DestroyCancel(t)
               \/ DestroyAwake(t)
        PROVE  IInv'
    BY Zenon, <1>3, DrainPreserves, DestroyPreserves, DestroyAgainPreserves,
       DestroyCancelPreserves, DestroyAwakePreserves
  <1>4. ASSUME NEW t \in Threads,
               \/ Connect(t) \/ IpcFind(t) \/ ConnectIpc(t) \/ Disconnect(t)
               \/ PortDestroy(t) \/ Stop(t)
        PROVE  IInv'
    BY Zenon, <1>4, ConnectPreserves, IpcFindPreserves, ConnectIpcPreserves,
       DisconnectPreserves, PortDestroyPreserves, StopPreserves
  <1>5. CASE UNCHANGED vars
    <2> USE <1>5 DEF vars, queueVars, portVars, callVars, world
    <2>1. TypeOK' /\ Queues' /\ Loading'
      BY Zenon DEF IInv, TypeOK, Queues, Loading
    <2>2. ASSUME NEW t \in Threads  PROVE Place(t)'
      BY Zenon DEF IInv, Place, Waiting, Inside
    <2>3. BusyPortConnected'
      BY Zenon DEF IInv, BusyPortConnected
    <2>4. Once'
      BY Zenon, AllSame DEF IInv, Sent, Resends, SameSend
    <2> QED  BY Zenon, <2>1, <2>2, <2>3, <2>4 DEF IInv
  <1> QED  BY Zenon, <1>1, <1>2, <1>3, <1>4, <1>5, LoadPreserves DEF Next

----------------------------------------------------------------------------
(* What the invariant says of the properties of EventQueue. *)

\* Receivers are served.
LEMMA ServedNow ==
  ASSUME IInv
  PROVE  ReceiversServed
  <1>1. TypeOK /\ (pq # <<>> => events = <<>>)
    BY Zenon DEF IInv, Queues
  <1>2. ASSUME NEW t \in Threads
        PROVE  /\ t \in Range(pq) => event[t] = 0 /\ (Waiting(t) \/ pc[t] = "again")
               /\ Waiting(t) /\ event[t] # 0 => ret[t] = "ok"
               /\ Waiting(t) /\ sched[t] = "sleep" =>
                    t \in Range(pq) \/ \E u \in Threads : t \in woken[u]
    BY Zenon DEF IInv, Place
  <1>3. ASSUME NEW t \in Threads,
               pc[t] \in {"idle", "try", "notified", "cancel", "awake", "ipc"}
        PROVE  sched[t] = "run" /\ \A u \in Threads : t \notin woken[u]
    BY Zenon, <1>3 DEF IInv, Place, Waiting
  <1> QED  BY Zenon, <1>1, <1>2, <1>3 DEF ReceiversServed

\* No event is lost, and none sent twice unless its sender was stopped.
LEMMA EventsNow ==
  ASSUME IInv
  PROVE  SavestateKeepsEvents
  <1>1. Range(taken \o events) = Sent
    BY JoinSets DEF IInv, TypeOK, Sent
  <1>2. ASSUME NEW t \in Threads
        PROVE  /\ pc[t] = "again" /\ call[t] = "receive" => event[t] = 0
               /\ loaded[t] /\ call[t] = "receive" => registered /\ events = <<>>
    BY Zenon DEF IInv, Place, Loading
  <1>3. ASSUME NEW t \in Threads, pc[t] = "again", call[t] = "send"
        PROVE  event[t] \in Sent <=> event[t] \in resend
    BY Zenon, <1>3 DEF IInv, Once, Resends, Sent
  <1> QED  BY Zenon, <1>1, <1>2, <1>3 DEF SavestateKeepsEvents

----------------------------------------------------------------------------
(* The queue implements BoundedQueue. *)

\* At first it is empty.
LEMMA QueueInit == Init => Queue!Init
  BY Zenon DEF Init, Queue!Init

\* A receive takes the first event.
LEMMA TakeStep ==
  ASSUME IInv, NEW t \in Threads, ReceiveTake(t)
  PROVE  Queue!Next
  <1>1. /\ events \in Seq(1..MaxEvents) /\ events # <<>> /\ Len(events) \in Nat
        /\ Len(events) >= 1
    BY DEF IInv, TypeOK, ReceiveTake
  <1>2. SubSeq(events, 1, 1) = <<Head(events)>>
    BY Zenon, <1>1, FirstOnly
  <1>3. Append(taken, Head(events)) = taken \o <<Head(events)>>
    BY Zenon, <1>1, OneAtATime DEF IInv, TypeOK
  <1>4. Tail(events) = SubSeq(events, 1 + 1, Len(events))
    BY <1>1, OneAtATime
  <1>5. Queue!Take(1) /\ 1 \in 1..Len(events)
    BY <1>1, <1>2, <1>3, <1>4 DEF Queue!Take, ReceiveTake, world
  <1> QED  BY Zenon, <1>5 DEF Queue!Next

\* sys_event_queue_tryreceive takes the first events, or none.
LEMMA TryStep ==
  ASSUME IInv, NEW t \in Threads, TryTake(t)
  PROVE  Queue!Next \/ UNCHANGED <<events, taken, resend>>
  <1>1. CASE ~exists
    BY Zenon, <1>1 DEF TryTake, world
  <1>2. CASE exists
    <2>1. PICK count \in 0..Len(events) :
            /\ taken' = taken \o SubSeq(events, 1, count)
            /\ events' = SubSeq(events, count + 1, Len(events))
            /\ resend' = resend
      BY Zenon, <1>2 DEF TryTake, world
    <2>2. events \in Seq(1..MaxEvents) /\ taken \in Seq(1..MaxEvents) /\ Len(events) \in Nat
      BY DEF IInv, TypeOK
    <2>3. CASE count = 0
      <3>1. taken \o <<>> = taken
        BY Zenon, <2>2, WholeOrNothing
      <3>2. SubSeq(events, 1, 0) = <<>>
        BY Zenon, <2>2, WholeOrNothing
      <3>3. SubSeq(events, 1, Len(events)) = events
        BY Zenon, <2>2, WholeOrNothing
      <3>4. taken' = taken
        BY Zenon, <2>1, <2>3, <3>1, <3>2
      <3>5. count + 1 = 1
        BY <2>3
      <3>6. events' = events
        BY Zenon, <2>1, <3>3, <3>5
      <3> QED  BY Zenon, <2>1, <3>4, <3>6
    <2>4. CASE count # 0
      <3>1. count \in 1..Len(events)
        BY <2>2, <2>4
      <3>2. Queue!Take(count)
        BY Zenon, <2>1 DEF Queue!Take
      <3> QED  BY Zenon, <3>1, <3>2 DEF Queue!Next
    <2> QED  BY Zenon, <2>3, <2>4
  <1> QED  BY Zenon, <1>1, <1>2

\* An event that is sent is new, or its sender was stopped.
LEMMA OfferStep ==
  ASSUME IInv, NEW t \in Threads, NEW e \in 1..MaxEvents, Sending(t, e)
  PROVE  Queue!Offered(e)
  <1>1. SendsOne(t, e)
    BY Zenon, Callers, Fresh DEF Sending, IInv
  <1>2. CASE e \in resend
    BY Zenon, <1>2 DEF Queue!Offered
  <1>3. CASE e \notin Range(events) \cup Range(taken)
    BY Zenon, <1>3 DEF Queue!Offered, Queue!Fresh, Range
  <1> QED  BY Zenon, <1>1, <1>2, <1>3 DEF SendsOne, Sent

\* A send stores its event if there is room.
LEMMA StoreStep ==
  ASSUME IInv, NEW t \in Threads, SendStore(t)
  PROVE  Queue!Next
  <1>1. PICK e \in 1..MaxEvents :
          /\ Sending(t, e)
          /\ events' = IF HasRoom THEN Append(events, e) ELSE events
          /\ resend' = resend \ {e}
    BY Zenon DEF SendStore
  <1>2. taken' = taken
    BY Zenon DEF SendStore
  <1>4. CASE HasRoom
    <2>3. Queue!Store(e)
      BY Zenon, <1>1, <1>2, <1>4, OfferStep DEF Queue!Store, HasRoom
    <2> QED  BY Zenon, <2>3 DEF Queue!Next
  <1>5. CASE ~HasRoom
    BY Zenon, <1>1, <1>2, <1>5 DEF Queue!Refuse, Queue!Next
  <1> QED  BY Zenon, <1>4, <1>5

\* Or it passes the event to a receiver, over no other event.
LEMMA PassStep ==
  ASSUME IInv, NEW t \in Threads, SendPass(t)
  PROVE  Queue!Next
  <1>1. PICK e \in 1..MaxEvents, i \in DOMAIN pq :
          Sending(t, e) /\ taken' = Append(taken, e) /\ resend' = resend \ {e}
    BY Zenon DEF SendPass
  <1>2. events = <<>> /\ events' = events
    <2>1. pq # <<>>
      BY <1>1
    <2> QED  BY Zenon, <2>1 DEF IInv, Queues, SendPass
  <1>3. Queue!Pass(e)
    BY Zenon, <1>1, <1>2, OfferStep DEF Queue!Pass
  <1> QED  BY Zenon, <1>3 DEF Queue!Next

\* A sender that is stopped before it returns will send its event again.
LEMMA RequeuedStep ==
  ASSUME IInv, NEW t \in Threads, SendRequeued(t)
  PROVE  Queue!Next \/ UNCHANGED <<events, taken, resend>>
  <1>1. UNCHANGED <<events, taken>>
    BY Zenon DEF SendRequeued, queueVars
  <1>2. CASE ~stopped[t]
    BY Zenon, <1>1, <1>2 DEF SendRequeued
  <1>3. CASE stopped[t]
    <2>1. /\ event[t] \in 0..MaxEvents /\ event[t] # 0 /\ event[t] \in Range(taken)
          /\ resend' = resend \cup {event[t]}
      BY Zenon, <1>3 DEF IInv, TypeOK, Once, Holds, SendRequeued
    <2>2. event[t] \in 1..MaxEvents
      BY EventQueueAssumption, <2>1
    <2>3. Queue!OfferAgain(event[t])
      BY Zenon, <1>1, <2>1 DEF Queue!OfferAgain, Range
    <2> QED  BY Zenon, <2>2, <2>3 DEF Queue!Next
  <1> QED  BY Zenon, <1>2, <1>3

\* Every step is a step of BoundedQueue or leaves it alone.
LEMMA QueueStep ==
  ASSUME IInv, [Next]_vars
  PROVE  [Queue!Next]_(Queue!vars)
  <1> SUFFICES Queue!Next \/ UNCHANGED <<events, taken, resend>>
    BY Zenon DEF Queue!vars
  <1>1. ASSUME NEW t \in Threads, Receive(t)
        PROVE  Queue!Next \/ UNCHANGED <<events, taken, resend>>
    <2>1. CASE ReceiveTake(t) \/ TryTake(t)
      BY Zenon, <2>1, TakeStep, TryStep
    <2>2. CASE \/ ReceiveEnqueue(t) \/ ReceiveSignaled(t) \/ ReceiveStopped(t)
               \/ ReceiveTimeout(t) \/ ReceiveCheckState(t)
               \/ ReceiveCheckStateStopped(t) \/ ReceiveUnqueue(t)
               \/ ReceiveUnqueueLate(t) \/ TryLookup(t)
      BY Zenon, <2>2 DEF ReceiveEnqueue, ReceiveSignaled, ReceiveStopped,
         ReceiveTimeout, ReceiveCheckState, ReceiveCheckStateStopped,
         ReceiveUnqueue, ReceiveUnqueueLate, TryLookup, queueVars, world
    <2> QED  BY Zenon, <1>1, <2>1, <2>2 DEF Receive
  <1>2. ASSUME NEW t \in Threads, Send(t)
        PROVE  Queue!Next \/ UNCHANGED <<events, taken, resend>>
    <2>1. CASE SendStore(t) \/ SendPass(t)
      BY Zenon, <2>1, StoreStep, PassStep
    <2>2. CASE SendAgain(t)
      BY Zenon, <2>2 DEF SendAgain, queueVars, world
    <2>3. CASE SendElse(t)
      BY Zenon, <2>3 DEF SendElse, queueVars, Queue!Refuse, Queue!Next
    <2>4. CASE SendRequeued(t)
      BY Zenon, <2>4, RequeuedStep
    <2> QED  BY Zenon, <1>2, <2>1, <2>2, <2>3, <2>4 DEF Send
  <1>3. ASSUME NEW t \in Threads, Drain(t)  PROVE Queue!Next
    BY Zenon, <1>3 DEF Drain, world, Queue!Next, Queue!Discard
  <1>4. ASSUME NEW t \in Threads,
               \/ Destroy(t) \/ DestroyAgain(t) \/ DestroyCancel(t) \/ DestroyAwake(t)
               \/ Connect(t) \/ IpcFind(t) \/ ConnectIpc(t) \/ Disconnect(t)
               \/ PortDestroy(t) \/ Stop(t)
        PROVE  UNCHANGED <<events, taken, resend>>
    BY Zenon, <1>4 DEF Destroy, DestroyAgain, DestroyCancel, DestroyAwake, Connect,
       IpcFind, ConnectIpc, Disconnect, PortDestroy, Stop, queueVars, world
  <1>5. CASE Load
    BY Zenon, <1>5 DEF Load
  <1>6. CASE UNCHANGED vars
    BY Zenon, <1>6 DEF vars, queueVars, world
  <1> QED  BY Zenon, <1>1, <1>2, <1>3, <1>4, <1>5, <1>6 DEF Next

----------------------------------------------------------------------------
(* The theorems.  What they need of the sizes of finite sets comes from the   *)
(* library.                                                                   *)
Finite == INSTANCE FiniteSetTheorems

\* The library speaks of the same finite sets and of the same sizes.
LEMMA SameSizes ==
  ASSUME NEW S
  PROVE  (IsFiniteSet(S) <=> Finite!IsFiniteSet(S)) /\ Cardinality(S) = Finite!Cardinality(S)
  <1>1. IsFiniteSet(S) <=> Finite!IsFiniteSet(S)
    BY Zenon DEF IsFiniteSet, Finite!IsFiniteSet
  <1>2. Cardinality(S) = Finite!Cardinality(S)
    BY Zenon DEF Cardinality, Finite!Cardinality
  <1> QED  BY Zenon, <1>1, <1>2

\* The threads are finitely many: their sets have a size.
LEMMA Counting == Counted
  <1>1. ASSUME NEW S \in SUBSET Threads
        PROVE  IsFiniteSet(S) /\ Cardinality(S) \in Nat
    <2>1. IsFiniteSet(S)
      BY EventQueueAssumption, SameSizes, Finite!FS_Subset
    <2> QED  BY Zenon, <2>1, SameSizes, Finite!FS_CardinalityType
  <1>2. ASSUME NEW S \in SUBSET Threads, NEW t \in Threads \ S
        PROVE  Cardinality(S \cup {t}) = Cardinality(S) + 1
    BY <1>1, SameSizes, Finite!FS_AddElement
  <1>3. ASSUME NEW S \in SUBSET Threads, NEW t \in S
        PROVE  Cardinality(S \ {t}) = Cardinality(S) - 1
    BY Zenon, <1>1, SameSizes, Finite!FS_RemoveElement
  <1>4. ASSUME NEW S \in SUBSET Threads, NEW t \in S
        PROVE  Cardinality(S \ {t}) \in Nat
    <2>1. S \ {t} \in SUBSET Threads
      BY Zenon
    <2> QED  BY Zenon, <1>1, <2>1
  <1>5. Cardinality({}) = 0
    BY Zenon, SameSizes, Finite!FS_EmptySet
  <1> QED  BY <1>1, <1>2, <1>3, <1>4, <1>5 DEF Counted

\* The invariant behind the theorems below.
THEOREM Invariance == Spec => []IInv
  <1>1. Init => IInv
    BY Zenon, Counting, First
  <1>2. IInv /\ [Next]_vars => IInv'
    BY Zenon, Counting, Inductive
  <1> QED  BY <1>1, <1>2, PTL DEF Spec

\* For any number of threads, events and savestates: a receive waits only while
\* no event is stored, and returns the event it was given, whether awakened, timed
\* out, canceled or stopped; no wake-up is lost or left over.
THEOREM QueueReceiversServed == Spec => []ReceiversServed
  <1>1. IInv => ReceiversServed
    BY Zenon, ServedNow
  <1> QED  BY <1>1, Invariance, PTL

\* The port stays connected while a sender waits to be scheduled again, and is
\* busy for nobody else.
THEOREM QueueBusyPortConnected == Spec => []BusyPortConnected
  <1>1. IInv => BusyPortConnected
    BY Zenon DEF IInv
  <1> QED  BY <1>1, Invariance, PTL

\* A savestate loses no event, doubles none but those whose sender was stopped
\* between passing it on and returning, and every receiver that was asleep sleeps
\* again.
THEOREM QueueSavestateKeepsEvents == Spec => []SavestateKeepsEvents
  <1>1. IInv => SavestateKeepsEvents
    BY Zenon, EventsNow
  <1> QED  BY <1>1, Invariance, PTL

\* Events come out of the queue in the order in which they went in, once for each
\* time they went in: that is once, and once more for each time that the sender
\* was stopped between passing the event on and returning.
THEOREM QueueImplements == Spec => ImplementsBoundedQueue
  <1>1. Init => Queue!Init
    BY Zenon, QueueInit
  <1>2. IInv /\ [Next]_vars => [Queue!Next]_(Queue!vars)
    BY Zenon, QueueStep
  <1> QED  BY <1>1, <1>2, Invariance, PTL DEF Spec, ImplementsBoundedQueue,
              Queue!Spec
=============================================================================
