---------------------------- MODULE RwLockProofs ----------------------------
(***************************************************************************)
(* The safety properties of RwLock for any number of threads, any ids,     *)
(* priorities and protocol, and that the lock implements ReadersWriter.    *)
(***************************************************************************)
EXTENDS RwLock, QueueLemmas

\* Inside a critical section of several steps.
Inside(t) == pc[t] \in {"wake_readers", "awake"}

\* In a waiting loop, or stopped in it, with the mutex not left yet.
Queueable(t) == pc[t] \in {"waiting", "timedout", "unqueue", "again"}

\* Where t can be: queued, taken from a queue, asleep or inside rwlock.mutex.
Place(t) ==
  /\ t \in Range(rq) => Queueable(t) /\ kind[t] = "read" /\ sched[t] # "signal"
  /\ t \in Range(wq) => Queueable(t) /\ kind[t] = "write" /\ sched[t] # "signal"
  /\ pc[t] \in {"unqueue", "sync"} => sched[t] = "run"
  /\ pc[t] = "sync" => kind[t] = "read"
  /\ Inside(t) <=> mutex = t
  /\ pc[t] = "wake_readers" => wq = <<>>
  /\ Waiting(t) /\ sched[t] = "sleep" =>
       t \in Range(Queue(t)) \/ \E u \in Threads : t \in woken[u]
  /\ ~Waiting(t) /\ pc[t] \notin {"again", "halted"} => sched[t] = "run"
  /\ \A u \in Threads : t \in woken[u] =>
       /\ Inside(u)
       /\ sched[t] # "signal"
       /\ t \notin Range(wq)
       /\ IF t \in Range(rq) THEN pc[u] = "wake_readers" /\ pc[t] = "again"
          ELSE Waiting(t)

\* What t holds or has read when it is about to lock or unlock.
Claim(t) ==
  /\ pc[t] = "rlock_cas" => kind[t] = "read" /\ Readable(arg[t])
  /\ pc[t] \in {"rlock_cas", "lock_slow"} \/ Waiting(t) => kind[t] \notin hold[t]
  /\ pc[t] \in {"runlock_cas", "runlock_slow"} => "read" \in hold[t]
  /\ pc[t] = "runlock_cas" => arg[t] < 0 /\ ~WaitBit(arg[t])
  /\ pc[t] = "wunlock_slow" => "write" \in hold[t]
  /\ pc[t] = "idle" => arg[t] = 0
  /\ kind[t] = "write" /\ (pc[t] = "lock_slow" \/ Waiting(t)) => arg[t] = 0

\* The queues and the threads.
Places ==
  /\ NoDuplicates(rq) /\ NoDuplicates(wq)
  /\ \A t \in Threads : Place(t) /\ Claim(t)

\* The word v stands for the readers R or for the writer in W.
Agrees(v, R, W) ==
  \/ /\ W = {}
     /\ v - (v % 2) = -2 * Cardinality(R)
     /\ R = {} => v = 0
  \/ /\ R = {}
     /\ \E t \in Threads : W = {t} /\ v \div 2 = Id[t]

\* The wait bit of v tells whether the queues r and w are empty.
Marked(v, r, w) ==
  /\ r # <<>> \/ w # <<>> => WaitBit(v)
  /\ v < 0 /\ WaitBit(v) => w # <<>>

\* The next reader to be taken from the queue will repeat its call.
Stuck == rq # <<>> /\ pc[Last(rq)] = "again"

\* The owner and its wait bit, also while blocked readers are taken from rq.
Held ==
  /\ (\A t \in Threads : pc[t] # "wake_readers") =>
       Agrees(owner, Readers, Writers) /\ Marked(owner, rq, wq)
  /\ \A t \in Threads : pc[t] = "wake_readers" =>
       /\ owner < 0 /\ WaitBit(owner) /\ Writers = {}
       /\ arg[t] \in Nat
       /\ Stuck \/ Agrees(owner - 2 * arg[t], Readers, Writers)

\* Nobody uses a lock that was destroyed.
Dead ==
  ~alive => /\ owner = 0
            /\ \A t \in Threads : ~InIdm(t)

\* The inductive invariant.
IInv == TypeOK /\ Places /\ Held /\ Dead

\* A step of t does not move the other threads.
Others(t) ==
  \A u \in Threads \ {t} :
    pc'[u] = pc[u] /\ kind'[u] = kind[u] /\ arg'[u] = arg[u] /\ hold'[u] = hold[u]

----------------------------------------------------------------------------
(* The words of owner. *)

\* The wait bit is the lowest one.
LEMMA Bits ==
  ASSUME NEW v \in Int
  PROVE  /\ v % 2 \in {0, 1}
         /\ (v - 2) % 2 = v % 2 /\ (v + 2) % 2 = v % 2
         /\ v = 2 * (v \div 2) + (v % 2) /\ v \div 2 \in Int
  OBVIOUS

\* One reader and the wait bit.
LEMMA MinusOne ==
  ASSUME NEW v \in Int, v = -1
  PROVE  v % 2 = 1
  <1> DEFINE b == v % 2
             k == v \div 2
  <1>1. b \in {0, 1} /\ k \in Int /\ v = 2 * k + b
    BY Zenon, Bits
  <1> HIDE DEF b, k
  <1>2. b = 1
    BY <1>1
  <1> QED  BY Zenon, <1>2 DEF b

\* What the words need of the sizes of sets of threads.  It follows from the
\* threads being finitely many (Counting, at the end).
Counted ==
  /\ \A R \in SUBSET Threads :
       /\ Cardinality(R) \in Nat /\ Cardinality(R) <= Cardinality(Threads)
       /\ Cardinality(R) = 0 <=> R = {}
       /\ \A t \in Threads \ R : Cardinality(R \cup {t}) = Cardinality(R) + 1
       /\ \A t \in R : Cardinality(R \ {t}) = Cardinality(R) - 1
  /\ \A q \in Seq(Threads) : NoDuplicates(q) => Cardinality(Range(q)) = Len(q)

\* Sets of threads have a size.
LEMMA Sizes ==
  ASSUME Counted, NEW R \in SUBSET Threads
  PROVE  /\ Cardinality(R) \in Nat
         /\ Cardinality(R) <= Cardinality(Threads) /\ Cardinality(Threads) \in Nat
         /\ Cardinality(R) = 0 <=> R = {}
  BY Zenon DEF Counted

\* One more or one less.
LEMMA OneMore ==
  ASSUME Counted, NEW R \in SUBSET Threads, NEW t \in Threads
  PROVE  /\ t \notin R => Cardinality(R \cup {t}) = Cardinality(R) + 1
         /\ t \in R => Cardinality(R \ {t}) = Cardinality(R) - 1
  BY Zenon DEF Counted

\* The word of a free lock, and a word with a reader or a writer.
LEMMA AgreesKinds ==
  ASSUME Counted, NEW v \in Int, NEW R \in SUBSET Threads, NEW W \in SUBSET Threads,
         Agrees(v, R, W)
  PROVE  /\ v = 0 => R = {} /\ W = {}
         /\ v < 0 => R # {} /\ W = {}
         /\ v > 0 => R = {} /\ \E t \in Threads : W = {t} /\ v \div 2 = Id[t]
         /\ v # 1
         /\ v >= -2 * Cardinality(Threads)
  <1>1. CASE /\ W = {}
             /\ v - (v % 2) = -2 * Cardinality(R)
             /\ R = {} => v = 0
    BY <1>1, Sizes, Bits
  <1>2. CASE /\ R = {}
             /\ \E t \in Threads : W = {t} /\ v \div 2 = Id[t]
    <2>1. PICK t \in Threads : W = {t} /\ v \div 2 = Id[t]
      BY Zenon, <1>2
    <2>2. Id[t] \in Nat \ {0}
      BY Zenon, RwLockAssumption
    <2>3. v >= 2
      BY <2>1, <2>2, Bits
    <2> QED  BY <1>2, <2>1, <2>3, Sizes
  <1> QED  BY Zenon, <1>1, <1>2 DEF Agrees

\* A reader enters.
LEMMA AgreesEnter ==
  ASSUME Counted, NEW v \in Int, NEW R \in SUBSET Threads, NEW W \in SUBSET Threads,
         Agrees(v, R, W), v <= 0, NEW t \in Threads \ R
  PROVE  W = {} /\ Agrees(v - 2, R \cup {t}, W) /\ (WaitBit(v - 2) <=> WaitBit(v))
  <1>1. W = {}
    BY AgreesKinds
  <1>2. v - (v % 2) = -2 * Cardinality(R)
    BY Zenon, <1>1 DEF Agrees
  <1>3. (v - 2) - ((v - 2) % 2) = -2 * Cardinality(R \cup {t})
    BY <1>2, Bits, OneMore, Sizes
  <1> QED  BY Zenon, <1>1, <1>3, Bits DEF Agrees, WaitBit

\* A reader leaves.
LEMMA AgreesLeave ==
  ASSUME Counted, NEW v \in Int, NEW R \in SUBSET Threads, NEW W \in SUBSET Threads,
         Agrees(v, R, W), NEW t \in R
  PROVE  /\ W = {} /\ v < 0
         /\ v = -1 => R = {t}
         /\ v # -1 => /\ Agrees(v + 2, R \ {t}, W)
                      /\ WithoutReader(v) = v + 2 /\ v + 2 <= 0
                      /\ WaitBit(v + 2) <=> WaitBit(v)
                      /\ WaitBit(v) => v + 2 < 0
  <1>1. W = {} /\ v < 0
    BY AgreesKinds
  <1>2. v - (v % 2) = -2 * Cardinality(R)
    BY Zenon, <1>1 DEF Agrees
  <1>3. Cardinality(R \ {t}) = Cardinality(R) - 1 /\ Cardinality(R) \in Nat
    BY Zenon, OneMore, Sizes
  <1>4. R \ {t} = {} <=> Cardinality(R) = 1
    BY <1>3, Sizes
  <1> DEFINE n == Cardinality(R)
  <1>5. (v + 2) - ((v + 2) % 2) = -2 * Cardinality(R \ {t})
    <2>1. (v + 2) % 2 = v % 2 /\ v % 2 \in Int
      BY Bits
    <2>2. v - (v % 2) = -2 * n /\ n \in Nat
      BY Zenon, <1>2, <1>3
    <2> HIDE DEF n
    <2>3. (v + 2) - (v % 2) = -2 * (n - 1)
      BY <2>1, <2>2
    <2> QED  BY Zenon, <1>3, <2>1, <2>3 DEF n
  <1>6. v = -1 => R = {t}
    <2>1. SUFFICES ASSUME v = -1  PROVE n = 1
      BY Zenon, <1>4
    <2>2. v % 2 = 1
      BY Zenon, <2>1, MinusOne
    <2>3. v - 1 = -2 * n /\ n \in Nat
      BY Zenon, <1>2, <1>3, <2>2
    <2> QED  BY <2>1, <2>3
  <1>7. ASSUME v # -1
        PROVE  (R \ {t} = {} => v + 2 = 0) /\ v + 2 <= 0 /\ WithoutReader(v) = v + 2
    BY <1>7, <1>1, <1>2, <1>3, <1>4, Bits DEF WithoutReader
  <1>8. (WaitBit(v + 2) <=> WaitBit(v)) /\ (v # -1 /\ WaitBit(v) => v + 2 < 0)
    BY <1>1, Bits DEF WaitBit
  <1> QED  BY Zenon, <1>1, <1>5, <1>6, <1>7, <1>8 DEF Agrees

\* The wait bit is not part of what the word stands for.
LEMMA AgreesBit ==
  ASSUME Counted, NEW v \in Int, NEW R \in SUBSET Threads, NEW W \in SUBSET Threads,
         Agrees(v, R, W)
  PROVE  /\ v # 0 => /\ Agrees(SetWaitBit(v), R, W) /\ WaitBit(SetWaitBit(v))
                     /\ SetWaitBit(v) < 0 <=> v < 0
         /\ Agrees(ClearWaitBit(v), R, W) /\ ~WaitBit(ClearWaitBit(v))
         /\ SetWaitBit(v) \in Int /\ ClearWaitBit(v) \in Int
  <1> DEFINE s == SetWaitBit(v)
             c == ClearWaitBit(v)
  <1>1. /\ s \in Int /\ s - (s % 2) = v - (v % 2) /\ s \div 2 = v \div 2 /\ s % 2 = 1
        /\ v # 0 => (s < 0 <=> v < 0)
    BY Bits DEF SetWaitBit, WaitBit
  <1>2. /\ c \in Int /\ c - (c % 2) = v - (v % 2) /\ c \div 2 = v \div 2 /\ c % 2 = 0
        /\ v = 0 => c = 0
    BY Bits DEF ClearWaitBit
  <1> HIDE DEF s, c
  <1>3. v # 0 => Agrees(s, R, W)
    BY Zenon, <1>1, AgreesKinds DEF Agrees
  <1>4. Agrees(c, R, W)
    BY Zenon, <1>2 DEF Agrees
  <1> QED  BY <1>1, <1>2, <1>3, <1>4 DEF s, c, WaitBit

\* A thread that was given the write lock is named by the word, and the word
\* names only that thread.
LEMMA AgreesWriter ==
  ASSUME Counted, NEW v \in Int, NEW R \in SUBSET Threads, NEW W \in SUBSET Threads,
         Agrees(v, R, W), NEW t \in Threads
  PROVE  /\ t \in W => R = {} /\ W = {t} /\ v \div 2 = Id[t] /\ v > 0
         /\ v \div 2 = Id[t] => R = {} /\ W = {t} /\ v > 0
  <1>1. Id[t] \in Nat \ {0}
    BY Zenon, RwLockAssumption
  <1>2. ASSUME t \in W  PROVE R = {} /\ W = {t} /\ v \div 2 = Id[t] /\ v > 0
    BY <1>1, <1>2, Bits DEF Agrees
  <1>3. ASSUME v \div 2 = Id[t]  PROVE R = {} /\ W = {t} /\ v > 0
    <2>1. v > 0
      BY <1>1, <1>3, Bits
    <2>2. PICK u \in Threads : W = {u} /\ v \div 2 = Id[u]
      BY Zenon, <2>1, AgreesKinds
    <2>3. u = t
      BY Zenon, <1>3, <2>2, RwLockAssumption
    <2> QED  BY Zenon, <2>1, <2>2, <2>3, AgreesKinds
  <1> QED  BY Zenon, <1>2, <1>3

\* The words the code writes for a free lock, for a writer and for the readers
\* of a queue.
LEMMA AgreesNew ==
  ASSUME Counted
  PROVE  /\ Agrees(0, {}, {})
         /\ \A t \in Threads : \A b \in {0, 1} :
              /\ Agrees(2 * Id[t] + b, {}, {t}) /\ 2 * Id[t] + b > 0
              /\ 2 * Id[t] + b \in Int
              /\ WaitBit(2 * Id[t] + b) <=> b = 1
         /\ \A R \in SUBSET Threads : Agrees(-2 * Cardinality(R), R, {})
  <1>1. Agrees(0, {}, {})
    BY Sizes DEF Agrees
  <1>2. ASSUME NEW t \in Threads, NEW b \in {0, 1}
        PROVE  /\ Agrees(2 * Id[t] + b, {}, {t}) /\ 2 * Id[t] + b > 0
               /\ 2 * Id[t] + b \in Int
               /\ WaitBit(2 * Id[t] + b) <=> b = 1
    <2>1. Id[t] \in Nat \ {0}
      BY Zenon, RwLockAssumption
    <2>2. (2 * Id[t] + b) \div 2 = Id[t] /\ (2 * Id[t] + b) % 2 = b
      BY <2>1
    <2> QED  BY <2>1, <2>2 DEF Agrees, WaitBit
  <1>3. ASSUME NEW R \in SUBSET Threads  PROVE Agrees(-2 * Cardinality(R), R, {})
    <2>1. Cardinality(R) \in Nat /\ (R = {} => Cardinality(R) = 0)
      BY Zenon, Sizes
    <2>2. (-2 * Cardinality(R)) % 2 = 0
      BY <2>1
    <2> QED  BY <2>1, <2>2 DEF Agrees
  <1> QED  BY Zenon, <1>1, <1>2, <1>3

----------------------------------------------------------------------------
(* The queues, and who has the lock. *)

\* The reader that the loop of sys_rwlock_wlock looks at.
LEMMA LastReader ==
  ASSUME TypeOK, rq # <<>>
  PROVE  Last(rq) \in Range(rq) /\ Last(rq) \in Threads
  <1>1. Len(rq) \in DOMAIN rq
    BY DEF TypeOK
  <1> QED  BY <1>1 DEF TypeOK, Range, Last

\* The readers and the writers are threads.
LEMMA HolderTypes == Readers \in SUBSET Threads /\ Writers \in SUBSET Threads
  BY Zenon DEF Readers, Writers

\* The lock while nobody is inside rwlock.mutex.
LEMMA HeldNow ==
  ASSUME IInv, mutex = None
  PROVE  /\ \A u \in Threads : woken[u] = {} /\ ~Inside(u)
         /\ Agrees(owner, Readers, Writers) /\ Marked(owner, rq, wq)
  <1>1. \A u \in Threads : ~Inside(u)
    BY Zenon, RwLockAssumption DEF IInv, Places, Place
  <1>2. ASSUME NEW u \in Threads  PROVE woken[u] = {}
    BY Zenon, <1>1 DEF IInv, TypeOK, Places, Place
  <1>3. Agrees(owner, Readers, Writers) /\ Marked(owner, rq, wq)
    BY Zenon, <1>1 DEF IInv, Held, Inside
  <1> QED  BY Zenon, <1>1, <1>2, <1>3

\* A step that leaves the queues alone keeps Places when it does for its thread.
LEMMA Frame ==
  ASSUME NEW t \in Threads, Places, Others(t), Place(t)', Claim(t)',
         UNCHANGED <<rq, wq, mutex, woken>>,
         \A u \in Threads \ {t} : sched'[u] = sched[u],
         Inside(t)' <=> Inside(t),
         pc'[t] = "wake_readers" <=> pc[t] = "wake_readers"
  PROVE  Places'
  <1>1. ASSUME NEW u \in Threads \ {t}  PROVE Place(u)'
    BY <1>1 DEF Places, Place, Others, Inside, Queueable, Waiting, Queue
  <1>2. ASSUME NEW u \in Threads \ {t}  PROVE Claim(u)'
    BY Zenon, <1>2 DEF Places, Claim, Others, Waiting
  <1> QED  BY Zenon, <1>1, <1>2 DEF Places

\* Whether another thread has the lock changes only with the queues.
LEMMA OtherHolders ==
  ASSUME NEW t \in Threads, Others(t),
         Range(rq') \ {t} = Range(rq) \ {t}, Range(wq') \ {t} = Range(wq) \ {t}
  PROVE  \A u \in Threads \ {t} : \A k \in {"read", "write"} : Has(u, k)' <=> Has(u, k)
  BY Zenon DEF Others, Has, Waiting, Queue

\* A step after which its thread has the locks it had before.
LEMMA SameHolders ==
  ASSUME NEW t \in Threads, Others(t),
         Range(rq') \ {t} = Range(rq) \ {t}, Range(wq') \ {t} = Range(wq) \ {t},
         \A k \in {"read", "write"} : Has(t, k)' <=> Has(t, k)
  PROVE  Readers' = Readers /\ Writers' = Writers
  BY Zenon, OtherHolders DEF Readers, Writers

\* A step that leaves the owner and the queues alone, and gives or takes no lock.
LEMMA HeldSame ==
  ASSUME NEW t \in Threads, TypeOK, Held, Others(t), UNCHANGED <<owner, rq, wq>>,
         Readers' = Readers, Writers' = Writers,
         pc[t] \notin {"wake_readers", "again"}, pc'[t] # "wake_readers"
  PROVE  Held'
  <1>1. Stuck => Stuck'
    BY Zenon, LastReader DEF Stuck, Others
  <1>2. \A u \in Threads : /\ pc'[u] = "wake_readers" <=> pc[u] = "wake_readers"
                           /\ pc[u] = "wake_readers" => arg'[u] = arg[u]
    BY Zenon DEF Others
  <1> QED  BY Zenon, <1>1, <1>2 DEF Held

\* A step of t that leaves the queues and rwlock.mutex alone.
Alone(t) ==
  /\ Others(t) /\ UNCHANGED <<rq, wq, mutex, woken>>
  /\ \A u \in Threads \ {t} : sched'[u] = sched[u]
  /\ ~Inside(t) /\ ~Inside(t)'

\* It leaves owner alone too, and gives or takes no lock.
Quiet(t) ==
  /\ Alone(t) /\ UNCHANGED <<alive, owner>>
  /\ pc[t] # "again"
  /\ InIdm(t)' => InIdm(t) \/ alive

\* A quiet step preserves the inductive invariant when its thread still has the
\* locks it had.
LEMMA QuietStep ==
  ASSUME IInv, NEW t \in Threads, Quiet(t), TypeOK', Place(t)', Claim(t)',
         \A k \in {"read", "write"} : Has(t, k)' <=> Has(t, k)
  PROVE  IInv'
  <1> SUFFICES ASSUME TypeOK, Places, Held, Dead
               PROVE  IInv'
    BY Zenon DEF IInv
  <1>1. Readers' = Readers /\ Writers' = Writers
    BY Zenon, SameHolders DEF Quiet, Alone
  <1>2. Held'
    BY Zenon, <1>1, HeldSame DEF Quiet, Alone, Inside
  <1>3. Dead'
    BY Zenon DEF Dead, InIdm, Quiet, Alone, Others
  <1>4. Places'
    BY Zenon, Frame DEF Quiet, Alone, Inside
  <1> QED  BY Zenon, <1>2, <1>3, <1>4 DEF IInv

\* RLockRead preserves the inductive invariant.
LEMMA RLockReadPreserves ==
  ASSUME IInv, NEW t \in Threads, RLockRead(t)
  PROVE  IInv'
  <1>0. TypeOK /\ Place(t) /\ Claim(t)
    BY Zenon DEF IInv, Places
  <1>1. TypeOK'
    BY Zenon, <1>0 DEF TypeOK, RLockRead, Goto
  <1>2. Quiet(t)
    BY Zenon, <1>0 DEF TypeOK, Quiet, Alone, Others, Inside, InIdm, RLockRead, Goto
  <1>3. Place(t)' /\ Claim(t)'
    BY Zenon, <1>0 DEF TypeOK, Place, Claim, Readable, Inside, Queueable, Waiting,
       Queue, RLockRead, Goto
  <1>4. \A k \in {"read", "write"} : Has(t, k)' <=> Has(t, k)
    BY Zenon, <1>0 DEF TypeOK, Place, Claim, Queueable, Has, Waiting, Queue,
       RLockRead, Goto
  <1> QED  BY Zenon, <1>1, <1>2, <1>3, <1>4, QuietStep

\* RLockCasFailed preserves the inductive invariant.
LEMMA RLockCasFailedPreserves ==
  ASSUME IInv, NEW t \in Threads, RLockCasFailed(t)
  PROVE  IInv'
  <1>0. TypeOK /\ Place(t) /\ Claim(t)
    BY Zenon DEF IInv, Places
  <1>1. TypeOK'
    BY <1>0 DEF TypeOK, RLockCasFailed, Goto
  <1>2. Quiet(t)
    BY Zenon, <1>0 DEF TypeOK, Quiet, Alone, Others, Inside, InIdm, RLockCasFailed,
       Goto
  <1>3. Place(t)' /\ Claim(t)'
    BY Zenon, <1>0 DEF TypeOK, Place, Claim, Readable, Inside, Queueable, Waiting,
       Queue, RLockCasFailed, Goto
  <1>4. \A k \in {"read", "write"} : Has(t, k)' <=> Has(t, k)
    BY Zenon, <1>0 DEF TypeOK, Place, Claim, Queueable, Has, Waiting, Queue,
       RLockCasFailed, Goto
  <1> QED  BY Zenon, <1>1, <1>2, <1>3, <1>4, QuietStep

\* WLockBusy preserves the inductive invariant.
LEMMA WLockBusyPreserves ==
  ASSUME Counted, IInv, NEW t \in Threads, WLockBusy(t)
  PROVE  IInv'
  <1>0. TypeOK /\ Place(t) /\ Claim(t)
    BY Zenon DEF IInv, Places
  <1>5. "write" \notin hold[t]
    <2>1. SUFFICES ASSUME t \in Writers  PROVE FALSE
      BY Zenon DEF Writers, Has
    <2>2. owner \in Int /\ Agrees(owner, Readers, Writers)
      BY Zenon, <2>1 DEF IInv, TypeOK, Held
    <2> QED  BY Zenon, <2>1, <2>2, HolderTypes, AgreesWriter DEF WLockBusy
  <1>1. TypeOK'
    BY Zenon, <1>0 DEF TypeOK, WLockBusy, Goto
  <1>2. Quiet(t)
    BY Zenon, <1>0 DEF TypeOK, Quiet, Alone, Others, Inside, InIdm, WLockBusy, Goto
  <1>3. Place(t)' /\ Claim(t)'
    BY Zenon, <1>0, <1>5 DEF TypeOK, Place, Claim, Readable, Inside, Queueable,
       Waiting, Queue, WLockBusy, Goto
  <1>4. \A k \in {"read", "write"} : Has(t, k)' <=> Has(t, k)
    BY Zenon, <1>0, <1>5 DEF TypeOK, Place, Claim, Queueable, Has, Waiting, Queue,
       WLockBusy, Goto
  <1> QED  BY Zenon, <1>1, <1>2, <1>3, <1>4, QuietStep

\* LockSignaled preserves the inductive invariant.
LEMMA LockSignaledPreserves ==
  ASSUME IInv, NEW t \in Threads, LockSignaled(t)
  PROVE  IInv'
  <1>0. TypeOK /\ Place(t) /\ Claim(t)
    BY Zenon DEF IInv, Places
  <1>1. TypeOK'
    BY <1>0 DEF TypeOK, SchedStates, LockSignaled, Locked, Return
  <1>2. Quiet(t)
    BY Zenon, <1>0 DEF TypeOK, Quiet, Alone, Others, Inside, InIdm, LockSignaled,
       Locked, Return
  <1>3. Place(t)' /\ Claim(t)'
    BY Zenon, <1>0 DEF TypeOK, Place, Claim, Readable, Inside, Queueable, Waiting,
       Queue, LockSignaled, Locked, Return
  <1>4. \A k \in {"read", "write"} : Has(t, k)' <=> Has(t, k)
    BY Zenon, <1>0 DEF TypeOK, Place, Claim, Queueable, Has, Waiting, Queue,
       LockSignaled, Locked, Return
  <1> QED  BY Zenon, <1>1, <1>2, <1>3, <1>4, QuietStep

\* LockStopped preserves the inductive invariant.
LEMMA LockStoppedPreserves ==
  ASSUME IInv, NEW t \in Threads, LockStopped(t)
  PROVE  IInv'
  <1>0. TypeOK /\ Place(t) /\ Claim(t)
    BY Zenon DEF IInv, Places
  <1>5. \A u \in Threads : woken[u] = {} /\ ~Inside(u)
    BY Zenon, HeldNow DEF LockStopped
  <1>1. TypeOK'
    BY <1>0 DEF TypeOK, LockStopped, ReturnAgain
  <1>2. Quiet(t)
    BY Zenon, <1>0 DEF TypeOK, Quiet, Alone, Others, Inside, InIdm, LockStopped,
       ReturnAgain
  <1>3. Place(t)' /\ Claim(t)'
    BY Zenon, <1>0, <1>5 DEF TypeOK, Place, Claim, Readable, Inside, Queueable,
       Waiting, Queue, LockStopped, ReturnAgain
  <1>4. \A k \in {"read", "write"} : Has(t, k)' <=> Has(t, k)
    BY Zenon, <1>0, <1>5 DEF TypeOK, Place, Claim, Queueable, Has, Waiting, Queue,
       LockStopped, ReturnAgain
  <1> QED  BY Zenon, <1>1, <1>2, <1>3, <1>4, QuietStep

\* LockStoppedGranted preserves the inductive invariant.
LEMMA LockStoppedGrantedPreserves ==
  ASSUME IInv, NEW t \in Threads, LockStoppedGranted(t)
  PROVE  IInv'
  <1>0. TypeOK /\ Place(t) /\ Claim(t)
    BY Zenon DEF IInv, Places
  <1>5. \A u \in Threads : woken[u] = {} /\ ~Inside(u)
    BY Zenon, HeldNow DEF LockStoppedGranted
  <1>1. TypeOK'
    BY <1>0 DEF TypeOK, LockStoppedGranted, Locked, Return
  <1>2. Quiet(t)
    BY Zenon, <1>0 DEF TypeOK, Quiet, Alone, Others, Inside, InIdm,
       LockStoppedGranted, Locked, Return
  <1>3. Place(t)' /\ Claim(t)'
    BY Zenon, <1>0, <1>5 DEF TypeOK, Place, Claim, Readable, Inside, Queueable,
       Waiting, Queue, LockStoppedGranted, Locked, Return
  <1>4. \A k \in {"read", "write"} : Has(t, k)' <=> Has(t, k)
    BY Zenon, <1>0, <1>5 DEF TypeOK, Place, Claim, Queueable, Has, Waiting, Queue,
       LockStoppedGranted, Locked, Return
  <1> QED  BY Zenon, <1>1, <1>2, <1>3, <1>4, QuietStep

\* LockTimeout preserves the inductive invariant.
LEMMA LockTimeoutPreserves ==
  ASSUME IInv, NEW t \in Threads, LockTimeout(t)
  PROVE  IInv'
  <1>0. TypeOK /\ Place(t) /\ Claim(t)
    BY Zenon DEF IInv, Places
  <1>1. TypeOK'
    BY Zenon, <1>0 DEF TypeOK, LockTimeout, Goto
  <1>2. Quiet(t)
    BY Zenon, <1>0 DEF TypeOK, Quiet, Alone, Others, Inside, InIdm, LockTimeout, Goto
  <1>3. Place(t)' /\ Claim(t)'
    BY Zenon, <1>0 DEF TypeOK, Place, Claim, Readable, Inside, Queueable, Waiting,
       Queue, LockTimeout, Goto
  <1>4. \A k \in {"read", "write"} : Has(t, k)' <=> Has(t, k)
    BY Zenon, <1>0 DEF TypeOK, Place, Claim, Queueable, Has, Waiting, Queue,
       LockTimeout, Goto
  <1> QED  BY Zenon, <1>1, <1>2, <1>3, <1>4, QuietStep

\* LockCheckState preserves the inductive invariant.
LEMMA LockCheckStatePreserves ==
  ASSUME IInv, NEW t \in Threads, LockCheckState(t)
  PROVE  IInv'
  <1>0. TypeOK /\ Place(t) /\ Claim(t)
    BY Zenon DEF IInv, Places
  <1>1. TypeOK'
    BY Zenon, <1>0 DEF TypeOK, SchedStates, LockCheckState, Goto, check_state
  <1>2. Quiet(t)
    BY Zenon, <1>0 DEF TypeOK, Quiet, Alone, Others, Inside, InIdm, LockCheckState,
       Goto, check_state
  <1>3. Place(t)' /\ Claim(t)'
    BY Zenon, <1>0 DEF TypeOK, Place, Claim, Readable, Inside, Queueable, Waiting,
       Queue, LockCheckState, Goto, check_state
  <1>4. \A k \in {"read", "write"} : Has(t, k)' <=> Has(t, k)
    BY Zenon, <1>0 DEF TypeOK, Place, Claim, Queueable, Has, Waiting, Queue,
       LockCheckState, Goto, check_state
  <1> QED  BY Zenon, <1>1, <1>2, <1>3, <1>4, QuietStep

\* LockCheckStateStopped preserves the inductive invariant.
LEMMA LockCheckStateStoppedPreserves ==
  ASSUME IInv, NEW t \in Threads, LockCheckStateStopped(t)
  PROVE  IInv'
  <1>0. TypeOK /\ Place(t) /\ Claim(t)
    BY Zenon DEF IInv, Places
  <1>1. TypeOK'
    BY Zenon, <1>0 DEF TypeOK, LockCheckStateStopped, Goto
  <1>2. Quiet(t)
    BY Zenon, <1>0 DEF TypeOK, Quiet, Alone, Others, Inside, InIdm,
       LockCheckStateStopped, Goto
  <1>3. Place(t)' /\ Claim(t)'
    BY Zenon, <1>0 DEF TypeOK, Place, Claim, Readable, Inside, Queueable, Waiting,
       Queue, LockCheckStateStopped, Goto
  <1>4. \A k \in {"read", "write"} : Has(t, k)' <=> Has(t, k)
    BY Zenon, <1>0 DEF TypeOK, Place, Claim, Queueable, Has, Waiting, Queue,
       LockCheckStateStopped, Goto
  <1> QED  BY Zenon, <1>1, <1>2, <1>3, <1>4, QuietStep

\* LockCheckStateAwake preserves the inductive invariant.
LEMMA LockCheckStateAwakePreserves ==
  ASSUME IInv, NEW t \in Threads, LockCheckStateAwake(t)
  PROVE  IInv'
  <1>0. TypeOK /\ Place(t) /\ Claim(t)
    BY Zenon DEF IInv, Places
  <1>1. TypeOK'
    BY Zenon, <1>0 DEF TypeOK, SchedStates, LockCheckStateAwake, Goto, check_state
  <1>2. Quiet(t)
    BY Zenon, <1>0 DEF TypeOK, Quiet, Alone, Others, Inside, InIdm,
       LockCheckStateAwake, Goto, check_state
  <1>3. Place(t)' /\ Claim(t)'
    BY Zenon, <1>0 DEF TypeOK, Place, Claim, Readable, Inside, Queueable, Waiting,
       Queue, LockCheckStateAwake, Goto, check_state
  <1>4. \A k \in {"read", "write"} : Has(t, k)' <=> Has(t, k)
    BY Zenon, <1>0 DEF TypeOK, Place, Claim, Queueable, Has, Waiting, Queue,
       LockCheckStateAwake, Goto, check_state
  <1> QED  BY Zenon, <1>1, <1>2, <1>3, <1>4, QuietStep

\* RLockQueueEmpty preserves the inductive invariant.
LEMMA RLockQueueEmptyPreserves ==
  ASSUME IInv, NEW t \in Threads, RLockQueueEmpty(t)
  PROVE  IInv'
  <1>0. TypeOK /\ Place(t) /\ Claim(t)
    BY Zenon DEF IInv, Places
  <1>5. Range(rq) = {}
    BY Zenon, <1>0, EmptyQueue DEF TypeOK, RLockQueueEmpty
  <1>1. TypeOK'
    BY Zenon, <1>0 DEF TypeOK, RLockQueueEmpty, Goto
  <1>2. Quiet(t)
    BY Zenon, <1>0 DEF TypeOK, Quiet, Alone, Others, Inside, InIdm, RLockQueueEmpty,
       Goto
  <1>3. Place(t)' /\ Claim(t)'
    BY Zenon, <1>0, <1>5 DEF TypeOK, Place, Claim, Readable, Inside, Queueable,
       Waiting, Queue, RLockQueueEmpty, Goto
  <1>4. \A k \in {"read", "write"} : Has(t, k)' <=> Has(t, k)
    BY Zenon, <1>0, <1>5 DEF TypeOK, Place, Claim, Queueable, Has, Waiting, Queue,
       RLockQueueEmpty, Goto
  <1> QED  BY Zenon, <1>1, <1>2, <1>3, <1>4, QuietStep

\* RLockSync preserves the inductive invariant.
LEMMA RLockSyncPreserves ==
  ASSUME IInv, NEW t \in Threads, RLockSync(t)
  PROVE  IInv'
  <1>0. TypeOK /\ Place(t) /\ Claim(t)
    BY Zenon DEF IInv, Places
  <1>5. \A u \in Threads : woken[u] = {} /\ ~Inside(u)
    BY Zenon, HeldNow DEF RLockSync
  <1>1. TypeOK'
    BY <1>0 DEF TypeOK, RLockSync, Locked, Return
  <1>2. Quiet(t)
    BY Zenon, <1>0 DEF TypeOK, Quiet, Alone, Others, Inside, InIdm, RLockSync, Locked,
       Return
  <1>3. Place(t)' /\ Claim(t)'
    BY Zenon, <1>0, <1>5 DEF TypeOK, Place, Claim, Readable, Inside, Queueable,
       Waiting, Queue, RLockSync, Locked, Return
  <1>4. \A k \in {"read", "write"} : Has(t, k)' <=> Has(t, k)
    BY Zenon, <1>0, <1>5 DEF TypeOK, Place, Claim, Queueable, Has, Waiting, Queue,
       RLockSync, Locked, Return
  <1> QED  BY Zenon, <1>1, <1>2, <1>3, <1>4, QuietStep

\* LockUnqueueLate preserves the inductive invariant.
LEMMA LockUnqueueLatePreserves ==
  ASSUME IInv, NEW t \in Threads, LockUnqueueLate(t)
  PROVE  IInv'
  <1>0. TypeOK /\ Place(t) /\ Claim(t)
    BY Zenon DEF IInv, Places
  <1>5. \A u \in Threads : woken[u] = {} /\ ~Inside(u)
    BY Zenon, HeldNow DEF LockUnqueueLate
  <1>1. TypeOK'
    BY <1>0 DEF TypeOK, LockUnqueueLate, Locked, Return
  <1>2. Quiet(t)
    BY Zenon, <1>0 DEF TypeOK, Quiet, Alone, Others, Inside, InIdm, LockUnqueueLate,
       Locked, Return
  <1>3. Place(t)' /\ Claim(t)'
    BY Zenon, <1>0, <1>5 DEF TypeOK, Place, Claim, Readable, Inside, Queueable,
       Waiting, Queue, LockUnqueueLate, Locked, Return
  <1>4. \A k \in {"read", "write"} : Has(t, k)' <=> Has(t, k)
    BY Zenon, <1>0, <1>5 DEF TypeOK, Place, Claim, Queueable, Has, Waiting, Queue,
       LockUnqueueLate, Locked, Return
  <1> QED  BY Zenon, <1>1, <1>2, <1>3, <1>4, QuietStep

\* RUnlockRead preserves the inductive invariant.
LEMMA RUnlockReadPreserves ==
  ASSUME IInv, NEW t \in Threads, RUnlockRead(t)
  PROVE  IInv'
  <1>0. TypeOK /\ Place(t) /\ Claim(t)
    BY Zenon DEF IInv, Places
  <1>1. TypeOK'
    BY Zenon, <1>0 DEF TypeOK, RUnlockRead, Goto
  <1>2. Quiet(t)
    BY Zenon, <1>0 DEF TypeOK, Quiet, Alone, Others, Inside, InIdm, RUnlockRead, Goto
  <1>3. Place(t)' /\ Claim(t)'
    BY Zenon, <1>0 DEF TypeOK, Place, Claim, Readable, Inside, Queueable, Waiting,
       Queue, RUnlockRead, Goto
  <1>4. \A k \in {"read", "write"} : Has(t, k)' <=> Has(t, k)
    BY Zenon, <1>0 DEF TypeOK, Place, Claim, Queueable, Has, Waiting, Queue,
       RUnlockRead, Goto
  <1> QED  BY Zenon, <1>1, <1>2, <1>3, <1>4, QuietStep

\* RUnlockCasFailed preserves the inductive invariant.
LEMMA RUnlockCasFailedPreserves ==
  ASSUME IInv, NEW t \in Threads, RUnlockCasFailed(t)
  PROVE  IInv'
  <1>0. TypeOK /\ Place(t) /\ Claim(t)
    BY Zenon DEF IInv, Places
  <1>1. TypeOK'
    BY Zenon, <1>0 DEF TypeOK, RUnlockCasFailed, Goto
  <1>2. Quiet(t)
    BY Zenon, <1>0 DEF TypeOK, Quiet, Alone, Others, Inside, InIdm, RUnlockCasFailed,
       Goto
  <1>3. Place(t)' /\ Claim(t)'
    BY Zenon, <1>0 DEF TypeOK, Place, Claim, Readable, Inside, Queueable, Waiting,
       Queue, RUnlockCasFailed, Goto
  <1>4. \A k \in {"read", "write"} : Has(t, k)' <=> Has(t, k)
    BY Zenon, <1>0 DEF TypeOK, Place, Claim, Queueable, Has, Waiting, Queue,
       RUnlockCasFailed, Goto
  <1> QED  BY Zenon, <1>1, <1>2, <1>3, <1>4, QuietStep

\* RUnlockAgain preserves the inductive invariant.
LEMMA RUnlockAgainPreserves ==
  ASSUME IInv, NEW t \in Threads, RUnlockAgain(t)
  PROVE  IInv'
  <1>0. TypeOK /\ Place(t) /\ Claim(t)
    BY Zenon DEF IInv, Places
  <1>5. \A u \in Threads : woken[u] = {} /\ ~Inside(u)
    BY Zenon, HeldNow DEF RUnlockAgain
  <1>1. TypeOK'
    BY <1>0 DEF TypeOK, RUnlockAgain, ReturnAgain
  <1>2. Quiet(t)
    BY Zenon, <1>0 DEF TypeOK, Quiet, Alone, Others, Inside, InIdm, RUnlockAgain,
       ReturnAgain
  <1>3. Place(t)' /\ Claim(t)'
    BY Zenon, <1>0, <1>5 DEF TypeOK, Place, Claim, Readable, Inside, Queueable,
       Waiting, Queue, RUnlockAgain, ReturnAgain
  <1>4. \A k \in {"read", "write"} : Has(t, k)' <=> Has(t, k)
    BY Zenon, <1>0, <1>5 DEF TypeOK, Place, Claim, Queueable, Has, Waiting, Queue,
       RUnlockAgain, ReturnAgain
  <1> QED  BY Zenon, <1>1, <1>2, <1>3, <1>4, QuietStep

\* WUnlockBusy preserves the inductive invariant.
LEMMA WUnlockBusyPreserves ==
  ASSUME Counted, IInv, NEW t \in Threads, WUnlockBusy(t)
  PROVE  IInv'
  <1>0. TypeOK /\ Place(t) /\ Claim(t)
    BY Zenon DEF IInv, Places
  <1>5. "write" \in hold[t]
    <2>1. owner > 0 /\ owner \div 2 = Id[t] /\ owner \in Int
      BY RwLockAssumption DEF WUnlockBusy
    <2>2. Agrees(owner, Readers, Writers)
      BY <2>1 DEF IInv, Held
    <2>3. t \in Writers
      BY <2>1, <2>2, HolderTypes, AgreesWriter
    <2> QED  BY Zenon, <2>3 DEF Writers, Has, Waiting, WUnlockBusy
  <1>1. TypeOK'
    BY Zenon, <1>0 DEF TypeOK, WUnlockBusy, Goto
  <1>2. Quiet(t)
    BY Zenon, <1>0 DEF TypeOK, Quiet, Alone, Others, Inside, InIdm, WUnlockBusy, Goto
  <1>3. Place(t)' /\ Claim(t)'
    BY Zenon, <1>0, <1>5 DEF TypeOK, Place, Claim, Readable, Inside, Queueable,
       Waiting, Queue, WUnlockBusy, Goto
  <1>4. \A k \in {"read", "write"} : Has(t, k)' <=> Has(t, k)
    BY Zenon, <1>0, <1>5 DEF TypeOK, Place, Claim, Queueable, Has, Waiting, Queue,
       WUnlockBusy, Goto
  <1> QED  BY Zenon, <1>1, <1>2, <1>3, <1>4, QuietStep

\* WUnlockAgain preserves the inductive invariant.
LEMMA WUnlockAgainPreserves ==
  ASSUME IInv, NEW t \in Threads, WUnlockAgain(t)
  PROVE  IInv'
  <1>0. TypeOK /\ Place(t) /\ Claim(t)
    BY Zenon DEF IInv, Places
  <1>5. \A u \in Threads : woken[u] = {} /\ ~Inside(u)
    BY Zenon, HeldNow DEF WUnlockAgain
  <1>1. TypeOK'
    BY <1>0 DEF TypeOK, WUnlockAgain, ReturnAgain
  <1>2. Quiet(t)
    BY Zenon, <1>0 DEF TypeOK, Quiet, Alone, Others, Inside, InIdm, WUnlockAgain,
       ReturnAgain
  <1>3. Place(t)' /\ Claim(t)'
    BY Zenon, <1>0, <1>5 DEF TypeOK, Place, Claim, Readable, Inside, Queueable,
       Waiting, Queue, WUnlockAgain, ReturnAgain
  <1>4. \A k \in {"read", "write"} : Has(t, k)' <=> Has(t, k)
    BY Zenon, <1>0, <1>5 DEF TypeOK, Place, Claim, Queueable, Has, Waiting, Queue,
       WUnlockAgain, ReturnAgain
  <1> QED  BY Zenon, <1>1, <1>2, <1>3, <1>4, QuietStep

\* While owner is not what the loop of sys_rwlock_wlock leaves it, nobody is in
\* that loop.
LEMMA NoLoop ==
  ASSUME IInv, ~(owner < 0 /\ WaitBit(owner))
  PROVE  /\ \A u \in Threads : pc[u] # "wake_readers"
         /\ Agrees(owner, Readers, Writers) /\ Marked(owner, rq, wq)
  BY Zenon DEF IInv, Held

\* Somebody waits for the lock: it is not free, and it was not destroyed.
LEMMA QueuedAlive ==
  ASSUME IInv, mutex = None, rq # <<>> \/ wq # <<>>
  PROVE  alive /\ owner # 0 /\ WaitBit(owner)
  BY HeldNow DEF IInv, Dead, Marked, WaitBit

\* What a step makes of the readers and writers when the queues of the others
\* stay as they are.
LEMMA NewHolders ==
  ASSUME NEW t \in Threads, Others(t),
         Range(rq') \ {t} = Range(rq) \ {t}, Range(wq') \ {t} = Range(wq) \ {t}
  PROVE  /\ Readers' = IF Has(t, "read")' THEN Readers \cup {t} ELSE Readers \ {t}
         /\ Writers' = IF Has(t, "write")' THEN Writers \cup {t} ELSE Writers \ {t}
  BY Zenon, OtherHolders DEF Readers, Writers

\* owner stays in its range.
LEMMA OwnerRange ==
  ASSUME Counted, owner' \in Int, Agrees(owner', Readers', Writers')
  PROVE  owner' >= -2 * Cardinality(Threads)
  <1>1. Readers' \in SUBSET Threads /\ Writers' \in SUBSET Threads
    BY Zenon DEF Readers, Writers
  <1> QED  BY Zenon, <1>1, AgreesKinds

\* owner as it is while nobody is in that loop.
Word ==
  /\ owner \in Int /\ owner >= -2 * Cardinality(Threads)
  /\ Agrees(owner, Readers, Writers) /\ Marked(owner, rq, wq)

\* A step that changes the lock and leaves the queues alone.
LEMMA OwnerStep ==
  ASSUME IInv, NEW t \in Threads, Alone(t), alive', Word', TypeOK', Place(t)', Claim(t)',
         \A u \in Threads : pc[u] # "wake_readers"
  PROVE  IInv'
  <1>1. Places'
    BY Zenon, Frame DEF IInv, Alone, Inside
  <1>2. \A u \in Threads : pc'[u] # "wake_readers"
    BY Zenon DEF Alone, Others, Inside
  <1> QED  BY Zenon, <1>1, <1>2 DEF IInv, Held, Dead, Word

\* A reader enters: sys_rwlock_rlock and sys_rwlock_tryrlock.
LEMMA ReaderWord ==
  ASSUME Counted, IInv, NEW t \in Threads, Alone(t), t \notin Readers,
         Readable(owner), owner' = owner - 2,
         Has(t, "read")', Has(t, "write")' <=> Has(t, "write")
  PROVE  Word' /\ \A u \in Threads : pc[u] # "wake_readers"
  <1>1. /\ Agrees(owner, Readers, Writers) /\ Marked(owner, rq, wq) /\ owner \in Int
        /\ \A u \in Threads : pc[u] # "wake_readers"
    BY Zenon, NoLoop DEF IInv, TypeOK, Readable
  <1>2. Readers' = Readers \cup {t} /\ Writers' = Writers
    BY NewHolders DEF Alone, Readers, Writers
  <1>3. Agrees(owner - 2, Readers \cup {t}, Writers) /\ ~WaitBit(owner - 2)
    BY Zenon, <1>1, HolderTypes, AgreesEnter DEF Readable
  <1> QED  BY <1>1, <1>2, <1>3, OwnerRange DEF Word, Marked, Readable, Alone

\* A writer enters: sys_rwlock_wlock and sys_rwlock_trywlock.
LEMMA WriterWord ==
  ASSUME Counted, IInv, NEW t \in Threads, Alone(t), owner = 0, owner' = 2 * Id[t],
         Has(t, "write")', Has(t, "read")' <=> Has(t, "read")
  PROVE  Word' /\ \A u \in Threads : pc[u] # "wake_readers"
  <1>1. ~WaitBit(owner) /\ owner \in Int
    BY DEF WaitBit
  <1>2. /\ Agrees(owner, Readers, Writers) /\ Marked(owner, rq, wq)
        /\ \A u \in Threads : pc[u] # "wake_readers"
    BY Zenon, <1>1, NoLoop
  <1>3. Readers = {} /\ Writers = {} /\ rq = <<>> /\ wq = <<>>
    BY Zenon, <1>1, <1>2, HolderTypes, AgreesKinds DEF Marked
  <1>4. Readers' = {} /\ Writers' = {t}
    BY Zenon, <1>3, NewHolders DEF Alone, Readers, Writers
  <1>5. /\ Agrees(2 * Id[t] + 0, {}, {t}) /\ 2 * Id[t] + 0 > 0
        /\ 2 * Id[t] + 0 = 2 * Id[t] /\ 2 * Id[t] \in Int
    BY AgreesNew, RwLockAssumption
  <1> QED  BY <1>2, <1>3, <1>4, <1>5, OwnerRange DEF Word, Marked, Alone

\* A reader leaves and hands nothing over: sys_rwlock_runlock.
LEMMA ReaderGoneWord ==
  ASSUME Counted, IInv, NEW t \in Threads, Alone(t), t \in Readers,
         \A u \in Threads : pc[u] # "wake_readers",
         owner' = WithoutReader(owner) \/ owner' = owner + 2,
         ~(owner = -1 /\ wq # <<>>),
         ~Has(t, "read")', Has(t, "write")' <=> Has(t, "write")
  PROVE  Word' /\ alive
  <1>1. /\ Agrees(owner, Readers, Writers) /\ Marked(owner, rq, wq) /\ owner \in Int
    BY Zenon DEF IInv, TypeOK, Held
  <1>2. Readers' = Readers \ {t} /\ Writers' = Writers
    BY NewHolders DEF Alone, Readers, Writers
  <1>3. owner < 0
    BY Zenon, <1>1, HolderTypes, AgreesLeave
  <1>4. owner # -1
    <2>1. owner = -1 => WaitBit(owner)
      BY Zenon, <1>1, MinusOne DEF WaitBit
    <2> QED  BY Zenon, <1>1, <1>3, <2>1 DEF Marked
  <1>5. /\ Agrees(owner + 2, Readers \ {t}, Writers) /\ WithoutReader(owner) = owner + 2
        /\ owner + 2 <= 0 /\ (WaitBit(owner + 2) <=> WaitBit(owner))
    BY Zenon, <1>1, <1>4, HolderTypes, AgreesLeave
  <1>6. owner' = owner + 2 /\ owner' \in Int
    BY <1>1, <1>5
  <1>7. Marked(owner', rq', wq')
    BY Zenon, <1>1, <1>3, <1>5, <1>6 DEF Marked, Alone
  <1> QED  BY <1>1, <1>2, <1>3, <1>5, <1>6, <1>7, OwnerRange DEF Word, IInv,
              Dead

\* The writer leaves and nobody waits: sys_rwlock_wunlock.
LEMMA WriterGoneWord ==
  ASSUME Counted, IInv, NEW t \in Threads, Alone(t), Writers = {t}, Readers = {},
         rq = <<>>, wq = <<>>, owner' = 0,
         ~Has(t, "write")', Has(t, "read")' <=> Has(t, "read")
  PROVE  Word'
  <1>1. Readers' = {} /\ Writers' = {}
    BY Zenon, NewHolders DEF Alone, Readers, Writers
  <1> QED  BY <1>1, AgreesNew, OwnerRange DEF Word, Marked, Alone

\* A step leaves u where it was, and with nobody about to awake it.
Untouched(u) ==
  /\ sched'[u] = sched[u]
  /\ u \in Range(rq') <=> u \in Range(rq)
  /\ u \in Range(wq') <=> u \in Range(wq)
  /\ \A v \in Threads : u \notin woken'[v]

\* A step that moves only the threads X, when nobody was inside rwlock.mutex.
LEMMA FrameQueue ==
  ASSUME NEW t \in Threads, NEW X \in SUBSET Threads, t \in X, Places, Others(t),
         \A u \in Threads : woken[u] = {} /\ ~Inside(u),
         \A u \in Threads \ X : Untouched(u), \A u \in X : Place(u)', Claim(t)',
         NoDuplicates(rq'), NoDuplicates(wq'), mutex' \in {None, t}
  PROVE  Places'
  <1>1. ASSUME NEW u \in Threads \ X  PROVE Place(u)'
    BY <1>1, RwLockAssumption DEF Places, Place, Untouched, Others,
       Inside, Queueable, Waiting, Queue
  <1>2. ASSUME NEW u \in Threads \ {t}  PROVE Claim(u)'
    BY Zenon, <1>2 DEF Places, Claim, Others, Waiting
  <1> QED  BY Zenon, <1>1, <1>2 DEF Places

\* A step that puts its thread on a queue or takes it from there.
Requeue(t) ==
  /\ Others(t) /\ mutex = None /\ ~Inside(t)' /\ UNCHANGED <<alive, mutex, woken>>
  /\ \A u \in Threads \ {t} : sched'[u] = sched[u]
  /\ NoDuplicates(rq') /\ NoDuplicates(wq')
  /\ Range(rq') \ {t} = Range(rq) \ {t} /\ Range(wq') \ {t} = Range(wq) \ {t}

\* It preserves the inductive invariant, when owner is right.
LEMMA RequeueStep ==
  ASSUME IInv, NEW t \in Threads, Requeue(t), alive, Word', TypeOK', Place(t)', Claim(t)'
  PROVE  IInv'
  <1>1. \A u \in Threads : woken[u] = {} /\ ~Inside(u)
    BY Zenon, HeldNow DEF Requeue
  <1>2. \A u \in Threads \ {t} : Untouched(u)
    BY Zenon, <1>1 DEF Requeue, Untouched
  <1>3. {t} \in SUBSET Threads /\ t \in {t} /\ \A u \in {t} : Place(u)'
    BY Zenon
  <1>4. Places'
    BY Zenon, <1>1, <1>2, <1>3, FrameQueue DEF IInv, Requeue
  <1>5. \A u \in Threads : pc'[u] # "wake_readers"
    BY Zenon, <1>1 DEF Requeue, Others, Inside
  <1> QED  BY Zenon, <1>4, <1>5 DEF IInv, Held, Dead, Word, Requeue

\* A thread is queued, or taken from a queue, and the lock stays with who has it.
LEMMA RequeueHolders ==
  ASSUME NEW t \in Threads, Requeue(t), \A k \in {"read", "write"} : Has(t, k)' <=> Has(t, k)
  PROVE  Readers' = Readers /\ Writers' = Writers
  BY Zenon, SameHolders DEF Requeue

----------------------------------------------------------------------------
\* RLockCas preserves the inductive invariant.
LEMMA RLockCasPreserves ==
  ASSUME Counted, IInv, NEW t \in Threads, RLockCas(t)
  PROVE  IInv'
  <1>0. TypeOK /\ Place(t) /\ Claim(t)
    BY Zenon DEF IInv, Places
  <1>1. t \notin Readers /\ Readable(owner) /\ alive
    BY Zenon, <1>0 DEF IInv, Dead, InIdm, Claim, Readers, Has, Waiting, RLockCas
  <1>2. Alone(t)
    BY Zenon, <1>0 DEF TypeOK, Alone, Others, Inside, RLockCas, Locked, Return
  <1>3. Has(t, "read")' /\ (Has(t, "write")' <=> Has(t, "write"))
    BY Zenon, <1>0 DEF TypeOK, Place, Claim, Queueable, Has, Waiting, Queue, RLockCas,
       Locked, Return
  <1>4. Word' /\ \A u \in Threads : pc[u] # "wake_readers"
    BY Zenon, <1>1, <1>2, <1>3, ReaderWord DEF RLockCas
  <1>5. TypeOK'
    BY <1>0, <1>4 DEF TypeOK, Word, RLockCas, Locked, Return
  <1>6. Place(t)' /\ Claim(t)'
    BY Zenon, <1>0 DEF TypeOK, Place, Claim, Inside, Queueable, Waiting, Queue,
       RLockCas, Locked, Return
  <1> QED  BY Zenon, <1>1, <1>2, <1>4, <1>5, <1>6, OwnerStep DEF RLockCas

\* TryRLock preserves the inductive invariant.
LEMMA TryRLockPreserves ==
  ASSUME Counted, IInv, NEW t \in Threads, TryRLock(t)
  PROVE  IInv'
  <1>0. TypeOK /\ Place(t) /\ Claim(t)
    BY Zenon DEF IInv, Places
  <1>1. t \notin Readers /\ Readable(owner) /\ alive
    BY Zenon, <1>0 DEF IInv, Dead, InIdm, Claim, Readers, Has, Waiting, TryRLock
  <1>2. Alone(t)
    BY Zenon, <1>0 DEF TypeOK, Alone, Others, Inside, TryRLock, Locked
  <1>3. Has(t, "read")' /\ (Has(t, "write")' <=> Has(t, "write"))
    BY Zenon, <1>0 DEF TypeOK, Place, Claim, Queueable, Has, Waiting, Queue, TryRLock,
       Locked
  <1>4. Word' /\ \A u \in Threads : pc[u] # "wake_readers"
    BY Zenon, <1>1, <1>2, <1>3, ReaderWord DEF TryRLock
  <1>5. TypeOK'
    BY Zenon, <1>0, <1>4 DEF TypeOK, Word, TryRLock, Locked
  <1>6. Place(t)' /\ Claim(t)'
    BY Zenon, <1>0 DEF TypeOK, Place, Claim, Inside, Queueable, Waiting, Queue,
       TryRLock, Locked
  <1> QED  BY Zenon, <1>1, <1>2, <1>4, <1>5, <1>6, OwnerStep DEF TryRLock

\* RLockSlow preserves the inductive invariant.
LEMMA RLockSlowPreserves ==
  ASSUME Counted, IInv, NEW t \in Threads, RLockSlow(t)
  PROVE  IInv'
  <1>0. TypeOK /\ Place(t) /\ Claim(t)
    BY Zenon DEF IInv, Places
  <1>1. t \notin Readers /\ Readable(owner) /\ alive
    BY Zenon, <1>0 DEF IInv, Dead, InIdm, Claim, Readers, Has, Waiting, RLockSlow
  <1>2. Alone(t)
    BY Zenon, <1>0 DEF TypeOK, Alone, Others, Inside, RLockSlow, Locked, Return
  <1>3. Has(t, "read")' /\ (Has(t, "write")' <=> Has(t, "write"))
    BY Zenon, <1>0 DEF TypeOK, Place, Claim, Queueable, Has, Waiting, Queue,
       RLockSlow, Locked, Return
  <1>4. Word' /\ \A u \in Threads : pc[u] # "wake_readers"
    BY Zenon, <1>1, <1>2, <1>3, ReaderWord DEF RLockSlow
  <1>5. TypeOK'
    BY <1>0, <1>4 DEF TypeOK, Word, RLockSlow, Locked, Return
  <1>6. Place(t)' /\ Claim(t)'
    BY Zenon, <1>0 DEF TypeOK, Place, Claim, Inside, Queueable, Waiting, Queue,
       RLockSlow, Locked, Return
  <1> QED  BY Zenon, <1>1, <1>2, <1>4, <1>5, <1>6, OwnerStep DEF RLockSlow

\* TryWLock preserves the inductive invariant.
LEMMA TryWLockPreserves ==
  ASSUME Counted, IInv, NEW t \in Threads, TryWLock(t)
  PROVE  IInv'
  <1>0. TypeOK /\ Place(t) /\ Claim(t)
    BY Zenon DEF IInv, Places
  <1>1. alive
    BY Zenon, <1>0 DEF IInv, Dead, InIdm, TryWLock
  <1>2. Alone(t)
    BY Zenon, <1>0 DEF TypeOK, Alone, Others, Inside, TryWLock, Locked
  <1>3. Has(t, "write")' /\ (Has(t, "read")' <=> Has(t, "read"))
    BY Zenon, <1>0 DEF TypeOK, Place, Claim, Queueable, Has, Waiting, Queue, TryWLock,
       Locked
  <1>4. Word' /\ \A u \in Threads : pc[u] # "wake_readers"
    BY Zenon, <1>2, <1>3, WriterWord DEF TryWLock
  <1>5. TypeOK'
    BY Zenon, <1>0, <1>4 DEF TypeOK, Word, TryWLock, Locked
  <1>6. Place(t)' /\ Claim(t)'
    BY Zenon, <1>0 DEF TypeOK, Place, Claim, Inside, Queueable, Waiting, Queue,
       TryWLock, Locked
  <1> QED  BY Zenon, <1>1, <1>2, <1>4, <1>5, <1>6, OwnerStep DEF TryWLock

\* WLockSlow preserves the inductive invariant.
LEMMA WLockSlowPreserves ==
  ASSUME Counted, IInv, NEW t \in Threads, WLockSlow(t)
  PROVE  IInv'
  <1>0. TypeOK /\ Place(t) /\ Claim(t)
    BY Zenon DEF IInv, Places
  <1>1. alive
    BY Zenon, <1>0 DEF IInv, Dead, InIdm, WLockSlow
  <1>2. Alone(t)
    BY Zenon, <1>0 DEF TypeOK, Alone, Others, Inside, WLockSlow, Locked, Return
  <1>3. Has(t, "write")' /\ (Has(t, "read")' <=> Has(t, "read"))
    BY Zenon, <1>0 DEF TypeOK, Place, Claim, Queueable, Has, Waiting, Queue,
       WLockSlow, Locked, Return
  <1>4. Word' /\ \A u \in Threads : pc[u] # "wake_readers"
    BY Zenon, <1>2, <1>3, WriterWord DEF WLockSlow
  <1>5. TypeOK'
    BY Zenon, <1>0, <1>4 DEF TypeOK, Word, WLockSlow, Locked, Return
  <1>6. Place(t)' /\ Claim(t)'
    BY Zenon, <1>0 DEF TypeOK, Place, Claim, Inside, Queueable, Waiting, Queue,
       WLockSlow, Locked, Return
  <1> QED  BY Zenon, <1>1, <1>2, <1>4, <1>5, <1>6, OwnerStep DEF WLockSlow

\* RUnlockCas preserves the inductive invariant.
LEMMA RUnlockCasPreserves ==
  ASSUME Counted, IInv, NEW t \in Threads, RUnlockCas(t)
  PROVE  IInv'
  <1>0. TypeOK /\ Place(t) /\ Claim(t)
    BY Zenon DEF IInv, Places
  <1>1. t \in Readers /\ \A u \in Threads : pc[u] # "wake_readers"
    <2>1. t \in Readers
      BY Zenon, <1>0 DEF Claim, Readers, Has, RUnlockCas
    <2> QED  BY Zenon, <1>0, <2>1, NoLoop DEF Claim, RUnlockCas
  <1>7. owner # -1 \/ wq = <<>>
    <2>1. owner \in Int /\ ~WaitBit(owner)
      BY Zenon, <1>0 DEF TypeOK, Claim, RUnlockCas
    <2> QED  BY Zenon, <2>1, MinusOne DEF WaitBit
  <1>2. Alone(t)
    BY Zenon, <1>0 DEF TypeOK, Alone, Others, Inside, RUnlockCas, Unlocked, Return
  <1>3. ~Has(t, "read")' /\ (Has(t, "write")' <=> Has(t, "write"))
    BY Zenon, <1>0 DEF TypeOK, Place, Claim, Queueable, Has, Waiting, Queue,
       RUnlockCas, Unlocked, Return
  <1>4. Word' /\ alive
    BY Zenon, <1>1, <1>2, <1>3, <1>7, ReaderGoneWord DEF RUnlockCas
  <1>5. TypeOK'
    BY <1>0, <1>4 DEF TypeOK, Word, RUnlockCas, Unlocked, Return
  <1>6. Place(t)' /\ Claim(t)'
    BY Zenon, <1>0 DEF TypeOK, Place, Claim, Inside, Queueable, Waiting, Queue,
       RUnlockCas, Unlocked, Return
  <1> QED  BY Zenon, <1>1, <1>2, <1>4, <1>5, <1>6, OwnerStep DEF RUnlockCas

\* RUnlockSlow preserves the inductive invariant.
LEMMA RUnlockSlowPreserves ==
  ASSUME Counted, IInv, NEW t \in Threads, RUnlockSlow(t)
  PROVE  IInv'
  <1>0. TypeOK /\ Place(t) /\ Claim(t)
    BY Zenon DEF IInv, Places
  <1>1. t \in Readers /\ \A u \in Threads : pc[u] # "wake_readers"
    <2>1. t \in Readers
      BY Zenon, <1>0 DEF Claim, Readers, Has, RUnlockSlow
    <2> QED  BY Zenon, <2>1, HeldNow DEF Inside, RUnlockSlow
  <1>2. Alone(t)
    BY Zenon, <1>0 DEF TypeOK, Alone, Others, Inside, RUnlockSlow, Unlocked, Return
  <1>3. ~Has(t, "read")' /\ (Has(t, "write")' <=> Has(t, "write"))
    BY Zenon, <1>0 DEF TypeOK, Place, Claim, Queueable, Has, Waiting, Queue,
       RUnlockSlow, Unlocked, Return
  <1>4. Word' /\ alive
    BY Zenon, <1>1, <1>2, <1>3, ReaderGoneWord DEF RUnlockSlow
  <1>5. TypeOK'
    BY <1>0, <1>4 DEF TypeOK, Word, RUnlockSlow, Unlocked, Return
  <1>6. Place(t)' /\ Claim(t)'
    BY Zenon, <1>0 DEF TypeOK, Place, Claim, Inside, Queueable, Waiting, Queue,
       RUnlockSlow, Unlocked, Return
  <1> QED  BY Zenon, <1>1, <1>2, <1>4, <1>5, <1>6, OwnerStep DEF RUnlockSlow

\* WUnlockFast preserves the inductive invariant.
LEMMA WUnlockFastPreserves ==
  ASSUME Counted, IInv, NEW t \in Threads, WUnlockFast(t)
  PROVE  IInv'
  <1>0. TypeOK /\ Place(t) /\ Claim(t)
    BY Zenon DEF IInv, Places
  <1>1. /\ Readers = {} /\ Writers = {t} /\ rq = <<>> /\ wq = <<>> /\ alive
        /\ \A u \in Threads : pc[u] # "wake_readers"
    <2>1. owner > 0 /\ owner \div 2 = Id[t] /\ owner % 2 = 0 /\ owner \in Int
      BY RwLockAssumption DEF WUnlockFast
    <2>2. /\ Agrees(owner, Readers, Writers) /\ Marked(owner, rq, wq)
          /\ \A u \in Threads : pc[u] # "wake_readers"
      BY <2>1, NoLoop
    <2>3. Readers = {} /\ Writers = {t}
      BY Zenon, <2>1, <2>2, HolderTypes, AgreesWriter
    <2>4. ~WaitBit(owner)
      BY <2>1 DEF WaitBit
    <2> QED  BY Zenon, <2>2, <2>3, <2>4 DEF Marked, WUnlockFast
  <1>2. Alone(t)
    BY Zenon, <1>0 DEF TypeOK, Alone, Others, Inside, WUnlockFast, Unlocked
  <1>3. ~Has(t, "write")' /\ (Has(t, "read")' <=> Has(t, "read"))
    BY Zenon, <1>0 DEF TypeOK, Place, Claim, Queueable, Has, Waiting, Queue,
       WUnlockFast, Unlocked
  <1>4. Word'
    BY Zenon, <1>1, <1>2, <1>3, WriterGoneWord DEF WUnlockFast
  <1>5. TypeOK'
    BY Zenon, <1>0, <1>4 DEF TypeOK, Word, WUnlockFast, Unlocked
  <1>6. Place(t)' /\ Claim(t)'
    BY Zenon, <1>0 DEF TypeOK, Place, Claim, Inside, Queueable, Waiting, Queue,
       WUnlockFast, Unlocked
  <1> QED  BY Zenon, <1>1, <1>2, <1>4, <1>5, <1>6, OwnerStep DEF WUnlockFast

\* WUnlockLast preserves the inductive invariant.
LEMMA WUnlockLastPreserves ==
  ASSUME Counted, IInv, NEW t \in Threads, WUnlockLast(t)
  PROVE  IInv'
  <1>0. TypeOK /\ Place(t) /\ Claim(t)
    BY Zenon DEF IInv, Places
  <1>1. /\ Readers = {} /\ Writers = {t} /\ rq = <<>> /\ wq = <<>> /\ alive
        /\ \A u \in Threads : pc[u] # "wake_readers"
    <2>1. /\ Agrees(owner, Readers, Writers) /\ owner \in Int
          /\ \A u \in Threads : pc[u] # "wake_readers"
      BY Zenon, <1>0, HeldNow DEF TypeOK, Inside, WUnlockLast
    <2>2. t \in Writers
      BY Zenon, <1>0 DEF Claim, Writers, Has, WUnlockLast
    <2>3. Readers = {} /\ Writers = {t} /\ owner > 0
      BY Zenon, <2>1, <2>2, HolderTypes, AgreesWriter
    <2> QED  BY <2>1, <2>3 DEF IInv, Dead, WUnlockLast
  <1>2. Alone(t)
    BY Zenon, <1>0 DEF TypeOK, Alone, Others, Inside, WUnlockLast, Unlocked, Return
  <1>3. ~Has(t, "write")' /\ (Has(t, "read")' <=> Has(t, "read"))
    BY Zenon, <1>0 DEF TypeOK, Place, Claim, Queueable, Has, Waiting, Queue,
       WUnlockLast, Unlocked, Return
  <1>4. Word'
    BY Zenon, <1>1, <1>2, <1>3, WriterGoneWord DEF WUnlockLast
  <1>5. TypeOK'
    BY Zenon, <1>0, <1>4 DEF TypeOK, Word, WUnlockLast, Unlocked, Return
  <1>6. Place(t)' /\ Claim(t)'
    BY Zenon, <1>0 DEF TypeOK, Place, Claim, Inside, Queueable, Waiting, Queue,
       WUnlockLast, Unlocked, Return
  <1> QED  BY Zenon, <1>1, <1>2, <1>4, <1>5, <1>6, OwnerStep DEF WUnlockLast

\* RLockSleep preserves the inductive invariant.
LEMMA RLockSleepPreserves ==
  ASSUME Counted, IInv, NEW t \in Threads, RLockSleep(t)
  PROVE  IInv'
  <1>0. TypeOK /\ Place(t) /\ Claim(t)
    BY Zenon DEF IInv, Places
  <1>1. /\ \A u \in Threads : woken[u] = {} /\ ~Inside(u)
        /\ Agrees(owner, Readers, Writers) /\ Marked(owner, rq, wq)
        /\ owner # 0 /\ owner \in Int /\ alive
    <2>1. owner # 0
      BY DEF Readable, WaitBit, RLockSleep
    <2> QED  BY Zenon, <1>0, <2>1, HeldNow DEF IInv, TypeOK, Dead, RLockSleep
  <1>q. /\ t \notin Range(rq) /\ rq' \in Seq(Threads) /\ NoDuplicates(rq') /\ rq' # <<>>
        /\ Range(rq') = Range(rq) \cup {t}
    <2>1. /\ t \notin Range(rq) /\ rq \in Seq(Threads) /\ NoDuplicates(rq)
          /\ rq' = emplace(rq, t)
      BY Zenon, <1>0 DEF IInv, TypeOK, Places, Place, Queueable, RLockSleep
    <2>2. /\ emplace(rq, t) \in Seq(Threads) /\ NoDuplicates(emplace(rq, t))
          /\ Range(emplace(rq, t)) = Range(rq) \cup {t}
      BY Zenon, <2>1, EmplaceSet
    <2>3. /\ rq' \in Seq(Threads) /\ NoDuplicates(rq')
          /\ Range(rq') = Range(rq) \cup {t}
      BY Zenon, <2>1, <2>2
    <2> QED  BY Zenon, <2>1, <2>3, EmptyQueue
  <1>2. Requeue(t)
    BY Zenon, <1>0, <1>q DEF IInv, TypeOK, Places, Requeue, Others, Inside,
       RLockSleep, sleep, Goto
  <1>3. \A k \in {"read", "write"} : Has(t, k)' <=> Has(t, k)
    BY Zenon, <1>0, <1>q DEF TypeOK, Has, Waiting, Queue, RLockSleep, sleep, Goto
  <1>4. Word'
    <2>1. /\ Agrees(SetWaitBit(owner), Readers, Writers) /\ WaitBit(SetWaitBit(owner))
          /\ SetWaitBit(owner) < 0 <=> owner < 0
          /\ SetWaitBit(owner) \in Int
      BY Zenon, <1>1, HolderTypes, AgreesBit
    <2>2. Readers' = Readers /\ Writers' = Writers
      BY Zenon, <1>2, <1>3, RequeueHolders
    <2>3. Marked(owner', rq', wq')
      BY <1>1, <1>q, <2>1 DEF Marked, Readable, RLockSleep
    <2> QED  BY Zenon, <2>1, <2>2, <2>3, OwnerRange DEF Word, RLockSleep
  <1>5. TypeOK'
    BY <1>0, <1>4, <1>q DEF TypeOK, Word, SchedStates, RLockSleep,
       sleep, Goto
  <1>6. Place(t)' /\ Claim(t)'
    BY Zenon, <1>0, <1>1, <1>q DEF TypeOK, Place, Claim, Inside, Queueable, Waiting,
       Queue, RLockSleep, sleep, Goto
  <1> QED  BY Zenon, <1>1, <1>2, <1>4, <1>5, <1>6, RequeueStep

\* WLockSleep preserves the inductive invariant.
LEMMA WLockSleepPreserves ==
  ASSUME Counted, IInv, NEW t \in Threads, WLockSleep(t)
  PROVE  IInv'
  <1>0. TypeOK /\ Place(t) /\ Claim(t)
    BY Zenon DEF IInv, Places
  <1>1. /\ \A u \in Threads : woken[u] = {} /\ ~Inside(u)
        /\ Agrees(owner, Readers, Writers) /\ Marked(owner, rq, wq)
        /\ owner # 0 /\ owner \in Int /\ alive
    <2>1. owner # 0
      BY Zenon DEF WLockSleep
    <2> QED  BY Zenon, <1>0, <2>1, HeldNow DEF IInv, TypeOK, Dead, WLockSleep
  <1>q. /\ t \notin Range(wq) /\ wq' \in Seq(Threads) /\ NoDuplicates(wq') /\ wq' # <<>>
        /\ Range(wq') = Range(wq) \cup {t}
    <2>1. /\ t \notin Range(wq) /\ wq \in Seq(Threads) /\ NoDuplicates(wq)
          /\ wq' = emplace(wq, t)
      BY Zenon, <1>0 DEF IInv, TypeOK, Places, Place, Queueable, WLockSleep
    <2>2. /\ wq' \in Seq(Threads) /\ NoDuplicates(wq')
          /\ Range(wq') = Range(wq) \cup {t}
      BY Zenon, <2>1, EmplaceSet
    <2> QED  BY Zenon, <2>1, <2>2, EmptyQueue
  <1>2. Requeue(t)
    BY Zenon, <1>0, <1>q DEF IInv, TypeOK, Places, Requeue, Others, Inside,
       WLockSleep, sleep, Goto
  <1>3. \A k \in {"read", "write"} : Has(t, k)' <=> Has(t, k)
    BY Zenon, <1>0, <1>q DEF TypeOK, Has, Waiting, Queue, WLockSleep, sleep, Goto
  <1>4. Word'
    <2>1. /\ Agrees(SetWaitBit(owner), Readers, Writers) /\ WaitBit(SetWaitBit(owner))
          /\ SetWaitBit(owner) < 0 <=> owner < 0
          /\ SetWaitBit(owner) \in Int
      BY Zenon, <1>1, HolderTypes, AgreesBit
    <2>2. Readers' = Readers /\ Writers' = Writers
      BY Zenon, <1>2, <1>3, RequeueHolders
    <2>3. Marked(owner', rq', wq')
      BY Zenon, <1>1, <1>q, <2>1 DEF Marked, WLockSleep
    <2> QED  BY Zenon, <2>1, <2>2, <2>3, OwnerRange DEF Word, WLockSleep
  <1>5. TypeOK'
    BY Zenon, <1>0, <1>4, <1>q DEF TypeOK, Word, SchedStates, WLockSleep,
       sleep, Goto
  <1>6. Place(t)' /\ Claim(t)'
    BY Zenon, <1>0, <1>1, <1>q DEF TypeOK, Place, Claim, Inside, Queueable, Waiting,
       Queue, WLockSleep, sleep, Goto
  <1> QED  BY Zenon, <1>1, <1>2, <1>4, <1>5, <1>6, RequeueStep

\* RLockUnqueue preserves the inductive invariant.
LEMMA RLockUnqueuePreserves ==
  ASSUME Counted, IInv, NEW t \in Threads, RLockUnqueue(t)
  PROVE  IInv'
  <1>0. TypeOK /\ Place(t) /\ Claim(t)
    BY Zenon DEF IInv, Places
  <1>q. /\ t \in Range(rq) /\ rq' \in Seq(Threads) /\ NoDuplicates(rq')
        /\ Range(rq') = Range(rq) \ {t} /\ rq # <<>>
    <2>1. t \in Range(rq) /\ rq \in Seq(Threads) /\ NoDuplicates(rq)
      BY Zenon, <1>0 DEF IInv, TypeOK, Places, RLockUnqueue
    <2>2. /\ rq' \in Seq(Threads) /\ NoDuplicates(rq')
          /\ Range(rq') = Range(rq) \ {t}
      BY Zenon, <2>1, UnqueueSet DEF RLockUnqueue
    <2> QED  BY Zenon, <2>1, <2>2, EmptyQueue
  <1>1. /\ \A u \in Threads : woken[u] = {} /\ ~Inside(u)
        /\ Agrees(owner, Readers, Writers) /\ Marked(owner, rq, wq)
        /\ owner \in Int /\ alive /\ WaitBit(owner)
    BY Zenon, <1>0, <1>q, HeldNow, QueuedAlive DEF TypeOK, RLockUnqueue
  <1>2. Requeue(t)
    BY Zenon, <1>0, <1>q DEF IInv, TypeOK, Places, Requeue, Others, Inside,
       RLockUnqueue, Return
  <1>3. \A k \in {"read", "write"} : Has(t, k)' <=> Has(t, k)
    BY Zenon, <1>0, <1>q DEF TypeOK, Has, Waiting, Queue, RLockUnqueue, Return
  <1>4. Word'
    <2>1. Readers' = Readers /\ Writers' = Writers
      BY Zenon, <1>2, <1>3, RequeueHolders
    <2>2. Marked(owner', rq', wq')
      BY Zenon, <1>1, <1>q DEF Marked, RLockUnqueue
    <2> QED  BY Zenon, <1>1, <2>1, <2>2, OwnerRange DEF Word, RLockUnqueue
  <1>5. TypeOK'
    BY <1>0, <1>4, <1>q DEF TypeOK, Word, RLockUnqueue, Return
  <1>6. Place(t)' /\ Claim(t)'
    BY Zenon, <1>0, <1>1, <1>q DEF TypeOK, Place, Claim, Inside, Queueable, Waiting,
       Queue, RLockUnqueue, Return
  <1> QED  BY Zenon, <1>1, <1>2, <1>4, <1>5, <1>6, RequeueStep

\* WLockUnqueue preserves the inductive invariant.
LEMMA WLockUnqueuePreserves ==
  ASSUME Counted, IInv, NEW t \in Threads, WLockUnqueue(t)
  PROVE  IInv'
  <1>0. TypeOK /\ Place(t) /\ Claim(t)
    BY Zenon DEF IInv, Places
  <1>q. /\ t \in Range(wq) /\ wq' \in Seq(Threads) /\ NoDuplicates(wq')
        /\ Range(wq') = Range(wq) \ {t} /\ wq # <<>>
    <2>1. t \in Range(wq) /\ wq \in Seq(Threads) /\ NoDuplicates(wq)
      BY Zenon, <1>0 DEF IInv, TypeOK, Places, WLockUnqueue
    <2>2. /\ wq' \in Seq(Threads) /\ NoDuplicates(wq')
          /\ Range(wq') = Range(wq) \ {t}
      BY Zenon, <2>1, UnqueueSet DEF WLockUnqueue
    <2> QED  BY Zenon, <2>1, <2>2, EmptyQueue
  <1>1. /\ \A u \in Threads : woken[u] = {} /\ ~Inside(u)
        /\ Agrees(owner, Readers, Writers) /\ Marked(owner, rq, wq)
        /\ owner \in Int /\ alive /\ WaitBit(owner)
    BY Zenon, <1>0, <1>q, HeldNow, QueuedAlive DEF TypeOK, WLockUnqueue
  <1>2. Requeue(t)
    BY Zenon, <1>0, <1>q DEF IInv, TypeOK, Places, Requeue, Others, Inside,
       WLockUnqueue, Return
  <1>3. \A k \in {"read", "write"} : Has(t, k)' <=> Has(t, k)
    BY Zenon, <1>0, <1>q DEF TypeOK, Has, Waiting, Queue, WLockUnqueue, Return
  <1>4. Word'
    <2>1. Readers' = Readers /\ Writers' = Writers
      BY Zenon, <1>2, <1>3, RequeueHolders
    <2>2. Marked(owner', rq', wq')
      BY <1>1, <1>q DEF Marked, WLockUnqueue
    <2> QED  BY Zenon, <1>1, <2>1, <2>2, OwnerRange DEF Word, WLockUnqueue
  <1>5. TypeOK'
    BY <1>0, <1>4, <1>q DEF TypeOK, Word, WLockUnqueue, Return
  <1>6. Place(t)' /\ Claim(t)'
    BY Zenon, <1>0, <1>1, <1>q DEF TypeOK, Place, Claim, Inside, Queueable, Waiting,
       Queue, WLockUnqueue, Return
  <1> QED  BY Zenon, <1>1, <1>2, <1>4, <1>5, <1>6, RequeueStep

\* WLockUnqueueLast preserves the inductive invariant.
LEMMA WLockUnqueueLastPreserves ==
  ASSUME Counted, IInv, NEW t \in Threads, WLockUnqueueLast(t)
  PROVE  IInv'
  <1>0. TypeOK /\ Place(t) /\ Claim(t)
    BY Zenon DEF IInv, Places
  <1>q. /\ t \in Range(wq) /\ wq' \in Seq(Threads) /\ NoDuplicates(wq')
        /\ Range(wq') = Range(wq) \ {t} /\ wq # <<>> /\ wq' = <<>>
    <2>1. wq = <<t>> /\ wq' = <<>>
      BY Zenon DEF WLockUnqueueLast
    <2>2. Range(wq) = {t} /\ Range(wq') = {}
      BY <2>1 DEF Range
    <2> QED  BY <2>1, <2>2 DEF NoDuplicates
  <1>1. /\ \A u \in Threads : woken[u] = {} /\ ~Inside(u)
        /\ Agrees(owner, Readers, Writers) /\ Marked(owner, rq, wq)
        /\ owner \in Int /\ alive /\ WaitBit(owner)
    BY Zenon, <1>0, <1>q, HeldNow, QueuedAlive DEF TypeOK, WLockUnqueueLast
  <1>2. Requeue(t)
    BY Zenon, <1>0, <1>q DEF IInv, TypeOK, Places, Requeue, Others, Inside,
       WLockUnqueueLast, Return
  <1>3. \A k \in {"read", "write"} : Has(t, k)' <=> Has(t, k)
    BY Zenon, <1>0, <1>q DEF TypeOK, Has, Waiting, Queue, WLockUnqueueLast, Return
  <1>4. Word'
    <2>1. /\ Agrees(ClearWaitBit(owner), Readers, Writers)
          /\ ~WaitBit(ClearWaitBit(owner)) /\ ClearWaitBit(owner) \in Int
      BY Zenon, <1>1, HolderTypes, AgreesBit
    <2>2. Readers' = Readers /\ Writers' = Writers
      BY Zenon, <1>2, <1>3, RequeueHolders
    <2> QED  BY Zenon, <1>q, <2>1, <2>2, OwnerRange DEF Word, Marked, WLockUnqueueLast
  <1>5. TypeOK'
    BY <1>0, <1>4, <1>q DEF TypeOK, Word, WLockUnqueueLast, Return
  <1>6. Place(t)' /\ Claim(t)'
    BY Zenon, <1>0, <1>1, <1>q DEF TypeOK, Place, Claim, Inside, Queueable, Waiting,
       Queue, WLockUnqueueLast, Return
  <1> QED  BY Zenon, <1>1, <1>2, <1>4, <1>5, <1>6, RequeueStep

\* WLockUnqueueWake preserves the inductive invariant.
LEMMA WLockUnqueueWakePreserves ==
  ASSUME Counted, IInv, NEW t \in Threads, WLockUnqueueWake(t)
  PROVE  IInv'
  <1> SUFFICES ASSUME TypeOK, Places, Held, Dead
               PROVE  IInv'
    BY Zenon DEF IInv
  <1>0. /\ \A u \in Threads : woken[u] = {} /\ ~Inside(u)
        /\ Agrees(owner, Readers, Writers) /\ Marked(owner, rq, wq)
        /\ owner \in Int
    BY Zenon, HeldNow DEF TypeOK, WLockUnqueueWake
  <1>q. /\ t \in Range(wq) /\ wq' \in Seq(Threads) /\ NoDuplicates(wq')
        /\ Range(wq') = Range(wq) \ {t} /\ wq # <<>> /\ wq' = <<>>
    <2>1. wq = <<t>> /\ wq' = <<>>
      BY Zenon DEF WLockUnqueueWake
    <2>2. Range(wq) = {t} /\ Range(wq') = {}
      BY <2>1 DEF Range
    <2> QED  BY <2>1, <2>2 DEF NoDuplicates
  <1>x. alive /\ WaitBit(owner)
    BY Zenon, <1>q, QueuedAlive DEF WLockUnqueueWake
  <1>1. Others(t)
    BY Zenon DEF TypeOK, Others, WLockUnqueueWake, Goto
  <1>2. \A k \in {"read", "write"} : Has(t, k)' <=> Has(t, k)
    BY Zenon, <1>q DEF TypeOK, Has, Waiting, Queue, WLockUnqueueWake, Goto
  <1>4. Readers' = Readers /\ Writers' = Writers
    BY Zenon, <1>1, <1>2, <1>q, SameHolders DEF WLockUnqueueWake
  <1>6. /\ Agrees(owner', Readers', Writers') /\ owner' \in Int
    BY Zenon, <1>0, <1>4, <1>q, <1>x DEF Marked, WLockUnqueueWake
  <1>7. TypeOK'
    BY Zenon, <1>q, <1>6, OwnerRange, RwLockAssumption DEF TypeOK,
       SchedStates, WLockUnqueueWake, Goto
  <1>8. Place(t)' /\ Claim(t)'
    BY <1>0, <1>q, RwLockAssumption DEF TypeOK, Places, Place,
       Claim, Inside, Queueable, Waiting, Queue, WLockUnqueueWake, Goto
  <1>9. Places'
    <2>1. \A u \in Threads \ {t} : Untouched(u)
      BY Zenon, <1>0, <1>q DEF TypeOK, Untouched, WLockUnqueueWake, Goto
    <2>2. NoDuplicates(rq') /\ NoDuplicates(wq') /\ mutex' \in {None, t}
      BY Zenon, <1>q DEF Places, WLockUnqueueWake
    <2>3. {t} \in SUBSET Threads /\ t \in {t} /\ \A u \in {t} : Place(u)'
      BY Zenon, <1>8
    <2> QED  BY Zenon, <1>0, <1>1, <1>8, <2>1, <2>2, <2>3, FrameQueue
  <1>b. Writers = {}
    BY Zenon, <1>0, HolderTypes, AgreesKinds DEF WLockUnqueueWake
  <1>a. arg'[t] = 0 /\ owner' - 2 * 0 = owner'
    BY <1>6 DEF TypeOK, Places, Claim, Waiting, WLockUnqueueWake, Goto
  <1>10. Held'
    BY <1>0, <1>1, <1>4, <1>6, <1>a, <1>b, <1>x DEF Held, Inside,
       Others, TypeOK, WLockUnqueueWake, Goto
  <1>11. Dead'
    BY Zenon, <1>x DEF Dead, WLockUnqueueWake, Goto
  <1> QED  BY Zenon, <1>7, <1>9, <1>10, <1>11 DEF IInv

\* The holders change hands: the lock leaves t and is given to the writer at the
\* position that lv2_obj::schedule picks.
LEMMA HandOverPreserves ==
  ASSUME Counted, IInv, NEW t \in Threads, NEW k \in {"read", "write"}, HandOver(t),
         Unlocked(t, k), mutex = None, pc[t] \in {"runlock_slow", "wunlock_slow"},
         Readers = IF k = "read" THEN {t} ELSE {},
         Writers = IF k = "read" THEN {} ELSE {t},
         UNCHANGED <<alive, rq, sched, kind, arg, timed, stopped>>
  PROVE  IInv'
  <1> SUFFICES ASSUME TypeOK, Places, Held, Dead
               PROVE  IInv'
    BY Zenon DEF IInv
  <1>0. /\ \A u \in Threads : woken[u] = {} /\ ~Inside(u)
        /\ Agrees(owner, Readers, Writers) /\ Marked(owner, rq, wq)
        /\ owner \in Int
    BY Zenon, HeldNow DEF TypeOK
  <1>a. PICK i \in DOMAIN wq :
          /\ Picks(i)
          /\ wq' = RemoveAt(wq, i)
          /\ owner' = WriterOwns(wq[i], RemoveAt(wq, i), rq)
          /\ woken' = [woken EXCEPT ![t] = {wq[i]}]
    BY Zenon DEF HandOver
  <1>b. mutex' = t /\ pc' = [pc EXCEPT ![t] = "awake"] /\ hold' = [hold EXCEPT ![t] = @ \ {k}]
    BY Zenon DEF HandOver, Goto, Unlocked
  <1>d. PICK n \in Threads : n = wq[i]
    BY DEF TypeOK
  <1>q. /\ n \in Range(wq) /\ n \in Threads /\ wq # <<>>
        /\ wq' \in Seq(Threads) /\ NoDuplicates(wq') /\ Range(wq') = Range(wq) \ {n}
    <2>1. wq \in Seq(Threads) /\ NoDuplicates(wq)
      BY Zenon DEF TypeOK, Places
    <2>2. n \in Range(wq)
      BY Zenon, <1>d, <2>1 DEF Range
    <2>3. /\ RemoveAt(wq, i) \in Seq(Threads) /\ NoDuplicates(RemoveAt(wq, i))
          /\ Range(RemoveAt(wq, i)) = Range(wq) \ {n}
      BY Zenon, <1>d, <2>1, RemoveAtElements, RemoveAtSet
    <2> QED  BY Zenon, <1>a, <2>1, <2>2, <2>3, EmptyQueue
  <1>c. owner' = WriterOwns(n, wq', rq) /\ woken' = [woken EXCEPT ![t] = {n}] /\ pc[n] # "again"
    BY Zenon, <1>a, <1>d DEF Picks
  <1>n. Waiting(n) /\ kind[n] = "write" /\ sched[n] # "signal" /\ n \notin Range(rq) /\ n # t
    BY Zenon, <1>c, <1>q DEF Places, Place, Queueable, Waiting
  <1>w. \A u \in Threads : woken'[u] = IF u = t THEN {n} ELSE {}
    BY Zenon, <1>0, <1>c DEF TypeOK
  <1>t. t \notin Range(rq) /\ t \notin Range(wq) /\ sched[t] = "run"
    BY Zenon DEF Places, Place, Queueable, Waiting
  <1>x. alive
    BY Zenon, <1>q, QueuedAlive
  <1>p. pc'[t] = "awake" /\ pc'[n] = pc[n] /\ hold'[n] = hold[n] /\ hold'[t] = hold[t] \ {k}
    BY Zenon, <1>b, <1>n, <1>q DEF TypeOK
  <1>1. Others(t)
    BY Zenon, <1>b DEF TypeOK, Others
  <1>2. \A u \in Threads \ {t, n} : \A l \in {"read", "write"} : Has(u, l)' <=> Has(u, l)
    BY Zenon, <1>1, <1>q DEF Others, Has, Waiting, Queue
  <1>3. \A l \in {"read", "write"} : Has(t, l)' <=> l \in hold[t] \ {k}
    BY Zenon, <1>p DEF Has, Waiting
  <1>4. Has(n, "write")' /\ (Has(n, "read")' <=> "read" \in hold[n])
    BY Zenon, <1>p, <1>n, <1>q DEF Has, Waiting, Queue
  <1>5. Readers' = {} /\ Writers' = {n}
    <2>1. \A u \in Threads : /\ "read" \in hold[u] => u \in Readers
                             /\ "write" \in hold[u] => u \in Writers
      BY Zenon DEF Readers, Writers, Has
    <2>2. \A u \in Threads \ {t} : ~Has(u, "read") /\ ~Has(u, "write")
      BY Zenon DEF Readers, Writers
    <2>3. \A u \in Threads \ {t, n} : ~Has(u, "read")' /\ ~Has(u, "write")'
      BY Zenon, <1>2, <2>2
    <2>4. ~Has(t, "read")' /\ ~Has(t, "write")'
      BY Zenon, <1>3, <2>1
    <2>5. ~Has(n, "read")'
      BY Zenon, <1>4, <1>n, <1>q, <2>1
    <2> QED  BY Zenon, <1>4, <1>q, <2>3, <2>4, <2>5 DEF Readers, Writers
  <1>6. /\ Agrees(owner', Readers', Writers') /\ owner' \in Int
        /\ Marked(owner', rq', wq')
    <2>1. PICK b \in {0, 1} : owner' = 2 * Id[n] + b /\ (b = 1 <=> wq' # <<>> \/ rq # <<>>)
      BY <1>c DEF WriterOwns
    <2>2. /\ Agrees(2 * Id[n] + b, {}, {n}) /\ 2 * Id[n] + b > 0
          /\ 2 * Id[n] + b \in Int
          /\ WaitBit(2 * Id[n] + b) <=> b = 1
      BY Zenon, <1>q, AgreesNew
    <2>3. /\ Agrees(owner', {}, {n}) /\ owner' > 0 /\ owner' \in Int
          /\ WaitBit(owner') <=> wq' # <<>> \/ rq # <<>>
      BY Zenon, <2>1, <2>2
    <2> QED  BY <1>5, <2>3 DEF Marked
  <1>7. TypeOK'
    BY Zenon, <1>b, <1>c, <1>q, <1>6, OwnerRange DEF TypeOK
  <1>8. Place(t)' /\ Claim(t)'
    BY Zenon, <1>b, <1>n, <1>p, <1>q, <1>t, <1>w, RwLockAssumption
       DEF Place, Claim, Inside, Waiting
  <1>9. Place(n)'
    BY Zenon, <1>b, <1>n, <1>p, <1>q, <1>w, RwLockAssumption
       DEF Places, Place, Inside, Waiting
  <1>10. Places'
    <2>1. \A u \in Threads \ {t, n} : Untouched(u)
      BY Zenon, <1>q, <1>w DEF Untouched
    <2>2. NoDuplicates(rq') /\ NoDuplicates(wq') /\ mutex' \in {None, t}
      BY Zenon, <1>b, <1>q DEF Places
    <2>3. {t, n} \in SUBSET Threads /\ t \in {t, n} /\ \A u \in {t, n} : Place(u)'
      BY Zenon, <1>8, <1>9, <1>q
    <2> QED  BY Zenon, <1>0, <1>1, <1>8, <2>1, <2>2, <2>3, FrameQueue
  <1>11. Held'
    BY Zenon, <1>0, <1>1, <1>6, <1>p DEF Held, Inside, Others
  <1>12. Dead'
    BY Zenon, <1>x DEF Dead
  <1> QED  BY Zenon, <1>7, <1>10, <1>11, <1>12 DEF IInv

\* RUnlockHandOver preserves the inductive invariant.
LEMMA RUnlockHandOverPreserves ==
  ASSUME Counted, IInv, NEW t \in Threads, RUnlockHandOver(t)
  PROVE  IInv'
  <1>1. Agrees(owner, Readers, Writers) /\ owner \in Int
    BY Zenon, HeldNow DEF IInv, TypeOK, RUnlockHandOver
  <1>2. t \in Readers /\ owner = -1
    BY Zenon DEF IInv, Places, Claim, Readers, Has, RUnlockHandOver
  <1>3. Readers = {t} /\ Writers = {}
    BY Zenon, <1>1, <1>2, HolderTypes, AgreesLeave
  <1> QED  BY Zenon, <1>3, HandOverPreserves DEF RUnlockHandOver

\* WUnlockHandOver preserves the inductive invariant.
LEMMA WUnlockHandOverPreserves ==
  ASSUME Counted, IInv, NEW t \in Threads, WUnlockHandOver(t)
  PROVE  IInv'
  <1>1. Agrees(owner, Readers, Writers) /\ owner \in Int
    BY Zenon, HeldNow DEF IInv, TypeOK, WUnlockHandOver
  <1>2. t \in Writers
    BY Zenon DEF IInv, Places, Claim, Writers, Has, WUnlockHandOver
  <1>3. Readers = {} /\ Writers = {t}
    BY Zenon, <1>1, <1>2, HolderTypes, AgreesWriter
  <1> QED  BY Zenon, <1>3, HandOverPreserves DEF WUnlockHandOver

\* WUnlockReaders preserves the inductive invariant.
LEMMA WUnlockReadersPreserves ==
  ASSUME Counted, IInv, NEW t \in Threads, WUnlockReaders(t)
  PROVE  IInv'
  <1> SUFFICES ASSUME TypeOK, Places, Held, Dead
               PROVE  IInv'
    BY Zenon DEF IInv
  <1> DEFINE Q == Range(rq)
  <1>0. /\ \A u \in Threads : woken[u] = {} /\ ~Inside(u)
        /\ Agrees(owner, Readers, Writers) /\ owner \in Int
        /\ pc[t] = "wunlock_slow" /\ mutex = None /\ wq = <<>> /\ rq # <<>>
    BY Zenon, HeldNow DEF TypeOK, WUnlockReaders
  <1>a. /\ mutex' = t /\ pc' = [pc EXCEPT ![t] = "awake"] /\ rq' = <<>>
        /\ hold' = [hold EXCEPT ![t] = @ \ {"write"}]
        /\ owner' = -2 * Len(rq) /\ woken' = [woken EXCEPT ![t] = Q]
        /\ UNCHANGED <<alive, wq, sched, kind, arg, timed, stopped>>
        /\ \A u \in Q : pc[u] # "again"
    BY Zenon DEF WUnlockReaders, Goto, Unlocked
  <1>q. /\ Q \in SUBSET Threads /\ Cardinality(Q) = Len(rq) /\ Range(wq) = {}
        /\ Range(rq') = {} /\ rq' \in Seq(Threads) /\ NoDuplicates(rq')
    <2>1. Q \in SUBSET Threads
      BY DEF TypeOK, Range
    <2>2. Cardinality(Q) = Len(rq)
      BY Zenon DEF Counted, TypeOK, Places
    <2>3. Range(wq) = {} /\ Range(rq') = {} /\ rq' \in Seq(Threads) /\ NoDuplicates(rq')
      BY <1>0, <1>a DEF Range, NoDuplicates
    <2> QED  BY Zenon, <2>1, <2>2, <2>3
  <1> HIDE DEF Q
  <1>x. alive
    BY Zenon, <1>0, QueuedAlive
  <1>1. Others(t)
    BY Zenon, <1>a DEF TypeOK, Others
  <1>2. Readers = {} /\ Writers = {t}
    <2>1. t \in Writers
      BY Zenon, <1>0 DEF Places, Claim, Writers, Has
    <2> QED  BY Zenon, <1>0, <2>1, HolderTypes, AgreesWriter
  <1>r. \A u \in Q : Waiting(u) /\ kind[u] = "read" /\ sched[u] # "signal" /\ u # t
    BY Zenon, <1>0, <1>a, <1>q DEF Q, Places, Place, Queueable, Waiting
  <1>w. \A u \in Threads : woken'[u] = IF u = t THEN Q ELSE {}
    BY Zenon, <1>0, <1>a DEF TypeOK
  <1>p. pc'[t] = "awake" /\ hold'[t] = hold[t] \ {"write"}
    BY Zenon, <1>a DEF TypeOK
  <1>t. t \notin Q /\ sched[t] = "run"
    BY Zenon, <1>0, <1>r DEF Places, Place, Waiting
  <1>3. \A u \in Threads \ {t} : (Has(u, "read")' <=> u \in Q) /\ ~Has(u, "write")'
    <2> SUFFICES ASSUME NEW u \in Threads \ {t}
                 PROVE  (Has(u, "read")' <=> u \in Q) /\ ~Has(u, "write")'
      BY Zenon
    <2>1. ~Has(u, "read") /\ ~Has(u, "write")
      BY Zenon, <1>2 DEF Readers, Writers
    <2>2. pc'[u] = pc[u] /\ kind'[u] = kind[u] /\ hold'[u] = hold[u]
      BY Zenon, <1>1 DEF Others
    <2>3. kind[u] \in {"read", "write"}
      BY Zenon DEF TypeOK
    <2>4. CASE u \in Q
      BY Zenon, <1>a, <1>q, <1>r, <2>1, <2>2, <2>4 DEF Has, Waiting, Queue, Q
    <2>5. CASE u \notin Q
      BY Zenon, <1>a, <1>q, <2>1, <2>2, <2>3, <2>5 DEF Has, Waiting, Queue, Q
    <2> QED  BY Zenon, <2>4, <2>5
  <1>4. ~Has(t, "read")' /\ ~Has(t, "write")'
    <2>1. "read" \notin hold[t]
      BY Zenon, <1>2 DEF Readers, Has
    <2> QED  BY Zenon, <1>p, <2>1 DEF Has, Waiting
  <1>5. Readers' = Q /\ Writers' = {}
    BY Zenon, <1>3, <1>4, <1>q, <1>t DEF Readers, Writers
  <1>6. /\ Agrees(owner', Readers', Writers') /\ owner' \in Int
        /\ Marked(owner', rq', wq')
    <2>1. owner' = -2 * Cardinality(Q) /\ Cardinality(Q) \in Nat
      BY Zenon, <1>a, <1>q, Sizes
    <2>2. Agrees(owner', Q, {})
      BY Zenon, <1>q, <2>1, AgreesNew
    <2>3. ~WaitBit(owner')
      BY <2>1 DEF WaitBit
    <2> QED  BY <1>0, <1>5, <1>a, <2>1, <2>2, <2>3 DEF Marked
  <1>7. TypeOK'
    BY Zenon, <1>a, <1>q, <1>6, OwnerRange DEF TypeOK
  <1>8. Place(t)' /\ Claim(t)'
    BY Zenon, <1>0, <1>a, <1>p, <1>q, <1>t, <1>w, RwLockAssumption
       DEF Place, Claim, Inside, Waiting
  <1>9. ASSUME NEW u \in Q  PROVE Place(u)'
    <2>1. Waiting(u) /\ kind[u] = "read" /\ sched[u] # "signal" /\ u # t /\ u \in Threads
      BY Zenon, <1>q, <1>r
    <2>2. pc'[u] = pc[u] /\ ~Inside(u)
      BY Zenon, <1>0, <1>1, <2>1 DEF Others
    <2> QED  BY <1>a, <1>p, <1>q, <1>w, <2>1, <2>2, RwLockAssumption
             DEF Places, Place, Inside, Waiting
  <1>10. Places'
    <2> DEFINE X == Q \cup {t}
    <2>1. \A u \in Threads \ X : Untouched(u)
      BY Zenon, <1>a, <1>q, <1>w DEF Untouched, Q
    <2>2. NoDuplicates(rq') /\ NoDuplicates(wq') /\ mutex' \in {None, t}
      BY Zenon, <1>a, <1>q DEF Places
    <2>3. X \in SUBSET Threads /\ t \in X /\ \A u \in X : Place(u)'
      BY Zenon, <1>8, <1>9, <1>q
    <2> HIDE DEF X
    <2> QED  BY Zenon, <1>0, <1>1, <1>8, <2>1, <2>2, <2>3, FrameQueue
  <1>11. Held'
    BY Zenon, <1>0, <1>1, <1>6, <1>p DEF Held, Inside, Others
  <1>12. Dead'
    BY Zenon, <1>x, <1>a DEF Dead
  <1> QED  BY Zenon, <1>7, <1>10, <1>11, <1>12 DEF IInv

\* The owner while t takes the blocked readers from rq.
LEMMA HeldInside ==
  ASSUME NEW t \in Threads, \A u \in Threads : pc'[u] = "wake_readers" <=> u = t,
         owner' < 0, WaitBit(owner'), Writers' = {}, arg'[t] \in Nat,
         Stuck' \/ Agrees(owner' - 2 * arg'[t], Readers', Writers')
  PROVE  Held'
  <1>1. ~(\A u \in Threads : pc'[u] # "wake_readers")
    BY Zenon
  <1>2. ASSUME NEW u \in Threads, pc'[u] = "wake_readers"
        PROVE  /\ owner' < 0 /\ WaitBit(owner') /\ Writers' = {} /\ arg'[u] \in Nat
               /\ Stuck' \/ Agrees(owner' - 2 * arg'[u], Readers', Writers')
    <2>1. u = t
      BY Zenon, <1>2
    <2> QED  BY Zenon, <2>1
  <1> QED  BY Zenon, <1>1, <1>2 DEF Held

\* WakeReader preserves the inductive invariant.
LEMMA WakeReaderPreserves ==
  ASSUME Counted, IInv, NEW t \in Threads, WakeReader(t)
  PROVE  IInv'
  <1> SUFFICES ASSUME TypeOK, Places, Held, Dead
               PROVE  IInv'
    BY Zenon DEF IInv
  <1>0. /\ pc[t] = "wake_readers" /\ rq # <<>> /\ wq = <<>> /\ Range(wq) = {}
        /\ mutex = t /\ owner < 0 /\ WaitBit(owner) /\ owner \in Int /\ arg[t] \in Nat
        /\ Stuck \/ Agrees(owner - 2 * arg[t], Readers, Writers)
        /\ Writers = {}
        /\ UNCHANGED <<alive, owner, wq, mutex, sched, pc, kind, timed, stopped, hold>>
    BY Zenon, EmptyQueue DEF TypeOK, Places, Place, Inside, Held, WakeReader
  <1>a. \A u \in Threads \ {t} : woken[u] = {} /\ ~Inside(u)
    <2>1. \A u \in Threads \ {t} : ~Inside(u)
      BY Zenon, <1>0 DEF Places, Place
    <2> QED  BY <2>1 DEF TypeOK, Places, Place
  <1>b. PICK n \in Threads : n = Last(rq) /\ n \in Range(rq)
    BY Zenon, <1>0, LastReader
  <1>n. Queueable(n) /\ kind[n] = "read" /\ sched[n] # "signal" /\ n # t
    BY Zenon, <1>0, <1>b DEF Places, Place, Queueable
  <1>w. /\ woken'[t] = woken[t] \cup {n} /\ \A u \in Threads \ {t} : woken'[u] = {}
        /\ woken' \in [Threads -> SUBSET Threads]
    BY Zenon, <1>a, <1>b DEF TypeOK, WakeReader
  <1>r. /\ arg'[t] = arg[t] + 1 /\ arg' \in [Threads -> Int]
        /\ \A u \in Threads \ {t} : arg'[u] = arg[u]
    BY <1>0 DEF TypeOK, WakeReader
  <1>h. \A u \in Threads : pc'[u] = "wake_readers" <=> u = t
    BY Zenon, <1>0, <1>a DEF Inside
  <1>m. owner' < 0 /\ WaitBit(owner') /\ arg'[t] \in Nat
    BY <1>0, <1>r
  <1>1. Others(t)
    BY Zenon, <1>0, <1>r DEF Others
  <1>2. Claim(t)'
    BY Zenon, <1>0 DEF Claim, Waiting
  <1>3. CASE pc[n] = "again"
    <2>1. rq' = rq /\ Stuck'
      BY Zenon, <1>0, <1>3, <1>b DEF WakeReader, Stuck
    <2>2. TypeOK'
      BY Zenon, <1>0, <1>r, <1>w, <2>1 DEF TypeOK
    <2>3. ASSUME NEW u \in Threads  PROVE Place(u)'
      BY <1>0, <1>3, <1>a, <1>b, <1>n, <1>w, <2>1
         DEF Places, Place, Inside, Queueable, Waiting, Queue
    <2>4. ASSUME NEW u \in Threads \ {t}  PROVE Claim(u)'
      BY Zenon, <1>1, <2>4 DEF Places, Claim, Others, Waiting
    <2>5. Places'
      BY Zenon, <1>0, <1>2, <2>1, <2>3, <2>4 DEF Places
    <2>6. Held'
      <3>1. Writers' = Writers
        BY Zenon, <1>0, <2>1 DEF Writers, Has, Waiting, Queue
      <3>2. Writers' = {}
        BY Zenon, <1>0, <3>1
      <3> QED  BY Zenon, <1>h, <1>m, <2>1, <3>2, HeldInside
    <2>7. Dead'
      BY Zenon, <1>0 DEF Dead, InIdm
    <2> QED  BY Zenon, <2>2, <2>5, <2>6, <2>7 DEF IInv
  <1>4. CASE pc[n] # "again"
    <2>1. /\ rq' \in Seq(Threads) /\ NoDuplicates(rq') /\ Range(rq') = Range(rq) \ {n}
      BY Zenon, <1>0, <1>4, <1>b, FrontSet DEF TypeOK, Places, WakeReader
    <2>2. TypeOK'
      BY Zenon, <1>0, <1>r, <1>w, <2>1 DEF TypeOK
    <2>3. Waiting(n)
      BY Zenon, <1>4, <1>n DEF Queueable, Waiting
    <2>4. Place(n)'
      BY Zenon, <1>0, <1>a, <1>b, <1>n, <1>w, <2>1, <2>3
         DEF Places, Place, Inside, Waiting, Queue
    <2>5. ASSUME NEW u \in Threads \ {n}  PROVE Place(u)'
      BY Zenon, <1>0, <1>a, <1>w, <2>1, <2>5
         DEF TypeOK, Places, Place, Inside, Queueable, Waiting, Queue
    <2>6. ASSUME NEW u \in Threads \ {t}  PROVE Claim(u)'
      BY Zenon, <1>1, <2>6 DEF Places, Claim, Others, Waiting
    <2>7. Places'
      BY Zenon, <1>0, <1>2, <2>1, <2>4, <2>5, <2>6 DEF Places
    <2>8. Readers' = Readers \cup {n} /\ Writers' = Writers /\ n \notin Readers
      <3>1. ASSUME NEW u \in Threads \ {n}, NEW k \in {"read", "write"}
            PROVE  Has(u, k)' <=> Has(u, k)
        BY Zenon, <1>0, <2>1, <3>1 DEF Has, Waiting, Queue
      <3>2. Has(n, "read")' /\ ~Has(n, "read") /\ (Has(n, "write")' <=> Has(n, "write"))
        BY Zenon, <1>0, <1>b, <1>n, <2>1, <2>3 DEF Places, Claim, Has,
           Waiting, Queue
      <3> QED  BY Zenon, <3>1, <3>2 DEF Readers, Writers
    <2>9. Agrees(owner' - 2 * arg'[t], Readers', Writers')
      <3> DEFINE v == owner - 2 * arg[t]
      <3>0. /\ owner \in Int /\ owner < 0 /\ arg[t] \in Nat
            /\ owner' = owner /\ arg'[t] = arg[t] + 1
        BY Zenon, <1>0, <1>r
      <3>1. v \in Int /\ v <= 0 /\ owner' - 2 * arg'[t] = v - 2
        BY <3>0
      <3>2. Agrees(v, Readers, Writers)
        BY Zenon, <1>0, <1>4, <1>b DEF Stuck
      <3> HIDE DEF v
      <3>3. Agrees(v - 2, Readers \cup {n}, Writers)
        BY Zenon, <2>8, <3>1, <3>2, HolderTypes, AgreesEnter
      <3> QED  BY Zenon, <2>8, <3>1, <3>3
    <2>10. Held'
      <3>1. Writers' = {}
        BY Zenon, <1>0, <2>8
      <3> QED  BY Zenon, <1>h, <1>m, <2>9, <3>1, HeldInside
    <2>11. Dead'
      BY Zenon, <1>0 DEF Dead, InIdm
    <2> QED  BY Zenon, <2>2, <2>7, <2>10, <2>11 DEF IInv
  <1> QED  BY Zenon, <1>3, <1>4

\* WakeReadersDone preserves the inductive invariant.
LEMMA WakeReadersDonePreserves ==
  ASSUME Counted, IInv, NEW t \in Threads, WakeReadersDone(t)
  PROVE  IInv'
  <1> SUFFICES ASSUME TypeOK, Places, Held, Dead
               PROVE  IInv'
    BY Zenon DEF IInv
  <1>0. /\ pc[t] = "wake_readers" /\ rq = <<>> /\ wq = <<>> /\ Range(rq) = {} /\ Range(wq) = {}
        /\ mutex = t /\ owner < 0 /\ owner \in Int /\ arg[t] \in Nat
        /\ Agrees(owner - 2 * arg[t], Readers, Writers)
        /\ owner' = ClearWaitBit(owner - 2 * arg[t]) /\ pc' = [pc EXCEPT ![t] = "awake"]
        /\ UNCHANGED <<alive, rq, wq, mutex, sched, kind, arg, timed, woken, stopped, hold>>
    BY Zenon, EmptyQueue DEF TypeOK, Places, Place, Inside, Held, Stuck,
       WakeReadersDone, Goto
  <1>a. \A u \in Threads \ {t} : woken[u] = {} /\ ~Inside(u)
    <2>1. \A u \in Threads \ {t} : ~Inside(u)
      BY Zenon, <1>0 DEF Places, Place
    <2> QED  BY Zenon, <2>1 DEF TypeOK, Places, Place
  <1>p. pc'[t] = "awake" /\ \A u \in Threads \ {t} : pc'[u] = pc[u]
    BY Zenon, <1>0 DEF TypeOK
  <1>1. Others(t)
    BY Zenon, <1>0, <1>p DEF Others
  <1>2. \A k \in {"read", "write"} : Has(t, k)' <=> Has(t, k)
    BY Zenon, <1>0, <1>p DEF Has, Waiting
  <1>3. Readers' = Readers /\ Writers' = Writers
    BY Zenon, <1>0, <1>1, <1>2, SameHolders
  <1>4. /\ Agrees(owner', Readers', Writers') /\ owner' \in Int /\ ~WaitBit(owner')
    <2> DEFINE v == owner - 2 * arg[t]
    <2>1. v \in Int
      BY <1>0
    <2>2. Agrees(v, Readers, Writers) /\ owner' = ClearWaitBit(v)
      BY Zenon, <1>0
    <2> HIDE DEF v
    <2>3. Agrees(ClearWaitBit(v), Readers, Writers) /\ ~WaitBit(ClearWaitBit(v))
          /\ ClearWaitBit(v) \in Int
      BY Zenon, <2>1, <2>2, HolderTypes, AgreesBit
    <2> QED  BY Zenon, <1>3, <2>2, <2>3
  <1>5. TypeOK'
    BY Zenon, <1>0, <1>4, OwnerRange DEF TypeOK
  <1>6. ASSUME NEW u \in Threads  PROVE Place(u)'
    <2>1. Place(u) /\ Place(t)
      BY Zenon DEF Places
    <2>2. ASSUME NEW w \in Threads, u \in woken[w]  PROVE w = t
      BY Zenon, <1>a, <2>2
    <2>3. CASE u = t
      BY Zenon, <1>0, <1>p, <2>1, <2>2, <2>3 DEF Place, Inside, Waiting, Queue
    <2>4. CASE u # t
      BY Zenon, <1>0, <1>p, <2>1, <2>2, <2>4 DEF Place, Inside, Waiting, Queue
    <2> QED  BY Zenon, <2>3, <2>4
  <1>7. ASSUME NEW u \in Threads  PROVE Claim(u)'
    BY Zenon, <1>0, <1>p DEF Places, Claim, Waiting
  <1>8. Places'
    BY Zenon, <1>0, <1>6, <1>7 DEF Places
  <1>9. Held'
    BY Zenon, <1>0, <1>4, <1>a, <1>p DEF Held, Marked, Inside
  <1>10. Dead'
    BY <1>0 DEF Dead
  <1> QED  BY Zenon, <1>5, <1>8, <1>9, <1>10 DEF IInv

\* Awake preserves the inductive invariant.
LEMMA AwakePreserves ==
  ASSUME IInv, NEW t \in Threads, Awake(t)
  PROVE  IInv'
  <1> SUFFICES ASSUME TypeOK, Places, Held, Dead
               PROVE  IInv'
    BY Zenon DEF IInv
  <1>0. /\ pc[t] = "awake" /\ mutex = t /\ mutex' = None
        /\ pc' = [pc EXCEPT ![t] = IF stopped[t] THEN "halted" ELSE "idle"]
        /\ kind' = [kind EXCEPT ![t] = "read"] /\ arg' = [arg EXCEPT ![t] = 0]
        /\ timed' = [timed EXCEPT ![t] = FALSE]
        /\ woken' = [woken EXCEPT ![t] = {}]
        /\ UNCHANGED <<alive, owner, rq, wq, stopped, hold>>
    BY Zenon DEF Places, Place, Inside, Awake, Return
  <1>s. /\ sched' \in [Threads -> SchedStates]
        /\ \A u \in Threads :
             sched'[u] = IF u \in woken[t] /\ sched[u] = "sleep" THEN "signal" ELSE sched[u]
    BY Zenon DEF TypeOK, SchedStates, Awake, awake
  <1>a. \A u \in Threads \ {t} : woken[u] = {} /\ ~Inside(u)
    <2>1. \A u \in Threads \ {t} : ~Inside(u)
      BY Zenon, <1>0 DEF Places, Place
    <2> QED  BY Zenon, <2>1 DEF TypeOK, Places, Place
  <1>p. /\ pc'[t] \in {"idle", "halted"} /\ arg'[t] = 0 /\ kind'[t] = "read"
        /\ \A u \in Threads \ {t} : pc'[u] = pc[u] /\ kind'[u] = kind[u] /\ arg'[u] = arg[u]
    BY Zenon, <1>0 DEF TypeOK
  <1>w. \A u \in Threads : woken'[u] = {}
    BY Zenon, <1>0, <1>a DEF TypeOK
  <1>1. Others(t)
    BY Zenon, <1>0, <1>p DEF Others
  <1>2. \A k \in {"read", "write"} : Has(t, k)' <=> Has(t, k)
    BY Zenon, <1>0, <1>p DEF Has, Waiting
  <1>3. Readers' = Readers /\ Writers' = Writers
    BY Zenon, <1>0, <1>1, <1>2, SameHolders
  <1>4. TypeOK'
    <2>1. kind' \in [Threads -> {"read", "write"}] /\ arg' \in [Threads -> Int]
      BY <1>0 DEF TypeOK
    <2>2. timed' \in [Threads -> BOOLEAN] /\ woken' \in [Threads -> SUBSET Threads]
      BY Zenon, <1>0 DEF TypeOK
    <2> QED  BY Zenon, <1>0, <1>s, <2>1, <2>2 DEF TypeOK
  <1>5. Place(t)' /\ Claim(t)'
    BY <1>0, <1>p, <1>s, <1>w,
       RwLockAssumption DEF Places, Place, Claim, Inside, Queueable, Waiting
  <1>6. ASSUME NEW u \in Threads \ {t}  PROVE Place(u)'
    <2>1. CASE u \in woken[t]
      <3>1. Waiting(u) /\ u \notin Range(rq) /\ u \notin Range(wq) /\ sched[u] # "signal"
        BY Zenon, <1>0, <2>1 DEF Places, Place
      <3> QED  BY <1>0, <1>a, <1>p, <1>s, <1>w, <2>1, <3>1,
                  RwLockAssumption DEF Places, Place, Inside, Waiting
    <2>2. CASE u \notin woken[t]
      <3>1. sched'[u] = sched[u] /\ \A v \in Threads : u \notin woken[v]
        BY Zenon, <1>a, <1>s, <2>2
      <3> QED  BY <1>0, <1>a, <1>p, <1>w, <3>1, RwLockAssumption
               DEF Places, Place, Inside, Queueable, Waiting, Queue
    <2> QED  BY Zenon, <2>1, <2>2
  <1>7. ASSUME NEW u \in Threads \ {t}  PROVE Claim(u)'
    BY Zenon, <1>1, <1>7 DEF Places, Claim, Others, Waiting
  <1>8. Places'
    BY Zenon, <1>0, <1>5, <1>6, <1>7 DEF Places
  <1>9. Held'
    BY Zenon, <1>0, <1>1, <1>3, <1>p, HeldSame
  <1>10. Dead'
    BY Zenon, <1>0, <1>p DEF Dead, InIdm
  <1> QED  BY Zenon, <1>4, <1>8, <1>9, <1>10 DEF IInv

\* Destroy preserves the inductive invariant.
LEMMA DestroyPreserves ==
  ASSUME IInv, NEW t \in Threads, Destroy(t)
  PROVE  IInv'
  <1>1. /\ owner = 0 /\ \A u \in Threads : ~InIdm(u)
        /\ UNCHANGED <<owner, rq, wq, mutex, sched, pc, kind, arg, timed, woken, stopped, hold>>
    BY Zenon DEF Destroy
  <1>2. TypeOK'
    BY Zenon, <1>1 DEF IInv, TypeOK, Destroy
  <1>3. Places'
    BY <1>1 DEF IInv, Places, Place, Claim, Inside, Queueable,
       Waiting, Queue
  <1>4. Held'
    BY Zenon, <1>1 DEF IInv, Held, Stuck, Readers, Writers, Has, Waiting, Queue
  <1>5. Dead'
    BY Zenon, <1>1 DEF Dead, InIdm
  <1> QED  BY Zenon, <1>2, <1>3, <1>4, <1>5 DEF IInv

\* Stop preserves the inductive invariant.
LEMMA StopPreserves ==
  ASSUME IInv, NEW t \in Threads, Stop(t)
  PROVE  IInv'
  <1>1. UNCHANGED <<alive, owner, rq, wq, mutex, sched, pc, kind, arg, timed, woken, hold>>
    BY Zenon DEF Stop
  <1>2. TypeOK'
    BY Zenon, <1>1 DEF IInv, TypeOK, Stop
  <1>3. Places'
    BY <1>1 DEF IInv, Places, Place, Claim, Inside, Queueable,
       Waiting, Queue
  <1>4. Held'
    BY Zenon, <1>1 DEF IInv, Held, Stuck, Readers, Writers, Has, Waiting, Queue
  <1>5. Dead'
    BY Zenon, <1>1 DEF IInv, Dead, InIdm
  <1> QED  BY Zenon, <1>2, <1>3, <1>4, <1>5 DEF IInv

\* The invariant holds at first.
LEMMA Start ==
  ASSUME Counted, Init
  PROVE  IInv
  <1>1. /\ rq \in Seq(Threads) /\ Range(rq) = {} /\ NoDuplicates(rq)
        /\ wq \in Seq(Threads) /\ Range(wq) = {} /\ NoDuplicates(wq)
    BY DEF Init, Range, NoDuplicates
  <1>2. TypeOK
    <2>1. 0 >= -2 * Cardinality(Threads)
      BY Sizes
    <2> QED  BY <1>1, <2>1 DEF Init, TypeOK, SchedStates
  <1>3. Places
    BY Zenon, <1>1, RwLockAssumption DEF Init, Places, Place, Claim, Inside, Waiting
  <1>4. Held
    <2>1. Readers = {} /\ Writers = {}
      BY Zenon DEF Init, Readers, Writers, Has, Waiting
    <2> QED  BY <2>1, AgreesNew DEF Init, Held, Marked
  <1>5. Dead
    BY Zenon DEF Init, Dead
  <1> QED  BY Zenon, <1>2, <1>3, <1>4, <1>5 DEF IInv

\* Every step keeps the invariant.
LEMMA Inductive ==
  ASSUME Counted, IInv, [Next]_vars
  PROVE  IInv'
  <1>1. ASSUME NEW t \in Threads, Lock(t) PROVE IInv'
    BY Zenon, <1>1, RLockReadPreserves, RLockCasPreserves,
       RLockCasFailedPreserves, TryRLockPreserves, TryWLockPreserves,
       WLockBusyPreserves, RLockSlowPreserves, WLockSlowPreserves,
       RLockSleepPreserves, WLockSleepPreserves DEF Lock
  <1>2. ASSUME NEW t \in Threads, Wait(t) PROVE IInv'
    BY Zenon, <1>2, LockSignaledPreserves, LockStoppedPreserves,
       LockStoppedGrantedPreserves, LockTimeoutPreserves,
       LockCheckStatePreserves, LockCheckStateStoppedPreserves,
       LockCheckStateAwakePreserves, RLockQueueEmptyPreserves,
       RLockSyncPreserves, RLockUnqueuePreserves, LockUnqueueLatePreserves,
       WLockUnqueuePreserves, WLockUnqueueLastPreserves,
       WLockUnqueueWakePreserves, WakeReaderPreserves,
       WakeReadersDonePreserves DEF Wait
  <1>3. ASSUME NEW t \in Threads, Unlock(t) PROVE IInv'
    BY Zenon, <1>3, RUnlockReadPreserves, RUnlockCasPreserves,
       RUnlockCasFailedPreserves, RUnlockSlowPreserves,
       RUnlockHandOverPreserves, RUnlockAgainPreserves, WUnlockFastPreserves,
       WUnlockBusyPreserves, WUnlockHandOverPreserves, WUnlockAgainPreserves,
       WUnlockReadersPreserves, WUnlockLastPreserves, AwakePreserves DEF
       Unlock
  <1>4. CASE UNCHANGED vars
    <2>1. TypeOK' /\ Dead'
      BY Zenon, <1>4 DEF vars, IInv, TypeOK, Dead, InIdm
    <2>2. Places'
      BY <1>4 DEF vars, IInv, Places, Place, Claim, Inside,
         Queueable, Waiting, Queue
    <2>3. Held'
      BY Zenon, <1>4 DEF vars, IInv, Held, Stuck, Readers, Writers, Has,
         Waiting, Queue
    <2> QED  BY Zenon, <2>1, <2>2, <2>3 DEF IInv
  <1> QED  BY Zenon, <1>1, <1>2, <1>3, <1>4, DestroyPreserves,
              StopPreserves DEF Next

----------------------------------------------------------------------------
(* What the invariant means. *)

\* owner counts the readers or names the writer.
LEMMA OwnerNow ==
  ASSUME Counted, IInv
  PROVE  OwnerAgrees
  <1>1. TypeOK
    BY Zenon DEF IInv
  <1>2. ASSUME mutex = None  PROVE Agrees(owner, Readers, Writers)
    BY Zenon, <1>2, HeldNow
  <1>3. ASSUME ~alive
        PROVE  /\ owner = 0 /\ rq = <<>> /\ wq = <<>>
               /\ Readers = {} /\ Writers = {}
               /\ \A t \in Threads : ~InIdm(t)
    <2>1. owner = 0 /\ \A t \in Threads : ~InIdm(t)
      BY Zenon, <1>3 DEF IInv, Dead
    <2>2. ~WaitBit(owner)
      BY <2>1 DEF WaitBit
    <2>3. Agrees(owner, Readers, Writers) /\ Marked(owner, rq, wq)
      BY Zenon, <2>2, NoLoop
    <2> QED  BY <2>1, <2>2, <2>3, HolderTypes, AgreesKinds DEF
                Marked
  <1> QED  BY Zenon, <1>1, <1>2, <1>3 DEF OwnerAgrees, Agrees

\* The wait bit tells of waiters.
LEMMA WaitBitNow ==
  ASSUME IInv
  PROVE  WaitBitAgrees
  <1>1. SUFFICES ASSUME mutex = None, rq # <<>>  PROVE owner > 0 \/ wq # <<>>
    BY Zenon, HeldNow DEF WaitBitAgrees, Marked
  <1>2. WaitBit(owner) /\ owner # 0 /\ owner \in Int
    BY Zenon, <1>1, QueuedAlive DEF IInv, TypeOK
  <1> QED  BY <1>1, <1>2, HeldNow DEF Marked

\* Sleeping waiters are queued or about to be awakened.
LEMMA WakeupsNow ==
  ASSUME IInv
  PROVE  WakeupsMatch
  BY Zenon DEF IInv, TypeOK, Places, Place, Queueable, Waiting,
     WakeupsMatch

----------------------------------------------------------------------------
(* Readers share and writers exclude. *)

\* What the invariant says of the threads that were told they have a lock.
LEMMA Exclusion ==
  ASSUME Counted, IInv
  PROVE  /\ Readers # {} => Writers = {}
         /\ \A t \in Writers : Writers = {t} /\ Readers = {}
  <1>1. CASE \E u \in Threads : pc[u] = "wake_readers"
    BY Zenon, <1>1 DEF IInv, Held
  <1>2. CASE \A u \in Threads : pc[u] # "wake_readers"
    <2>1. Agrees(owner, Readers, Writers) /\ owner \in Int
      BY Zenon, <1>2 DEF IInv, Held, TypeOK
    <2> QED  BY Zenon, <2>1, HolderTypes, AgreesWriter
  <1> QED  BY Zenon, <1>1, <1>2

\* A lock-free path or a critical section that gives the lock at once.
LEMMA EnterStep ==
  ASSUME Counted, IInv, NEW t \in Threads,
         RLockCas(t) \/ TryRLock(t) \/ RLockSlow(t) \/ TryWLock(t) \/ WLockSlow(t)
  PROVE  Guest!Next
  <1>1. CASE RLockCas(t) \/ TryRLock(t) \/ RLockSlow(t)
    <2>1. Readable(owner) /\ owner \in Int /\ Locked(t, "read")
      BY Zenon, <1>1 DEF IInv, TypeOK, Places, Claim, RLockCas, TryRLock, RLockSlow
    <2>2. Agrees(owner, Readers, Writers)
      BY Zenon, <2>1, NoLoop DEF Readable
    <2>3. Writers = {}
      BY <2>1, <2>2, HolderTypes, AgreesKinds DEF Readable
    <2> QED  BY Zenon, <2>1, <2>3 DEF Locked, Writers, Has, Guest!Next,
                Guest!Read, Guest!NoWriter
  <1>2. CASE TryWLock(t) \/ WLockSlow(t)
    <2>1. owner = 0 /\ Locked(t, "write")
      BY Zenon, <1>2 DEF TryWLock, WLockSlow
    <2>2. Agrees(owner, Readers, Writers)
      BY <2>1, NoLoop DEF WaitBit
    <2>3. Writers = {} /\ Readers = {}
      BY <2>1, <2>2, HolderTypes, AgreesKinds
    <2> QED  BY Zenon, <2>1, <2>3 DEF Locked, Readers, Writers, Has, Guest!Next,
                Guest!Write, Guest!NoWriter, Guest!NoReader
  <1> QED  BY Zenon, <1>1, <1>2

\* A waiter that returns CELL_OK has been given the lock before.
LEMMA GrantedStep ==
  ASSUME Counted, IInv, NEW t \in Threads,
         LockSignaled(t) \/ LockStoppedGranted(t) \/ RLockSync(t) \/ LockUnqueueLate(t)
  PROVE  Guest!Next
  <1>1. Locked(t, kind[t]) /\ Waiting(t) /\ t \notin Range(Queue(t)) /\ kind[t] \in {"read", "write"}
    BY Zenon DEF IInv, TypeOK, Places, Place, Queueable, Waiting, Queue, LockSignaled,
           LockStoppedGranted, RLockSync, LockUnqueueLate
  <1>2. kind[t] \notin hold[t] /\ Has(t, kind[t])
    BY Zenon, <1>1 DEF IInv, Places, Claim, Has
  <1>3. CASE kind[t] = "read"
    <2>1. Writers = {}
      BY Zenon, <1>2, <1>3, Exclusion DEF Readers
    <2> QED  BY Zenon, <1>1, <1>3, <2>1 DEF Locked, Writers, Has, Guest!Next,
                Guest!Read, Guest!NoWriter
  <1>4. CASE kind[t] = "write"
    <2>1. Readers = {} /\ Writers = {t}
      BY Zenon, <1>2, <1>4, Exclusion DEF Writers
    <2>2. Guest!NoReader
      BY Zenon, <2>1 DEF Readers, Has, Guest!NoReader
    <2>3. Guest!NoWriter
      BY Zenon, <1>2, <1>4, <2>1 DEF Writers, Has, Guest!NoWriter
    <2> QED  BY Zenon, <1>1, <1>4, <2>2, <2>3 DEF Locked, Guest!Next,
                Guest!Write
  <1> QED  BY Zenon, <1>1, <1>3, <1>4

\* An unlock gives back a lock its thread has.
LEMMA ReleaseStep ==
  ASSUME Counted, IInv, NEW t \in Threads,
         \/ RUnlockCas(t) \/ RUnlockSlow(t) \/ RUnlockHandOver(t) \/ WUnlockFast(t)
         \/ WUnlockHandOver(t) \/ WUnlockReaders(t) \/ WUnlockLast(t)
  PROVE  Guest!Next
  <1>1. CASE RUnlockCas(t) \/ RUnlockSlow(t) \/ RUnlockHandOver(t)
    BY Zenon, <1>1 DEF IInv, Places, Claim, RUnlockCas, RUnlockSlow,
       RUnlockHandOver, Unlocked, Guest!Next, Guest!Release
  <1>2. CASE WUnlockHandOver(t) \/ WUnlockReaders(t) \/ WUnlockLast(t)
    BY Zenon, <1>2 DEF IInv, Places, Claim, WUnlockHandOver, WUnlockReaders,
       WUnlockLast, Unlocked, Guest!Next, Guest!Release
  <1>3. CASE WUnlockFast(t)
    <2>1. owner > 0 /\ owner \div 2 = Id[t] /\ owner \in Int
      <3>1. owner = 2 * Id[t]
        BY Zenon, <1>3 DEF WUnlockFast
      <3>2. Id[t] \in Nat \ {0}
        BY Zenon, RwLockAssumption
      <3> QED  BY <3>1, <3>2
    <2>2. Agrees(owner, Readers, Writers)
      BY <2>1, NoLoop
    <2>3. t \in Writers
      BY <2>1, <2>2, HolderTypes, AgreesWriter
    <2>4. "write" \in hold[t]
      BY Zenon, <1>3, <2>3 DEF Writers, Has, Waiting, WUnlockFast
    <2> QED  BY Zenon, <1>3, <2>4 DEF WUnlockFast, Unlocked, Guest!Next,
                Guest!Release
  <1> QED  BY Zenon, <1>1, <1>2, <1>3

\* Every step is a step of the promise or leaves hold alone.
LEMMA GuestStep ==
  ASSUME Counted, IInv, [Next]_vars
  PROVE  Guest!Next \/ UNCHANGED hold
  <1>1. ASSUME NEW t \in Threads, Lock(t)  PROVE Guest!Next \/ UNCHANGED hold
    BY Zenon, <1>1, EnterStep DEF Lock, RLockRead, RLockCasFailed, WLockBusy,
       RLockSleep, WLockSleep
  <1>2. ASSUME NEW t \in Threads, Wait(t)  PROVE Guest!Next \/ UNCHANGED hold
    BY Zenon, <1>2, GrantedStep DEF Wait, LockStopped, LockTimeout,
       LockCheckState, LockCheckStateStopped, LockCheckStateAwake,
       RLockQueueEmpty, RLockUnqueue, WLockUnqueue, WLockUnqueueLast,
       WLockUnqueueWake, WakeReader, WakeReadersDone
  <1>3. ASSUME NEW t \in Threads, Unlock(t)  PROVE Guest!Next \/ UNCHANGED hold
    BY Zenon, <1>3, ReleaseStep DEF Unlock, RUnlockRead, RUnlockCasFailed,
       RUnlockAgain, WUnlockBusy, WUnlockAgain, Awake
  <1>4. ASSUME NEW t \in Threads, Destroy(t) \/ Stop(t)  PROVE UNCHANGED hold
    BY Zenon, <1>4 DEF Destroy, Stop
  <1>5. CASE UNCHANGED vars
    BY Zenon, <1>5 DEF vars
  <1> QED  BY Zenon, <1>1, <1>2, <1>3, <1>4, <1>5 DEF Next

----------------------------------------------------------------------------
(* The theorems.  What they need of the sizes of finite sets comes from the   *)
(* library.                                                                   *)
Finite == INSTANCE FiniteSetTheorems

\* The library speaks of the same finite sets and of the same sizes.
LEMMA SameSizes ==
  ASSUME NEW S
  PROVE  (IsFiniteSet(S) <=> Finite!IsFiniteSet(S)) /\ Cardinality(S) = Finite!Cardinality(S)
  <1>1. IsFiniteSet(S) <=> Finite!IsFiniteSet(S)
    BY Zenon DEF IsFiniteSet, Finite!IsFiniteSet
  <1>2. Cardinality(S) = Finite!Cardinality(S)
    BY Zenon DEF Cardinality, Finite!Cardinality
  <1> QED  BY Zenon, <1>1, <1>2

\* A queue of threads that differ is as long as they are many.
LEMMA QueueSize ==
  ASSUME NEW S, NEW s \in Seq(S), NoDuplicates(s)
  PROVE  Cardinality(Range(s)) = Len(s)
  <1> DEFINE n == Len(s)
             Q == Range(s)
  <1>1. n \in Nat /\ s \in [1..n -> Q]
    BY DEF Range
  <1>2. \A a, b \in 1..n : s[a] = s[b] => a = b
    BY DEF NoDuplicates
  <1>3. \A q \in Q : \E a \in 1..n : s[a] = q
    BY DEF Range
  <1> HIDE DEF n, Q
  <1>4. s \in Finite!Bijection(1..n, Q)
    BY Zenon, <1>1, <1>2, <1>3 DEF Finite!Bijection, Finite!Injection,
       Finite!Surjection, Finite!IsInjective
  <1>5. Finite!ExistsBijection(1..n, Q)
    BY Zenon, <1>4 DEF Finite!ExistsBijection
  <1>6. Cardinality(Q) = n
    BY Zenon, <1>1, <1>5, SameSizes, Finite!FS_CountingElements
  <1> QED  BY Zenon, <1>6 DEF n, Q

\* The threads are finitely many: their sets have a size.
LEMMA Counting == Counted
  <1>1. ASSUME NEW R \in SUBSET Threads
        PROVE  IsFiniteSet(R) /\ Cardinality(R) \in Nat
               /\ Cardinality(R) <= Cardinality(Threads)
               /\ (Cardinality(R) = 0 <=> R = {})
    <2>0. IsFiniteSet(Threads)
      BY RwLockAssumption
    <2>1. IsFiniteSet(R) /\ Cardinality(R) <= Cardinality(Threads)
      BY <2>0, SameSizes, Finite!FS_Subset
    <2>2. Cardinality(R) \in Nat
      BY Zenon, <2>1, SameSizes, Finite!FS_CardinalityType
    <2> QED  BY Zenon, <2>1, <2>2, SameSizes, Finite!FS_EmptySet
  <1>2. ASSUME NEW R \in SUBSET Threads, NEW t \in Threads \ R
        PROVE  Cardinality(R \cup {t}) = Cardinality(R) + 1
    BY <1>1, SameSizes, Finite!FS_AddElement
  <1>3. ASSUME NEW R \in SUBSET Threads, NEW t \in R
        PROVE  Cardinality(R \ {t}) = Cardinality(R) - 1
    BY Zenon, <1>1, SameSizes, Finite!FS_RemoveElement
  <1>4. ASSUME NEW q \in Seq(Threads), NoDuplicates(q)
        PROVE  Cardinality(Range(q)) = Len(q)
    BY Zenon, <1>4, QueueSize
  <1>5. ASSUME NEW R \in SUBSET Threads
        PROVE  /\ Cardinality(R) \in Nat /\ Cardinality(R) <= Cardinality(Threads)
               /\ Cardinality(R) = 0 <=> R = {}
               /\ \A t \in Threads \ R : Cardinality(R \cup {t}) = Cardinality(R) + 1
               /\ \A t \in R : Cardinality(R \ {t}) = Cardinality(R) - 1
    BY Zenon, <1>1, <1>2, <1>3
  <1> QED  BY <1>4, <1>5 DEF Counted

\* The invariant behind the theorems below.
THEOREM Invariance == Spec => []IInv
  <1>1. Init => IInv
    BY Zenon, Counting, Start
  <1>2. IInv /\ [Next]_vars => IInv'
    BY Zenon, Counting, Inductive
  <1> QED  BY <1>1, <1>2, PTL DEF Spec

\* The owner word counts exactly the readers, or names exactly the writer, that
\* were told CELL_OK by sys_rwlock_rlock and sys_rwlock_wlock or are about to be,
\* for any number of threads.
THEOREM RwLockOwnerAgrees == Spec => []OwnerAgrees
  <1>1. IInv => OwnerAgrees
    BY Zenon, Counting, OwnerNow
  <1> QED  BY <1>1, Invariance, PTL

\* The wait bit of owner is set while somebody is queued, so that no lock-free
\* path passes a waiter, and readers do not refuse others for a writer that has
\* gone.
THEOREM RwLockWaitBitAgrees == Spec => []WaitBitAgrees
  <1>1. IInv => WaitBitAgrees
    BY Zenon, WaitBitNow
  <1> QED  BY <1>1, Invariance, PTL

\* A sleeping waiter of sys_rwlock_rlock or sys_rwlock_wlock is queued or about
\* to be awakened, and no wake-up outlives its call.
THEOREM RwLockWakeupsMatch == Spec => []WakeupsMatch
  <1>1. IInv => WakeupsMatch
    BY Zenon, WakeupsNow
  <1> QED  BY <1>1, Invariance, PTL

\* sys_rwlock implements a reader-writer lock: whoever is told CELL_OK by a read
\* lock finds no writer, and by a write lock nobody at all.
THEOREM RwLockImplements == Spec => ImplementsReadersWriter
  <1>1. Init => Guest!Init
    BY Zenon DEF Init, Guest!Init
  <1>2. IInv /\ [Next]_vars => [Guest!Next]_hold
    BY Zenon, Counting, GuestStep
  <1> QED  BY <1>1, <1>2, Invariance, PTL DEF Spec, ImplementsReadersWriter,
              Guest!Spec
=============================================================================
