---------------------------- MODULE MutexProofs ----------------------------
(***************************************************************************)
(* The safety properties of Mutex for any number of threads, any           *)
(* priorities and protocol, recursive or not, and that the mutex           *)
(* implements Monitor.                                                     *)
(***************************************************************************)
EXTENDS Mutex, QueueLemmas

\* Who can be queued, taken from the queue, asleep or inside mutex.mutex.
Places ==
  /\ NoDuplicates(sq)
  /\ \A t \in Range(sq) : InLock(t) \/ pc[t] = "again"
  /\ \A t \in Range(sq) : sched[t] # "signal" /\ cancel[t] # 2
  /\ \A t \in Threads :
       /\ Waiting(t) => cancel[t] = 0
       /\ pc[t] = "lock_sleep" => sched[t] = "run" /\ cancel[t] # 0
       /\ pc[t] \in {"unqueue", "sync"} => sched[t] = "run"
       /\ pc[t] = "sync" => t \notin Range(sq)
       /\ pc[t] = "unlock_awake" <=> mutex = t
  /\ \A u \in Threads : \A t \in woken[u] :
       /\ pc[u] = "unlock_awake"
       /\ InLock(t)
       /\ t \notin Range(sq)
       /\ sched[t] # "signal"
       /\ cancel[t] # 2

\* Who can be the owner, and how often.
Owners ==
  /\ owner = None => lock_count = 0
  /\ \A t \in Threads :
       /\ pc[t] = "own" => owner # t
       /\ pc[t] = "unlock" => owner = t
       /\ owner = t /\ (InLock(t) \/ pc[t] = "unlock") => lock_count = 0

\* The inductive invariant.
IInv == TypeOK /\ Places /\ Owners /\ OwnershipAgrees /\ WakeupsMatch

----------------------------------------------------------------------------
\* Only threads are queued.
LEMMA QueuedThreads ==
  ASSUME TypeOK
  PROVE  Range(sq) \subseteq Threads
  BY DEF TypeOK, StateOK, Range

(* One lemma per action: it preserves the inductive invariant. *)

\* TryLock preserves the inductive invariant.
LEMMA TryLockPreserves ==
  ASSUME IInv, NEW t \in Threads, TryLock(t)
  PROVE  IInv'
  <1> SUFFICES ASSUME TypeOK, Places, Owners, OwnershipAgrees, WakeupsMatch
               PROVE  IInv'
    BY Zenon DEF IInv
  <1>1. TypeOK'
    BY Zenon, MutexAssumption DEF TypeOK, StateOK, MutexLabels, SchedStates, Owners,
       OwnershipAgrees, InLock, Waiting, TryLock, Acquired
  <1>2. Places'
    BY MutexAssumption DEF TypeOK, StateOK, Places, WakeupsMatch, InLock,
       Waiting, TryLock, Acquired
  <1>3. Owners'
    BY Zenon, MutexAssumption DEF TypeOK, StateOK, Places, Owners, OwnershipAgrees,
       InLock, Waiting, TryLock, Acquired
  <1>4. OwnershipAgrees'
    BY <1>1, MutexAssumption DEF TypeOK, StateOK, Places, Owners,
       OwnershipAgrees, InLock, Waiting, InIdm, TryLock, Acquired
  <1>5. WakeupsMatch'
    BY Zenon, MutexAssumption DEF TypeOK, StateOK, Places, WakeupsMatch, InLock,
       Waiting, TryLock, Acquired
  <1> QED  BY Zenon, <1>1, <1>2, <1>3, <1>4, <1>5 DEF IInv

\* Relock preserves the inductive invariant.
LEMMA RelockPreserves ==
  ASSUME IInv, NEW t \in Threads, Relock(t)
  PROVE  IInv'
  <1> SUFFICES ASSUME TypeOK, Places, Owners, OwnershipAgrees, WakeupsMatch
               PROVE  IInv'
    BY Zenon DEF IInv
  <1>1. TypeOK'
    BY MutexAssumption DEF TypeOK, StateOK, MutexLabels, SchedStates, Owners,
       OwnershipAgrees, InLock, Waiting, Relock
  <1>2. Places'
    BY MutexAssumption DEF TypeOK, StateOK, Places, WakeupsMatch, InLock,
       Waiting, Relock
  <1>3. Owners'
    BY Zenon, MutexAssumption DEF TypeOK, StateOK, Places, Owners, OwnershipAgrees,
       InLock, Waiting, Relock
  <1>4. OwnershipAgrees'
    BY <1>1, MutexAssumption DEF TypeOK, StateOK, Places, Owners,
       OwnershipAgrees, InLock, Waiting, InIdm, Relock
  <1>5. WakeupsMatch'
    BY Zenon, MutexAssumption DEF TypeOK, StateOK, Places, WakeupsMatch, InLock,
       Waiting, Relock
  <1> QED  BY Zenon, <1>1, <1>2, <1>3, <1>4, <1>5 DEF IInv

\* LockBusy preserves the inductive invariant.
LEMMA LockBusyPreserves ==
  ASSUME IInv, NEW t \in Threads, LockBusy(t)
  PROVE  IInv'
  <1> SUFFICES ASSUME TypeOK, Places, Owners, OwnershipAgrees, WakeupsMatch
               PROVE  IInv'
    BY Zenon DEF IInv
  <1>1. TypeOK'
    BY MutexAssumption DEF TypeOK, StateOK, MutexLabels, SchedStates, Owners,
       OwnershipAgrees, InLock, Waiting, LockBusy, Goto
  <1>2. Places'
    BY MutexAssumption DEF TypeOK, StateOK, Places, WakeupsMatch, InLock,
       Waiting, LockBusy, Goto
  <1>3. Owners'
    BY MutexAssumption DEF TypeOK, StateOK, Places, Owners, OwnershipAgrees,
       InLock, Waiting, LockBusy, Goto
  <1>4. OwnershipAgrees'
    BY <1>1, MutexAssumption DEF TypeOK, StateOK, Places, Owners,
       OwnershipAgrees, InLock, Waiting, InIdm, LockBusy, Goto
  <1>5. WakeupsMatch'
    BY MutexAssumption DEF TypeOK, StateOK, Places, WakeupsMatch, InLock,
       Waiting, LockBusy, Goto
  <1> QED  BY Zenon, <1>1, <1>2, <1>3, <1>4, <1>5 DEF IInv

\* LockOwn preserves the inductive invariant.
LEMMA LockOwnPreserves ==
  ASSUME IInv, NEW t \in Threads, LockOwn(t)
  PROVE  IInv'
  <1> SUFFICES ASSUME TypeOK, Places, Owners, OwnershipAgrees, WakeupsMatch
               PROVE  IInv'
    BY Zenon DEF IInv
  <1>1. TypeOK'
    <2>1. pc' \in [Threads -> MutexLabels]
      BY Zenon DEF TypeOK, MutexLabels, LockOwn, Return
    <2>2. cancel' \in [Threads -> 0..2] /\ depth' \in [Threads -> Nat]
      BY DEF TypeOK, StateOK, LockOwn, Acquired
    <2>3. timed' \in [Threads -> BOOLEAN]
      BY Zenon DEF TypeOK, StateOK, LockOwn, Return
    <2> QED  BY Zenon, <2>1, <2>2, <2>3 DEF TypeOK, StateOK, LockOwn
  <1>2. Places'
    BY MutexAssumption DEF TypeOK, StateOK, Places, WakeupsMatch, InLock,
       Waiting, LockOwn, Acquired, Return
  <1>3. Owners'
    BY Zenon, MutexAssumption DEF TypeOK, StateOK, Places, Owners, OwnershipAgrees,
       InLock, Waiting, LockOwn, Acquired, Return
  <1>4. OwnershipAgrees'
    BY <1>1, MutexAssumption DEF TypeOK, StateOK, Places, Owners,
       OwnershipAgrees, InLock, Waiting, InIdm, LockOwn, Acquired, Return
  <1>5. WakeupsMatch'
    BY MutexAssumption DEF TypeOK, StateOK, Places, WakeupsMatch, InLock,
       Waiting, LockOwn, Acquired, Return
  <1> QED  BY Zenon, <1>1, <1>2, <1>3, <1>4, <1>5 DEF IInv

\* LockEnqueue preserves the inductive invariant.
LEMMA LockEnqueuePreserves ==
  ASSUME IInv, NEW t \in Threads, LockEnqueue(t)
  PROVE  IInv'
  <1> SUFFICES ASSUME TypeOK, Places, Owners, OwnershipAgrees, WakeupsMatch
               PROVE  IInv'
    BY Zenon DEF IInv
  <1>0. /\ sq' \in Seq(Threads) /\ NoDuplicates(sq') /\ Range(sq') = Range(sq) \cup {t}
        /\ sq' # <<>>
    <2>1. t \notin Range(sq)
      BY Zenon DEF LockEnqueue, Places, InLock, Waiting
    <2>2. sq \in Seq(Threads) /\ NoDuplicates(sq) /\ sq' = emplace(sq, t)
      BY Zenon DEF LockEnqueue, TypeOK, StateOK, Places
    <2>3. /\ emplace(sq, t) \in Seq(Threads) /\ NoDuplicates(emplace(sq, t))
          /\ Range(emplace(sq, t)) = Range(sq) \cup {t}
      BY Zenon, <2>1, <2>2, EmplaceSet
    <2>4. /\ sq' \in Seq(Threads) /\ NoDuplicates(sq')
          /\ Range(sq') = Range(sq) \cup {t}
      BY Zenon, <2>2, <2>3
    <2> QED  BY Zenon, <2>4, EmptyQueue
  <1>1. TypeOK'
    BY Zenon, <1>0, MutexAssumption DEF TypeOK, StateOK, MutexLabels, SchedStates,
       Owners, OwnershipAgrees, InLock, Waiting, LockEnqueue, Goto
  <1>2. Places'
    <2>1. /\ pc[t] = "own" /\ sched[t] = "run" /\ cancel[t] = 1 /\ pc'[t] = "lock_sleep"
          /\ \A u \in Threads : t \notin woken[u]
          /\ \A u \in Threads \ {t} : pc'[u] = pc[u]
          /\ UNCHANGED <<sched, cancel, woken, mutex>>
      BY Zenon DEF LockEnqueue, Goto, TypeOK, WakeupsMatch, InLock, Waiting
    <2>2. ASSUME NEW u \in Range(sq')
          PROVE  (InLock(u)' \/ pc'[u] = "again") /\ sched'[u] # "signal" /\ cancel'[u] # 2
      <3>1. CASE u = t
        BY <2>1, <3>1 DEF InLock
      <3>2. CASE u # t
        <4>1. u \in Range(sq) /\ u \in Threads /\ pc'[u] = pc[u]
          BY Zenon, <1>0, <2>1, <3>2, QueuedThreads
        <4> QED  BY Zenon, <2>1, <4>1 DEF Places, InLock, Waiting
      <3> QED  BY Zenon, <3>1, <3>2
    <2>3. ASSUME NEW u \in Threads
          PROVE  /\ Waiting(u)' => cancel'[u] = 0
                 /\ pc'[u] = "lock_sleep" => sched'[u] = "run" /\ cancel'[u] # 0
                 /\ pc'[u] \in {"unqueue", "sync"} => sched'[u] = "run"
                 /\ pc'[u] = "sync" => u \notin Range(sq')
                 /\ pc'[u] = "unlock_awake" <=> mutex' = u
      <3>1. CASE u = t
        BY <2>1, <3>1 DEF Places, Waiting
      <3>2. CASE u # t
        <4>1. pc'[u] = pc[u] /\ (u \in Range(sq') => u \in Range(sq))
          BY Zenon, <1>0, <2>1, <3>2
        <4> QED  BY Zenon, <2>1, <4>1 DEF Places, Waiting
      <3> QED  BY Zenon, <3>1, <3>2
    <2>4. ASSUME NEW u \in Threads, NEW x \in woken'[u]
          PROVE  /\ pc'[u] = "unlock_awake" /\ InLock(x)' /\ x \notin Range(sq')
                 /\ sched'[x] # "signal" /\ cancel'[x] # 2
      <3>1. x \in woken[u] /\ x \in Threads /\ x # t
        BY Zenon, <2>1, <2>4 DEF TypeOK, StateOK
      <3>2. pc'[x] = pc[x] /\ pc[u] = "unlock_awake" /\ pc'[u] = pc[u]
        BY Zenon, <2>1, <3>1 DEF Places
      <3> QED  BY Zenon, <1>0, <2>1, <3>1, <3>2 DEF Places, InLock, Waiting
    <2> QED  BY <1>0, <2>2, <2>3, <2>4 DEF Places
  <1>3. Owners'
    BY <1>0, MutexAssumption DEF TypeOK, StateOK, Places, Owners,
       OwnershipAgrees, InLock, Waiting, LockEnqueue, Goto
  <1>4. OwnershipAgrees'
    <2>1. /\ owner # t /\ depth[t] = 0 /\ owner # None /\ alive
          /\ pc[t] = "own" /\ pc' = [pc EXCEPT ![t] = "lock_sleep"]
          /\ UNCHANGED <<alive, owner, lock_count, depth>>
      BY Zenon, MutexAssumption DEF TypeOK, StateOK, Owners, OwnershipAgrees, InLock,
         Waiting, InIdm, LockEnqueue, Goto
    <2>2. ASSUME NEW u \in Threads
          PROVE  IF InLock(u)'
                 THEN depth'[u] = 0 /\ (owner' = u <=> u \notin Range(sq'))
                 ELSE depth'[u] = IF owner' = u THEN lock_count' + 1 ELSE 0
      <3>1. CASE u = t
        BY Zenon, <1>0, <2>1, <3>1 DEF TypeOK, InLock, Waiting
      <3>2. CASE u # t
        <4>1. pc'[u] = pc[u] /\ (u \in Range(sq') <=> u \in Range(sq))
          BY Zenon, <1>0, <2>1, <3>2 DEF TypeOK
        <4> QED  BY Zenon, <2>1, <4>1 DEF OwnershipAgrees, InLock, Waiting
      <3> QED  BY Zenon, <3>1, <3>2
    <2> QED  BY Zenon, <1>1, <2>1, <2>2 DEF OwnershipAgrees
  <1>5. WakeupsMatch'
    BY <1>0, MutexAssumption DEF TypeOK, StateOK, Places, WakeupsMatch,
       InLock, Waiting, LockEnqueue, Goto
  <1> QED  BY Zenon, <1>1, <1>2, <1>3, <1>4, <1>5 DEF IInv

\* LockSleep preserves the inductive invariant.
LEMMA LockSleepPreserves ==
  ASSUME IInv, NEW t \in Threads, LockSleep(t)
  PROVE  IInv'
  <1> SUFFICES ASSUME TypeOK, Places, Owners, OwnershipAgrees, WakeupsMatch
               PROVE  IInv'
    BY Zenon DEF IInv
  <1>1. TypeOK'
    BY MutexAssumption DEF TypeOK, StateOK, MutexLabels, SchedStates, Owners,
       OwnershipAgrees, InLock, Waiting, LockSleep, Goto, sleep
  <1>2. Places'
    BY MutexAssumption DEF TypeOK, StateOK, Places, WakeupsMatch, InLock,
       Waiting, LockSleep, Goto, sleep
  <1>3. Owners'
    BY MutexAssumption DEF TypeOK, StateOK, Places, Owners, OwnershipAgrees,
       InLock, Waiting, LockSleep, Goto, sleep
  <1>4. OwnershipAgrees'
    BY <1>1, MutexAssumption DEF TypeOK, StateOK, Places, Owners,
       OwnershipAgrees, InLock, Waiting, InIdm, LockSleep, Goto, sleep
  <1>5. WakeupsMatch'
    BY MutexAssumption DEF TypeOK, StateOK, Places, WakeupsMatch, InLock,
       Waiting, LockSleep, Goto, sleep
  <1> QED  BY Zenon, <1>1, <1>2, <1>3, <1>4, <1>5 DEF IInv

\* LockSleepCancelled preserves the inductive invariant.
LEMMA LockSleepCancelledPreserves ==
  ASSUME IInv, NEW t \in Threads, LockSleepCancelled(t)
  PROVE  IInv'
  <1> SUFFICES ASSUME TypeOK, Places, Owners, OwnershipAgrees, WakeupsMatch
               PROVE  IInv'
    BY Zenon DEF IInv
  <1>1. TypeOK'
    BY MutexAssumption DEF TypeOK, StateOK, MutexLabels, SchedStates, Owners,
       OwnershipAgrees, InLock, Waiting, LockSleepCancelled, Acquired, Return,
       sleep, check_state
  <1>2. Places'
    BY MutexAssumption DEF TypeOK, StateOK, Places, WakeupsMatch, InLock,
       Waiting, LockSleepCancelled, Acquired, Return, sleep, check_state
  <1>3. Owners'
    BY Zenon, MutexAssumption DEF TypeOK, StateOK, Places, Owners, OwnershipAgrees,
       InLock, Waiting, LockSleepCancelled, Acquired, Return, sleep,
       check_state
  <1>4. OwnershipAgrees'
    BY <1>1, MutexAssumption DEF TypeOK, StateOK, Places, Owners,
       OwnershipAgrees, InLock, Waiting, InIdm, LockSleepCancelled, Acquired,
       Return, sleep, check_state
  <1>5. WakeupsMatch'
    BY MutexAssumption DEF TypeOK, StateOK, Places, WakeupsMatch, InLock,
       Waiting, LockSleepCancelled, Acquired, Return, sleep, check_state
  <1> QED  BY Zenon, <1>1, <1>2, <1>3, <1>4, <1>5 DEF IInv

\* LockSignaled preserves the inductive invariant.
LEMMA LockSignaledPreserves ==
  ASSUME IInv, NEW t \in Threads, LockSignaled(t)
  PROVE  IInv'
  <1> SUFFICES ASSUME TypeOK, Places, Owners, OwnershipAgrees, WakeupsMatch
               PROVE  IInv'
    BY Zenon DEF IInv
  <1>1. TypeOK'
    BY Zenon, MutexAssumption DEF TypeOK, StateOK, MutexLabels, SchedStates, Owners,
       OwnershipAgrees, InLock, Waiting, LockSignaled, Acquired, Return
  <1>2. Places'
    BY MutexAssumption DEF TypeOK, StateOK, Places, WakeupsMatch, InLock,
       Waiting, LockSignaled, Acquired, Return
  <1>3. Owners'
    BY MutexAssumption DEF TypeOK, StateOK, Places, Owners, OwnershipAgrees,
       InLock, Waiting, LockSignaled, Acquired, Return
  <1>4. OwnershipAgrees'
    BY <1>1, MutexAssumption DEF TypeOK, StateOK, Places, Owners,
       OwnershipAgrees, InLock, Waiting, InIdm, LockSignaled, Acquired, Return
  <1>5. WakeupsMatch'
    BY MutexAssumption DEF TypeOK, StateOK, Places, WakeupsMatch, InLock,
       Waiting, LockSignaled, Acquired, Return
  <1> QED  BY Zenon, <1>1, <1>2, <1>3, <1>4, <1>5 DEF IInv

\* LockStopped preserves the inductive invariant.
LEMMA LockStoppedPreserves ==
  ASSUME IInv, NEW t \in Threads, LockStopped(t)
  PROVE  IInv'
  <1> SUFFICES ASSUME TypeOK, Places, Owners, OwnershipAgrees, WakeupsMatch
               PROVE  IInv'
    BY Zenon DEF IInv
  <1>1. TypeOK'
    BY Zenon, MutexAssumption DEF TypeOK, StateOK, MutexLabels, SchedStates, Owners,
       OwnershipAgrees, InLock, Waiting, LockStopped, ReturnAgain
  <1>2. Places'
    BY MutexAssumption DEF TypeOK, StateOK, Places, WakeupsMatch, InLock,
       Waiting, LockStopped, ReturnAgain
  <1>3. Owners'
    BY MutexAssumption DEF TypeOK, StateOK, Places, Owners, OwnershipAgrees,
       InLock, Waiting, LockStopped, ReturnAgain
  <1>4. OwnershipAgrees'
    BY <1>1, MutexAssumption DEF TypeOK, StateOK, Places, Owners,
       OwnershipAgrees, InLock, Waiting, InIdm, LockStopped, ReturnAgain
  <1>5. WakeupsMatch'
    BY MutexAssumption DEF TypeOK, StateOK, Places, WakeupsMatch, InLock,
       Waiting, LockStopped, ReturnAgain
  <1> QED  BY Zenon, <1>1, <1>2, <1>3, <1>4, <1>5 DEF IInv

\* LockStoppedGranted preserves the inductive invariant.
LEMMA LockStoppedGrantedPreserves ==
  ASSUME IInv, NEW t \in Threads, LockStoppedGranted(t)
  PROVE  IInv'
  <1> SUFFICES ASSUME TypeOK, Places, Owners, OwnershipAgrees, WakeupsMatch
               PROVE  IInv'
    BY Zenon DEF IInv
  <1>1. TypeOK'
    BY Zenon, MutexAssumption DEF TypeOK, StateOK, MutexLabels, SchedStates, Owners,
       OwnershipAgrees, InLock, Waiting, LockStoppedGranted, Acquired, Return
  <1>2. Places'
    BY MutexAssumption DEF TypeOK, StateOK, Places, WakeupsMatch, InLock,
       Waiting, LockStoppedGranted, Acquired, Return
  <1>3. Owners'
    BY MutexAssumption DEF TypeOK, StateOK, Places, Owners, OwnershipAgrees,
       InLock, Waiting, LockStoppedGranted, Acquired, Return
  <1>4. OwnershipAgrees'
    BY <1>1, MutexAssumption DEF TypeOK, StateOK, Places, Owners,
       OwnershipAgrees, InLock, Waiting, InIdm, LockStoppedGranted, Acquired,
       Return
  <1>5. WakeupsMatch'
    BY MutexAssumption DEF TypeOK, StateOK, Places, WakeupsMatch, InLock,
       Waiting, LockStoppedGranted, Acquired, Return
  <1> QED  BY Zenon, <1>1, <1>2, <1>3, <1>4, <1>5 DEF IInv

\* LockTimeout preserves the inductive invariant.
LEMMA LockTimeoutPreserves ==
  ASSUME IInv, NEW t \in Threads, LockTimeout(t)
  PROVE  IInv'
  <1> SUFFICES ASSUME TypeOK, Places, Owners, OwnershipAgrees, WakeupsMatch
               PROVE  IInv'
    BY Zenon DEF IInv
  <1>1. TypeOK'
    BY Zenon, MutexAssumption DEF TypeOK, StateOK, MutexLabels, SchedStates, Owners,
       OwnershipAgrees, InLock, Waiting, LockTimeout, Goto
  <1>2. Places'
    BY MutexAssumption DEF TypeOK, StateOK, Places, WakeupsMatch, InLock,
       Waiting, LockTimeout, Goto
  <1>3. Owners'
    BY MutexAssumption DEF TypeOK, StateOK, Places, Owners, OwnershipAgrees,
       InLock, Waiting, LockTimeout, Goto
  <1>4. OwnershipAgrees'
    BY <1>1, MutexAssumption DEF TypeOK, StateOK, Places, Owners,
       OwnershipAgrees, InLock, Waiting, InIdm, LockTimeout, Goto
  <1>5. WakeupsMatch'
    BY MutexAssumption DEF TypeOK, StateOK, Places, WakeupsMatch, InLock,
       Waiting, LockTimeout, Goto
  <1> QED  BY Zenon, <1>1, <1>2, <1>3, <1>4, <1>5 DEF IInv

\* LockCheckState preserves the inductive invariant.
LEMMA LockCheckStatePreserves ==
  ASSUME IInv, NEW t \in Threads, LockCheckState(t)
  PROVE  IInv'
  <1> SUFFICES ASSUME TypeOK, Places, Owners, OwnershipAgrees, WakeupsMatch
               PROVE  IInv'
    BY Zenon DEF IInv
  <1>1. TypeOK'
    BY Zenon, MutexAssumption DEF TypeOK, StateOK, MutexLabels, SchedStates, Owners,
       OwnershipAgrees, InLock, Waiting, LockCheckState, Goto, check_state
  <1>2. Places'
    BY MutexAssumption DEF TypeOK, StateOK, Places, WakeupsMatch, InLock,
       Waiting, LockCheckState, Goto, check_state
  <1>3. Owners'
    BY MutexAssumption DEF TypeOK, StateOK, Places, Owners, OwnershipAgrees,
       InLock, Waiting, LockCheckState, Goto, check_state
  <1>4. OwnershipAgrees'
    BY <1>1, MutexAssumption DEF TypeOK, StateOK, Places, Owners,
       OwnershipAgrees, InLock, Waiting, InIdm, LockCheckState, Goto,
       check_state
  <1>5. WakeupsMatch'
    BY MutexAssumption DEF TypeOK, StateOK, Places, WakeupsMatch, InLock,
       Waiting, LockCheckState, Goto, check_state
  <1> QED  BY Zenon, <1>1, <1>2, <1>3, <1>4, <1>5 DEF IInv

\* LockCheckStateStopped preserves the inductive invariant.
LEMMA LockCheckStateStoppedPreserves ==
  ASSUME IInv, NEW t \in Threads, LockCheckStateStopped(t)
  PROVE  IInv'
  <1> SUFFICES ASSUME TypeOK, Places, Owners, OwnershipAgrees, WakeupsMatch
               PROVE  IInv'
    BY Zenon DEF IInv
  <1>1. TypeOK'
    BY Zenon, MutexAssumption DEF TypeOK, StateOK, MutexLabels, SchedStates, Owners,
       OwnershipAgrees, InLock, Waiting, LockCheckStateStopped, Goto
  <1>2. Places'
    BY MutexAssumption DEF TypeOK, StateOK, Places, WakeupsMatch, InLock,
       Waiting, LockCheckStateStopped, Goto
  <1>3. Owners'
    BY MutexAssumption DEF TypeOK, StateOK, Places, Owners, OwnershipAgrees,
       InLock, Waiting, LockCheckStateStopped, Goto
  <1>4. OwnershipAgrees'
    BY <1>1, MutexAssumption DEF TypeOK, StateOK, Places, Owners,
       OwnershipAgrees, InLock, Waiting, InIdm, LockCheckStateStopped, Goto
  <1>5. WakeupsMatch'
    BY MutexAssumption DEF TypeOK, StateOK, Places, WakeupsMatch, InLock,
       Waiting, LockCheckStateStopped, Goto
  <1> QED  BY Zenon, <1>1, <1>2, <1>3, <1>4, <1>5 DEF IInv

\* LockCheckStateAwake preserves the inductive invariant.
LEMMA LockCheckStateAwakePreserves ==
  ASSUME IInv, NEW t \in Threads, LockCheckStateAwake(t)
  PROVE  IInv'
  <1> SUFFICES ASSUME TypeOK, Places, Owners, OwnershipAgrees, WakeupsMatch
               PROVE  IInv'
    BY Zenon DEF IInv
  <1>1. TypeOK'
    BY Zenon, MutexAssumption DEF TypeOK, StateOK, MutexLabels, SchedStates, Owners,
       OwnershipAgrees, InLock, Waiting, LockCheckStateAwake, Goto,
       check_state
  <1>2. Places'
    BY MutexAssumption DEF TypeOK, StateOK, Places, WakeupsMatch, InLock,
       Waiting, LockCheckStateAwake, Goto, check_state
  <1>3. Owners'
    BY MutexAssumption DEF TypeOK, StateOK, Places, Owners, OwnershipAgrees,
       InLock, Waiting, LockCheckStateAwake, Goto, check_state
  <1>4. OwnershipAgrees'
    BY <1>1, MutexAssumption DEF TypeOK, StateOK, Places, Owners,
       OwnershipAgrees, InLock, Waiting, InIdm, LockCheckStateAwake, Goto,
       check_state
  <1>5. WakeupsMatch'
    BY MutexAssumption DEF TypeOK, StateOK, Places, WakeupsMatch, InLock,
       Waiting, LockCheckStateAwake, Goto, check_state
  <1> QED  BY Zenon, <1>1, <1>2, <1>3, <1>4, <1>5 DEF IInv

\* LockQueueEmpty preserves the inductive invariant.
LEMMA LockQueueEmptyPreserves ==
  ASSUME IInv, NEW t \in Threads, LockQueueEmpty(t)
  PROVE  IInv'
  <1> SUFFICES ASSUME TypeOK, Places, Owners, OwnershipAgrees, WakeupsMatch
               PROVE  IInv'
    BY Zenon DEF IInv
  <1>0. sq = <<>> <=> Range(sq) = {}
    BY Zenon, EmptyQueue DEF TypeOK, StateOK
  <1>1. TypeOK'
    BY Zenon, <1>0, MutexAssumption DEF TypeOK, StateOK, MutexLabels, SchedStates,
       Owners, OwnershipAgrees, InLock, Waiting, LockQueueEmpty, Goto
  <1>2. Places'
    BY <1>0, MutexAssumption DEF TypeOK, StateOK, Places, WakeupsMatch,
       InLock, Waiting, LockQueueEmpty, Goto
  <1>3. Owners'
    BY <1>0, MutexAssumption DEF TypeOK, StateOK, Places, Owners,
       OwnershipAgrees, InLock, Waiting, LockQueueEmpty, Goto
  <1>4. OwnershipAgrees'
    BY <1>0, <1>1, MutexAssumption DEF TypeOK, StateOK, Places, Owners,
       OwnershipAgrees, InLock, Waiting, InIdm, LockQueueEmpty, Goto
  <1>5. WakeupsMatch'
    BY <1>0, MutexAssumption DEF TypeOK, StateOK, Places, WakeupsMatch,
       InLock, Waiting, LockQueueEmpty, Goto
  <1> QED  BY Zenon, <1>1, <1>2, <1>3, <1>4, <1>5 DEF IInv

\* LockSync preserves the inductive invariant.
LEMMA LockSyncPreserves ==
  ASSUME IInv, NEW t \in Threads, LockSync(t)
  PROVE  IInv'
  <1> SUFFICES ASSUME TypeOK, Places, Owners, OwnershipAgrees, WakeupsMatch
               PROVE  IInv'
    BY Zenon DEF IInv
  <1>1. TypeOK'
    BY Zenon, MutexAssumption DEF TypeOK, StateOK, MutexLabels, SchedStates, Owners,
       OwnershipAgrees, InLock, Waiting, LockSync, Acquired, Return
  <1>2. Places'
    BY MutexAssumption DEF TypeOK, StateOK, Places, WakeupsMatch, InLock,
       Waiting, LockSync, Acquired, Return
  <1>3. Owners'
    BY MutexAssumption DEF TypeOK, StateOK, Places, Owners, OwnershipAgrees,
       InLock, Waiting, LockSync, Acquired, Return
  <1>4. OwnershipAgrees'
    BY <1>1, MutexAssumption DEF TypeOK, StateOK, Places, Owners,
       OwnershipAgrees, InLock, Waiting, InIdm, LockSync, Acquired, Return
  <1>5. WakeupsMatch'
    BY MutexAssumption DEF TypeOK, StateOK, Places, WakeupsMatch, InLock,
       Waiting, LockSync, Acquired, Return
  <1> QED  BY Zenon, <1>1, <1>2, <1>3, <1>4, <1>5 DEF IInv

\* LockUnqueue preserves the inductive invariant.
LEMMA LockUnqueuePreserves ==
  ASSUME IInv, NEW t \in Threads, LockUnqueue(t)
  PROVE  IInv'
  <1> SUFFICES ASSUME TypeOK, Places, Owners, OwnershipAgrees, WakeupsMatch
               PROVE  IInv'
    BY Zenon DEF IInv
  <1>0. /\ sq' \in Seq(Threads) /\ NoDuplicates(sq') /\ Range(sq') = Range(sq) \ {t}
        /\ sq # <<>> /\ t \in Range(sq)
    <2>1. sq' \in Seq(Threads) /\ NoDuplicates(sq') /\ Range(sq') = Range(sq) \ {t}
      BY UnqueueSet DEF LockUnqueue, TypeOK, StateOK, Places
    <2> QED  BY Zenon, <2>1, EmptyQueue DEF LockUnqueue, TypeOK, StateOK
  <1>1. TypeOK'
    BY Zenon, <1>0, MutexAssumption DEF TypeOK, StateOK, MutexLabels, SchedStates,
       Owners, OwnershipAgrees, InLock, Waiting, LockUnqueue, Return
  <1>2. Places'
    BY <1>0, MutexAssumption DEF TypeOK, StateOK, Places, WakeupsMatch,
       InLock, Waiting, LockUnqueue, Return
  <1>3. Owners'
    BY <1>0, MutexAssumption DEF TypeOK, StateOK, Places, Owners,
       OwnershipAgrees, InLock, Waiting, LockUnqueue, Return
  <1>4. OwnershipAgrees'
    BY <1>0, <1>1, MutexAssumption DEF TypeOK, StateOK, Places, Owners,
       OwnershipAgrees, InLock, Waiting, InIdm, LockUnqueue, Return
  <1>5. WakeupsMatch'
    BY <1>0, MutexAssumption DEF TypeOK, StateOK, Places, WakeupsMatch,
       InLock, Waiting, LockUnqueue, Return
  <1> QED  BY Zenon, <1>1, <1>2, <1>3, <1>4, <1>5 DEF IInv

\* LockUnqueueLate preserves the inductive invariant.
LEMMA LockUnqueueLatePreserves ==
  ASSUME IInv, NEW t \in Threads, LockUnqueueLate(t)
  PROVE  IInv'
  <1> SUFFICES ASSUME TypeOK, Places, Owners, OwnershipAgrees, WakeupsMatch
               PROVE  IInv'
    BY Zenon DEF IInv
  <1>1. TypeOK'
    BY Zenon, MutexAssumption DEF TypeOK, StateOK, MutexLabels, SchedStates, Owners,
       OwnershipAgrees, InLock, Waiting, LockUnqueueLate, Acquired, Return
  <1>2. Places'
    BY MutexAssumption DEF TypeOK, StateOK, Places, WakeupsMatch, InLock,
       Waiting, LockUnqueueLate, Acquired, Return
  <1>3. Owners'
    BY MutexAssumption DEF TypeOK, StateOK, Places, Owners, OwnershipAgrees,
       InLock, Waiting, LockUnqueueLate, Acquired, Return
  <1>4. OwnershipAgrees'
    BY <1>1, MutexAssumption DEF TypeOK, StateOK, Places, Owners,
       OwnershipAgrees, InLock, Waiting, InIdm, LockUnqueueLate, Acquired,
       Return
  <1>5. WakeupsMatch'
    BY MutexAssumption DEF TypeOK, StateOK, Places, WakeupsMatch, InLock,
       Waiting, LockUnqueueLate, Acquired, Return
  <1> QED  BY Zenon, <1>1, <1>2, <1>3, <1>4, <1>5 DEF IInv

\* UnlockRecursive preserves the inductive invariant.
LEMMA UnlockRecursivePreserves ==
  ASSUME IInv, NEW t \in Threads, UnlockRecursive(t)
  PROVE  IInv'
  <1> SUFFICES ASSUME TypeOK, Places, Owners, OwnershipAgrees, WakeupsMatch
               PROVE  IInv'
    BY Zenon DEF IInv
  <1>1. TypeOK'
    BY MutexAssumption DEF TypeOK, StateOK, MutexLabels, SchedStates, Owners,
       OwnershipAgrees, InLock, Waiting, UnlockRecursive
  <1>2. Places'
    BY MutexAssumption DEF TypeOK, StateOK, Places, WakeupsMatch, InLock,
       Waiting, UnlockRecursive
  <1>3. Owners'
    BY Zenon, MutexAssumption DEF TypeOK, StateOK, Places, Owners, OwnershipAgrees,
       InLock, Waiting, UnlockRecursive
  <1>4. OwnershipAgrees'
    BY <1>1, MutexAssumption DEF TypeOK, StateOK, Places, Owners,
       OwnershipAgrees, InLock, Waiting, InIdm, UnlockRecursive
  <1>5. WakeupsMatch'
    BY Zenon, MutexAssumption DEF TypeOK, StateOK, Places, WakeupsMatch, InLock,
       Waiting, UnlockRecursive
  <1> QED  BY Zenon, <1>1, <1>2, <1>3, <1>4, <1>5 DEF IInv

\* UnlockFast preserves the inductive invariant.
LEMMA UnlockFastPreserves ==
  ASSUME IInv, NEW t \in Threads, UnlockFast(t)
  PROVE  IInv'
  <1> SUFFICES ASSUME TypeOK, Places, Owners, OwnershipAgrees, WakeupsMatch
               PROVE  IInv'
    BY Zenon DEF IInv
  <1>0. sq = <<>> <=> Range(sq) = {}
    BY Zenon, EmptyQueue DEF TypeOK, StateOK
  <1>1. TypeOK'
    BY Zenon, <1>0, MutexAssumption DEF TypeOK, StateOK, MutexLabels, SchedStates,
       Owners, OwnershipAgrees, InLock, Waiting, UnlockFast
  <1>2. Places'
    BY <1>0, MutexAssumption DEF TypeOK, StateOK, Places, WakeupsMatch,
       InLock, Waiting, UnlockFast
  <1>3. Owners'
    BY Zenon, <1>0, MutexAssumption DEF TypeOK, StateOK, Places, Owners,
       OwnershipAgrees, InLock, Waiting, UnlockFast
  <1>4. OwnershipAgrees'
    BY <1>0, <1>1, MutexAssumption DEF TypeOK, StateOK, Places, Owners,
       OwnershipAgrees, InLock, Waiting, InIdm, UnlockFast
  <1>5. WakeupsMatch'
    BY Zenon, <1>0, MutexAssumption DEF TypeOK, StateOK, Places, WakeupsMatch,
       InLock, Waiting, UnlockFast
  <1> QED  BY Zenon, <1>1, <1>2, <1>3, <1>4, <1>5 DEF IInv

\* UnlockBusy preserves the inductive invariant.
LEMMA UnlockBusyPreserves ==
  ASSUME IInv, NEW t \in Threads, UnlockBusy(t)
  PROVE  IInv'
  <1> SUFFICES ASSUME TypeOK, Places, Owners, OwnershipAgrees, WakeupsMatch
               PROVE  IInv'
    BY Zenon DEF IInv
  <1>0. sq = <<>> <=> Range(sq) = {}
    BY Zenon, EmptyQueue DEF TypeOK, StateOK
  <1>1. TypeOK'
    BY Zenon, <1>0, MutexAssumption DEF TypeOK, StateOK, MutexLabels, SchedStates,
       Owners, OwnershipAgrees, InLock, Waiting, UnlockBusy, Goto
  <1>2. Places'
    BY <1>0, MutexAssumption DEF TypeOK, StateOK, Places, WakeupsMatch,
       InLock, Waiting, UnlockBusy, Goto
  <1>3. Owners'
    BY <1>0, MutexAssumption DEF TypeOK, StateOK, Places, Owners,
       OwnershipAgrees, InLock, Waiting, UnlockBusy, Goto
  <1>4. OwnershipAgrees'
    BY <1>0, <1>1, MutexAssumption DEF TypeOK, StateOK, Places, Owners,
       OwnershipAgrees, InLock, Waiting, InIdm, UnlockBusy, Goto
  <1>5. WakeupsMatch'
    BY <1>0, MutexAssumption DEF TypeOK, StateOK, Places, WakeupsMatch,
       InLock, Waiting, UnlockBusy, Goto
  <1> QED  BY Zenon, <1>1, <1>2, <1>3, <1>4, <1>5 DEF IInv

\* UnlockRelease preserves the inductive invariant.
LEMMA UnlockReleasePreserves ==
  ASSUME IInv, NEW t \in Threads, UnlockRelease(t)
  PROVE  IInv'
  <1> SUFFICES ASSUME TypeOK, Places, Owners, OwnershipAgrees, WakeupsMatch
               PROVE  IInv'
    BY Zenon DEF IInv
  <1>0. sq = <<>> <=> Range(sq) = {}
    BY Zenon, EmptyQueue DEF TypeOK, StateOK
  <1>1. TypeOK'
    BY Zenon, <1>0, MutexAssumption DEF TypeOK, StateOK, MutexLabels, SchedStates,
       Owners, OwnershipAgrees, InLock, Waiting, UnlockRelease, Return
  <1>2. Places'
    BY <1>0, MutexAssumption DEF TypeOK, StateOK, Places, WakeupsMatch,
       InLock, Waiting, UnlockRelease, Return
  <1>3. Owners'
    BY <1>0, MutexAssumption DEF TypeOK, StateOK, Places, Owners,
       OwnershipAgrees, InLock, Waiting, UnlockRelease, Return
  <1>4. OwnershipAgrees'
    BY <1>0, <1>1, MutexAssumption DEF TypeOK, StateOK, Places, Owners,
       OwnershipAgrees, InLock, Waiting, InIdm, UnlockRelease, Return
  <1>5. WakeupsMatch'
    BY <1>0, MutexAssumption DEF TypeOK, StateOK, Places, WakeupsMatch,
       InLock, Waiting, UnlockRelease, Return
  <1> QED  BY Zenon, <1>1, <1>2, <1>3, <1>4, <1>5 DEF IInv

\* UnlockAgain preserves the inductive invariant.
LEMMA UnlockAgainPreserves ==
  ASSUME IInv, NEW t \in Threads, UnlockAgain(t)
  PROVE  IInv'
  <1> SUFFICES ASSUME TypeOK, Places, Owners, OwnershipAgrees, WakeupsMatch
               PROVE  IInv'
    BY Zenon DEF IInv
  <1>1. TypeOK'
    BY Zenon, MutexAssumption DEF TypeOK, StateOK, MutexLabels, SchedStates, Owners,
       OwnershipAgrees, InLock, Waiting, UnlockAgain, ReturnAgain
  <1>2. Places'
    BY MutexAssumption DEF TypeOK, StateOK, Places, WakeupsMatch, InLock,
       Waiting, UnlockAgain, ReturnAgain
  <1>3. Owners'
    BY Zenon, MutexAssumption DEF TypeOK, StateOK, Places, Owners, OwnershipAgrees,
       InLock, Waiting, UnlockAgain, ReturnAgain
  <1>4. OwnershipAgrees'
    BY <1>1, MutexAssumption DEF TypeOK, StateOK, Places, Owners,
       OwnershipAgrees, InLock, Waiting, InIdm, UnlockAgain, ReturnAgain
  <1>5. WakeupsMatch'
    BY MutexAssumption DEF TypeOK, StateOK, Places, WakeupsMatch, InLock,
       Waiting, UnlockAgain, ReturnAgain
  <1> QED  BY Zenon, <1>1, <1>2, <1>3, <1>4, <1>5 DEF IInv

\* UnlockReown preserves the inductive invariant.
LEMMA UnlockReownPreserves ==
  ASSUME IInv, NEW t \in Threads, UnlockReown(t)
  PROVE  IInv'
  <1> SUFFICES ASSUME TypeOK, Places, Owners, OwnershipAgrees, WakeupsMatch
               PROVE  IInv'
    BY Zenon DEF IInv
  <1>a. PICK i \in DOMAIN sq :
          Reowns(i) /\ owner' = sq[i] /\ sq' = RemoveAt(sq, i)
            /\ woken' = [woken EXCEPT ![t] = {sq[i]}]
    BY Zenon DEF UnlockReown
  <1> DEFINE n == sq[i]
  <1>0. /\ n \in Range(sq) /\ n \in Threads /\ pc[n] # "again"
        /\ owner' = n /\ woken' = [woken EXCEPT ![t] = {n}]
        /\ sq' \in Seq(Threads) /\ NoDuplicates(sq') /\ Range(sq') = Range(sq) \ {n}
    <2>1. sq \in Seq(Threads) /\ NoDuplicates(sq)
      BY Zenon DEF TypeOK, StateOK, Places
    <2>2. n \in Range(sq) /\ n \in Threads
      BY <2>1 DEF Range
    <2>3. /\ RemoveAt(sq, i) \in Seq(Threads) /\ NoDuplicates(RemoveAt(sq, i))
          /\ Range(RemoveAt(sq, i)) = Range(sq) \ {n}
      BY Zenon, <2>1, RemoveAtElements, RemoveAtSet
    <2> QED  BY Zenon, <1>a, <2>2, <2>3 DEF Reowns
  <1> HIDE DEF n
  <1>m. /\ pc[t] = "unlock" /\ mutex = None /\ depth' = [depth EXCEPT ![t] = 0]
        /\ mutex' = t /\ pc' = [pc EXCEPT ![t] = "unlock_awake"]
        /\ UNCHANGED <<alive, lock_count, cond_count, sched, cancel, timed, stopped>>
    BY Zenon DEF UnlockReown, Goto
  <1>w. \A u \in Threads : woken[u] = {} /\ woken'[u] = IF u = t THEN {n} ELSE {}
    BY Zenon, <1>0, <1>m, MutexAssumption DEF TypeOK, StateOK, Places
  <1>n. InLock(n) /\ n # t /\ sched[n] # "signal" /\ cancel[n] # 2
    BY Zenon, <1>0, <1>m DEF Places, InLock, Waiting
  <1>p. pc'[t] = "unlock_awake" /\ \A u \in Threads \ {t} : pc'[u] = pc[u]
    BY Zenon, <1>m DEF TypeOK
  <1>q. \A u \in Threads : InLock(u)' <=> InLock(u)
    BY Zenon, <1>m, <1>p DEF InLock, Waiting
  <1>1. TypeOK'
    BY <1>0, <1>m, <1>w, <1>n, <1>p, <1>q, MutexAssumption DEF TypeOK,
       StateOK, MutexLabels, SchedStates, Owners, OwnershipAgrees, InLock,
       Waiting, MutexLabels
  <1>2. Places'
    <2>1. /\ NoDuplicates(sq')
          /\ \A u \in Range(sq') : InLock(u)' \/ pc'[u] = "again"
          /\ \A u \in Range(sq') : sched'[u] # "signal" /\ cancel'[u] # 2
      <3>1. ASSUME NEW u \in Range(sq')
            PROVE  (InLock(u)' \/ pc'[u] = "again") /\ sched'[u] # "signal" /\ cancel'[u] # 2
        <4>1. u \in Threads /\ u \in Range(sq) /\ u # t
          BY Zenon, <1>0, <1>m, QueuedThreads DEF Places, InLock, Waiting
        <4> QED  BY Zenon, <1>m, <1>p, <1>q, <4>1 DEF Places
      <3> QED  BY Zenon, <1>0, <3>1
    <2>2. ASSUME NEW u \in Threads
          PROVE  /\ Waiting(u)' => cancel'[u] = 0
                 /\ pc'[u] = "lock_sleep" => sched'[u] = "run" /\ cancel'[u] # 0
                 /\ pc'[u] \in {"unqueue", "sync"} => sched'[u] = "run"
                 /\ pc'[u] = "sync" => u \notin Range(sq')
                 /\ pc'[u] = "unlock_awake" <=> mutex' = u
      <3>1. CASE u = t
        BY Zenon, <1>m, <1>p, <3>1 DEF Waiting
      <3>2. CASE u # t
        <4>1. pc'[u] = pc[u]
          BY Zenon, <1>p, <3>2
        <4>2. pc[u] # "unlock_awake"
          BY Zenon, <1>m, MutexAssumption DEF Places
        <4> QED  BY Zenon, <1>0, <1>m, <3>2, <4>1, <4>2 DEF Places, Waiting
      <3> QED  BY Zenon, <3>1, <3>2
    <2>3. ASSUME NEW u \in Threads, NEW x \in woken'[u]
          PROVE  /\ pc'[u] = "unlock_awake" /\ InLock(x)' /\ x \notin Range(sq')
                 /\ sched'[x] # "signal" /\ cancel'[x] # 2
      <3>1. u = t /\ x = n
        BY Zenon, <1>w
      <3> QED  BY Zenon, <1>0, <1>m, <1>n, <1>p, <1>q, <3>1
    <2> QED  BY <2>1, <2>2, <2>3 DEF Places
  <1>3. owner = t /\ lock_count = 0 /\ lock_count' = 0 /\ alive /\ ~InLock(t)
    BY Zenon, <1>m, MutexAssumption DEF Owners, OwnershipAgrees, InLock, Waiting
  <1>4. Owners'
    <2>1. ASSUME NEW u \in Threads
          PROVE  (pc'[u] = "own" => u # n) /\ pc'[u] # "unlock"
      <3>1. CASE u = t
        BY Zenon, <1>p, <3>1
      <3>2. CASE u # t
        <4>1. pc'[u] = pc[u] /\ pc[u] # "unlock"
          BY Zenon, <1>3, <1>p, <3>2 DEF Owners
        <4> QED  BY Zenon, <1>n, <4>1 DEF InLock, Waiting
      <3> QED  BY Zenon, <3>1, <3>2
    <2>2. owner' = n
      BY Zenon, <1>0
    <2> QED  BY Zenon, <1>3, <2>1, <2>2 DEF Owners
  <1>6. OwnershipAgrees'
    <2>1. ASSUME NEW u \in Threads
          PROVE  IF InLock(u)'
                 THEN depth'[u] = 0 /\ (owner' = u <=> u \notin Range(sq'))
                 ELSE depth'[u] = IF owner' = u THEN lock_count' + 1 ELSE 0
      <3>1. depth'[u] = IF u = t THEN 0 ELSE depth[u]
        BY Zenon, <1>m DEF TypeOK, StateOK
      <3>2. CASE InLock(u)
        <4>1. u # t /\ depth[u] = 0 /\ u \in Range(sq)
          BY Zenon, <1>3, <3>2 DEF OwnershipAgrees
        <4> QED  BY Zenon, <1>0, <1>q, <3>1, <3>2, <4>1
      <3>3. CASE ~InLock(u)
        <4>1. u # n /\ (u # t => depth[u] = 0)
          BY Zenon, <1>3, <1>n, <3>3 DEF OwnershipAgrees
        <4> QED  BY Zenon, <1>0, <1>q, <3>1, <3>3, <4>1
      <3> QED  BY Zenon, <3>2, <3>3
    <2>2. alive' /\ owner' # None
      BY Zenon, <1>0, <1>3, <1>m, MutexAssumption
    <2> QED  BY Zenon, <1>1, <2>1, <2>2 DEF OwnershipAgrees
  <1>5. WakeupsMatch'
    BY <1>0, <1>m, <1>w, <1>n, <1>p, <1>q, MutexAssumption DEF TypeOK,
       StateOK, Places, WakeupsMatch, InLock, Waiting, MutexLabels
  <1> QED  BY Zenon, <1>1, <1>2, <1>4, <1>5, <1>6 DEF IInv

\* UnlockAwake preserves the inductive invariant.
LEMMA UnlockAwakePreserves ==
  ASSUME IInv, NEW t \in Threads, UnlockAwake(t)
  PROVE  IInv'
  <1> SUFFICES ASSUME TypeOK, Places, Owners, OwnershipAgrees, WakeupsMatch
               PROVE  IInv'
    BY Zenon DEF IInv
  <1>0. /\ pc[t] = "unlock_awake" /\ mutex = t /\ mutex' = None
        /\ \A u \in Threads : woken'[u] = {} /\ (woken[u] # {} => u = t)
        /\ pc'[t] \in {"idle", "halted"} /\ \A u \in Threads \ {t} : pc'[u] = pc[u]
        /\ sq' = sq /\ owner' = owner
        /\ \A u \in Threads \ woken[t] : sched'[u] = sched[u] /\ cancel'[u] = cancel[u]
        /\ \A u \in Threads : (sched[u] # "sleep" => sched'[u] = sched[u])
                              /\ (cancel[u] # 1 => cancel'[u] = cancel[u])
                              /\ (cancel[u] # 0 => cancel'[u] # 0)
    BY DEF TypeOK, StateOK, Places, UnlockAwake, Return, awake, awake_cancel
  <1>1. TypeOK'
    BY <1>0, MutexAssumption DEF TypeOK, StateOK, MutexLabels, SchedStates,
       Owners, OwnershipAgrees, InLock, Waiting, UnlockAwake, Return, awake,
       awake_cancel
  <1>2. Places'
    <2>1. ASSUME NEW u \in Range(sq')
          PROVE  (InLock(u)' \/ pc'[u] = "again") /\ sched'[u] # "signal" /\ cancel'[u] # 2
      <3>1. u \in Threads /\ u \in Range(sq) /\ u # t /\ u \notin woken[t]
        BY Zenon, <1>0, QueuedThreads DEF Places, InLock, Waiting
      <3>2. pc'[u] = pc[u] /\ sched'[u] = sched[u] /\ cancel'[u] = cancel[u]
        BY Zenon, <1>0, <3>1
      <3> QED  BY <3>1, <3>2 DEF Places, InLock, Waiting
    <2>2. ASSUME NEW u \in Threads
          PROVE  /\ Waiting(u)' => cancel'[u] = 0
                 /\ pc'[u] = "lock_sleep" => sched'[u] = "run" /\ cancel'[u] # 0
                 /\ pc'[u] \in {"unqueue", "sync"} => sched'[u] = "run"
                 /\ pc'[u] = "sync" => u \notin Range(sq')
                 /\ pc'[u] = "unlock_awake" <=> mutex' = u
      <3>1. CASE u = t
        BY Zenon, <1>0, <3>1, MutexAssumption DEF Waiting
      <3>2. CASE u # t
        <4>1. pc'[u] = pc[u] /\ pc[u] # "unlock_awake" /\ mutex' # u
          BY Zenon, <1>0, <3>2, MutexAssumption DEF Places
        <4> QED  BY <1>0, <3>2, <4>1 DEF Places, Waiting
      <3> QED  BY Zenon, <3>1, <3>2
    <2>3. NoDuplicates(sq')
      BY Zenon, <1>0 DEF Places
    <2> QED  BY Zenon, <1>0, <2>1, <2>2, <2>3 DEF Places
  <1>3. /\ UNCHANGED <<alive, owner, sq, lock_count, depth>>
        /\ \A u \in Threads : /\ InLock(u)' <=> InLock(u)
                              /\ InIdm(u)' => InIdm(u)
                              /\ pc'[u] = "own" => pc[u] = "own"
                              /\ pc'[u] = "unlock" => pc[u] = "unlock"
    <2>1. UNCHANGED <<alive, owner, sq, lock_count, depth>>
      BY Zenon DEF UnlockAwake
    <2>2. ASSUME NEW u \in Threads
          PROVE  /\ InLock(u)' <=> InLock(u)
                 /\ InIdm(u)' => InIdm(u)
                 /\ pc'[u] = "own" => pc[u] = "own"
                 /\ pc'[u] = "unlock" => pc[u] = "unlock"
      <3>1. CASE u = t
        BY Zenon, <1>0, <3>1 DEF InLock, Waiting, InIdm
      <3>2. CASE u # t
        <4>1. pc'[u] = pc[u]
          BY Zenon, <1>0, <3>2
        <4> QED  BY Zenon, <4>1 DEF InLock, Waiting, InIdm
      <3> QED  BY Zenon, <3>1, <3>2
    <2> QED  BY Zenon, <2>1, <2>2
  <1>4. Owners'
    BY Zenon, <1>3 DEF Owners
  <1>6. OwnershipAgrees'
    BY Zenon, <1>1, <1>3 DEF OwnershipAgrees
  <1>5. WakeupsMatch'
    BY <1>0, MutexAssumption DEF TypeOK, StateOK, Places, WakeupsMatch,
       InLock, Waiting, UnlockAwake, Return, awake, awake_cancel
  <1> QED  BY Zenon, <1>1, <1>2, <1>4, <1>5, <1>6 DEF IInv

\* Destroy preserves the inductive invariant.
LEMMA DestroyPreserves ==
  ASSUME IInv, NEW t \in Threads, Destroy(t)
  PROVE  IInv'
  <1> SUFFICES ASSUME TypeOK, Places, Owners, OwnershipAgrees, WakeupsMatch
               PROVE  IInv'
    BY Zenon DEF IInv
  <1>1. TypeOK'
    BY Zenon, MutexAssumption DEF TypeOK, StateOK, MutexLabels, SchedStates, Owners,
       OwnershipAgrees, InLock, Waiting, Destroy
  <1>2. Places'
    BY MutexAssumption DEF TypeOK, StateOK, Places, WakeupsMatch, InLock,
       Waiting, Destroy
  <1>3. Owners'
    BY Zenon, MutexAssumption DEF TypeOK, StateOK, Places, Owners, OwnershipAgrees,
       InLock, Waiting, Destroy
  <1>4. OwnershipAgrees'
    BY Zenon, <1>1, MutexAssumption DEF TypeOK, StateOK, Places, Owners,
       OwnershipAgrees, InLock, Waiting, InIdm, Destroy
  <1>5. WakeupsMatch'
    BY Zenon, MutexAssumption DEF TypeOK, StateOK, Places, WakeupsMatch, InLock,
       Waiting, Destroy
  <1> QED  BY Zenon, <1>1, <1>2, <1>3, <1>4, <1>5 DEF IInv

\* Stop preserves the inductive invariant.
LEMMA StopPreserves ==
  ASSUME IInv, NEW t \in Threads, Stop(t)
  PROVE  IInv'
  <1> SUFFICES ASSUME TypeOK, Places, Owners, OwnershipAgrees, WakeupsMatch
               PROVE  IInv'
    BY Zenon DEF IInv
  <1>1. TypeOK'
    BY Zenon, MutexAssumption DEF TypeOK, StateOK, MutexLabels, SchedStates, Owners,
       OwnershipAgrees, InLock, Waiting, Stop
  <1>2. Places'
    BY MutexAssumption DEF TypeOK, StateOK, Places, WakeupsMatch, InLock,
       Waiting, Stop
  <1>3. Owners'
    BY Zenon, MutexAssumption DEF TypeOK, StateOK, Places, Owners, OwnershipAgrees,
       InLock, Waiting, Stop
  <1>4. OwnershipAgrees'
    BY Zenon, <1>1, MutexAssumption DEF TypeOK, StateOK, Places, Owners,
       OwnershipAgrees, InLock, Waiting, InIdm, Stop
  <1>5. WakeupsMatch'
    BY Zenon, MutexAssumption DEF TypeOK, StateOK, Places, WakeupsMatch, InLock,
       Waiting, Stop
  <1> QED  BY Zenon, <1>1, <1>2, <1>3, <1>4, <1>5 DEF IInv

\* The invariant holds at first.
LEMMA Start == Init => IInv
  <1> SUFFICES ASSUME Init PROVE IInv
    BY Zenon
  <1>1. sq \in Seq(Threads) /\ Range(sq) = {} /\ NoDuplicates(sq)
    BY DEF Init, Range, NoDuplicates
  <1>2. TypeOK
    BY <1>1, MutexAssumption DEF Init, TypeOK, StateOK, MutexLabels, SchedStates
  <1>3. Places /\ Owners
    BY Zenon, <1>1, MutexAssumption DEF Init, Places, Owners, InLock, Waiting
  <1>4. OwnershipAgrees
    BY Zenon, <1>1, <1>2, MutexAssumption DEF Init, OwnershipAgrees, InLock, Waiting,
       InIdm
  <1>5. WakeupsMatch
    BY Zenon, <1>1 DEF Init, WakeupsMatch, InLock, Waiting
  <1> QED  BY Zenon, <1>2, <1>3, <1>4, <1>5 DEF IInv

\* Every step keeps the invariant.
LEMMA Inductive == IInv /\ [Next]_vars => IInv'
  <1> SUFFICES ASSUME IInv, [Next]_vars PROVE IInv'
    BY Zenon
  <1>1. ASSUME NEW t \in Threads, Lock(t) PROVE IInv'
    BY Zenon, <1>1, TryLockPreserves, RelockPreserves, LockBusyPreserves,
       LockOwnPreserves, LockEnqueuePreserves, LockSleepPreserves,
       LockSleepCancelledPreserves, LockSignaledPreserves,
       LockStoppedPreserves, LockStoppedGrantedPreserves,
       LockTimeoutPreserves, LockCheckStatePreserves,
       LockCheckStateStoppedPreserves, LockCheckStateAwakePreserves,
       LockQueueEmptyPreserves, LockSyncPreserves, LockUnqueuePreserves,
       LockUnqueueLatePreserves DEF Lock
  <1>2. ASSUME NEW t \in Threads, Unlock(t) PROVE IInv'
    BY Zenon, <1>2, UnlockRecursivePreserves, UnlockFastPreserves,
       UnlockBusyPreserves, UnlockReleasePreserves, UnlockAgainPreserves,
       UnlockReownPreserves, UnlockAwakePreserves DEF Unlock
  <1>3. CASE UNCHANGED vars
    BY <1>3 DEF vars, IInv, TypeOK, StateOK, Places, Owners, OwnershipAgrees,
       WakeupsMatch, InLock, Waiting, InIdm
  <1> QED  BY Zenon, <1>1, <1>2, <1>3, DestroyPreserves, StopPreserves DEF Next

----------------------------------------------------------------------------
\* The invariant behind the theorems below.
THEOREM Invariance == Spec => []IInv
  BY Start, Inductive, PTL DEF Spec

\* owner and lock_count agree with what every thread was told by sys_mutex_lock
\* and sys_mutex_unlock, so that no two of them are inside at once.
THEOREM MutexOwnership == Spec => []OwnershipAgrees
  <1>1. IInv => OwnershipAgrees
    BY Zenon DEF IInv
  <1> QED  BY <1>1, Invariance, PTL

\* A waiter that sleeps will be awakened by whoever took it from the queue, and
\* no wake-up is left over for another call.
THEOREM MutexWakeups == Spec => []WakeupsMatch
  <1>1. IInv => WakeupsMatch
    BY Zenon DEF IInv
  <1> QED  BY <1>1, Invariance, PTL

----------------------------------------------------------------------------
\* The promise, with the locks that threads were told they have; nobody waits for
\* a condition variable here.
Promise == INSTANCE Monitor WITH locks <- depth, saved <- [t \in Threads |-> 0]

\* Of the locks that threads were told they have, all are of one thread.
LEMMA OneHolder ==
  ASSUME IInv, NEW t \in Threads, depth[t] # 0
  PROVE  owner = t
  BY Zenon, MutexAssumption DEF IInv, OwnershipAgrees

\* An owner that was told so has a lock.
LEMMA HolderDepth ==
  ASSUME IInv, NEW t \in Threads, owner = t, ~InLock(t)
  PROVE  depth[t] > 0
  <1>1. depth[t] = lock_count + 1
    BY Zenon DEF IInv, OwnershipAgrees
  <1>2. lock_count \in Nat
    BY MutexAssumption DEF IInv, TypeOK, StateOK
  <1> QED  BY <1>1, <1>2

\* A lock of a free mutex, or of one that was handed over, is a Lock of Monitor.
LEMMA AcquireStep ==
  ASSUME IInv, NEW t \in Threads, depth' = [depth EXCEPT ![t] = 1],
         owner = None \/ (owner = t /\ InLock(t))
  PROVE  Promise!Lock(t)
  <1>1. \A u \in Threads : depth[u] = 0
    <2> SUFFICES ASSUME NEW u \in Threads, depth[u] # 0 PROVE FALSE
      BY Zenon
    <2>1. owner = u
      BY Zenon, OneHolder
    <2>2. owner = t /\ InLock(t) /\ u = t
      BY Zenon, <2>1, MutexAssumption
    <2> QED  BY Zenon, <2>2 DEF IInv, OwnershipAgrees
  <1>2. depth[t] + 1 = 1
    BY <1>1
  <1>3. depth' = [depth EXCEPT ![t] = depth[t] + 1]
    BY Zenon, <1>2
  <1>4. Promise!Free
    BY Zenon, <1>1 DEF Promise!Free
  <1> QED  BY Zenon, <1>3, <1>4 DEF Promise!Lock

\* A release of the last lock is an Unlock of Monitor.
LEMMA ReleaseStep ==
  ASSUME IInv, NEW t \in Threads, depth' = [depth EXCEPT ![t] = 0],
         owner = t, lock_count = 0, ~InLock(t)
  PROVE  Promise!Unlock(t)
  <1>1. depth[t] = 1
    BY DEF IInv, OwnershipAgrees
  <1> QED  BY <1>1 DEF Promise!Unlock, IInv, TypeOK, StateOK

\* Every step is one of Monitor, or none.
LEMMA PromiseStep ==
  ASSUME IInv, NEW t \in Threads, Lock(t) \/ Unlock(t) \/ Destroy(t) \/ Stop(t)
  PROVE  Promise!Lock(t) \/ Promise!Unlock(t) \/ depth' = depth
  <1>1. CASE TryLock(t) \/ LockOwn(t)
    <2>1. owner = None /\ depth' = [depth EXCEPT ![t] = 1]
      BY Zenon, <1>1 DEF TryLock, LockOwn, Acquired
    <2>2. owner = None \/ (owner = t /\ InLock(t))
      BY Zenon, <2>1
    <2> QED  BY Zenon, <2>1, <2>2, AcquireStep
  <1>2. CASE Relock(t)
    <2>1. owner = t /\ ~InLock(t)
      BY Zenon, <1>2 DEF Relock, InLock, Waiting
    <2>2. depth[t] > 0
      BY Zenon, <2>1, HolderDepth
    <2> QED  BY Zenon, <1>2, <2>2 DEF Relock, Promise!Lock
  <1>3. CASE \/ LockSleepCancelled(t) \/ LockSignaled(t) \/ LockStoppedGranted(t)
             \/ LockSync(t) \/ LockUnqueueLate(t)
    <2>1. InLock(t) /\ t \notin Range(sq)
      BY Zenon, <1>3 DEF LockSleepCancelled, LockSignaled, LockStoppedGranted,
         LockSync, LockUnqueueLate, InLock, Waiting, IInv, Places
    <2>2. owner = t
      BY Zenon, <2>1 DEF IInv, OwnershipAgrees
    <2>3. depth' = [depth EXCEPT ![t] = 1]
      BY Zenon, <1>3 DEF LockSleepCancelled, LockSignaled, LockStoppedGranted,
         LockSync, LockUnqueueLate, Acquired
    <2> QED  BY Zenon, <2>1, <2>2, <2>3, AcquireStep
  <1>4. CASE UnlockRecursive(t)
    <2>1. owner = t /\ ~InLock(t)
      BY Zenon, <1>4 DEF UnlockRecursive, InLock, Waiting
    <2>2. depth[t] > 0
      BY Zenon, <2>1, HolderDepth
    <2> QED  BY Zenon, <1>4, <2>2 DEF UnlockRecursive, Promise!Unlock
  <1>5. CASE UnlockFast(t) \/ UnlockRelease(t) \/ UnlockReown(t)
    <2>1. owner = t /\ lock_count = 0 /\ ~InLock(t)
      BY Zenon, <1>5 DEF UnlockFast, UnlockRelease, UnlockReown, IInv, Owners,
         InLock, Waiting
    <2> QED  BY Zenon, <1>5, <2>1, ReleaseStep DEF UnlockFast, UnlockRelease,
                UnlockReown
  <1>6. CASE \/ LockBusy(t) \/ LockEnqueue(t) \/ LockSleep(t) \/ LockStopped(t)
             \/ LockTimeout(t) \/ LockCheckState(t) \/ LockCheckStateStopped(t)
             \/ LockCheckStateAwake(t) \/ LockQueueEmpty(t) \/ LockUnqueue(t)
             \/ UnlockBusy(t) \/ UnlockAgain(t) \/ UnlockAwake(t)
             \/ Destroy(t) \/ Stop(t)
    BY Zenon, <1>6 DEF LockBusy, LockEnqueue, LockSleep, LockStopped, LockTimeout,
       LockCheckState, LockCheckStateStopped, LockCheckStateAwake,
       LockQueueEmpty, LockUnqueue, UnlockBusy, UnlockAgain, UnlockAwake,
       Destroy, Stop
  <1> QED  BY Zenon, <1>1, <1>2, <1>3, <1>4, <1>5, <1>6 DEF Lock, Unlock

\* The mutex implements the promise: CELL_OK of a lock is told to a thread only
\* while nobody else has the mutex, and every unlock takes back one lock.
THEOREM MutexImplementsMonitor == Spec => Promise!Spec
  <1>1. Init => Promise!Init
    BY Zenon DEF Init, Promise!Init
  <1>2. IInv /\ [Next]_vars => [Promise!Next]_(Promise!vars)
    <2> SUFFICES ASSUME IInv, [Next]_vars
                 PROVE  Promise!Next \/ depth' = depth
      BY Zenon DEF Promise!vars
    <2>1. CASE Next
      BY Zenon, <2>1, PromiseStep DEF Next, Promise!Next
    <2>2. CASE UNCHANGED vars
      BY Zenon, <2>2 DEF vars
    <2> QED  BY Zenon, <2>1, <2>2
  <1> QED  BY <1>1, <1>2, Invariance, PTL DEF Spec, Promise!Spec
=============================================================================
