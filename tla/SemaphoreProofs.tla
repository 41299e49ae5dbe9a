-------------------------- MODULE SemaphoreProofs --------------------------
(***************************************************************************)
(* The safety properties of Semaphore for any number of threads, any       *)
(* priorities and protocol, any maximum and any posted counts.             *)
(***************************************************************************)
EXTENDS Semaphore, QueueLemmas, FiniteSetTheorems

\* Who can be queued, woken, signalled or inside the critical section.
Places ==
  /\ NoDuplicates(sq)
  /\ \A t \in Range(sq) : Waiting(t) \/ pc[t] = "again"
  /\ \A t \in Range(sq) : sched[t] # "signal"
  /\ \A t \in Threads : pc[t] = "unqueue" => sched[t] = "run"
  /\ \A t \in Threads : pc[t] = "post_wake" <=> mutex = t
  /\ mutex # None => \A t \in Range(sq) : pc[t] # "again"
  /\ \A u \in Threads : \A t \in woken[u] :
        /\ pc[u] = "post_wake"
        /\ Waiting(t)
        /\ t \notin Range(sq)
        /\ sched[t] # "signal"

\* What a thread read outside sema.mutex, and what it may conclude from it.
Reads ==
  \A t \in Threads :
    /\ pc[t] = "wait_cas" => arg[t] > 0
    /\ pc[t] = "post_cas" => arg[t] >= 0 /\ count[t] > 0
                             /\ count[t] <= MaxVal - arg[t]
    /\ pc[t] = "post_wake" => arg[t] >= 0

\* A dead semaphore has nobody inside an idm lambda and no debt.
Dead == ~alive => val >= 0 /\ \A t \in Threads : ~InIdm(t)

\* The inductive invariant.
IInv ==
  /\ TypeOK
  /\ Places
  /\ Reads
  /\ Dead
  /\ val <= MaxVal
  /\ QueueMatchesVal
  /\ TokensConserved
  /\ NoLostWakeup
  /\ NoStaleSignal

----------------------------------------------------------------------------
\* The number of granted waiters is a natural number, and changes by one when
\* a waiter joins or leaves them.
LEMMA GrantedCardinality ==
  ASSUME TypeOK
  PROVE  /\ IsFiniteSet(Granted)
         /\ Cardinality(Granted) \in Nat
         /\ \A t \in Granted :
              Cardinality(Granted \ {t}) = Cardinality(Granted) - 1
         /\ \A t : t \notin Granted =>
              Cardinality(Granted \cup {t}) = Cardinality(Granted) + 1
  <1>1. Granted \subseteq Threads
    BY Zenon DEF Granted
  <1>2. IsFiniteSet(Granted)
    BY Zenon, <1>1, SemaAssumption, FS_Subset
  <1> QED  BY Zenon, <1>2, FS_CardinalityType, FS_AddElement, FS_RemoveElement

\* The integers of the state.
LEMMA IntegerTypes ==
  ASSUME TypeOK
  PROVE  /\ val \in Int /\ tokens \in Int /\ Len(sq) \in Nat
         /\ Cardinality(Granted) \in Nat
         /\ \A t \in Threads : arg[t] \in Int /\ count[t] \in Int
  <1>1. val \in Int /\ tokens \in Int /\ Len(sq) \in Nat
    BY DEF TypeOK
  <1>2. \A t \in Threads : count[t] \in Int
    <2>1. Counts \cup {0} \subseteq Int
      BY SemaAssumption
    <2>2. count \in [Threads -> Counts \cup {0}]
      BY Zenon DEF TypeOK
    <2> QED  BY Zenon, <2>1, <2>2
  <1>3. \A t \in Threads : arg[t] \in Int
    BY Zenon DEF TypeOK
  <1> QED  BY Zenon, <1>1, <1>2, <1>3, GrantedCardinality

\* A number below the modulus is its own remainder.
LEMMA SmallMod ==
  ASSUME NEW m \in Nat, NEW x \in Nat, x < m
  PROVE  x % m = x
  OBVIOUS

\* No more threads are queued than there are.
LEMMA QueueBound ==
  ASSUME TypeOK, NoDuplicates(sq)
  PROVE  Len(sq) <= Cardinality(Threads)
  <1>1. sq \in [1..Len(sq) -> Threads] /\ Len(sq) \in Nat
    BY DEF TypeOK
  <1>2. IsInjective(sq)
    BY Zenon, <1>1 DEF NoDuplicates, IsInjective
  <1>3. sq \in Injection(1..Len(sq), Threads)
    BY Zenon, <1>1, <1>2 DEF Injection
  <1>4. Cardinality(1..Len(sq)) = Len(sq) /\ IsFiniteSet(1..Len(sq))
    <2>1. 1 \in Int /\ Len(sq) \in Int
      BY <1>1
    <2>2. /\ IsFiniteSet(1..Len(sq))
          /\ Cardinality(1..Len(sq)) = IF 1 > Len(sq) THEN 0 ELSE Len(sq) - 1 + 1
      BY Zenon, <2>1, FS_Interval
    <2> QED  BY <1>1, <2>2
  <1>5. Cardinality(1..Len(sq)) <= Cardinality(Threads)
    BY Zenon, <1>3, SemaAssumption, FS_Injection
  <1> QED  BY Zenon, <1>4, <1>5

----------------------------------------------------------------------------
(* One lemma per action: it preserves the inductive invariant. *)

\* WaitRead preserves the inductive invariant.
LEMMA WaitReadPreserves ==
  ASSUME IInv, NEW t \in Threads, WaitRead(t)
  PROVE  IInv'
  <1> USE DEF IInv
  <1>1. TypeOK'
    BY SemaAssumption DEF TypeOK, SchedStates, WaitRead, Goto
  <1>2. Places'
    BY SemaAssumption DEF TypeOK, Places, Waiting, WaitRead, Goto
  <1>3. Reads'
    BY Zenon, SemaAssumption DEF TypeOK, Reads, WaitRead, Goto
  <1>4. Dead'
    BY Zenon, SemaAssumption DEF TypeOK, Dead, Reads, InIdm, WaitRead, Goto
  <1>5. val' <= MaxVal /\ QueueMatchesVal'
    BY Zenon, SemaAssumption, IntegerTypes DEF TypeOK, Places, Reads,
       QueueMatchesVal, Unscheduled, Smaller, WaitRead, Goto
  <1>6. TokensConserved'
    <2>1. Granted' = Granted
      BY Zenon DEF TypeOK, Places, Granted, Waiting, WaitRead, Goto
    <2> QED  BY Zenon, <2>1, IntegerTypes DEF TokensConserved, WaitRead
  <1>7. NoLostWakeup'
    BY DEF TypeOK, NoLostWakeup, Places, Waiting, WaitRead, Goto
  <1>8. NoStaleSignal'
    BY DEF TypeOK, NoStaleSignal, NoLostWakeup, Places, Waiting, WaitRead, Goto
  <1> QED  BY Zenon, <1>1, <1>2, <1>3, <1>4, <1>5, <1>6, <1>7, <1>8

\* WaitCas preserves the inductive invariant.
LEMMA WaitCasPreserves ==
  ASSUME IInv, NEW t \in Threads, WaitCas(t)
  PROVE  IInv'
  <1> USE DEF IInv
  <1>1. TypeOK'
    BY SemaAssumption DEF TypeOK, SchedStates, WaitCas, Return
  <1>2. Places'
    BY SemaAssumption DEF TypeOK, Places, Waiting, WaitCas, Return
  <1>3. Reads'
    BY Zenon, SemaAssumption DEF TypeOK, Reads, WaitCas, Return
  <1>4. Dead'
    BY Zenon, SemaAssumption DEF TypeOK, Dead, Reads, InIdm, WaitCas, Return
  <1>5. val' <= MaxVal /\ QueueMatchesVal'
    BY SemaAssumption, IntegerTypes DEF TypeOK, Places, Reads,
       QueueMatchesVal, Unscheduled, Smaller, WaitCas, Return
  <1>6. TokensConserved'
    <2>1. Granted' = Granted
      BY Zenon DEF TypeOK, Places, Granted, Waiting, WaitCas, Return
    <2> QED  BY <2>1, IntegerTypes DEF TokensConserved, WaitCas
  <1>7. NoLostWakeup'
    BY DEF TypeOK, NoLostWakeup, Places, Waiting, WaitCas, Return
  <1>8. NoStaleSignal'
    BY DEF TypeOK, NoStaleSignal, NoLostWakeup, Places, Waiting, WaitCas, Return
  <1> QED  BY Zenon, <1>1, <1>2, <1>3, <1>4, <1>5, <1>6, <1>7, <1>8

\* WaitCasFailed preserves the inductive invariant.
LEMMA WaitCasFailedPreserves ==
  ASSUME IInv, NEW t \in Threads, WaitCasFailed(t)
  PROVE  IInv'
  <1> USE DEF IInv
  <1>1. TypeOK'
    BY Zenon, SemaAssumption DEF TypeOK, SchedStates, WaitCasFailed, Goto
  <1>2. Places'
    BY SemaAssumption DEF TypeOK, Places, Waiting, WaitCasFailed, Goto
  <1>3. Reads'
    BY Zenon, SemaAssumption DEF TypeOK, Reads, WaitCasFailed, Goto
  <1>4. Dead'
    BY Zenon, SemaAssumption DEF TypeOK, Dead, Reads, InIdm, WaitCasFailed, Goto
  <1>5. val' <= MaxVal /\ QueueMatchesVal'
    BY Zenon, SemaAssumption, IntegerTypes DEF TypeOK, Places, Reads,
       QueueMatchesVal, Unscheduled, Smaller, WaitCasFailed, Goto
  <1>6. TokensConserved'
    <2>1. Granted' = Granted
      BY Zenon DEF TypeOK, Places, Granted, Waiting, WaitCasFailed, Goto
    <2> QED  BY Zenon, <2>1, IntegerTypes DEF TokensConserved, WaitCasFailed
  <1>7. NoLostWakeup'
    BY DEF TypeOK, NoLostWakeup, Places, Waiting, WaitCasFailed, Goto
  <1>8. NoStaleSignal'
    BY DEF TypeOK, NoStaleSignal, NoLostWakeup, Places, Waiting,
       WaitCasFailed, Goto
  <1> QED  BY Zenon, <1>1, <1>2, <1>3, <1>4, <1>5, <1>6, <1>7, <1>8

\* WaitTake preserves the inductive invariant.
LEMMA WaitTakePreserves ==
  ASSUME IInv, NEW t \in Threads, WaitTake(t)
  PROVE  IInv'
  <1> USE DEF IInv
  <1>1. TypeOK'
    BY SemaAssumption DEF TypeOK, SchedStates, WaitTake, Return
  <1>2. Places'
    BY SemaAssumption DEF TypeOK, Places, Waiting, WaitTake, Return
  <1>3. Reads'
    BY Zenon, SemaAssumption DEF TypeOK, Reads, WaitTake, Return
  <1>4. Dead'
    BY Zenon, SemaAssumption DEF TypeOK, Dead, Reads, InIdm, WaitTake, Return
  <1>5. val' <= MaxVal /\ QueueMatchesVal'
    BY SemaAssumption, IntegerTypes DEF TypeOK, Places, Reads,
       QueueMatchesVal, Unscheduled, Smaller, WaitTake, Return
  <1>6. TokensConserved'
    <2>1. Granted' = Granted
      BY Zenon DEF TypeOK, Places, Granted, Waiting, WaitTake, Return
    <2> QED  BY <2>1, IntegerTypes DEF TokensConserved, WaitTake
  <1>7. NoLostWakeup'
    BY DEF TypeOK, NoLostWakeup, Places, Waiting, WaitTake, Return
  <1>8. NoStaleSignal'
    BY DEF TypeOK, NoStaleSignal, NoLostWakeup, Places, Waiting, WaitTake,
       Return
  <1> QED  BY Zenon, <1>1, <1>2, <1>3, <1>4, <1>5, <1>6, <1>7, <1>8

\* WaitEnqueue preserves the inductive invariant.
LEMMA WaitEnqueuePreserves ==
  ASSUME IInv, NEW t \in Threads, WaitEnqueue(t)
  PROVE  IInv'
  <1> USE DEF IInv
  <1>0. /\ sq' \in Seq(Threads)
        /\ Len(sq') = Len(sq) + 1
        /\ Range(sq') = Range(sq) \cup {t}
        /\ NoDuplicates(sq')
    <2>1. t \notin Range(sq)
      BY Zenon DEF Places, Waiting, WaitEnqueue
    <2>2. sq \in Seq(Threads) /\ NoDuplicates(sq) /\ sq' = emplace(sq, t)
      BY Zenon DEF TypeOK, Places, WaitEnqueue
    <2>3. /\ emplace(sq, t) \in Seq(Threads) /\ NoDuplicates(emplace(sq, t))
          /\ Len(emplace(sq, t)) = Len(sq) + 1
          /\ Range(emplace(sq, t)) = Range(sq) \cup {t}
      BY Zenon, <2>1, <2>2, EmplaceSet
    <2> QED  BY Zenon, <2>2, <2>3
  <1>1. TypeOK'
    BY <1>0, SemaAssumption DEF TypeOK, SchedStates, WaitEnqueue, Goto, sleep
  <1>2. Places'
    BY <1>0, SemaAssumption DEF TypeOK, Places, Waiting, WaitEnqueue, Goto,
       sleep
  <1>3. Reads'
    BY Zenon, <1>0, SemaAssumption DEF TypeOK, Reads, WaitEnqueue, Goto, sleep
  <1>4. Dead'
    BY Zenon, <1>0, SemaAssumption DEF TypeOK, Dead, Reads, InIdm, WaitEnqueue, Goto,
       sleep
  <1>5. val' <= MaxVal /\ QueueMatchesVal'
    BY <1>0, SemaAssumption, IntegerTypes DEF TypeOK, Places, Reads,
       QueueMatchesVal, Unscheduled, Smaller, WaitEnqueue, Goto, sleep
  <1>6. TokensConserved'
    <2>1. Granted' = Granted
      BY Zenon, <1>0 DEF TypeOK, Places, Granted, Waiting, WaitEnqueue, Goto, sleep
    <2> QED  BY <1>0, <2>1, IntegerTypes DEF TokensConserved, WaitEnqueue
  <1>7. NoLostWakeup'
    BY <1>0 DEF TypeOK, NoLostWakeup, Places, Waiting, WaitEnqueue, Goto, sleep
  <1>8. NoStaleSignal'
    BY <1>0 DEF TypeOK, NoStaleSignal, NoLostWakeup, Places, Waiting,
       WaitEnqueue, Goto, sleep
  <1> QED  BY Zenon, <1>1, <1>2, <1>3, <1>4, <1>5, <1>6, <1>7, <1>8

\* WaitSignaled preserves the inductive invariant.
LEMMA WaitSignaledPreserves ==
  ASSUME IInv, NEW t \in Threads, WaitSignaled(t)
  PROVE  IInv'
  <1> USE DEF IInv
  <1>1. TypeOK'
    BY SemaAssumption DEF TypeOK, SchedStates, WaitSignaled, Return
  <1>2. Places'
    BY SemaAssumption DEF TypeOK, Places, Waiting, WaitSignaled, Return
  <1>3. Reads'
    BY Zenon, SemaAssumption DEF TypeOK, Reads, WaitSignaled, Return
  <1>4. Dead'
    BY Zenon, SemaAssumption DEF TypeOK, Dead, Reads, InIdm, WaitSignaled, Return
  <1>5. val' <= MaxVal /\ QueueMatchesVal'
    BY Zenon, SemaAssumption, IntegerTypes DEF TypeOK, Places, Reads,
       QueueMatchesVal, Unscheduled, Smaller, WaitSignaled, Return
  <1>6. TokensConserved'
    <2>1. t \in Granted /\ Granted' = Granted \ {t}
      BY Zenon DEF TypeOK, Places, Granted, Waiting, WaitSignaled, Return
    <2>2. Cardinality(Granted)' = Cardinality(Granted) - 1
      BY Zenon, <2>1, GrantedCardinality
    <2> QED  BY <2>2, IntegerTypes DEF TokensConserved, WaitSignaled
  <1>7. NoLostWakeup'
    BY DEF TypeOK, NoLostWakeup, Places, Waiting, WaitSignaled, Return
  <1>8. NoStaleSignal'
    BY DEF TypeOK, NoStaleSignal, NoLostWakeup, Places, Waiting, WaitSignaled,
       Return
  <1> QED  BY Zenon, <1>1, <1>2, <1>3, <1>4, <1>5, <1>6, <1>7, <1>8

\* WaitStopped preserves the inductive invariant.
LEMMA WaitStoppedPreserves ==
  ASSUME IInv, NEW t \in Threads, WaitStopped(t)
  PROVE  IInv'
  <1> USE DEF IInv
  <1>1. TypeOK'
    BY SemaAssumption DEF TypeOK, SchedStates, WaitStopped, ReturnAgain
  <1>2. Places'
    BY SemaAssumption DEF TypeOK, Places, Waiting, WaitStopped, ReturnAgain
  <1>3. Reads'
    BY Zenon, SemaAssumption DEF TypeOK, Reads, WaitStopped, ReturnAgain
  <1>4. Dead'
    BY Zenon, SemaAssumption DEF TypeOK, Dead, Reads, InIdm, WaitStopped, ReturnAgain
  <1>5. val' <= MaxVal /\ QueueMatchesVal'
    BY Zenon, SemaAssumption, IntegerTypes DEF TypeOK, Places, Reads,
       QueueMatchesVal, Unscheduled, Smaller, WaitStopped, ReturnAgain
  <1>6. TokensConserved'
    <2>1. Granted' = Granted
      BY Zenon DEF TypeOK, Places, Granted, Waiting, WaitStopped, ReturnAgain
    <2> QED  BY Zenon, <2>1, IntegerTypes DEF TokensConserved, WaitStopped
  <1>7. NoLostWakeup'
    BY DEF TypeOK, NoLostWakeup, Places, Waiting, WaitStopped, ReturnAgain
  <1>8. NoStaleSignal'
    BY DEF TypeOK, NoStaleSignal, NoLostWakeup, Places, Waiting, WaitStopped,
       ReturnAgain
  <1> QED  BY Zenon, <1>1, <1>2, <1>3, <1>4, <1>5, <1>6, <1>7, <1>8

\* WaitStoppedGranted preserves the inductive invariant.
LEMMA WaitStoppedGrantedPreserves ==
  ASSUME IInv, NEW t \in Threads, WaitStoppedGranted(t)
  PROVE  IInv'
  <1> USE DEF IInv
  <1>1. TypeOK'
    BY SemaAssumption DEF TypeOK, SchedStates, WaitStoppedGranted, Return
  <1>2. Places'
    BY SemaAssumption DEF TypeOK, Places, Waiting, WaitStoppedGranted, Return
  <1>3. Reads'
    BY Zenon, SemaAssumption DEF TypeOK, Reads, WaitStoppedGranted, Return
  <1>4. Dead'
    BY Zenon, SemaAssumption DEF TypeOK, Dead, Reads, InIdm, WaitStoppedGranted, Return
  <1>5. val' <= MaxVal /\ QueueMatchesVal'
    BY Zenon, SemaAssumption, IntegerTypes DEF TypeOK, Places, Reads,
       QueueMatchesVal, Unscheduled, Smaller, WaitStoppedGranted, Return
  <1>6. TokensConserved'
    <2>1. t \in Granted /\ Granted' = Granted \ {t}
      BY Zenon DEF TypeOK, Places, Granted, Waiting, WaitStoppedGranted, Return
    <2>2. Cardinality(Granted)' = Cardinality(Granted) - 1
      BY Zenon, <2>1, GrantedCardinality
    <2> QED  BY <2>2, IntegerTypes DEF TokensConserved, WaitStoppedGranted
  <1>7. NoLostWakeup'
    BY DEF TypeOK, NoLostWakeup, Places, Waiting, WaitStoppedGranted, Return
  <1>8. NoStaleSignal'
    BY DEF TypeOK, NoStaleSignal, NoLostWakeup, Places, Waiting,
       WaitStoppedGranted, Return
  <1> QED  BY Zenon, <1>1, <1>2, <1>3, <1>4, <1>5, <1>6, <1>7, <1>8

\* WaitTimeout preserves the inductive invariant.
LEMMA WaitTimeoutPreserves ==
  ASSUME IInv, NEW t \in Threads, WaitTimeout(t)
  PROVE  IInv'
  <1> USE DEF IInv
  <1>1. TypeOK'
    BY Zenon, SemaAssumption DEF TypeOK, SchedStates, WaitTimeout, Goto
  <1>2. Places'
    BY SemaAssumption DEF TypeOK, Places, Waiting, WaitTimeout, Goto
  <1>3. Reads'
    BY Zenon, SemaAssumption DEF TypeOK, Reads, WaitTimeout, Goto
  <1>4. Dead'
    BY Zenon, SemaAssumption DEF TypeOK, Dead, Reads, InIdm, WaitTimeout, Goto
  <1>5. val' <= MaxVal /\ QueueMatchesVal'
    BY Zenon, SemaAssumption, IntegerTypes DEF TypeOK, Places, Reads,
       QueueMatchesVal, Unscheduled, Smaller, WaitTimeout, Goto
  <1>6. TokensConserved'
    <2>1. Granted' = Granted
      BY Zenon DEF TypeOK, Places, Granted, Waiting, WaitTimeout, Goto
    <2> QED  BY Zenon, <2>1, IntegerTypes DEF TokensConserved, WaitTimeout
  <1>7. NoLostWakeup'
    BY DEF TypeOK, NoLostWakeup, Places, Waiting, WaitTimeout, Goto
  <1>8. NoStaleSignal'
    BY DEF TypeOK, NoStaleSignal, NoLostWakeup, Places, Waiting, WaitTimeout,
       Goto
  <1> QED  BY Zenon, <1>1, <1>2, <1>3, <1>4, <1>5, <1>6, <1>7, <1>8

\* WaitCheckState preserves the inductive invariant.
LEMMA WaitCheckStatePreserves ==
  ASSUME IInv, NEW t \in Threads, WaitCheckState(t)
  PROVE  IInv'
  <1> USE DEF IInv
  <1>1. TypeOK'
    BY Zenon, SemaAssumption DEF TypeOK, SchedStates, WaitCheckState, Goto, check_state
  <1>2. Places'
    BY SemaAssumption DEF TypeOK, Places, Waiting, WaitCheckState, Goto,
       check_state
  <1>3. Reads'
    BY Zenon, SemaAssumption DEF TypeOK, Reads, WaitCheckState, Goto, check_state
  <1>4. Dead'
    BY Zenon, SemaAssumption DEF TypeOK, Dead, Reads, InIdm, WaitCheckState, Goto,
       check_state
  <1>5. val' <= MaxVal /\ QueueMatchesVal'
    BY Zenon, SemaAssumption, IntegerTypes DEF TypeOK, Places, Reads,
       QueueMatchesVal, Unscheduled, Smaller, WaitCheckState, Goto,
       check_state
  <1>6. TokensConserved'
    <2>1. Granted' = Granted
      BY Zenon DEF TypeOK, Places, Granted, Waiting, WaitCheckState, Goto, check_state
    <2> QED  BY Zenon, <2>1, IntegerTypes DEF TokensConserved, WaitCheckState
  <1>7. NoLostWakeup'
    BY DEF TypeOK, NoLostWakeup, Places, Waiting, WaitCheckState, Goto,
       check_state
  <1>8. NoStaleSignal'
    BY DEF TypeOK, NoStaleSignal, NoLostWakeup, Places, Waiting,
       WaitCheckState, Goto, check_state
  <1> QED  BY Zenon, <1>1, <1>2, <1>3, <1>4, <1>5, <1>6, <1>7, <1>8

\* WaitCheckStateStopped preserves the inductive invariant.
LEMMA WaitCheckStateStoppedPreserves ==
  ASSUME IInv, NEW t \in Threads, WaitCheckStateStopped(t)
  PROVE  IInv'
  <1> USE DEF IInv
  <1>1. TypeOK'
    BY Zenon DEF TypeOK, SchedStates, WaitCheckStateStopped, Goto,
       check_state
  <1>2. Places'
    <2>1. CASE UNCHANGED sched
      BY <2>1 DEF TypeOK, Places, Waiting, WaitCheckStateStopped, Goto
    <2>2. CASE sched' = check_state(sched, t)
      BY <2>2 DEF TypeOK, Places, Waiting, WaitCheckStateStopped, Goto,
         check_state
    <2> QED  BY Zenon, <2>1, <2>2 DEF WaitCheckStateStopped
  <1>3. Reads'
    BY Zenon, SemaAssumption DEF TypeOK, Reads, WaitCheckStateStopped, Goto,
       check_state
  <1>4. Dead'
    BY Zenon, SemaAssumption DEF TypeOK, Dead, Reads, InIdm, WaitCheckStateStopped,
       Goto, check_state
  <1>5. val' <= MaxVal /\ QueueMatchesVal'
    BY Zenon, SemaAssumption, IntegerTypes DEF TypeOK, Places, Reads,
       QueueMatchesVal, Unscheduled, Smaller, WaitCheckStateStopped, Goto,
       check_state
  <1>6. TokensConserved'
    <2>1. Granted' = Granted
      BY Zenon DEF TypeOK, Places, Granted, Waiting, WaitCheckStateStopped, Goto,
         check_state
    <2> QED  BY Zenon, <2>1, IntegerTypes DEF TokensConserved, WaitCheckStateStopped
  <1>7. NoLostWakeup'
    BY DEF TypeOK, NoLostWakeup, Places, Waiting, WaitCheckStateStopped, Goto,
       check_state
  <1>8. NoStaleSignal'
    BY DEF TypeOK, NoStaleSignal, NoLostWakeup, Places, Waiting,
       WaitCheckStateStopped, Goto, check_state
  <1> QED  BY Zenon, <1>1, <1>2, <1>3, <1>4, <1>5, <1>6, <1>7, <1>8

\* WaitUnqueue preserves the inductive invariant.
LEMMA WaitUnqueuePreserves ==
  ASSUME IInv, NEW t \in Threads, WaitUnqueue(t)
  PROVE  IInv'
  <1> USE DEF IInv
  <1>0. /\ sq' \in Seq(Threads)
        /\ Len(sq') = Len(sq) - 1
        /\ Range(sq') = Range(sq) \ {t}
        /\ NoDuplicates(sq')
    BY UnqueueSet DEF TypeOK, Places, WaitUnqueue
  <1>1. TypeOK'
    BY <1>0, SemaAssumption DEF TypeOK, SchedStates, WaitUnqueue, Return
  <1>2. Places'
    BY <1>0, SemaAssumption DEF TypeOK, Places, Waiting, WaitUnqueue, Return
  <1>3. Reads'
    BY Zenon, <1>0, SemaAssumption DEF TypeOK, Reads, WaitUnqueue, Return
  <1>4. Dead'
    BY <1>0, SemaAssumption DEF TypeOK, Dead, Reads, InIdm, WaitUnqueue, Return
  <1>5. val' <= MaxVal /\ QueueMatchesVal'
    BY <1>0, SemaAssumption, IntegerTypes DEF TypeOK, Places, Reads,
       QueueMatchesVal, Unscheduled, Smaller, WaitUnqueue, Return
  <1>6. TokensConserved'
    <2>1. Granted' = Granted
      BY Zenon, <1>0 DEF TypeOK, Places, Granted, Waiting, WaitUnqueue, Return
    <2>2. val < 0
      <3>1. Range(sq) # {} /\ Len(sq) \in Nat
        BY Zenon, IntegerTypes DEF WaitUnqueue
      <3>2. Len(sq) # 0
        BY <3>1 DEF TypeOK, Range
      <3> QED  BY <3>1, <3>2, IntegerTypes DEF QueueMatchesVal, Unscheduled,
                  Smaller, WaitUnqueue
    <2> QED  BY <1>0, <2>1, <2>2, IntegerTypes DEF TokensConserved, WaitUnqueue
  <1>7. NoLostWakeup'
    BY <1>0 DEF TypeOK, NoLostWakeup, Places, Waiting, WaitUnqueue, Return
  <1>8. NoStaleSignal'
    BY <1>0 DEF TypeOK, NoStaleSignal, NoLostWakeup, Places, Waiting,
       WaitUnqueue, Return
  <1> QED  BY Zenon, <1>1, <1>2, <1>3, <1>4, <1>5, <1>6, <1>7, <1>8

\* WaitUnqueueLate preserves the inductive invariant.
LEMMA WaitUnqueueLatePreserves ==
  ASSUME IInv, NEW t \in Threads, WaitUnqueueLate(t)
  PROVE  IInv'
  <1> USE DEF IInv
  <1>1. TypeOK'
    BY SemaAssumption DEF TypeOK, SchedStates, WaitUnqueueLate, Return
  <1>2. Places'
    BY SemaAssumption DEF TypeOK, Places, Waiting, WaitUnqueueLate, Return
  <1>3. Reads'
    BY Zenon, SemaAssumption DEF TypeOK, Reads, WaitUnqueueLate, Return
  <1>4. Dead'
    BY Zenon, SemaAssumption DEF TypeOK, Dead, Reads, InIdm, WaitUnqueueLate, Return
  <1>5. val' <= MaxVal /\ QueueMatchesVal'
    BY Zenon, SemaAssumption, IntegerTypes DEF TypeOK, Places, Reads,
       QueueMatchesVal, Unscheduled, Smaller, WaitUnqueueLate, Return
  <1>6. TokensConserved'
    <2>1. t \in Granted /\ Granted' = Granted \ {t}
      BY Zenon DEF TypeOK, Places, Granted, Waiting, WaitUnqueueLate, Return
    <2>2. Cardinality(Granted)' = Cardinality(Granted) - 1
      BY Zenon, <2>1, GrantedCardinality
    <2> QED  BY <2>2, IntegerTypes DEF TokensConserved, WaitUnqueueLate
  <1>7. NoLostWakeup'
    BY DEF TypeOK, NoLostWakeup, Places, Waiting, WaitUnqueueLate, Return
  <1>8. NoStaleSignal'
    BY DEF TypeOK, NoStaleSignal, NoLostWakeup, Places, Waiting,
       WaitUnqueueLate, Return
  <1> QED  BY Zenon, <1>1, <1>2, <1>3, <1>4, <1>5, <1>6, <1>7, <1>8

\* TryWait preserves the inductive invariant.
LEMMA TryWaitPreserves ==
  ASSUME IInv, NEW t \in Threads, TryWait(t)
  PROVE  IInv'
  <1> USE DEF IInv
  <1>1. TypeOK'
    BY SemaAssumption DEF TypeOK, SchedStates, TryWait
  <1>2. Places'
    BY Zenon, SemaAssumption DEF TypeOK, Places, Waiting, TryWait
  <1>3. Reads'
    BY Zenon, SemaAssumption DEF TypeOK, Reads, TryWait
  <1>4. Dead'
    BY Zenon, SemaAssumption DEF TypeOK, Dead, Reads, InIdm, TryWait
  <1>5. val' <= MaxVal /\ QueueMatchesVal'
    BY SemaAssumption, IntegerTypes DEF TypeOK, Places, Reads,
       QueueMatchesVal, Unscheduled, Smaller, TryWait
  <1>6. TokensConserved'
    <2>1. Granted' = Granted
      BY Zenon DEF TypeOK, Places, Granted, Waiting, TryWait
    <2> QED  BY <2>1, IntegerTypes DEF TokensConserved, TryWait
  <1>7. NoLostWakeup'
    BY Zenon DEF TypeOK, NoLostWakeup, Places, Waiting, TryWait
  <1>8. NoStaleSignal'
    BY Zenon DEF TypeOK, NoStaleSignal, NoLostWakeup, Places, Waiting, TryWait
  <1> QED  BY Zenon, <1>1, <1>2, <1>3, <1>4, <1>5, <1>6, <1>7, <1>8

\* PostRead preserves the inductive invariant.
LEMMA PostReadPreserves ==
  ASSUME IInv, NEW t \in Threads, PostRead(t)
  PROVE  IInv'
  <1> USE DEF IInv
  <1>1. TypeOK'
    BY SemaAssumption DEF TypeOK, SchedStates, PostRead, Goto
  <1>2. Places'
    BY SemaAssumption DEF TypeOK, Places, Waiting, PostRead, Goto
  <1>3. Reads'
    BY SemaAssumption DEF TypeOK, Reads, PostRead, Goto
  <1>4. Dead'
    BY Zenon, SemaAssumption DEF TypeOK, Dead, Reads, InIdm, PostRead, Goto
  <1>5. val' <= MaxVal /\ QueueMatchesVal'
    BY Zenon, SemaAssumption, IntegerTypes DEF TypeOK, Places, Reads,
       QueueMatchesVal, Unscheduled, Smaller, PostRead, Goto
  <1>6. TokensConserved'
    <2>1. Granted' = Granted
      BY Zenon DEF TypeOK, Places, Granted, Waiting, PostRead, Goto
    <2> QED  BY Zenon, <2>1, IntegerTypes DEF TokensConserved, PostRead
  <1>7. NoLostWakeup'
    BY DEF TypeOK, NoLostWakeup, Places, Waiting, PostRead, Goto
  <1>8. NoStaleSignal'
    BY DEF TypeOK, NoStaleSignal, NoLostWakeup, Places, Waiting, PostRead, Goto
  <1> QED  BY Zenon, <1>1, <1>2, <1>3, <1>4, <1>5, <1>6, <1>7, <1>8

\* PostCas preserves the inductive invariant.
LEMMA PostCasPreserves ==
  ASSUME IInv, NEW t \in Threads, PostCas(t)
  PROVE  IInv'
  <1> USE DEF IInv
  <1>1. TypeOK'
    BY SemaAssumption DEF TypeOK, SchedStates, PostCas, Return
  <1>2. Places'
    BY SemaAssumption DEF TypeOK, Places, Waiting, PostCas, Return
  <1>3. Reads'
    BY Zenon, SemaAssumption DEF TypeOK, Reads, PostCas, Return
  <1>4. Dead'
    BY Zenon, SemaAssumption DEF TypeOK, Dead, Reads, InIdm, PostCas, Return
  <1>5. val' <= MaxVal /\ QueueMatchesVal'
    <2>1. val >= 0 /\ count[t] > 0 /\ count[t] <= MaxVal - val /\ val' = val + count[t]
      BY Zenon DEF Reads, PostCas
    <2>2. Unscheduled' = Unscheduled
      BY Zenon DEF TypeOK, Places, Unscheduled, PostCas, Return
    <2> QED  BY <2>1, <2>2, SemaAssumption, IntegerTypes DEF QueueMatchesVal,
                Smaller, PostCas
  <1>6. TokensConserved'
    <2>1. Granted' = Granted
      BY Zenon DEF TypeOK, Places, Granted, Waiting, PostCas, Return
    <2>2. val' = val + count[t] /\ tokens' = tokens + count[t] /\ sq' = sq
      BY Zenon DEF PostCas
    <2>3. /\ count[t] \in Int /\ val \in Int /\ tokens \in Int
          /\ Len(sq) \in Int /\ Cardinality(Granted) \in Int
      BY IntegerTypes
    <2>4. val + Len(sq) + Cardinality(Granted) = tokens
      BY Zenon DEF TokensConserved
    <2>5. val' + Len(sq') + Cardinality(Granted') = tokens'
      BY ONLY <2>1, <2>2, <2>3, <2>4
    <2> QED  BY Zenon, <2>5 DEF TokensConserved
  <1>7. NoLostWakeup'
    BY DEF TypeOK, NoLostWakeup, Places, Waiting, PostCas, Return
  <1>8. NoStaleSignal'
    BY DEF TypeOK, NoStaleSignal, NoLostWakeup, Places, Waiting, PostCas, Return
  <1> QED  BY Zenon, <1>1, <1>2, <1>3, <1>4, <1>5, <1>6, <1>7, <1>8

\* PostCasFailed preserves the inductive invariant.
LEMMA PostCasFailedPreserves ==
  ASSUME IInv, NEW t \in Threads, PostCasFailed(t)
  PROVE  IInv'
  <1> USE DEF IInv
  <1>1. TypeOK'
    BY Zenon, SemaAssumption DEF TypeOK, SchedStates, PostCasFailed, Goto
  <1>2. Places'
    BY SemaAssumption DEF TypeOK, Places, Waiting, PostCasFailed, Goto
  <1>3. Reads'
    BY Zenon, SemaAssumption DEF TypeOK, Reads, PostCasFailed, Goto
  <1>4. Dead'
    BY Zenon, SemaAssumption DEF TypeOK, Dead, Reads, InIdm, PostCasFailed, Goto
  <1>5. val' <= MaxVal /\ QueueMatchesVal'
    BY Zenon, SemaAssumption, IntegerTypes DEF TypeOK, Places, Reads,
       QueueMatchesVal, Unscheduled, Smaller, PostCasFailed, Goto
  <1>6. TokensConserved'
    <2>1. Granted' = Granted
      BY Zenon DEF TypeOK, Places, Granted, Waiting, PostCasFailed, Goto
    <2> QED  BY Zenon, <2>1, IntegerTypes DEF TokensConserved, PostCasFailed
  <1>7. NoLostWakeup'
    BY DEF TypeOK, NoLostWakeup, Places, Waiting, PostCasFailed, Goto
  <1>8. NoStaleSignal'
    BY DEF TypeOK, NoStaleSignal, NoLostWakeup, Places, Waiting,
       PostCasFailed, Goto
  <1> QED  BY Zenon, <1>1, <1>2, <1>3, <1>4, <1>5, <1>6, <1>7, <1>8

\* PostInvalid preserves the inductive invariant.
LEMMA PostInvalidPreserves ==
  ASSUME IInv, NEW t \in Threads, PostInvalid(t)
  PROVE  IInv'
  <1> USE DEF IInv
  <1>1. TypeOK'
    BY SemaAssumption DEF TypeOK, SchedStates, PostInvalid, Return
  <1>2. Places'
    BY SemaAssumption DEF TypeOK, Places, Waiting, PostInvalid, Return
  <1>3. Reads'
    BY Zenon, SemaAssumption DEF TypeOK, Reads, PostInvalid, Return
  <1>4. Dead'
    BY Zenon, SemaAssumption DEF TypeOK, Dead, Reads, InIdm, PostInvalid, Return
  <1>5. val' <= MaxVal /\ QueueMatchesVal'
    BY Zenon, SemaAssumption, IntegerTypes DEF TypeOK, Places, Reads,
       QueueMatchesVal, Unscheduled, Smaller, PostInvalid, Return
  <1>6. TokensConserved'
    <2>1. Granted' = Granted
      BY Zenon DEF TypeOK, Places, Granted, Waiting, PostInvalid, Return
    <2> QED  BY Zenon, <2>1, IntegerTypes DEF TokensConserved, PostInvalid
  <1>7. NoLostWakeup'
    BY DEF TypeOK, NoLostWakeup, Places, Waiting, PostInvalid, Return
  <1>8. NoStaleSignal'
    BY DEF TypeOK, NoStaleSignal, NoLostWakeup, Places, Waiting, PostInvalid,
       Return
  <1> QED  BY Zenon, <1>1, <1>2, <1>3, <1>4, <1>5, <1>6, <1>7, <1>8

\* PostAgain preserves the inductive invariant.
LEMMA PostAgainPreserves ==
  ASSUME IInv, NEW t \in Threads, PostAgain(t)
  PROVE  IInv'
  <1> USE DEF IInv
  <1>1. TypeOK'
    BY SemaAssumption DEF TypeOK, SchedStates, PostAgain, PostEnter, ReturnAgain
  <1>2. Places'
    BY SemaAssumption DEF TypeOK, Places, Waiting, PostAgain, PostEnter,
       ReturnAgain
  <1>3. Reads'
    BY Zenon, SemaAssumption DEF TypeOK, Reads, PostAgain, PostEnter, ReturnAgain
  <1>4. Dead'
    BY Zenon, SemaAssumption DEF TypeOK, Dead, Reads, InIdm, PostAgain, PostEnter,
       ReturnAgain
  <1>5. val' <= MaxVal /\ QueueMatchesVal'
    BY Zenon, SemaAssumption, IntegerTypes DEF TypeOK, Places, Reads,
       QueueMatchesVal, Unscheduled, Smaller, PostAgain, PostEnter,
       ReturnAgain
  <1>6. TokensConserved'
    <2>1. Granted' = Granted
      BY Zenon DEF TypeOK, Places, Granted, Waiting, PostAgain, PostEnter, ReturnAgain
    <2> QED  BY Zenon, <2>1, IntegerTypes DEF TokensConserved, PostAgain, PostEnter
  <1>7. NoLostWakeup'
    BY DEF TypeOK, NoLostWakeup, Places, Waiting, PostAgain, PostEnter,
       ReturnAgain
  <1>8. NoStaleSignal'
    BY DEF TypeOK, NoStaleSignal, NoLostWakeup, Places, Waiting, PostAgain,
       PostEnter, ReturnAgain
  <1> QED  BY Zenon, <1>1, <1>2, <1>3, <1>4, <1>5, <1>6, <1>7, <1>8

\* PostBusy preserves the inductive invariant.
LEMMA PostBusyPreserves ==
  ASSUME IInv, NEW t \in Threads, PostBusy(t)
  PROVE  IInv'
  <1> USE DEF IInv
  <1>1. TypeOK'
    BY SemaAssumption DEF TypeOK, SchedStates, PostBusy, PostEnter, Return
  <1>2. Places'
    BY SemaAssumption DEF TypeOK, Places, Waiting, PostBusy, PostEnter, Return
  <1>3. Reads'
    BY Zenon, SemaAssumption DEF TypeOK, Reads, PostBusy, PostEnter, Return
  <1>4. Dead'
    BY Zenon, SemaAssumption DEF TypeOK, Dead, Reads, InIdm, PostBusy, PostEnter,
       Return
  <1>5. val' <= MaxVal /\ QueueMatchesVal'
    BY Zenon, SemaAssumption, IntegerTypes DEF TypeOK, Places, Reads,
       QueueMatchesVal, Unscheduled, Smaller, PostBusy, PostEnter, Return
  <1>6. TokensConserved'
    <2>1. Granted' = Granted
      BY Zenon DEF TypeOK, Places, Granted, Waiting, PostBusy, PostEnter, Return
    <2> QED  BY Zenon, <2>1, IntegerTypes DEF TokensConserved, PostBusy, PostEnter
  <1>7. NoLostWakeup'
    BY DEF TypeOK, NoLostWakeup, Places, Waiting, PostBusy, PostEnter, Return
  <1>8. NoStaleSignal'
    BY DEF TypeOK, NoStaleSignal, NoLostWakeup, Places, Waiting, PostBusy,
       PostEnter, Return
  <1> QED  BY Zenon, <1>1, <1>2, <1>3, <1>4, <1>5, <1>6, <1>7, <1>8

\* PostAdd preserves the inductive invariant.
LEMMA PostAddPreserves ==
  ASSUME IInv, NEW t \in Threads, PostAdd(t)
  PROVE  IInv'
  <1> USE DEF IInv
  <1>0. count[t] <= MaxVal - val
    <2>1. Len(sq) <= Cardinality(Threads) /\ Len(sq) \in Nat
      BY QueueBound DEF TypeOK, Places
    <2>2. -val <= Len(sq) /\ val \in Int /\ val <= MaxVal
      BY DEF TypeOK, Places, QueueMatchesVal, Unscheduled, Smaller, PostAdd,
         PostEnter
    <2>3. Cardinality(Threads) \in Nat
      BY Zenon, SemaAssumption, FS_CardinalityType
    <2>4. MaxVal - val \in Nat /\ MaxVal - val < Modulus
      BY <2>1, <2>2, <2>3, SemaAssumption
    <2>5. (MaxVal - val) % Modulus = MaxVal - val
      BY Zenon, <2>4, SmallMod, SemaAssumption
    <2>6. count[t] \in Nat /\ count[t] > 0 /\ count[t] % Modulus <= MaxVal - val
      <3>1. count[t] \in Int /\ count[t] > 0 /\ Fits(count[t], val)
        BY Zenon, IntegerTypes DEF PostAdd, PostEnter
      <3> QED  BY <2>5, <3>1 DEF Fits
    <2>7. count[t] < Modulus
      BY <2>6, SemaAssumption DEF TypeOK
    <2>8. count[t] % Modulus = count[t]
      BY Zenon, <2>6, <2>7, SmallMod, SemaAssumption
    <2> QED  BY Zenon, <2>6, <2>8
  <1>a. /\ val' = val + count[t] /\ mutex' = t /\ mutex = None
        /\ arg' = [arg EXCEPT ![t] = Smaller(-Smaller(val, 0), count[t])]
        /\ val \in Int /\ count[t] \in Int /\ count[t] > 0
    BY Zenon, IntegerTypes DEF PostAdd, PostEnter
  <1>b. Smaller(-Smaller(val, 0), count[t]) \in Nat
    BY <1>a DEF Smaller
  <1>1. TypeOK'
    <2>1. arg' \in [Threads -> Int] /\ val' \in Int /\ tokens' \in Int
      BY <1>a, <1>b, IntegerTypes DEF TypeOK, PostAdd
    <2> QED  BY Zenon, <1>a, <2>1 DEF TypeOK, PostAdd, Goto
  <1>2. Places'
    BY <1>0, SemaAssumption DEF TypeOK, Places, Waiting, PostAdd, PostEnter,
       Goto
  <1>3. Reads'
    BY <1>a, <1>b DEF TypeOK, Reads, PostAdd, Goto
  <1>4. Dead'
    BY <1>a DEF TypeOK, Dead, InIdm, PostAdd, Goto
  <1>5. val' <= MaxVal /\ QueueMatchesVal'
    <2>1. Len(sq) = -Smaller(val, 0)
      BY <1>a, IntegerTypes DEF QueueMatchesVal, Unscheduled, Smaller
    <2>2. Unscheduled' = Smaller(-Smaller(val, 0), count[t])
      BY Zenon, <1>a, SemaAssumption DEF TypeOK, Unscheduled
    <2>3. sq' = sq /\ MaxVal \in Int /\ count[t] <= MaxVal - val
      BY <1>0, SemaAssumption DEF PostAdd
    <2>4. val' <= MaxVal
      BY ONLY <1>a, <2>3
    <2>5. Len(sq') = Unscheduled' - Smaller(val', 0)
      BY ONLY <1>a, <2>1, <2>2, <2>3 DEF Smaller
    <2> QED  BY Zenon, <2>4, <2>5 DEF QueueMatchesVal
  <1>6. TokensConserved'
    <2>1. Granted' = Granted
      BY Zenon, <1>0 DEF TypeOK, Places, Granted, Waiting, PostAdd, PostEnter, Goto
    <2>2. /\ val \in Int /\ tokens \in Int /\ count[t] \in Int
          /\ Len(sq) \in Int /\ Cardinality(Granted) \in Int
      BY IntegerTypes
    <2>3. val' = val + count[t] /\ tokens' = tokens + count[t] /\ sq' = sq
      BY Zenon, <1>0 DEF PostAdd, PostEnter
    <2>4. val + Len(sq) + Cardinality(Granted) = tokens
      BY Zenon DEF TokensConserved
    <2>5. val' + Len(sq') + Cardinality(Granted') = tokens'
      BY ONLY <2>1, <2>2, <2>3, <2>4
    <2> QED  BY Zenon, <2>5 DEF TokensConserved
  <1>7. NoLostWakeup'
    BY <1>0 DEF TypeOK, NoLostWakeup, Places, Waiting, PostAdd, PostEnter, Goto
  <1>8. NoStaleSignal'
    BY <1>0 DEF TypeOK, NoStaleSignal, NoLostWakeup, Places, Waiting, PostAdd,
       PostEnter, Goto
  <1> QED  BY Zenon, <1>1, <1>2, <1>3, <1>4, <1>5, <1>6, <1>7, <1>8

\* PostSchedule preserves the inductive invariant.
LEMMA PostSchedulePreserves ==
  ASSUME IInv, NEW t \in Threads, PostSchedule(t)
  PROVE  IInv'
  <1> USE DEF IInv
  <1>0. PICK i \in DOMAIN sq :
          /\ woken' = [woken EXCEPT ![t] = @ \cup {sq[i]}]
          /\ sq' = RemoveAt(sq, i)
    BY Zenon DEF PostSchedule
  <1>01. /\ sq[i] \in Range(sq) /\ sq[i] \in Threads
         /\ sq' \in Seq(Threads)
         /\ Len(sq') = Len(sq) - 1
         /\ Range(sq') = Range(sq) \ {sq[i]}
         /\ NoDuplicates(sq')
    <2>1. sq \in Seq(Threads) /\ NoDuplicates(sq)
      BY Zenon DEF TypeOK, Places
    <2>2. sq[i] \in Range(sq) /\ sq[i] \in Threads
      BY <2>1 DEF Range
    <2> QED  BY Zenon, <1>0, <2>1, <2>2, RemoveAtSet, RemoveAtElements
  <1>1. TypeOK'
    <2>1. arg' \in [Threads -> Int]
      BY DEF TypeOK, PostSchedule
    <2>2. woken' \in [Threads -> SUBSET Threads]
      BY Zenon, <1>0, <1>01 DEF TypeOK
    <2>3. UNCHANGED <<alive, val, mutex, sched, pc, count, timed, stopped, tokens>>
      BY Zenon DEF PostSchedule
    <2> QED  BY Zenon, <1>01, <2>1, <2>2, <2>3 DEF TypeOK
  <1>2. Places'
    <2>1. /\ pc[t] = "post_wake" /\ mutex = t /\ t # None
          /\ UNCHANGED <<mutex, sched, pc>>
      BY Zenon, SemaAssumption DEF Places, PostSchedule
    <2>2. Waiting(sq[i]) /\ sched[sq[i]] # "signal"
      BY Zenon, <1>01, <2>1 DEF Places
    <2>3. \A u \in Threads : Waiting(u)' = Waiting(u)
      BY Zenon, <2>1 DEF Waiting
    <2>4. \A w \in Range(sq') :
             (Waiting(w) \/ pc[w] = "again")' /\ sched'[w] # "signal"
      <3>1. \A w \in Range(sq) :
               (Waiting(w) \/ pc[w] = "again") /\ sched[w] # "signal"
        BY Zenon DEF Places
      <3> QED  BY ONLY <1>01, <2>1, <3>1 DEF Waiting
    <2>5. \A u \in Threads : \A w \in woken'[u] :
             w \in woken[u] \/ (u = t /\ w = sq[i])
      <3>1. woken \in [Threads -> SUBSET Threads]
        BY Zenon DEF TypeOK
      <3>2. \A u \in Threads :
               woken'[u] = IF u = t THEN woken[u] \cup {sq[i]} ELSE woken[u]
        BY ONLY Zenon, <1>0, <3>1
      <3> QED  BY ONLY Zenon, <3>2
    <2>6. \A u \in Threads : \A w \in woken'[u] :
             /\ pc'[u] = "post_wake"
             /\ Waiting(w)'
             /\ w \notin Range(sq')
             /\ sched'[w] # "signal"
      <3>1. SUFFICES ASSUME NEW u \in Threads, NEW w \in woken'[u]
                     PROVE  /\ pc[u] = "post_wake"
                            /\ Waiting(w)
                            /\ w \notin Range(sq')
                            /\ sched[w] # "signal"
        BY Zenon, <2>1 DEF Waiting
      <3>2. CASE w \in woken[u]
        BY Zenon, <1>01, <3>2 DEF Places
      <3>3. CASE u = t /\ w = sq[i]
        BY Zenon, <1>01, <2>1, <2>2, <3>3
      <3> QED  BY Zenon, <2>5, <3>2, <3>3
    <2>7. \A w \in Range(sq') : pc'[w] # "again"
      BY Zenon, <1>01, <2>1 DEF Places
    <2>8. \A u \in Threads : /\ pc'[u] = "unqueue" => sched'[u] = "run"
                             /\ pc'[u] = "post_wake" <=> mutex' = u
      BY Zenon, <2>1 DEF Places
    <2> QED  BY Zenon, <1>01, <2>4, <2>6, <2>7, <2>8 DEF Places
  <1>3. Reads'
    <2>1. UNCHANGED <<pc, count>> /\ arg[t] > 0 /\ pc[t] = "post_wake"
      BY Zenon DEF PostSchedule
    <2>2. \A u \in Threads : arg'[u] = IF u = t THEN arg[t] - 1 ELSE arg[u]
      BY Zenon DEF TypeOK, PostSchedule
    <2>3. arg[t] \in Int /\ arg[t] - 1 >= 0
      BY <2>1, IntegerTypes
    <2> QED  BY Zenon, <2>1, <2>2, <2>3 DEF Reads
  <1>4. Dead'
    BY Zenon, <1>0, <1>01, SemaAssumption DEF TypeOK, Dead, Reads, InIdm, PostSchedule
  <1>5. val' <= MaxVal /\ QueueMatchesVal'
    <2>1. mutex = t /\ mutex' = t /\ t # None /\ val' = val
      BY Zenon, SemaAssumption DEF Places, PostSchedule
    <2>2. Unscheduled' = Unscheduled - 1 /\ Unscheduled \in Int
      BY Zenon, <2>1, IntegerTypes DEF TypeOK, Unscheduled, PostSchedule
    <2>3. val \in Int /\ Len(sq) = Unscheduled - Smaller(val, 0)
      BY Zenon, IntegerTypes DEF QueueMatchesVal
    <2>4. Len(sq') = Unscheduled' - Smaller(val', 0)
      BY ONLY <1>01, <2>1, <2>2, <2>3 DEF Smaller
    <2> QED  BY Zenon, <2>1, <2>4 DEF QueueMatchesVal
  <1>6. TokensConserved'
    <2>1. sq[i] \notin Granted /\ Granted' = Granted \cup {sq[i]}
      <3>1. mutex = t /\ t # None
        BY Zenon, SemaAssumption DEF Places, PostSchedule
      <3>2. Waiting(sq[i])
        BY Zenon, <1>01, <3>1 DEF Places
      <3>3. \A u \in Threads : Waiting(u)' = Waiting(u)
        BY Zenon DEF Waiting, PostSchedule
      <3> QED  BY Zenon, <1>01, <3>2, <3>3 DEF Granted
    <2>2. Cardinality(Granted)' = Cardinality(Granted) + 1
      BY Zenon, <2>1, GrantedCardinality
    <2>3. /\ val \in Int /\ tokens \in Int /\ Len(sq) \in Int
          /\ Cardinality(Granted) \in Int
          /\ val + Len(sq) + Cardinality(Granted) = tokens
          /\ val' = val /\ tokens' = tokens
      BY IntegerTypes DEF TokensConserved, PostSchedule
    <2>4. val' + Len(sq') + Cardinality(Granted)' = tokens'
      BY ONLY <1>01, <2>2, <2>3
    <2> QED  BY Zenon, <2>4 DEF TokensConserved
  <1>7. NoLostWakeup'
    BY <1>0, <1>01 DEF TypeOK, NoLostWakeup, Places, Waiting, PostSchedule
  <1>8. NoStaleSignal'
    BY Zenon, <1>0, <1>01 DEF TypeOK, NoStaleSignal, NoLostWakeup, Places, Waiting,
       PostSchedule
  <1> QED  BY Zenon, <1>1, <1>2, <1>3, <1>4, <1>5, <1>6, <1>7, <1>8

\* PostAwake preserves the inductive invariant.
LEMMA PostAwakePreserves ==
  ASSUME IInv, NEW t \in Threads, PostAwake(t)
  PROVE  IInv'
  <1> USE DEF IInv
  <1>1. TypeOK'
    BY Zenon, SemaAssumption DEF TypeOK, SchedStates, PostAwake, Return, awake
  <1>2. Places'
    <2>1. /\ mutex = t /\ mutex' = None /\ sq' = sq
          /\ pc' = [pc EXCEPT ![t] = IF stopped[t] THEN "halted" ELSE "idle"]
          /\ woken' = [woken EXCEPT ![t] = {}]
          /\ pc[t] = "post_wake"
      BY Zenon DEF Places, PostAwake, Return
    <2>2. \A u \in Threads : sched'[u] = IF u \in woken[t] /\ sched[u] = "sleep"
                                        THEN "signal" ELSE sched[u]
      BY Zenon DEF TypeOK, PostAwake, awake
    <2>3. Range(sq) \subseteq Threads
      BY DEF TypeOK, Range
    <2>4. \A u \in Threads : u # t => woken[u] = {}
      BY Zenon, <2>1 DEF TypeOK, Places
    <2>5. woken' = [u \in Threads |-> {}]
      BY Zenon, <2>1, <2>4 DEF TypeOK
    <2>6. \A u \in Range(sq) : u # t /\ u \notin woken[t] /\ sched'[u] = sched[u]
      BY Zenon, <2>1, <2>2, <2>3 DEF Places, Waiting
    <2>7. /\ \A u \in Range(sq) : (Waiting(u) \/ pc[u] = "again")'
          /\ \A u \in Range(sq) : sched'[u] # "signal"
      BY Zenon, <2>1, <2>3, <2>6 DEF TypeOK, Places, Waiting
    <2>8. \A u \in Threads : pc'[u] = "unqueue" => sched'[u] = "run"
      BY Zenon, <2>1, <2>2 DEF TypeOK, Places
    <2>9. \A u \in Threads : pc'[u] = "post_wake" <=> mutex' = u
      BY Zenon, <2>1, SemaAssumption DEF TypeOK, Places
    <2> QED  BY Zenon, <2>1, <2>5, <2>7, <2>8, <2>9 DEF Places
  <1>3. Reads'
    BY Zenon, SemaAssumption DEF TypeOK, Reads, PostAwake, Return, awake
  <1>4. Dead'
    BY Zenon, SemaAssumption DEF TypeOK, Dead, Reads, InIdm, PostAwake, Return, awake
  <1>5. val' <= MaxVal /\ QueueMatchesVal'
    BY Zenon, SemaAssumption, IntegerTypes DEF TypeOK, Places, Reads,
       QueueMatchesVal, Unscheduled, Smaller, PostAwake, Return, awake
  <1>6. TokensConserved'
    <2>1. Granted' = Granted
      BY Zenon DEF TypeOK, Places, Granted, Waiting, PostAwake, Return, awake
    <2> QED  BY Zenon, <2>1, IntegerTypes DEF TokensConserved, PostAwake
  <1>7. NoLostWakeup'
    BY DEF TypeOK, NoLostWakeup, Places, Waiting, PostAwake, Return, awake
  <1>8. NoStaleSignal'
    BY DEF TypeOK, NoStaleSignal, NoLostWakeup, Places, Waiting, PostAwake,
       Return, awake
  <1> QED  BY Zenon, <1>1, <1>2, <1>3, <1>4, <1>5, <1>6, <1>7, <1>8

\* Destroy preserves the inductive invariant.
LEMMA DestroyPreserves ==
  ASSUME IInv, NEW t \in Threads, Destroy(t)
  PROVE  IInv'
  <1> USE DEF IInv
  <1>1. TypeOK'
    BY Zenon, SemaAssumption DEF TypeOK, SchedStates, Destroy
  <1>2. Places'
    BY Zenon, SemaAssumption DEF TypeOK, Places, Waiting, Destroy
  <1>3. Reads'
    BY Zenon, SemaAssumption DEF TypeOK, Reads, Destroy
  <1>4. Dead'
    BY Zenon, SemaAssumption DEF TypeOK, Dead, Reads, InIdm, Destroy
  <1>5. val' <= MaxVal /\ QueueMatchesVal'
    BY Zenon, SemaAssumption, IntegerTypes DEF TypeOK, Places, Reads,
       QueueMatchesVal, Unscheduled, Smaller, Destroy
  <1>6. TokensConserved'
    <2>1. Granted' = Granted
      BY Zenon DEF TypeOK, Places, Granted, Waiting, Destroy
    <2> QED  BY Zenon, <2>1, IntegerTypes DEF TokensConserved, Destroy
  <1>7. NoLostWakeup'
    BY Zenon DEF TypeOK, NoLostWakeup, Places, Waiting, Destroy
  <1>8. NoStaleSignal'
    BY Zenon DEF TypeOK, NoStaleSignal, NoLostWakeup, Places, Waiting, Destroy
  <1> QED  BY Zenon, <1>1, <1>2, <1>3, <1>4, <1>5, <1>6, <1>7, <1>8

\* Stop preserves the inductive invariant.
LEMMA StopPreserves ==
  ASSUME IInv, NEW t \in Threads, Stop(t)
  PROVE  IInv'
  <1> USE DEF IInv
  <1>1. TypeOK'
    BY Zenon, SemaAssumption DEF TypeOK, SchedStates, Stop
  <1>2. Places'
    BY Zenon, SemaAssumption DEF TypeOK, Places, Waiting, Stop
  <1>3. Reads'
    BY Zenon, SemaAssumption DEF TypeOK, Reads, Stop
  <1>4. Dead'
    BY Zenon, SemaAssumption DEF TypeOK, Dead, Reads, InIdm, Stop
  <1>5. val' <= MaxVal /\ QueueMatchesVal'
    BY Zenon, SemaAssumption, IntegerTypes DEF TypeOK, Places, Reads,
       QueueMatchesVal, Unscheduled, Smaller, Stop
  <1>6. TokensConserved'
    <2>1. Granted' = Granted
      BY Zenon DEF TypeOK, Places, Granted, Waiting, Stop
    <2> QED  BY Zenon, <2>1, IntegerTypes DEF TokensConserved, Stop
  <1>7. NoLostWakeup'
    BY Zenon DEF TypeOK, NoLostWakeup, Places, Waiting, Stop
  <1>8. NoStaleSignal'
    BY Zenon DEF TypeOK, NoStaleSignal, NoLostWakeup, Places, Waiting, Stop
  <1> QED  BY Zenon, <1>1, <1>2, <1>3, <1>4, <1>5, <1>6, <1>7, <1>8

----------------------------------------------------------------------------
\* The semaphore that sys_semaphore_create builds satisfies the invariant.
LEMMA InitInvariant == Init => IInv
  <1> SUFFICES ASSUME Init PROVE IInv
    BY Zenon
  <1>1. Range(sq) = {} /\ Len(sq) = 0 /\ Granted = {}
    BY DEF Init, Range, Granted, Waiting
  <1>2. Cardinality(Granted) = 0
    BY Zenon, <1>1, FS_EmptySet
  <1>3. TypeOK
    BY SemaAssumption DEF Init, TypeOK, SchedStates
  <1>4. Places
    BY <1>1, SemaAssumption DEF Init, Places, NoDuplicates
  <1>5. val <= MaxVal /\ QueueMatchesVal /\ TokensConserved
    <2>1. val \in 0..MaxVal /\ tokens = val /\ Unscheduled = 0 /\ MaxVal \in Nat
      BY Zenon, SemaAssumption DEF Init, Unscheduled
    <2>2. val \in Int /\ val >= 0 /\ val <= MaxVal
      BY <2>1
    <2>3. Smaller(val, 0) = 0
      BY <2>2 DEF Smaller
    <2>4. QueueMatchesVal
      BY <1>1, <2>1, <2>3 DEF QueueMatchesVal
    <2>5. TokensConserved
      BY <1>1, <1>2, <2>1, <2>2 DEF TokensConserved
    <2> QED  BY Zenon, <2>2, <2>4, <2>5
  <1>6. Reads /\ Dead /\ NoLostWakeup /\ NoStaleSignal
    BY Zenon DEF Init, Reads, Dead, NoLostWakeup, NoStaleSignal, Waiting
  <1> QED  BY Zenon, <1>3, <1>4, <1>5, <1>6 DEF IInv

\* Every step of every thread preserves the invariant.
LEMMA NextPreserves == IInv /\ [Next]_vars => IInv'
  <1> SUFFICES ASSUME IInv, [Next]_vars PROVE IInv'
    BY Zenon
  <1>1. CASE UNCHANGED vars
    BY <1>1 DEF vars, IInv, TypeOK, Places, Reads, Dead, QueueMatchesVal,
       TokensConserved, NoLostWakeup, NoStaleSignal, Waiting, InIdm, Granted,
       Unscheduled
  <1>2. ASSUME NEW t \in Threads,
               Wait(t) \/ TryWait(t) \/ Post(t) \/ Destroy(t) \/ Stop(t)
        PROVE  IInv'
    <2>1. CASE WaitRead(t)  BY Zenon, <2>1, WaitReadPreserves
    <2>2. CASE WaitCas(t)  BY Zenon, <2>2, WaitCasPreserves
    <2>3. CASE WaitCasFailed(t)  BY Zenon, <2>3, WaitCasFailedPreserves
    <2>4. CASE WaitTake(t)  BY Zenon, <2>4, WaitTakePreserves
    <2>5. CASE WaitEnqueue(t)  BY Zenon, <2>5, WaitEnqueuePreserves
    <2>6. CASE WaitSignaled(t)  BY Zenon, <2>6, WaitSignaledPreserves
    <2>7. CASE WaitStopped(t)  BY Zenon, <2>7, WaitStoppedPreserves
    <2>8. CASE WaitStoppedGranted(t)  BY Zenon, <2>8, WaitStoppedGrantedPreserves
    <2>9. CASE WaitTimeout(t)  BY Zenon, <2>9, WaitTimeoutPreserves
    <2>10. CASE WaitCheckState(t)  BY Zenon, <2>10, WaitCheckStatePreserves
    <2>11. CASE WaitCheckStateStopped(t)  BY Zenon, <2>11, WaitCheckStateStoppedPreserves
    <2>12. CASE WaitUnqueue(t)  BY Zenon, <2>12, WaitUnqueuePreserves
    <2>13. CASE WaitUnqueueLate(t)  BY Zenon, <2>13, WaitUnqueueLatePreserves
    <2>14. CASE TryWait(t)  BY Zenon, <2>14, TryWaitPreserves
    <2>15. CASE PostRead(t)  BY Zenon, <2>15, PostReadPreserves
    <2>16. CASE PostCas(t)  BY Zenon, <2>16, PostCasPreserves
    <2>17. CASE PostCasFailed(t)  BY Zenon, <2>17, PostCasFailedPreserves
    <2>18. CASE PostInvalid(t)  BY Zenon, <2>18, PostInvalidPreserves
    <2>19. CASE PostAgain(t)  BY Zenon, <2>19, PostAgainPreserves
    <2>20. CASE PostBusy(t)  BY Zenon, <2>20, PostBusyPreserves
    <2>21. CASE PostAdd(t)  BY Zenon, <2>21, PostAddPreserves
    <2>22. CASE PostSchedule(t)  BY Zenon, <2>22, PostSchedulePreserves
    <2>23. CASE PostAwake(t)  BY Zenon, <2>23, PostAwakePreserves
    <2>24. CASE Destroy(t)  BY Zenon, <2>24, DestroyPreserves
    <2>25. CASE Stop(t)  BY Zenon, <2>25, StopPreserves
    <2> QED  BY Zenon, <1>2, <2>1, <2>2, <2>3, <2>4, <2>5, <2>6, <2>7, <2>8, <2>9,
             <2>10, <2>11, <2>12, <2>13, <2>14, <2>15, <2>16, <2>17, <2>18,
             <2>19, <2>20, <2>21, <2>22, <2>23, <2>24, <2>25 DEF Wait, Post
  <1> QED  BY Zenon, <1>1, <1>2 DEF Next

\* The inductive invariant holds in every reachable state of lv2_sema.
THEOREM InductiveInvariant == Spec => []IInv
  BY InitInvariant, NextPreserves, PTL DEF Spec

\* Every variable of the semaphore keeps its type.
THEOREM TypeCorrect == Spec => []TypeOK
  <1>1. IInv => TypeOK
    BY Zenon DEF IInv
  <1> QED  BY <1>1, InductiveInvariant, PTL

\* No interleaving of sys_semaphore_wait, trywait, post, timeouts and stops
\* loses a token or hands it out twice.
THEOREM TokensAreConserved == Spec => []TokensConserved
  <1>1. IInv => TokensConserved
    BY Zenon DEF IInv
  <1> QED  BY <1>1, InductiveInvariant, PTL

\* sys_semaphore_post always finds as many waiters as it has to schedule.
THEOREM ValCountsWaiters == Spec => []QueueMatchesVal
  <1>1. IInv => QueueMatchesVal
    BY Zenon DEF IInv
  <1> QED  BY <1>1, InductiveInvariant, PTL

\* ensure(0 > val) in the timeout path of sys_semaphore_wait never fails and
\* val never exceeds max, for any width of the unsigned comparison.
THEOREM ValStaysInRange == Spec => []ValInRange
  <1>1. ASSUME IInv PROVE ValInRange
    <2>1. ASSUME NEW t \in Threads, mutex = None, t \in Range(sq)
          PROVE  val < 0
      <3>1. Len(sq) # 0
        BY <1>1, <2>1 DEF IInv, TypeOK, Range
      <3> QED
        BY <1>1, <2>1, <3>1, IntegerTypes
           DEF IInv, QueueMatchesVal, Unscheduled, Smaller
    <2> QED  BY Zenon, <1>1, <2>1 DEF IInv, ValInRange
  <1> QED  BY <1>1, InductiveInvariant, PTL

\* No sleeping waiter is ever out of reach of the posts.
THEOREM NoWakeupIsLost == Spec => []NoLostWakeup
  <1>1. IInv => NoLostWakeup
    BY Zenon DEF IInv
  <1> QED  BY <1>1, InductiveInvariant, PTL

\* No thread leaves a wait with a signal still pending.
THEOREM NoSignalIsLeft == Spec => []NoStaleSignal
  <1>1. IInv => NoStaleSignal
    BY Zenon DEF IInv
  <1> QED  BY <1>1, InductiveInvariant, PTL

\* sys_semaphore_destroy never strands a waiter.
THEOREM DestroyStrandsNobody == Spec => []DestroyedIsEmpty
  <1>1. ASSUME IInv PROVE DestroyedIsEmpty
    <2> SUFFICES ASSUME ~alive, mutex = None PROVE sq = <<>>
      BY Zenon DEF DestroyedIsEmpty
    <2>1. Len(sq) = 0
      BY <1>1, IntegerTypes
         DEF IInv, Dead, QueueMatchesVal, Unscheduled, Smaller
    <2> QED  BY <1>1, <2>1 DEF IInv, TypeOK
  <1> QED  BY <1>1, InductiveInvariant, PTL

\* The value is exact for any number of threads and any bound.
THEOREM ValIsExact == Spec => []ValAgrees
  <1>1. QueueMatchesVal /\ ValInRange => ValAgrees
    BY Zenon DEF ValAgrees
  <1> QED  BY <1>1, ValCountsWaiters, ValStaysInRange, PTL

\* Sleepers and wake-ups of sys_semaphore_wait, post and destroy always match.
THEOREM WakeupsAreMatched == Spec => []WakeupsMatch
  <1>1. NoLostWakeup /\ NoStaleSignal /\ DestroyedIsEmpty => WakeupsMatch
    BY Zenon DEF WakeupsMatch
  <1> QED  BY <1>1, NoWakeupIsLost, NoSignalIsLeft, DestroyStrandsNobody, PTL

\* A savestate taken between calls keeps every token.
THEOREM SavestateIsExact == Spec => []SavestateKeepsTokens
  <1>1. ASSUME IInv PROVE SavestateKeepsTokens
    <2> SUFFICES ASSUME \A t \in Threads : pc[t] \in {"idle", "halted", "again"}
                 PROVE  val - Smaller(val, 0) = tokens
      BY Zenon DEF SavestateKeepsTokens
    <2>1. Granted = {}
      BY Zenon DEF Granted, Waiting
    <2>2. mutex = None
      BY Zenon, <1>1 DEF IInv, TypeOK, Places
    <2>3. Cardinality(Granted) = 0
      BY Zenon, <2>1, FS_EmptySet
    <2> QED
      BY <1>1, <2>2, <2>3, IntegerTypes
         DEF IInv, QueueMatchesVal, TokensConserved, Unscheduled, Smaller
  <1> QED  BY <1>1, InductiveInvariant, PTL
=============================================================================
