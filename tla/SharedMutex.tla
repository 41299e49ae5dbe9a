---------------------------- MODULE SharedMutex ----------------------------
(***************************************************************************)
(* shared_mutex (Utilities/mutex.h, mutex.cpp), the lock that every lv2    *)
(* object and id_manager use.  Readers count 1 in m_value; a writer, and   *)
(* anybody who waits, counts c_one; a release that leaves waiters behind   *)
(* adds c_sig afterwards, for one of them or for a passer-by to take.      *)
(*                                                                         *)
(* A step is one atomic operation on m_value, one notification, or one     *)
(* look of lock_unlock at m_value.  A load followed by a compare-and-swap  *)
(* that succeeds is one step, and the ten or thirty attempts of a spinning *)
(* loop are any number of attempts.  m_value.wait(old) sleeps if m_value   *)
(* has not changed, that is if there is still nothing to take.             *)
(***************************************************************************)
EXTENDS Integers, FiniteSets

CONSTANTS
  Threads, \* host threads
  c_one,   \* one writer or waiter
  c_sig    \* the signal bit

ASSUME SharedMutexAssumption ==
  /\ IsFiniteSet(Threads)
  /\ c_one \in Nat /\ c_one > 1
  /\ c_sig \in Nat /\ c_sig % c_one = 0
  /\ (Cardinality(Threads) + 1) * c_one <= c_sig

VARIABLES
  m_value, \* shared_mutex::m_value
  pc,      \* where each thread is
  want,    \* what a waiting thread waits for
  max,     \* _max of imp_lock_unlock
  ahead    \* history: who was inside when t called lock_unlock, and still is

vars == <<m_value, pc, want, max, ahead>>

Wants == {"none", "read", "write", "upgrade", "pass"}

TypeOK ==
  /\ m_value \in Nat
  /\ pc \in [Threads -> {"idle", "reading", "locking", "wait", "asleep",
                         "downgrade", "reader", "writer", "signal", "notify",
                         "look", "pass"}]
  /\ want \in [Threads -> Wants]
  /\ max \in [Threads -> Nat]
  /\ ahead \in [Threads -> SUBSET Threads]

Init ==
  /\ m_value = 0
  /\ pc = [t \in Threads |-> "idle"]
  /\ want = [t \in Threads |-> "none"]
  /\ max = [t \in Threads |-> 0]
  /\ ahead = [t \in Threads |-> {}]

Readers == {t \in Threads : pc[t] = "reader"}
Writers == {t \in Threads : pc[t] \in {"writer", "downgrade", "pass"}}
Waiters == {t \in Threads : pc[t] \in {"wait", "asleep"}}

\* Inside, as the callers of the lock see it.
Inside == {t \in Threads : pc[t] \in {"reader", "writer"}}

Goto(t, label) == pc' = [pc EXCEPT ![t] = label]

\* Where the thread goes when it has what it waited for.
Granted(wanted) ==
  CASE wanted = "read" -> "downgrade"
    [] wanted = "pass" -> "pass"
    [] OTHER           -> "writer"

\* t has left.
Leave(t) == ahead' = [u \in Threads |-> ahead[u] \ {t}]

----------------------------------------------------------------------------
\* Mutant: one reader too many is let in.
LockSharedFull(t) ==
  /\ pc[t] \in {"idle", "reading"}
  /\ m_value < c_one
  /\ m_value' = m_value + 1
  /\ Goto(t, "reader")
  /\ UNCHANGED <<want, max, ahead>>

\* lock_shared and try_lock_shared
LockShared(t) ==
  /\ pc[t] \in {"idle", "reading"}
  /\ m_value < c_one - 1
  /\ m_value' = m_value + 1
  /\ Goto(t, "reader")
  /\ UNCHANGED <<want, max, ahead>>

\* The first attempt fails, on the value or because another thread changes it.
LockSharedSlow(t) ==
  /\ pc[t] = "idle"
  /\ Goto(t, "reading")
  /\ UNCHANGED <<m_value, want, max, ahead>>

\* imp_lock_shared takes the signal.
StealShared(t) ==
  /\ pc[t] = "reading"
  /\ m_value >= c_sig
  /\ m_value' = m_value - c_sig + 1
  /\ Goto(t, "reader")
  /\ UNCHANGED <<want, max, ahead>>

\* It gives up spinning and gets in line like a writer.
AddShared(t) ==
  /\ pc[t] = "reading"
  /\ m_value' = m_value + c_one
  /\ IF m_value = 0
     THEN Goto(t, "downgrade") /\ UNCHANGED want
     ELSE Goto(t, "wait") /\ want' = [want EXCEPT ![t] = "read"]
  /\ UNCHANGED <<max, ahead>>

\* lock_downgrade, of a reader that got in as a writer or of a writer.
Downgrade(t) ==
  /\ pc[t] \in {"downgrade", "writer"}
  /\ m_value' = m_value - (c_one - 1)
  /\ Goto(t, "reader")
  /\ UNCHANGED <<want, max, ahead>>

\* Mutant: the last reader does not signal the waiters.
UnlockSharedSilent(t) ==
  /\ pc[t] = "reader"
  /\ m_value' = m_value - 1
  /\ Goto(t, "idle")
  /\ Leave(t)
  /\ UNCHANGED <<want, max>>

\* unlock_shared and imp_unlock_shared
UnlockShared(t) ==
  /\ pc[t] = "reader"
  /\ m_value' = m_value - 1
  /\ Goto(t, IF m_value >= c_one /\ (m_value - 1) % c_one = 0
             THEN "signal" ELSE "idle")
  /\ Leave(t)
  /\ UNCHANGED <<want, max>>

----------------------------------------------------------------------------
\* lock and try_lock
Lock(t) ==
  /\ pc[t] \in {"idle", "locking"}
  /\ m_value = 0
  /\ m_value' = c_one
  /\ Goto(t, "writer")
  /\ UNCHANGED <<want, max, ahead>>

LockSlow(t) ==
  /\ pc[t] = "idle"
  /\ m_value # 0
  /\ Goto(t, "locking")
  /\ UNCHANGED <<m_value, want, max, ahead>>

\* Mutant: the signal is left for somebody else.
StealKeeps(t) ==
  /\ pc[t] = "locking"
  /\ m_value >= c_sig
  /\ m_value' = m_value + c_one
  /\ Goto(t, "writer")
  /\ UNCHANGED <<want, max, ahead>>

\* imp_lock takes the signal.
Steal(t) ==
  /\ pc[t] = "locking"
  /\ m_value >= c_sig
  /\ m_value' = m_value - c_sig + c_one
  /\ Goto(t, "writer")
  /\ UNCHANGED <<want, max, ahead>>

\* It gives up spinning.
Add(t) ==
  /\ pc[t] = "locking"
  /\ m_value' = m_value + c_one
  /\ IF m_value = 0
     THEN Goto(t, "writer") /\ UNCHANGED want
     ELSE Goto(t, "wait") /\ want' = [want EXCEPT ![t] = "write"]
  /\ UNCHANGED <<max, ahead>>

\* unlock and imp_unlock, of a writer or of lock_unlock
Unlock(t) ==
  /\ pc[t] \in {"writer", "pass"}
  /\ m_value' = m_value - c_one
  /\ Goto(t, IF m_value # c_one THEN "signal" ELSE "idle")
  /\ Leave(t)
  /\ UNCHANGED <<want, max>>

\* lock_upgrade: the only reader becomes the writer at once, any other lets go
\* and waits.
Upgrade(t) ==
  /\ pc[t] = "reader"
  /\ m_value' = m_value + (c_one - 1)
  /\ IF m_value % c_one = 1
     THEN Goto(t, "writer") /\ UNCHANGED <<want, ahead>>
     ELSE Goto(t, "wait") /\ want' = [want EXCEPT ![t] = "upgrade"] /\ Leave(t)
  /\ UNCHANGED max

----------------------------------------------------------------------------
\* imp_wait takes the signal,
WaitTake(t) ==
  /\ pc[t] = "wait"
  /\ m_value >= c_sig
  /\ m_value' = m_value - c_sig
  /\ Goto(t, Granted(want[t]))
  /\ want' = [want EXCEPT ![t] = "none"]
  /\ UNCHANGED <<max, ahead>>

\* or sleeps.
WaitSleep(t) ==
  /\ pc[t] = "wait"
  /\ m_value < c_sig
  /\ Goto(t, "asleep")
  /\ UNCHANGED <<m_value, want, max, ahead>>

\* imp_signal
Signal(t) ==
  /\ pc[t] = "signal"
  /\ m_value' = m_value + c_sig
  /\ Goto(t, "notify")
  /\ UNCHANGED <<want, max, ahead>>

\* notify_one
Notify(t) ==
  /\ pc[t] = "notify"
  /\ LET sleepers == {u \in Threads : pc[u] = "asleep"}
     IN  IF sleepers = {}
         THEN Goto(t, "idle")
         ELSE \E u \in sleepers :
                pc' = [pc EXCEPT ![t] = "idle", ![u] = "wait"]
  /\ UNCHANGED <<m_value, want, max, ahead>>

----------------------------------------------------------------------------
\* lock_unlock returns at once if m_value is 0.
PassCall(t) ==
  /\ pc[t] = "idle"
  /\ m_value # 0
  /\ Goto(t, "look")
  /\ max' = [max EXCEPT ![t] = 1]
  /\ ahead' = [ahead EXCEPT ![t] = Inside]
  /\ UNCHANGED <<m_value, want>>

\* Mutant: the same number of waiters as before is enough.
PassableEarly(t) ==
  m_value % c_one = 0 /\ (m_value \div c_one <= max[t] \/ m_value >= c_sig)

\* What imp_lock_unlock takes for a sign that it may return.
Passable(t) ==
  m_value % c_one = 0 /\ (m_value \div c_one < max[t] \/ m_value >= c_sig)

PassReturn(t) ==
  /\ pc[t] = "look"
  /\ Passable(t)
  /\ Goto(t, "idle")
  /\ max' = [max EXCEPT ![t] = 0]
  /\ UNCHANGED <<m_value, want, ahead>>

PassLook(t) ==
  /\ pc[t] = "look"
  /\ ~Passable(t)
  /\ max' = [max EXCEPT ![t] = m_value \div c_one]
  /\ UNCHANGED <<m_value, pc, want, ahead>>

\* It gives up looking and locks.
PassAdd(t) ==
  /\ pc[t] = "look"
  /\ m_value' = m_value + c_one
  /\ IF m_value = 0
     THEN Goto(t, "pass") /\ UNCHANGED want
     ELSE Goto(t, "wait") /\ want' = [want EXCEPT ![t] = "pass"]
  /\ max' = [max EXCEPT ![t] = 0]
  /\ UNCHANGED ahead

\* A call that was not made yet.
Begin(t) == \/ LockShared(t) \/ LockSharedSlow(t)
            \/ Lock(t) \/ LockSlow(t) \/ PassCall(t)

\* What a thread does next once it has begun.
Step(t) ==
  \/ StealShared(t) \/ AddShared(t) \/ Downgrade(t) \/ UnlockShared(t)
  \/ Steal(t) \/ Add(t) \/ Unlock(t) \/ Upgrade(t)
  \/ WaitTake(t) \/ WaitSleep(t) \/ Signal(t) \/ Notify(t)
  \/ PassReturn(t) \/ PassLook(t) \/ PassAdd(t)

Next == \E t \in Threads : Begin(t) \/ Step(t)

Spec == Init /\ [][Next]_vars

----------------------------------------------------------------------------
Signals == IF m_value >= c_sig THEN 1 ELSE 0

Signalling == {t \in Threads : pc[t] = "signal"}

\* m_value counts readers, writers and waiters exactly, with at most one signal:
\* none of the checks for overflow and underflow ever fails, and the readers
\* never spill over into the writers.
ValueAgrees ==
  /\ m_value = Cardinality(Readers)
               + c_one * (Cardinality(Writers) + Cardinality(Waiters))
               + c_sig * Signals
  /\ m_value < 2 * c_sig
  /\ Cardinality(Readers) < c_one

\* A writer is alone, whether it came in by the fast path, by taking a signal
\* that was meant for somebody else, by waiting or by an upgrade.
MutualExclusion ==
  \A t \in Writers : Readers = {} /\ Writers = {t}

\* Whenever somebody waits and nobody is inside, exactly one signal is set or
\* about to be; and one that is set is seen: somebody who waits is awake, or is
\* about to be notified.
NoLostSignal ==
  /\ Waiters # {} /\ Readers \cup Writers = {} =>
       Cardinality(Signalling) + Signals = 1
  /\ Waiters = {} \/ Readers \cup Writers # {} =>
       Signalling = {} /\ Signals = 0
  /\ Signals = 1 => \E t \in Threads : pc[t] \in {"wait", "notify"}

\* "Optimized wait for lockability without locking": when lock_unlock returns,
\* everybody who was inside when it was called has left, although all it has to
\* go by is how m_value changed between two looks.
PassWaits ==
  [][\A t \in Threads :
       pc[t] \in {"look", "pass"} /\ pc'[t] \in {"idle", "signal"} =>
         ahead[t] = {}]_vars
=============================================================================
