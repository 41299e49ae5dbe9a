-------------------------- MODULE PpuThreadProofs --------------------------
(***************************************************************************)
(* The safety properties of PpuThread for any number of threads and any    *)
(* size of the default memory container.                                   *)
(***************************************************************************)
EXTENDS PpuThread, FiniteSetTheorems, TLAPS

\* A thread that has been created and has not begun to exit.
InUse(t) ==
  pc[t] \in {"created", "started", "idle", "join", "cleanup", "detach", "again",
             "halted"} \cup Creating

\* The id, the joiner and the host thread of t fit where it is.
Life(t) ==
  /\ t \in registered => pc[t] # "none"
  /\ InUse(t) => t \in registered /\ joiner[t] \notin {"zombie", "exited"}
  /\ pc[t] = "none" => joiner[t] = "joinable"
  /\ pc[t] = "zombie" => joiner[t] \in {"zombie", "exited"}
  /\ pc[t] \in Exiting => joiner[t] = "exited"
  /\ joiner[t] = "zombie" => t \in registered /\ pc[t] = "zombie"
  /\ host[t] = "finished" => pc[t] \in {"halted", "again", "done"}

\* A creation has a new thread of its own.
Makes(t) ==
  pc[t] \in Creating =>
    /\ arg[t] \in Threads
    /\ pc[arg[t]] = "none"
    /\ \A u \in Threads \ {t} : pc[u] \in Creating => arg[u] # arg[t]

\* A join or a detach and the thread it waits for.
Awaits(t) ==
  /\ pc[t] \in {"none", "created", "started", "idle", "zombie", "halted"} =>
       arg[t] = None
  /\ pc[t] \in {"join", "cleanup", "detach"} => arg[t] \in Threads
  /\ claimed[t] => /\ pc[t] \in {"join", "cleanup"}
                   /\ arg[t] \in registered
                   /\ joiner[arg[t]] = "exited"
                   /\ \A u \in Threads \ {t} : claimed[u] => arg[u] # arg[t]
  /\ pc[t] = "join" /\ ~claimed[t] =>
       IF joiner[arg[t]] = "exited" THEN sched[t] = "signal"
       ELSE joiner[arg[t]] = t /\ sched[t] = "sleep"
  /\ pc[t] = "detach" => joiner[arg[t]] = "exited" /\ arg[t] \notin registered
  /\ pc[t] = "again" /\ arg[t] # None =>
       joiner[arg[t]] = t /\ host[arg[t]] = "finished"

\* The joiner that t names waits for t.
Named(t) ==
  joiner[t] \in Threads =>
    /\ t \in registered
    /\ pc[joiner[t]] \in {"join", "again"}
    /\ arg[joiner[t]] = t
    /\ ~claimed[joiner[t]]

\* A thread that left IDM through the cleaner.
Gone(t) == t \notin registered /\ joiner[t] = "exited"

\* Who is left to be cleaned up, and by whom.
Reaped ==
  /\ \A u \in registered : joiner[u] = "exited" =>
       \E t \in Threads : claimed[t] /\ arg[t] = u
  /\ cleaner # None => Gone(cleaner)
  /\ \A u \in Threads : old[u] # None =>
       /\ Gone(old[u])
       /\ old[u] # cleaner
       /\ \A v \in Threads \ {u} : old[v] # old[u]

\* The inductive invariant.
IInv ==
  /\ TypeOK
  /\ \A t \in Threads : Life(t) /\ Makes(t) /\ Awaits(t) /\ Named(t)
  /\ Reaped
  /\ ContainerExact

\* Threads whose stack the container counts.
Stacked == {t \in Threads : pc[t] \notin {"none", "reap", "finish", "done"}}

\* Threads in the middle of _sys_ppu_thread_create.
Makers == {t \in Threads : pc[t] \in Creating}

----------------------------------------------------------------------------
(* Counting stacks. *)

\* Both sets have a size.
LEMMA Sizes ==
  ASSUME NEW S \in SUBSET Threads
  PROVE  IsFiniteSet(S) /\ Cardinality(S) \in Nat /\ (S # {} => Cardinality(S) >= 1)
  BY PpuThreadAssumption, FS_Subset, FS_CardinalityType, FS_EmptySet

\* One more or one less.
LEMMA OneMore ==
  ASSUME NEW S \in SUBSET Threads, NEW t \in Threads
  PROVE  /\ t \notin S => Cardinality(S \cup {t}) = Cardinality(S) + 1
         /\ t \in S => Cardinality(S \ {t}) = Cardinality(S) - 1
  BY Zenon, Sizes, FS_AddElement, FS_RemoveElement

\* What ContainerExact counts.
LEMMA Counted ==
  ContainerExact <=> used = Cardinality(Stacked) + Cardinality(Makers)
  BY Zenon DEF ContainerExact, Stacked, Makers

\* The same after a step.
LEMMA CountedNext ==
  ContainerExact' <=> used' = Cardinality(Stacked') + Cardinality(Makers')
  BY Zenon DEF ContainerExact, Stacked, Makers

\* A step that moves no thread into or out of what is counted.
LEMMA SameStacks ==
  ASSUME ContainerExact, used' = used,
         \A u \in Threads : /\ u \in Stacked' <=> u \in Stacked
                            /\ u \in Makers' <=> u \in Makers
  PROVE  ContainerExact'
  <1>1. Stacked' = Stacked /\ Makers' = Makers
    BY Zenon DEF Stacked, Makers
  <1> QED  BY Zenon, <1>1, Counted, CountedNext

----------------------------------------------------------------------------
(* One lemma per action: it preserves the inductive invariant. *)

\* CreateAlloc preserves the inductive invariant.
LEMMA CreateAllocPreserves ==
  ASSUME IInv, NEW t \in Threads, CreateAlloc(t)
  PROVE  IInv'
  <1> USE PpuThreadAssumption DEF IInv
  <1>a. arg[t] \in Threads /\ pc[arg[t]] = "none" /\ arg[t] # t
    BY Zenon DEF Makes, Creating, CreateAlloc
  <1>1. TypeOK'
    BY Zenon, <1>a DEF TypeOK, JoinStatus, SchedStates, Creating, Exiting,
       CreateAlloc, Goto
  <1>2. ASSUME NEW u \in Threads  PROVE Life(u)'
    BY <1>a, <1>2 DEF TypeOK, Life, Makes, Awaits, InUse, Creating, Exiting,
       CreateAlloc, Goto
  <1>3. ASSUME NEW u \in Threads  PROVE Makes(u)'
    BY <1>a, <1>3 DEF TypeOK, Life, Makes, InUse, Creating, Exiting,
       CreateAlloc, Goto
  <1>4. ASSUME NEW u \in Threads  PROVE Awaits(u)'
    BY <1>a, <1>4 DEF TypeOK, JoinStatus, Life, Makes, Awaits, Named, InUse,
       Creating, Exiting, CreateAlloc, Goto
  <1>5. ASSUME NEW u \in Threads  PROVE Named(u)'
    BY <1>a, <1>5 DEF TypeOK, JoinStatus, Life, Makes, Awaits, Named, InUse,
       Creating, Exiting, CreateAlloc, Goto
  <1>6. Reaped'
    BY <1>a DEF TypeOK, JoinStatus, Life, Makes, Awaits, InUse, Creating,
       Exiting, Reaped, Gone, CreateAlloc, Goto
  <1>7. ContainerExact'
    BY Zenon, <1>a, SameStacks DEF TypeOK, Stacked, Makers, Creating, Exiting,
       CreateAlloc, Goto
  <1> QED  BY Zenon, <1>1, <1>2, <1>3, <1>4, <1>5, <1>6, <1>7

\* CreateName preserves the inductive invariant.
LEMMA CreateNamePreserves ==
  ASSUME IInv, NEW t \in Threads, CreateName(t)
  PROVE  IInv'
  <1> USE PpuThreadAssumption DEF IInv
  <1>a. arg[t] \in Threads /\ pc[arg[t]] = "none" /\ arg[t] # t
    BY Zenon DEF Makes, Creating, CreateName
  <1>1. TypeOK'
    BY Zenon, <1>a DEF TypeOK, JoinStatus, SchedStates, Creating, Exiting,
       CreateName, Goto
  <1>2. ASSUME NEW u \in Threads  PROVE Life(u)'
    BY <1>a, <1>2 DEF TypeOK, Life, Makes, Awaits, InUse, Creating, Exiting,
       CreateName, Goto
  <1>3. ASSUME NEW u \in Threads  PROVE Makes(u)'
    BY <1>a, <1>3 DEF TypeOK, Life, Makes, InUse, Creating, Exiting,
       CreateName, Goto
  <1>4. ASSUME NEW u \in Threads  PROVE Awaits(u)'
    BY <1>a, <1>4 DEF TypeOK, JoinStatus, Life, Makes, Awaits, Named, InUse,
       Creating, Exiting, CreateName, Goto
  <1>5. ASSUME NEW u \in Threads  PROVE Named(u)'
    BY <1>a, <1>5 DEF TypeOK, JoinStatus, Life, Makes, Awaits, Named, InUse,
       Creating, Exiting, CreateName, Goto
  <1>6. Reaped'
    BY <1>a DEF TypeOK, JoinStatus, Life, Makes, Awaits, InUse, Creating,
       Exiting, Reaped, Gone, CreateName, Goto
  <1>7. ContainerExact'
    BY Zenon, <1>a, SameStacks DEF TypeOK, Stacked, Makers, Creating, Exiting,
       CreateName, Goto
  <1> QED  BY Zenon, <1>1, <1>2, <1>3, <1>4, <1>5, <1>6, <1>7

\* Start preserves the inductive invariant.
LEMMA StartPreserves ==
  ASSUME IInv, NEW t \in Threads, Start(t)
  PROVE  IInv'
  <1> USE PpuThreadAssumption DEF IInv
  <1>1. TypeOK'
    BY DEF TypeOK, JoinStatus, SchedStates, Creating, Exiting, Start, Goto,
       awake
  <1>2. ASSUME NEW u \in Threads  PROVE Life(u)'
    BY <1>2 DEF TypeOK, Life, Makes, Awaits, InUse, Creating, Exiting, Start,
       Goto, awake
  <1>3. ASSUME NEW u \in Threads  PROVE Makes(u)'
    BY <1>3 DEF TypeOK, Life, Makes, InUse, Creating, Exiting, Start, Goto,
       awake
  <1>4. ASSUME NEW u \in Threads  PROVE Awaits(u)'
    BY <1>4 DEF TypeOK, JoinStatus, Life, Makes, Awaits, Named, InUse,
       Creating, Exiting, Start, Goto, awake
  <1>5. ASSUME NEW u \in Threads  PROVE Named(u)'
    BY <1>5 DEF TypeOK, JoinStatus, Life, Makes, Awaits, Named, InUse,
       Creating, Exiting, Start, Goto, awake
  <1>6. Reaped'
    BY DEF TypeOK, JoinStatus, Life, Makes, Awaits, InUse, Creating, Exiting,
       Reaped, Gone, Start, Goto, awake
  <1>7. ContainerExact'
    BY Zenon, SameStacks DEF TypeOK, Stacked, Makers, Creating, Exiting, Start, Goto,
       awake
  <1> QED  BY Zenon, <1>1, <1>2, <1>3, <1>4, <1>5, <1>6, <1>7

\* Begin preserves the inductive invariant.
LEMMA BeginPreserves ==
  ASSUME IInv, NEW t \in Threads, Begin(t)
  PROVE  IInv'
  <1> USE PpuThreadAssumption DEF IInv
  <1>1. TypeOK'
    BY Zenon DEF TypeOK, JoinStatus, SchedStates, Creating, Exiting, Begin, Goto
  <1>2. ASSUME NEW u \in Threads  PROVE Life(u)'
    BY <1>2 DEF TypeOK, Life, Makes, Awaits, InUse, Creating, Exiting, Begin,
       Goto
  <1>3. ASSUME NEW u \in Threads  PROVE Makes(u)'
    BY <1>3 DEF TypeOK, Life, Makes, InUse, Creating, Exiting, Begin, Goto
  <1>4. ASSUME NEW u \in Threads  PROVE Awaits(u)'
    BY <1>4 DEF TypeOK, JoinStatus, Life, Makes, Awaits, Named, InUse,
       Creating, Exiting, Begin, Goto
  <1>5. ASSUME NEW u \in Threads  PROVE Named(u)'
    BY <1>5 DEF TypeOK, JoinStatus, Life, Makes, Awaits, Named, InUse,
       Creating, Exiting, Begin, Goto
  <1>6. Reaped'
    BY DEF TypeOK, JoinStatus, Life, Makes, Awaits, InUse, Creating, Exiting,
       Reaped, Gone, Begin, Goto
  <1>7. ContainerExact'
    BY Zenon, SameStacks DEF TypeOK, Stacked, Makers, Creating, Exiting, Begin, Goto
  <1> QED  BY Zenon, <1>1, <1>2, <1>3, <1>4, <1>5, <1>6, <1>7

\* Exit preserves the inductive invariant.
LEMMA ExitPreserves ==
  ASSUME IInv, NEW t \in Threads, Exit(t)
  PROVE  IInv'
  <1> USE PpuThreadAssumption DEF IInv
  <1>1. TypeOK'
    BY DEF TypeOK, JoinStatus, SchedStates, Creating, Exiting, Exit, Goto,
       awake, sleep, clean
  <1>2. ASSUME NEW u \in Threads  PROVE Life(u)'
    BY <1>2 DEF TypeOK, Life, Makes, Awaits, InUse, Creating, Exiting, Exit,
       Goto, awake, sleep, clean
  <1>3. ASSUME NEW u \in Threads  PROVE Makes(u)'
    BY <1>3 DEF TypeOK, Life, Makes, InUse, Creating, Exiting, Exit, Goto,
       awake, sleep, clean
  <1>4. ASSUME NEW u \in Threads  PROVE Awaits(u)'
    BY <1>4 DEF TypeOK, JoinStatus, Life, Makes, Awaits, Named, InUse,
       Creating, Exiting, Exit, Goto, awake, sleep, clean
  <1>5. ASSUME NEW u \in Threads  PROVE Named(u)'
    BY <1>5 DEF TypeOK, JoinStatus, Life, Makes, Awaits, Named, InUse,
       Creating, Exiting, Exit, Goto, awake, sleep, clean
  <1>6. Reaped'
    BY DEF TypeOK, JoinStatus, Life, Makes, Awaits, InUse, Creating, Exiting,
       Reaped, Gone, Exit, Goto, awake, sleep, clean
  <1>7. ContainerExact'
    BY SameStacks DEF TypeOK, Stacked, Makers, Creating, Exiting, Exit, Goto,
       awake, sleep, clean
  <1> QED  BY Zenon, <1>1, <1>2, <1>3, <1>4, <1>5, <1>6, <1>7

\* ExitAborted preserves the inductive invariant.
LEMMA ExitAbortedPreserves ==
  ASSUME IInv, NEW t \in Threads, ExitAborted(t)
  PROVE  IInv'
  <1> USE PpuThreadAssumption DEF IInv
  <1>1. TypeOK'
    BY Zenon DEF TypeOK, JoinStatus, SchedStates, Creating, Exiting, ExitAborted,
       Goto
  <1>2. ASSUME NEW u \in Threads  PROVE Life(u)'
    BY <1>2 DEF TypeOK, Life, Makes, Awaits, InUse, Creating, Exiting,
       ExitAborted, Goto
  <1>3. ASSUME NEW u \in Threads  PROVE Makes(u)'
    BY <1>3 DEF TypeOK, Life, Makes, InUse, Creating, Exiting, ExitAborted,
       Goto
  <1>4. ASSUME NEW u \in Threads  PROVE Awaits(u)'
    BY <1>4 DEF TypeOK, JoinStatus, Life, Makes, Awaits, Named, InUse,
       Creating, Exiting, ExitAborted, Goto
  <1>5. ASSUME NEW u \in Threads  PROVE Named(u)'
    BY <1>5 DEF TypeOK, JoinStatus, Life, Makes, Awaits, Named, InUse,
       Creating, Exiting, ExitAborted, Goto
  <1>6. Reaped'
    BY DEF TypeOK, JoinStatus, Life, Makes, Awaits, InUse, Creating, Exiting,
       Reaped, Gone, ExitAborted, Goto
  <1>7. ContainerExact'
    BY Zenon, SameStacks DEF TypeOK, Stacked, Makers, Creating, Exiting, ExitAborted,
       Goto
  <1> QED  BY Zenon, <1>1, <1>2, <1>3, <1>4, <1>5, <1>6, <1>7

\* ExitTaken preserves the inductive invariant.
LEMMA ExitTakenPreserves ==
  ASSUME IInv, NEW t \in Threads, ExitTaken(t)
  PROVE  IInv'
  <1> USE PpuThreadAssumption DEF IInv
  <1>1. TypeOK'
    BY Zenon DEF TypeOK, JoinStatus, SchedStates, Creating, Exiting, ExitTaken, Goto
  <1>2. ASSUME NEW u \in Threads  PROVE Life(u)'
    BY <1>2 DEF TypeOK, Life, Makes, Awaits, InUse, Creating, Exiting,
       ExitTaken, Goto
  <1>3. ASSUME NEW u \in Threads  PROVE Makes(u)'
    BY <1>3 DEF TypeOK, Life, Makes, InUse, Creating, Exiting, ExitTaken, Goto
  <1>4. ASSUME NEW u \in Threads  PROVE Awaits(u)'
    BY <1>4 DEF TypeOK, JoinStatus, Life, Makes, Awaits, Named, InUse,
       Creating, Exiting, ExitTaken, Goto
  <1>5. ASSUME NEW u \in Threads  PROVE Named(u)'
    BY <1>5 DEF TypeOK, JoinStatus, Life, Makes, Awaits, Named, InUse,
       Creating, Exiting, ExitTaken, Goto
  <1>6. Reaped'
    BY DEF TypeOK, JoinStatus, Life, Makes, Awaits, InUse, Creating, Exiting,
       Reaped, Gone, ExitTaken, Goto
  <1>7. ContainerExact'
    BY Zenon, SameStacks DEF TypeOK, Stacked, Makers, Creating, Exiting, ExitTaken,
       Goto
  <1> QED  BY Zenon, <1>1, <1>2, <1>3, <1>4, <1>5, <1>6, <1>7

\* ExitDealloc preserves the inductive invariant.
LEMMA ExitDeallocPreserves ==
  ASSUME IInv, NEW t \in Threads, ExitDealloc(t)
  PROVE  IInv'
  <1> USE PpuThreadAssumption DEF IInv
  <1>1. TypeOK'
    BY Zenon DEF TypeOK, JoinStatus, SchedStates, Creating, Exiting, ExitDealloc,
       Goto
  <1>2. ASSUME NEW u \in Threads  PROVE Life(u)'
    BY <1>2 DEF TypeOK, Life, Makes, Awaits, InUse, Creating, Exiting,
       ExitDealloc, Goto
  <1>3. ASSUME NEW u \in Threads  PROVE Makes(u)'
    BY <1>3 DEF TypeOK, Life, Makes, InUse, Creating, Exiting, ExitDealloc,
       Goto
  <1>4. ASSUME NEW u \in Threads  PROVE Awaits(u)'
    BY <1>4 DEF TypeOK, JoinStatus, Life, Makes, Awaits, Named, InUse,
       Creating, Exiting, ExitDealloc, Goto
  <1>5. ASSUME NEW u \in Threads  PROVE Named(u)'
    BY <1>5 DEF TypeOK, JoinStatus, Life, Makes, Awaits, Named, InUse,
       Creating, Exiting, ExitDealloc, Goto
  <1>6. Reaped'
    BY DEF TypeOK, JoinStatus, Life, Makes, Awaits, InUse, Creating, Exiting,
       Reaped, Gone, ExitDealloc, Goto
  <1>7. ContainerExact'
    BY Zenon, SameStacks DEF TypeOK, Stacked, Makers, Creating, Exiting, ExitDealloc,
       Goto
  <1> QED  BY Zenon, <1>1, <1>2, <1>3, <1>4, <1>5, <1>6, <1>7

\* ExitReap preserves the inductive invariant.
LEMMA ExitReapPreserves ==
  ASSUME IInv, NEW t \in Threads, ExitReap(t)
  PROVE  IInv'
  <1> USE PpuThreadAssumption DEF IInv
  <1>1. TypeOK'
    BY Zenon DEF TypeOK, JoinStatus, SchedStates, Creating, Exiting, ExitReap, Goto
  <1>2. ASSUME NEW u \in Threads  PROVE Life(u)'
    BY <1>2 DEF TypeOK, Life, Makes, Awaits, InUse, Creating, Exiting,
       ExitReap, Goto
  <1>3. ASSUME NEW u \in Threads  PROVE Makes(u)'
    BY <1>3 DEF TypeOK, Life, Makes, InUse, Creating, Exiting, ExitReap, Goto
  <1>4. ASSUME NEW u \in Threads  PROVE Awaits(u)'
    BY <1>4 DEF TypeOK, JoinStatus, Life, Makes, Awaits, Named, InUse,
       Creating, Exiting, ExitReap, Goto
  <1>5. ASSUME NEW u \in Threads  PROVE Named(u)'
    BY <1>5 DEF TypeOK, JoinStatus, Life, Makes, Awaits, Named, InUse,
       Creating, Exiting, ExitReap, Goto
  <1>6. Reaped'
    BY DEF TypeOK, JoinStatus, Life, Makes, Awaits, InUse, Creating, Exiting,
       Reaped, Gone, ExitReap, Goto
  <1>7. ContainerExact'
    BY Zenon, SameStacks DEF TypeOK, Stacked, Makers, Creating, Exiting, ExitReap,
       Goto
  <1> QED  BY Zenon, <1>1, <1>2, <1>3, <1>4, <1>5, <1>6, <1>7

\* ExitFinish preserves the inductive invariant.
LEMMA ExitFinishPreserves ==
  ASSUME IInv, NEW t \in Threads, ExitFinish(t)
  PROVE  IInv'
  <1> USE PpuThreadAssumption DEF IInv
  <1>1. TypeOK'
    BY Zenon DEF TypeOK, JoinStatus, SchedStates, Creating, Exiting, ExitFinish,
       Goto
  <1>2. ASSUME NEW u \in Threads  PROVE Life(u)'
    BY <1>2 DEF TypeOK, Life, Makes, Awaits, InUse, Creating, Exiting,
       ExitFinish, Goto
  <1>3. ASSUME NEW u \in Threads  PROVE Makes(u)'
    BY <1>3 DEF TypeOK, Life, Makes, InUse, Creating, Exiting, ExitFinish,
       Goto
  <1>4. ASSUME NEW u \in Threads  PROVE Awaits(u)'
    BY <1>4 DEF TypeOK, JoinStatus, Life, Makes, Awaits, Named, InUse,
       Creating, Exiting, ExitFinish, Goto
  <1>5. ASSUME NEW u \in Threads  PROVE Named(u)'
    BY <1>5 DEF TypeOK, JoinStatus, Life, Makes, Awaits, Named, InUse,
       Creating, Exiting, ExitFinish, Goto
  <1>6. Reaped'
    BY DEF TypeOK, JoinStatus, Life, Makes, Awaits, InUse, Creating, Exiting,
       Reaped, Gone, ExitFinish, Goto
  <1>7. ContainerExact'
    BY Zenon, SameStacks DEF TypeOK, Stacked, Makers, Creating, Exiting, ExitFinish,
       Goto
  <1> QED  BY Zenon, <1>1, <1>2, <1>3, <1>4, <1>5, <1>6, <1>7

\* Join preserves the inductive invariant.
LEMMA JoinPreserves ==
  ASSUME IInv, NEW t \in Threads, Join(t)
  PROVE  IInv'
  <1> USE PpuThreadAssumption DEF IInv
  <1>1. TypeOK'
    <2>1. PICK u \in registered \ {t} :
            /\ \/ /\ joiner' = [joiner EXCEPT ![u] = t]
                  /\ sched' = sleep(sched, t) /\ claimed' = claimed
               \/ /\ joiner' = [joiner EXCEPT ![u] = "exited"]
                  /\ claimed' = [claimed EXCEPT ![t] = TRUE] /\ sched' = sched
            /\ arg' = [arg EXCEPT ![t] = u]
      BY Zenon DEF Join
    <2>2. joiner' \in [Threads -> JoinStatus]
      BY <2>1 DEF TypeOK, JoinStatus
    <2>3. sched' \in [Threads -> SchedStates]
      BY Zenon, <2>1 DEF TypeOK, SchedStates, sleep
    <2>5. claimed' \in [Threads -> BOOLEAN]
      BY Zenon, <2>1 DEF TypeOK
    <2>4. arg' \in [Threads -> Threads \cup {None}]
      BY Zenon, <2>1 DEF TypeOK
    <2> QED  BY Zenon, <2>2, <2>3, <2>4, <2>5 DEF TypeOK, Join, Goto
  <1>2. ASSUME NEW u \in Threads  PROVE Life(u)'
    BY <1>2 DEF TypeOK, Life, Makes, Awaits, InUse, Creating, Exiting, Join,
       Goto, sleep
  <1>3. ASSUME NEW u \in Threads  PROVE Makes(u)'
    BY <1>3 DEF TypeOK, Life, Makes, InUse, Creating, Exiting, Join, Goto,
       sleep
  <1>4. ASSUME NEW u \in Threads  PROVE Awaits(u)'
    BY <1>4 DEF TypeOK, JoinStatus, Life, Makes, Awaits, Named, InUse,
       Creating, Exiting, Join, Goto, sleep
  <1>5. ASSUME NEW u \in Threads  PROVE Named(u)'
    BY <1>5 DEF TypeOK, JoinStatus, Life, Makes, Awaits, Named, InUse,
       Creating, Exiting, Join, Goto, sleep
  <1>6. Reaped'
    BY DEF TypeOK, JoinStatus, Life, Makes, Awaits, InUse, Creating, Exiting,
       Reaped, Gone, Join, Goto, sleep
  <1>7. ContainerExact'
    BY Zenon, SameStacks DEF TypeOK, Stacked, Makers, Creating, Exiting, Join, Goto,
       sleep
  <1> QED  BY Zenon, <1>1, <1>2, <1>3, <1>4, <1>5, <1>6, <1>7

\* JoinWaited preserves the inductive invariant.
LEMMA JoinWaitedPreserves ==
  ASSUME IInv, NEW t \in Threads, JoinWaited(t)
  PROVE  IInv'
  <1> USE PpuThreadAssumption DEF IInv
  <1>1. TypeOK'
    BY DEF TypeOK, JoinStatus, SchedStates, Creating, Exiting, JoinWaited,
       Goto, check_state
  <1>2. ASSUME NEW u \in Threads  PROVE Life(u)'
    BY <1>2 DEF TypeOK, Life, Makes, Awaits, InUse, Creating, Exiting,
       JoinWaited, Goto, check_state
  <1>3. ASSUME NEW u \in Threads  PROVE Makes(u)'
    BY <1>3 DEF TypeOK, Life, Makes, InUse, Creating, Exiting, JoinWaited,
       Goto, check_state
  <1>4. ASSUME NEW u \in Threads  PROVE Awaits(u)'
    BY <1>4 DEF TypeOK, JoinStatus, Life, Makes, Awaits, Named, InUse,
       Creating, Exiting, JoinWaited, Goto, check_state
  <1>5. ASSUME NEW u \in Threads  PROVE Named(u)'
    BY <1>5 DEF TypeOK, JoinStatus, Life, Makes, Awaits, Named, InUse,
       Creating, Exiting, JoinWaited, Goto, check_state
  <1>6. Reaped'
    BY DEF TypeOK, JoinStatus, Life, Makes, Awaits, InUse, Creating, Exiting,
       Reaped, Gone, JoinWaited, Goto, check_state
  <1>7. ContainerExact'
    BY SameStacks DEF TypeOK, Stacked, Makers, Creating, Exiting, JoinWaited,
       Goto, check_state
  <1> QED  BY Zenon, <1>1, <1>2, <1>3, <1>4, <1>5, <1>6, <1>7

\* JoinCleanup preserves the inductive invariant.
LEMMA JoinCleanupPreserves ==
  ASSUME IInv, NEW t \in Threads, JoinCleanup(t)
  PROVE  IInv'
  <1> USE PpuThreadAssumption DEF IInv
  <1>1. TypeOK'
    BY Zenon DEF TypeOK, JoinStatus, SchedStates, Creating, Exiting, JoinCleanup,
       Goto, Return
  <1>2. ASSUME NEW u \in Threads  PROVE Life(u)'
    BY <1>2 DEF TypeOK, Life, Makes, Awaits, InUse, Creating, Exiting,
       JoinCleanup, Goto, Return
  <1>3. ASSUME NEW u \in Threads  PROVE Makes(u)'
    BY <1>3 DEF TypeOK, Life, Makes, InUse, Creating, Exiting, JoinCleanup,
       Goto, Return
  <1>4. ASSUME NEW u \in Threads  PROVE Awaits(u)'
    BY <1>4 DEF TypeOK, JoinStatus, Life, Makes, Awaits, Named, InUse,
       Creating, Exiting, JoinCleanup, Goto, Return
  <1>5. ASSUME NEW u \in Threads  PROVE Named(u)'
    BY <1>5 DEF TypeOK, JoinStatus, Life, Makes, Awaits, Named, InUse,
       Creating, Exiting, JoinCleanup, Goto, Return
  <1>6. Reaped'
    BY DEF TypeOK, JoinStatus, Life, Makes, Awaits, InUse, Creating, Exiting,
       Reaped, Gone, JoinCleanup, Goto, Return
  <1>7. ContainerExact'
    BY Zenon, SameStacks DEF TypeOK, Stacked, Makers, Creating, Exiting, JoinCleanup,
       Goto, Return
  <1> QED  BY Zenon, <1>1, <1>2, <1>3, <1>4, <1>5, <1>6, <1>7

\* Detach preserves the inductive invariant.
LEMMA DetachPreserves ==
  ASSUME IInv, NEW t \in Threads, Detach(t)
  PROVE  IInv'
  <1> USE PpuThreadAssumption DEF IInv
  <1>1. TypeOK'
    BY DEF TypeOK, JoinStatus, SchedStates, Creating, Exiting, Detach, Goto
  <1>2. ASSUME NEW u \in Threads  PROVE Life(u)'
    BY <1>2 DEF TypeOK, Life, Makes, Awaits, InUse, Creating, Exiting, Detach,
       Goto
  <1>3. ASSUME NEW u \in Threads  PROVE Makes(u)'
    BY <1>3 DEF TypeOK, Life, Makes, InUse, Creating, Exiting, Detach, Goto
  <1>4. ASSUME NEW u \in Threads  PROVE Awaits(u)'
    BY <1>4 DEF TypeOK, JoinStatus, Life, Makes, Awaits, Named, InUse,
       Creating, Exiting, Detach, Goto
  <1>5. ASSUME NEW u \in Threads  PROVE Named(u)'
    BY <1>5 DEF TypeOK, JoinStatus, Life, Makes, Awaits, Named, InUse,
       Creating, Exiting, Detach, Goto
  <1>6. Reaped'
    BY DEF TypeOK, JoinStatus, Life, Makes, Awaits, InUse, Creating, Exiting,
       Reaped, Gone, Detach, Goto
  <1>7. ContainerExact'
    BY SameStacks DEF TypeOK, Stacked, Makers, Creating, Exiting, Detach, Goto
  <1> QED  BY Zenon, <1>1, <1>2, <1>3, <1>4, <1>5, <1>6, <1>7

\* DetachWaited preserves the inductive invariant.
LEMMA DetachWaitedPreserves ==
  ASSUME IInv, NEW t \in Threads, DetachWaited(t)
  PROVE  IInv'
  <1> USE PpuThreadAssumption DEF IInv
  <1>1. TypeOK'
    BY Zenon DEF TypeOK, JoinStatus, SchedStates, Creating, Exiting, DetachWaited,
       Goto, Return
  <1>2. ASSUME NEW u \in Threads  PROVE Life(u)'
    BY <1>2 DEF TypeOK, Life, Makes, Awaits, InUse, Creating, Exiting,
       DetachWaited, Goto, Return
  <1>3. ASSUME NEW u \in Threads  PROVE Makes(u)'
    BY <1>3 DEF TypeOK, Life, Makes, InUse, Creating, Exiting, DetachWaited,
       Goto, Return
  <1>4. ASSUME NEW u \in Threads  PROVE Awaits(u)'
    BY <1>4 DEF TypeOK, JoinStatus, Life, Makes, Awaits, Named, InUse,
       Creating, Exiting, DetachWaited, Goto, Return
  <1>5. ASSUME NEW u \in Threads  PROVE Named(u)'
    BY <1>5 DEF TypeOK, JoinStatus, Life, Makes, Awaits, Named, InUse,
       Creating, Exiting, DetachWaited, Goto, Return
  <1>6. Reaped'
    BY DEF TypeOK, JoinStatus, Life, Makes, Awaits, InUse, Creating, Exiting,
       Reaped, Gone, DetachWaited, Goto, Return
  <1>7. ContainerExact'
    BY Zenon, SameStacks DEF TypeOK, Stacked, Makers, Creating, Exiting,
       DetachWaited, Goto, Return
  <1> QED  BY Zenon, <1>1, <1>2, <1>3, <1>4, <1>5, <1>6, <1>7

\* Stop preserves the inductive invariant.
LEMMA StopPreserves ==
  ASSUME IInv, NEW t \in Threads, Stop(t)
  PROVE  IInv'
  <1> USE PpuThreadAssumption DEF IInv
  <1>1. TypeOK'
    BY Zenon DEF TypeOK, JoinStatus, SchedStates, Creating, Exiting, Stop
  <1>2. ASSUME NEW u \in Threads  PROVE Life(u)'
    BY Zenon, <1>2 DEF TypeOK, Life, Makes, Awaits, InUse, Creating, Exiting, Stop
  <1>3. ASSUME NEW u \in Threads  PROVE Makes(u)'
    BY <1>3 DEF TypeOK, Life, Makes, InUse, Creating, Exiting, Stop
  <1>4. ASSUME NEW u \in Threads  PROVE Awaits(u)'
    BY Zenon, <1>4 DEF TypeOK, JoinStatus, Life, Makes, Awaits, Named, InUse,
       Creating, Exiting, Stop
  <1>5. ASSUME NEW u \in Threads  PROVE Named(u)'
    BY Zenon, <1>5 DEF TypeOK, JoinStatus, Life, Makes, Awaits, Named, InUse,
       Creating, Exiting, Stop
  <1>6. Reaped'
    BY DEF TypeOK, JoinStatus, Life, Makes, Awaits, InUse, Creating, Exiting,
       Reaped, Gone, Stop
  <1>7. ContainerExact'
    BY Zenon, SameStacks DEF TypeOK, Stacked, Makers, Creating, Exiting, Stop
  <1> QED  BY Zenon, <1>1, <1>2, <1>3, <1>4, <1>5, <1>6, <1>7

\* Halt preserves the inductive invariant.
LEMMA HaltPreserves ==
  ASSUME IInv, NEW t \in Threads, Halt(t)
  PROVE  IInv'
  <1> USE PpuThreadAssumption DEF IInv
  <1>1. TypeOK'
    BY Zenon DEF TypeOK, JoinStatus, SchedStates, Creating, Exiting, Halt
  <1>2. ASSUME NEW u \in Threads  PROVE Life(u)'
    BY <1>2 DEF TypeOK, Life, Makes, Awaits, InUse, Creating, Exiting, Halt
  <1>3. ASSUME NEW u \in Threads  PROVE Makes(u)'
    BY <1>3 DEF TypeOK, Life, Makes, InUse, Creating, Exiting, Halt
  <1>4. ASSUME NEW u \in Threads  PROVE Awaits(u)'
    BY <1>4 DEF TypeOK, JoinStatus, Life, Makes, Awaits, Named, InUse,
       Creating, Exiting, Halt
  <1>5. ASSUME NEW u \in Threads  PROVE Named(u)'
    BY <1>5 DEF TypeOK, JoinStatus, Life, Makes, Awaits, Named, InUse,
       Creating, Exiting, Halt
  <1>6. Reaped'
    BY DEF TypeOK, JoinStatus, Life, Makes, Awaits, InUse, Creating, Exiting,
       Reaped, Gone, Halt
  <1>7. ContainerExact'
    BY Zenon, SameStacks DEF TypeOK, Stacked, Makers, Creating, Exiting, Halt
  <1> QED  BY Zenon, <1>1, <1>2, <1>3, <1>4, <1>5, <1>6, <1>7

\* CreateTake preserves the inductive invariant.
LEMMA CreateTakePreserves ==
  ASSUME IInv, NEW t \in Threads, CreateTake(t)
  PROVE  IInv'
  <1> USE PpuThreadAssumption DEF IInv
  <1>1. TypeOK'
    BY DEF TypeOK, JoinStatus, SchedStates, Creating, Exiting, CreateTake,
       Goto
  <1>2. ASSUME NEW u \in Threads  PROVE Life(u)'
    BY <1>2 DEF TypeOK, Life, Makes, Awaits, InUse, Creating, Exiting,
       CreateTake, Goto
  <1>3. ASSUME NEW u \in Threads  PROVE Makes(u)'
    BY <1>3 DEF TypeOK, Life, Makes, InUse, Creating, Exiting, CreateTake,
       Goto
  <1>4. ASSUME NEW u \in Threads  PROVE Awaits(u)'
    BY <1>4 DEF TypeOK, JoinStatus, Life, Makes, Awaits, Named, InUse,
       Creating, Exiting, CreateTake, Goto
  <1>5. ASSUME NEW u \in Threads  PROVE Named(u)'
    BY <1>5 DEF TypeOK, JoinStatus, Life, Makes, Awaits, Named, InUse,
       Creating, Exiting, CreateTake, Goto
  <1>6. Reaped'
    BY DEF TypeOK, JoinStatus, Life, Makes, Awaits, InUse, Creating, Exiting,
       Reaped, Gone, CreateTake, Goto
  <1>7. ContainerExact'
    <2>0. ASSUME NEW u \in Threads
          PROVE  /\ u \in Stacked' <=> u \in Stacked
                 /\ u \in Makers' <=> u \in Makers \/ u = t
      <3>1. pc[t] = "idle" /\ pc' = [pc EXCEPT ![t] = "alloc"]
        BY Zenon DEF CreateTake, Goto
      <3> QED  BY Zenon, <3>1 DEF TypeOK, Stacked, Makers, Creating
    <2>1. Stacked' = Stacked /\ Makers' = Makers \cup {t} /\ t \notin Makers
      BY Zenon, <2>0 DEF Stacked, Makers, Creating, CreateTake
    <2>2. Makers \in SUBSET Threads /\ Stacked \in SUBSET Threads
      BY Zenon DEF Makers, Stacked
    <2>3. Cardinality(Makers') = Cardinality(Makers) + 1
      BY Zenon, <2>1, <2>2, OneMore
    <2>4. Cardinality(Stacked) \in Nat /\ Cardinality(Makers) \in Nat
      BY Zenon, <2>2, Sizes
    <2> QED  BY <2>1, <2>3, <2>4, Counted, CountedNext DEF CreateTake
  <1> QED  BY Zenon, <1>1, <1>2, <1>3, <1>4, <1>5, <1>6, <1>7

\* CreateAllocFails preserves the inductive invariant.
LEMMA CreateAllocFailsPreserves ==
  ASSUME IInv, NEW t \in Threads, CreateAllocFails(t)
  PROVE  IInv'
  <1> USE PpuThreadAssumption DEF IInv
  <1>a. arg[t] \in Threads /\ pc[arg[t]] = "none" /\ arg[t] # t
    BY Zenon DEF Makes, Creating, CreateAllocFails
  <1>0. used' \in 0..ContainerMax /\ ContainerExact'
    <2>1. Stacked' = Stacked /\ Makers' = Makers \ {t}
      BY Zenon DEF TypeOK, Stacked, Makers, Creating, Goto, Return, CreateAllocFails
    <2>2. Stacked \in SUBSET Threads /\ Makers \in SUBSET Threads
      BY Zenon DEF Stacked, Makers
    <2>3. t \in Makers
      BY Zenon DEF Stacked, Makers, Creating, CreateAllocFails
    <2>4. used = Cardinality(Stacked) + Cardinality(Makers) /\ used \in 0..ContainerMax
      BY Zenon, Counted DEF TypeOK
    <2>5. Cardinality(Makers \ {t}) = Cardinality(Makers) - 1 /\ Cardinality(Makers) >= 1
      BY Zenon, <2>2, <2>3, OneMore, Sizes
    <2>6. Cardinality(Stacked) \in Nat /\ Cardinality(Makers) \in Nat
      BY Zenon, <2>2, Sizes
    <2> QED  BY <2>1, <2>4, <2>5, <2>6, CountedNext DEF CreateAllocFails
  <1>1. TypeOK'
    BY Zenon, <1>a, <1>0 DEF TypeOK, JoinStatus, SchedStates, Creating, Exiting,
       CreateAllocFails, Goto, Return
  <1>2. ASSUME NEW u \in Threads  PROVE Life(u)'
    BY <1>a, <1>2 DEF TypeOK, Life, Makes, Awaits, InUse, Creating, Exiting,
       CreateAllocFails, Goto, Return
  <1>3. ASSUME NEW u \in Threads  PROVE Makes(u)'
    BY <1>a, <1>3 DEF TypeOK, Life, Makes, InUse, Creating, Exiting,
       CreateAllocFails, Goto, Return
  <1>4. ASSUME NEW u \in Threads  PROVE Awaits(u)'
    BY <1>a, <1>4 DEF TypeOK, JoinStatus, Life, Makes, Awaits, Named, InUse,
       Creating, Exiting, CreateAllocFails, Goto, Return
  <1>5. ASSUME NEW u \in Threads  PROVE Named(u)'
    BY <1>a, <1>5 DEF TypeOK, JoinStatus, Life, Makes, Awaits, Named, InUse,
       Creating, Exiting, CreateAllocFails, Goto, Return
  <1>6. Reaped'
    BY <1>a DEF TypeOK, JoinStatus, Life, Makes, Awaits, InUse, Creating,
       Exiting, Reaped, Gone, CreateAllocFails, Goto, Return
  <1>7. ContainerExact'
    BY Zenon, <1>0
  <1> QED  BY Zenon, <1>1, <1>2, <1>3, <1>4, <1>5, <1>6, <1>7

\* CreateNameFails preserves the inductive invariant.
LEMMA CreateNameFailsPreserves ==
  ASSUME IInv, NEW t \in Threads, CreateNameFails(t)
  PROVE  IInv'
  <1> USE PpuThreadAssumption DEF IInv
  <1>a. arg[t] \in Threads /\ pc[arg[t]] = "none" /\ arg[t] # t
    BY Zenon DEF Makes, Creating, CreateNameFails
  <1>0. used' \in 0..ContainerMax /\ ContainerExact'
    <2>1. Stacked' = Stacked /\ Makers' = Makers \ {t}
      BY Zenon, <1>a DEF TypeOK, Stacked, Makers, Creating, CreateNameFails
    <2>2. Stacked \in SUBSET Threads /\ Makers \in SUBSET Threads
      BY Zenon DEF Stacked, Makers
    <2>3. t \in Makers
      BY Zenon DEF Stacked, Makers, Creating, CreateNameFails
    <2>4. used = Cardinality(Stacked) + Cardinality(Makers) /\ used \in 0..ContainerMax
      BY Zenon, Counted DEF TypeOK
    <2>5. Cardinality(Makers \ {t}) = Cardinality(Makers) - 1 /\ Cardinality(Makers) >= 1
      BY Zenon, <2>2, <2>3, OneMore, Sizes
    <2>6. Cardinality(Stacked) \in Nat /\ Cardinality(Makers) \in Nat
      BY Zenon, <2>2, Sizes
    <2> QED  BY <2>1, <2>4, <2>5, <2>6, CountedNext DEF CreateNameFails
  <1>1. TypeOK'
    BY Zenon, <1>a, <1>0 DEF TypeOK, JoinStatus, SchedStates, Creating, Exiting,
       CreateNameFails
  <1>2. ASSUME NEW u \in Threads  PROVE Life(u)'
    BY <1>a, <1>2 DEF TypeOK, Life, Makes, Awaits, InUse, Creating, Exiting,
       CreateNameFails
  <1>3. ASSUME NEW u \in Threads  PROVE Makes(u)'
    BY <1>a, <1>3 DEF TypeOK, Life, Makes, InUse, Creating, Exiting,
       CreateNameFails
  <1>4. ASSUME NEW u \in Threads  PROVE Awaits(u)'
    BY <1>a, <1>4 DEF TypeOK, JoinStatus, Life, Makes, Awaits, Named, InUse,
       Creating, Exiting, CreateNameFails
  <1>5. ASSUME NEW u \in Threads  PROVE Named(u)'
    BY <1>a, <1>5 DEF TypeOK, JoinStatus, Life, Makes, Awaits, Named, InUse,
       Creating, Exiting, CreateNameFails
  <1>6. Reaped'
    BY <1>a DEF TypeOK, JoinStatus, Life, Makes, Awaits, InUse, Creating,
       Exiting, Reaped, Gone, CreateNameFails
  <1>7. ContainerExact'
    BY Zenon, <1>0
  <1> QED  BY Zenon, <1>1, <1>2, <1>3, <1>4, <1>5, <1>6, <1>7

\* CreateImport preserves the inductive invariant.
LEMMA CreateImportPreserves ==
  ASSUME IInv, NEW t \in Threads, CreateImport(t)
  PROVE  IInv'
  <1> USE PpuThreadAssumption DEF IInv
  <1>a. arg[t] \in Threads /\ pc[arg[t]] = "none" /\ arg[t] # t
    BY Zenon DEF Makes, Creating, CreateImport
  <1>1. TypeOK'
    BY <1>a DEF TypeOK, JoinStatus, SchedStates, Creating, Exiting,
       CreateImport
  <1>2. ASSUME NEW u \in Threads  PROVE Life(u)'
    BY <1>a, <1>2 DEF TypeOK, Life, Makes, Awaits, InUse, Creating, Exiting,
       CreateImport
  <1>3. ASSUME NEW u \in Threads  PROVE Makes(u)'
    BY <1>a, <1>3 DEF TypeOK, Life, Makes, InUse, Creating, Exiting,
       CreateImport
  <1>4. ASSUME NEW u \in Threads  PROVE Awaits(u)'
    BY <1>a, <1>4 DEF TypeOK, JoinStatus, Life, Makes, Awaits, Named, InUse,
       Creating, Exiting, CreateImport
  <1>5. ASSUME NEW u \in Threads  PROVE Named(u)'
    BY <1>a, <1>5 DEF TypeOK, JoinStatus, Life, Makes, Awaits, Named, InUse,
       Creating, Exiting, CreateImport
  <1>6. Reaped'
    BY <1>a DEF TypeOK, JoinStatus, Life, Makes, Awaits, InUse, Creating,
       Exiting, Reaped, Gone, CreateImport
  <1>7. ContainerExact'
    <2>1. /\ Stacked' = Stacked \cup {arg[t]} /\ Makers' = Makers \ {t}
          /\ arg[t] \notin Stacked /\ t \in Makers
      BY <1>a DEF TypeOK, Stacked, Makers, Creating, CreateImport
    <2>2. Makers \in SUBSET Threads /\ Stacked \in SUBSET Threads
      BY Zenon DEF Makers, Stacked
    <2>3. /\ Cardinality(Makers') = Cardinality(Makers) - 1
          /\ Cardinality(Stacked') = Cardinality(Stacked) + 1
      BY Zenon, <1>a, <2>1, <2>2, OneMore
    <2>4. Cardinality(Stacked) \in Nat /\ Cardinality(Makers) \in Nat
      BY Zenon, <2>2, Sizes
    <2>5. used' = used /\ used = Cardinality(Stacked) + Cardinality(Makers)
      BY Zenon, Counted DEF CreateImport
    <2> QED  BY <2>3, <2>4, <2>5, CountedNext
  <1> QED  BY Zenon, <1>1, <1>2, <1>3, <1>4, <1>5, <1>6, <1>7

\* CreateImportFails preserves the inductive invariant.
LEMMA CreateImportFailsPreserves ==
  ASSUME IInv, NEW t \in Threads, CreateImportFails(t)
  PROVE  IInv'
  <1> USE PpuThreadAssumption DEF IInv
  <1>a. arg[t] \in Threads /\ pc[arg[t]] = "none" /\ arg[t] # t
    BY Zenon DEF Makes, Creating, CreateImportFails
  <1>0. used' \in 0..ContainerMax /\ ContainerExact'
    <2>1. Stacked' = Stacked /\ Makers' = Makers \ {t}
      BY Zenon DEF TypeOK, Stacked, Makers, Creating, Goto, Return, CreateImportFails
    <2>2. Stacked \in SUBSET Threads /\ Makers \in SUBSET Threads
      BY Zenon DEF Stacked, Makers
    <2>3. t \in Makers
      BY Zenon DEF Stacked, Makers, Creating, CreateImportFails
    <2>4. used = Cardinality(Stacked) + Cardinality(Makers) /\ used \in 0..ContainerMax
      BY Zenon, Counted DEF TypeOK
    <2>5. Cardinality(Makers \ {t}) = Cardinality(Makers) - 1 /\ Cardinality(Makers) >= 1
      BY Zenon, <2>2, <2>3, OneMore, Sizes
    <2>6. Cardinality(Stacked) \in Nat /\ Cardinality(Makers) \in Nat
      BY Zenon, <2>2, Sizes
    <2> QED  BY <2>1, <2>4, <2>5, <2>6, CountedNext DEF CreateImportFails
  <1>1. TypeOK'
    BY Zenon, <1>a, <1>0 DEF TypeOK, JoinStatus, SchedStates, Creating, Exiting,
       CreateImportFails, Goto, Return
  <1>2. ASSUME NEW u \in Threads  PROVE Life(u)'
    BY <1>a, <1>2 DEF TypeOK, Life, Makes, Awaits, InUse, Creating,
       Exiting, CreateImportFails, Goto, Return
  <1>3. ASSUME NEW u \in Threads  PROVE Makes(u)'
    BY <1>a, <1>3 DEF TypeOK, Life, Makes, InUse, Creating, Exiting,
       CreateImportFails, Goto, Return
  <1>4. ASSUME NEW u \in Threads  PROVE Awaits(u)'
    BY <1>a, <1>4 DEF TypeOK, JoinStatus, Life, Makes, Awaits, Named, InUse,
       Creating, Exiting, CreateImportFails, Goto, Return
  <1>5. ASSUME NEW u \in Threads  PROVE Named(u)'
    BY <1>a, <1>5 DEF TypeOK, JoinStatus, Life, Makes, Awaits, Named, InUse,
       Creating, Exiting, CreateImportFails, Goto, Return
  <1>6. Reaped'
    BY <1>a DEF TypeOK, JoinStatus, Life, Makes, Awaits, InUse, Creating,
       Exiting, Reaped, Gone, CreateImportFails, Goto, Return
  <1>7. ContainerExact'
    BY Zenon, <1>0
  <1> QED  BY Zenon, <1>1, <1>2, <1>3, <1>4, <1>5, <1>6, <1>7

\* ExitFree preserves the inductive invariant.
LEMMA ExitFreePreserves ==
  ASSUME IInv, NEW t \in Threads, ExitFree(t)
  PROVE  IInv'
  <1> USE PpuThreadAssumption DEF IInv
  <1>0. used' \in 0..ContainerMax /\ ContainerExact'
    <2>1. Stacked' = Stacked \ {t} /\ Makers' = Makers
      BY Zenon DEF TypeOK, Stacked, Makers, Creating, Goto, ExitFree
    <2>2. Stacked \in SUBSET Threads /\ Makers \in SUBSET Threads
      BY Zenon DEF Stacked, Makers
    <2>3. t \in Stacked
      BY Zenon DEF Stacked, Makers, Creating, ExitFree
    <2>4. used = Cardinality(Stacked) + Cardinality(Makers) /\ used \in 0..ContainerMax
      BY Zenon, Counted DEF TypeOK
    <2>5. Cardinality(Stacked \ {t}) = Cardinality(Stacked) - 1 /\ Cardinality(Stacked) >= 1
      BY Zenon, <2>2, <2>3, OneMore, Sizes
    <2>6. Cardinality(Stacked) \in Nat /\ Cardinality(Makers) \in Nat
      BY Zenon, <2>2, Sizes
    <2> QED  BY <2>1, <2>4, <2>5, <2>6, CountedNext DEF ExitFree
  <1>1. TypeOK'
    BY Zenon, <1>0 DEF TypeOK, JoinStatus, SchedStates, Creating, Exiting, ExitFree,
       Goto
  <1>2. ASSUME NEW u \in Threads  PROVE Life(u)'
    BY Zenon, <1>2 DEF TypeOK, Life, InUse, Creating, Exiting, ExitFree, Goto
  <1>3. ASSUME NEW u \in Threads  PROVE Makes(u)'
    BY Zenon, <1>3 DEF TypeOK, Makes, Creating, ExitFree, Goto
  <1>4. ASSUME NEW u \in Threads  PROVE Awaits(u)'
    BY Zenon, <1>4 DEF TypeOK, Awaits, ExitFree, Goto
  <1>5. ASSUME NEW u \in Threads  PROVE Named(u)'
    BY <1>5 DEF TypeOK, JoinStatus, Life, Makes, Awaits, Named, InUse,
       Creating, Exiting, ExitFree, Goto
  <1>6. Reaped'
    BY DEF TypeOK, JoinStatus, Life, Makes, Awaits, InUse, Creating, Exiting,
       Reaped, Gone, ExitFree, Goto
  <1>7. ContainerExact'
    BY Zenon, <1>0
  <1> QED  BY Zenon, <1>1, <1>2, <1>3, <1>4, <1>5, <1>6, <1>7

\* The invariant holds at first.
LEMMA First == Init => IInv
  <1> USE PpuThreadAssumption
  <1> SUFFICES ASSUME Init  PROVE IInv
    BY Zenon
  <1>1. TypeOK
    BY DEF Init, TypeOK, JoinStatus, SchedStates
  <1>2. ASSUME NEW t \in Threads  PROVE Life(t) /\ Makes(t)
    BY Zenon, <1>2 DEF Init, Life, Makes, InUse, Creating, Exiting
  <1>3. ASSUME NEW t \in Threads  PROVE Awaits(t) /\ Named(t)
    BY Zenon, <1>3 DEF Init, Awaits, Named
  <1>4. Reaped
    BY Zenon DEF Init, Reaped
  <1>5. ContainerExact
    <2>1. Stacked = {Main} /\ Makers = {}
      BY Zenon DEF Init, Stacked, Makers, Creating
    <2>2. Cardinality({Main}) = 1 /\ Cardinality({}) = 0
      BY Zenon, FS_Singleton, FS_EmptySet
    <2> QED  BY <2>1, <2>2, Counted DEF Init
  <1> QED  BY Zenon, <1>1, <1>2, <1>3, <1>4, <1>5 DEF IInv

\* Every step keeps the invariant.
LEMMA Inductive == IInv /\ [Next]_vars => IInv'
  <1> SUFFICES ASSUME IInv, [Next]_vars  PROVE IInv'
    BY Zenon
  <1>1. ASSUME NEW t \in Threads, Create(t)  PROVE IInv'
    BY Zenon, <1>1, CreateTakePreserves, CreateAllocPreserves, CreateAllocFailsPreserves,
       CreateNamePreserves, CreateNameFailsPreserves, CreateImportPreserves,
       CreateImportFailsPreserves DEF Create
  <1>2. ASSUME NEW t \in Threads, Complete(t)  PROVE IInv'
    BY Zenon, <1>2, ExitTakenPreserves, ExitDeallocPreserves, ExitFreePreserves,
       ExitReapPreserves, ExitFinishPreserves, JoinWaitedPreserves,
       JoinCleanupPreserves, DetachWaitedPreserves DEF Complete
  <1>3. CASE UNCHANGED vars
    <2>1. TypeOK' /\ Reaped' /\ ContainerExact'
      BY <1>3 DEF vars, IInv, TypeOK, Reaped, Gone, ContainerExact
    <2>2. ASSUME NEW t \in Threads  PROVE Life(t)' /\ Makes(t)'
      BY Zenon, <1>3 DEF vars, IInv, Life, Makes, InUse
    <2>3. ASSUME NEW t \in Threads  PROVE Awaits(t)' /\ Named(t)'
      BY Zenon, <1>3 DEF vars, IInv, Awaits, Named
    <2> QED  BY Zenon, <2>1, <2>2, <2>3 DEF IInv
  <1> QED  BY Zenon, <1>1, <1>2, <1>3, StartPreserves, BeginPreserves, ExitPreserves,
           ExitAbortedPreserves, JoinPreserves, DetachPreserves, StopPreserves,
           HaltPreserves DEF Next

----------------------------------------------------------------------------
\* The invariant behind the theorems below.
THEOREM Invariance == Spec => []IInv
  BY First, Inductive, PTL DEF Spec

\* Joins, detaches and exits clean up every thread exactly once, for any number
\* of threads: the id that sys_ppu_thread_join is about to remove is still in IDM
\* and nobody else removes it.
THEOREM ThreadsReapedOnce == Spec => []ReapedOnce
  <1>1. IInv => ReapedOnce
    BY Zenon, PpuThreadAssumption DEF IInv, TypeOK, Awaits, Reaped, Gone, ReapedOnce
  <1> QED  BY <1>1, Invariance, PTL

\* The joiner a thread names waits for it, and a join sleeps through no exit.
THEOREM ThreadsJoinerAgrees == Spec => []JoinerAgrees
  <1>1. IInv => JoinerAgrees
    BY DEF IInv, Awaits, Named, JoinerAgrees
  <1> QED  BY <1>1, Invariance, PTL

\* A join or an exit that is repeated when a savestate is loaded finds its thread.
THEOREM ThreadsSavestateKeepsJoins == Spec => []SavestateKeepsJoins
  <1>1. ASSUME IInv, NEW t \in Threads, pc[t] = "again"
        PROVE  /\ t \in registered
               /\ arg[t] # None => arg[t] \in registered /\ joiner[arg[t]] = t
    BY <1>1 DEF IInv, TypeOK, Life, InUse, Awaits, Named
  <1>2. IInv => SavestateKeepsJoins
    BY Zenon, <1>1 DEF SavestateKeepsJoins
  <1> QED  BY <1>2, Invariance, PTL

\* The default container counts exactly the stacks in use and being made, whichever
\* step of _sys_ppu_thread_create fails.
THEOREM ThreadsContainerExact == Spec => []ContainerExact
  <1>1. IInv => ContainerExact
    BY Zenon DEF IInv
  <1> QED  BY <1>1, Invariance, PTL

=============================================================================
