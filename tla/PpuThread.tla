----------------------------- MODULE PpuThread -----------------------------
(***************************************************************************)
(* The life of PPU threads (sys_ppu_thread.cpp): creation, start, exit,    *)
(* join and detach, and the emulator stopping them.                        *)
(*                                                                         *)
(* Who cleans up after a thread is settled by one word of it, joiner: the  *)
(* joiner, the detacher or, through the thread cleaner, the next thread    *)
(* that exits.  The word is changed under id_manager::g_mutex, by a join   *)
(* as a reader and by exit and detach as a writer, except that an exiting  *)
(* thread that is told to stop takes its own zombie back.                  *)
(*                                                                         *)
(* A step is one critical section of id_manager::g_mutex, one atomic       *)
(* access to the container or to joiner, or the end of a wait for a host   *)
(* thread.                                                                 *)
(***************************************************************************)
EXTENDS Lv2Sync

CONSTANTS
  Threads,      \* PPU threads
  Main,         \* the thread the process begins with
  ContainerMax, \* stacks the default memory container has room for
  Stoppable,    \* threads the emulator may stop
  None          \* no thread

\* ppu_join_status keeps the values up to max for itself; the ids of joiners are
\* above it.
ASSUME PpuThreadAssumption ==
  /\ IsFiniteSet(Threads)
  /\ Main \in Threads
  /\ ContainerMax \in Nat \ {0}
  /\ Stoppable \subseteq Threads
  /\ None \notin Threads
  /\ Threads \cap {"joinable", "detached", "zombie", "exited"} = {}

VARIABLES
  registered, \* threads with an id in IDM
  joiner,     \* ppu_thread::joiner
  host,       \* the host thread behind each thread
  sched,      \* scheduler contract, Lv2Sync
  pc,         \* where each thread is
  arg,        \* the thread that is being created, joined or detached
  claimed,    \* the join under way found a zombie (CELL_EAGAIN)
  cleaner,    \* ppu_thread_cleaner::old
  old,        \* old_ppu of an exiting thread
  stacks,     \* threads whose stack area is allocated
  used,       \* lv2_memory_container::used, in stacks
  stopped     \* is_stopped(ppu.state)

vars == <<registered, joiner, host, sched, pc, arg, claimed, cleaner, old,
          stacks, used, stopped>>

JoinStatus == {"joinable", "detached", "zombie", "exited"} \cup Threads

Creating == {"alloc", "name", "import"}

\* An exit that no longer depends on anybody's join.
Exiting == {"dealloc", "free", "reap", "finish"}

TypeOK ==
  /\ registered \subseteq Threads
  /\ joiner \in [Threads -> JoinStatus]
  /\ host \in [Threads -> {"none", "alive", "finished"}]
  /\ sched \in [Threads -> SchedStates]
  /\ pc \in [Threads -> {"none", "created", "started", "idle", "zombie",
                         "join", "cleanup", "detach", "again", "halted", "done"}
                        \cup Creating \cup Exiting]
  /\ arg \in [Threads -> Threads \cup {None}]
  /\ claimed \in [Threads -> BOOLEAN]
  /\ cleaner \in Threads \cup {None}
  /\ old \in [Threads -> Threads \cup {None}]
  /\ stacks \subseteq Threads
  /\ used \in 0..ContainerMax
  /\ stopped \in [Threads -> BOOLEAN]

Init ==
  /\ registered = {Main}
  /\ joiner = [t \in Threads |-> "joinable"]
  /\ host = [t \in Threads |-> IF t = Main THEN "alive" ELSE "none"]
  /\ sched = [t \in Threads |-> IF t = Main THEN "run" ELSE "sleep"]
  /\ pc = [t \in Threads |-> IF t = Main THEN "idle" ELSE "none"]
  /\ arg = [t \in Threads |-> None]
  /\ claimed = [t \in Threads |-> FALSE]
  /\ cleaner = None
  /\ old = [t \in Threads |-> None]
  /\ stacks = {Main}
  /\ used = 1
  /\ stopped = [t \in Threads |-> FALSE]

Goto(t, label) == pc' = [pc EXCEPT ![t] = label]

\* The end of a system call.
Return(t) ==
  /\ Goto(t, "idle")
  /\ arg' = [arg EXCEPT ![t] = None]
  /\ claimed' = [claimed EXCEPT ![t] = FALSE]

----------------------------------------------------------------------------
\* _sys_ppu_thread_create takes memory from the container.
CreateTake(t) ==
  /\ pc[t] = "idle"
  /\ used < ContainerMax
  /\ \E u \in Threads :
       /\ pc[u] = "none"
       /\ \A v \in Threads : pc[v] \in Creating => arg[v] # u
       /\ arg' = [arg EXCEPT ![t] = u]
  /\ used' = used + 1
  /\ Goto(t, "alloc")
  /\ UNCHANGED <<registered, joiner, host, sched, claimed, cleaner, old,
                 stacks, stopped>>

\* It allocates the stack area,
CreateAlloc(t) ==
  /\ pc[t] = "alloc"
  /\ stacks' = stacks \cup {arg[t]}
  /\ Goto(t, "name")
  /\ UNCHANGED <<registered, joiner, host, sched, arg, claimed, cleaner, old,
                 used, stopped>>

\* or returns CELL_ENOMEM.
CreateAllocFails(t) ==
  /\ pc[t] = "alloc"
  /\ used' = used - 1
  /\ Return(t)
  /\ UNCHANGED <<registered, joiner, host, sched, cleaner, old, stacks,
                 stopped>>

CreateName(t) ==
  /\ pc[t] = "name"
  /\ Goto(t, "import")
  /\ UNCHANGED <<registered, joiner, host, sched, arg, claimed, cleaner, old,
                 stacks, used, stopped>>

\* The name cannot be read: CELL_EFAULT.  The stack area stays allocated.  Its
\* address is never used again, so neither is the thread.
CreateNameFails(t) ==
  /\ pc[t] = "name"
  /\ used' = used - 1
  /\ pc' = [pc EXCEPT ![t] = "idle", ![arg[t]] = "done"]
  /\ arg' = [arg EXCEPT ![t] = None]
  /\ UNCHANGED <<registered, joiner, host, sched, claimed, cleaner, old,
                 stacks, stopped>>

\* The constructor of the thread runs before its id is published.
CreateImport(t) ==
  /\ pc[t] = "import"
  /\ registered' = registered \cup {arg[t]}
  /\ host' = [host EXCEPT ![arg[t]] = "alive"]
  /\ \E status \in {"joinable", "detached"} :
       joiner' = [joiner EXCEPT ![arg[t]] = status]
  /\ pc' = [pc EXCEPT ![t] = "idle", ![arg[t]] = "created"]
  /\ arg' = [arg EXCEPT ![t] = None]
  /\ UNCHANGED <<sched, claimed, cleaner, old, stacks, used, stopped>>

\* Mutant: the container is not given its memory back.
LeakyImportFails(t) ==
  /\ pc[t] = "import"
  /\ stacks' = stacks \ {arg[t]}
  /\ Return(t)
  /\ UNCHANGED <<registered, joiner, host, sched, cleaner, old, used, stopped>>

\* No id is left: CELL_EAGAIN.
CreateImportFails(t) ==
  /\ pc[t] = "import"
  /\ stacks' = stacks \ {arg[t]}
  /\ used' = used - 1
  /\ Return(t)
  /\ UNCHANGED <<registered, joiner, host, sched, cleaner, old, stopped>>

\* sys_ppu_thread_start: the first call takes cpu_flag::stop away.
Start(t) ==
  /\ pc[t] = "idle"
  /\ \E u \in registered :
       /\ pc[u] = "created"
       /\ Goto(u, "started")
       /\ sched' = awake(sched, {u})
  /\ UNCHANGED <<registered, joiner, host, arg, claimed, cleaner, old, stacks,
                 used, stopped>>

\* The thread gets to run its entry point.
Begin(t) ==
  /\ pc[t] = "started"
  /\ ~stopped[t]
  /\ sched[t] = "signal"
  /\ sched' = [sched EXCEPT ![t] = "run"]
  /\ Goto(t, "idle")
  /\ UNCHANGED <<registered, joiner, host, arg, claimed, cleaner, old, stacks,
                 used, stopped>>

----------------------------------------------------------------------------
\* Mutant: the cleaner gives back the thread it was just given.
SwappedClean(t) == cleaner' = t /\ old' = [old EXCEPT ![t] = t]

\* ppu_thread_cleaner::clean
clean(t) == cleaner' = t /\ old' = [old EXCEPT ![t] = cleaner]

\* Mutant: the thread goes to sleep without awakening its joiner.
SilentExit(t) ==
  /\ pc[t] = "idle"
  /\ sched' = sleep(sched, t)
  /\ \/ /\ joiner[t] = "joinable"
        /\ joiner' = [joiner EXCEPT ![t] = "zombie"]
        /\ Goto(t, "zombie")
        /\ UNCHANGED <<registered, cleaner, old>>
     \/ /\ joiner[t] # "joinable"
        /\ joiner' = [joiner EXCEPT ![t] = "exited"]
        /\ registered' = registered \ {t}
        /\ clean(t)
        /\ Goto(t, "dealloc")
  /\ UNCHANGED <<host, arg, claimed, stacks, used, stopped>>

\* _sys_ppu_thread_exit, under id_manager::g_mutex: an unjoined thread becomes a
\* zombie; any other leaves IDM through the cleaner.  The joiner is awakened.
Exit(t) ==
  /\ pc[t] = "idle"
  /\ sched' = sleep(awake(sched, {joiner[t]} \cap Threads), t)
  /\ \/ /\ joiner[t] = "joinable"
        /\ joiner' = [joiner EXCEPT ![t] = "zombie"]
        /\ Goto(t, "zombie")
        /\ UNCHANGED <<registered, cleaner, old>>
     \/ /\ joiner[t] # "joinable"
        /\ joiner' = [joiner EXCEPT ![t] = "exited"]
        /\ registered' = registered \ {t}
        /\ clean(t)
        /\ Goto(t, "dealloc")
  /\ UNCHANGED <<host, arg, claimed, stacks, used, stopped>>

\* Mutant: the stopped thread leaves its zombie behind.
ExitDropped(t) ==
  /\ pc[t] = "zombie"
  /\ stopped[t]
  /\ joiner[t] = "zombie"
  /\ Goto(t, "again")
  /\ UNCHANGED <<registered, joiner, host, sched, arg, claimed, cleaner, old,
                 stacks, used, stopped>>

\* A zombie that is told to stop becomes joinable again; its exit is repeated.
ExitAborted(t) ==
  /\ pc[t] = "zombie"
  /\ stopped[t]
  /\ joiner[t] = "zombie"
  /\ joiner' = [joiner EXCEPT ![t] = "joinable"]
  /\ Goto(t, "again")
  /\ UNCHANGED <<registered, host, sched, arg, claimed, cleaner, old, stacks,
                 used, stopped>>

\* A join or a detach has taken the zombie.
ExitTaken(t) ==
  /\ pc[t] = "zombie"
  /\ joiner[t] # "zombie"
  /\ Goto(t, "dealloc")
  /\ UNCHANGED <<registered, joiner, host, sched, arg, claimed, cleaner, old,
                 stacks, used, stopped>>

\* ppu_thread_exit: the stack area, then the container.
ExitDealloc(t) ==
  /\ pc[t] = "dealloc"
  /\ stacks' = stacks \ {t}
  /\ Goto(t, "free")
  /\ UNCHANGED <<registered, joiner, host, sched, arg, claimed, cleaner, old,
                 used, stopped>>

ExitFree(t) ==
  /\ pc[t] = "free"
  /\ used' = used - 1
  /\ Goto(t, "reap")
  /\ UNCHANGED <<registered, joiner, host, sched, arg, claimed, cleaner, old,
                 stacks, stopped>>

\* The thread that left through the cleaner before is waited for.
ExitReap(t) ==
  /\ pc[t] = "reap"
  /\ old[t] # None => host[old[t]] = "finished"
  /\ old' = [old EXCEPT ![t] = None]
  /\ Goto(t, "finish")
  /\ UNCHANGED <<registered, joiner, host, sched, arg, claimed, cleaner,
                 stacks, used, stopped>>

\* The host thread returns.
ExitFinish(t) ==
  /\ pc[t] = "finish"
  /\ host' = [host EXCEPT ![t] = "finished"]
  /\ Goto(t, "done")
  /\ UNCHANGED <<registered, joiner, sched, arg, claimed, cleaner, old, stacks,
                 used, stopped>>

----------------------------------------------------------------------------
\* sys_ppu_thread_join registers as the joiner and sleeps, or takes the zombie.
Join(t) ==
  /\ pc[t] = "idle"
  /\ \E u \in registered \ {t} :
       /\ \/ /\ joiner[u] = "joinable"
             /\ joiner' = [joiner EXCEPT ![u] = t]
             /\ sched' = sleep(sched, t)
             /\ UNCHANGED claimed
          \/ /\ joiner[u] = "zombie"
             /\ joiner' = [joiner EXCEPT ![u] = "exited"]
             /\ claimed' = [claimed EXCEPT ![t] = TRUE]
             /\ UNCHANGED sched
       /\ arg' = [arg EXCEPT ![t] = u]
  /\ Goto(t, "join")
  /\ UNCHANGED <<registered, host, cleaner, old, stacks, used, stopped>>

\* The wait for the host thread ends: the thread has exited, or was stopped and
\* the join is repeated.
JoinWaited(t) ==
  /\ pc[t] = "join"
  /\ host[arg[t]] = "finished"
  /\ \/ /\ joiner[arg[t]] = "exited"
        /\ sched' = check_state(sched, t)
        /\ Goto(t, "cleanup")
     \/ /\ joiner[arg[t]] # "exited"
        /\ Goto(t, "again")
        /\ UNCHANGED sched
  /\ UNCHANGED <<registered, joiner, host, arg, claimed, cleaner, old, stacks,
                 used, stopped>>

\* The join that took the zombie removes its id.
JoinCleanup(t) ==
  /\ pc[t] = "cleanup"
  /\ registered' = IF claimed[t] THEN registered \ {arg[t]} ELSE registered
  /\ Return(t)
  /\ UNCHANGED <<joiner, host, sched, cleaner, old, stacks, used, stopped>>

\* Mutant: a zombie is detached without leaving IDM.
LeakyDetach(t) ==
  /\ pc[t] = "idle"
  /\ \E u \in registered :
       \/ /\ joiner[u] = "joinable"
          /\ joiner' = [joiner EXCEPT ![u] = "detached"]
          /\ UNCHANGED <<registered, pc, arg>>
       \/ /\ joiner[u] = "zombie"
          /\ joiner' = [joiner EXCEPT ![u] = "exited"]
          /\ arg' = [arg EXCEPT ![t] = u]
          /\ Goto(t, "detach")
          /\ UNCHANGED registered
  /\ UNCHANGED <<host, sched, claimed, cleaner, old, stacks, used, stopped>>

\* sys_ppu_thread_detach: under the writer lock a zombie also leaves IDM.
Detach(t) ==
  /\ pc[t] = "idle"
  /\ \E u \in registered :
       \/ /\ joiner[u] = "joinable"
          /\ joiner' = [joiner EXCEPT ![u] = "detached"]
          /\ UNCHANGED <<registered, pc, arg>>
       \/ /\ joiner[u] = "zombie"
          /\ joiner' = [joiner EXCEPT ![u] = "exited"]
          /\ registered' = registered \ {u}
          /\ arg' = [arg EXCEPT ![t] = u]
          /\ Goto(t, "detach")
  /\ UNCHANGED <<host, sched, claimed, cleaner, old, stacks, used, stopped>>

DetachWaited(t) ==
  /\ pc[t] = "detach"
  /\ host[arg[t]] = "finished"
  /\ Return(t)
  /\ UNCHANGED <<registered, joiner, host, sched, cleaner, old, stacks, used,
                 stopped>>

----------------------------------------------------------------------------
\* The emulator stops the thread,
Stop(t) ==
  /\ t \in Stoppable \ {u \in Threads : stopped[u]}
  /\ stopped' = [stopped EXCEPT ![t] = TRUE]
  /\ UNCHANGED <<registered, joiner, host, sched, pc, arg, claimed, cleaner,
                 old, stacks, used>>

\* and its host thread returns once it is between system calls.
Halt(t) ==
  /\ stopped[t]
  /\ host[t] = "alive"
  /\ pc[t] \in {"created", "started", "idle", "again"}
  /\ host' = [host EXCEPT ![t] = "finished"]
  /\ pc' = [pc EXCEPT ![t] = IF @ = "again" THEN @ ELSE "halted"]
  /\ UNCHANGED <<registered, joiner, sched, arg, claimed, cleaner, old, stacks,
                 used, stopped>>

Create(t) == \/ CreateTake(t)
             \/ CreateAlloc(t) \/ CreateAllocFails(t)
             \/ CreateName(t) \/ CreateNameFails(t)
             \/ CreateImport(t) \/ CreateImportFails(t)

\* What a thread that has begun to exit, join, detach or stop does next.
Complete(t) == \/ ExitTaken(t) \/ ExitDealloc(t) \/ ExitFree(t)
               \/ ExitReap(t) \/ ExitFinish(t)
               \/ JoinWaited(t) \/ JoinCleanup(t) \/ DetachWaited(t)

Next == \E t \in Threads :
          \/ Create(t) \/ Start(t) \/ Begin(t)
          \/ Exit(t) \/ ExitAborted(t)
          \/ Join(t) \/ Detach(t)
          \/ Complete(t)
          \/ Stop(t) \/ Halt(t)

Spec == Init /\ [][Next]_vars

\* Host threads are run by the host's scheduler.
LiveSpec == Spec /\ \A t \in Threads : WF_vars(Complete(t))

----------------------------------------------------------------------------
\* Every thread is cleaned up exactly once: the id that a join is about to
\* remove is still there, so that ensure(remove_verify) holds, nobody else is
\* about to remove it, and a thread that ended stays in IDM only for a join, be
\* it under way or to come.
ReapedOnce ==
  /\ TypeOK
  /\ \A t \in Threads : claimed[t] =>
       /\ arg[t] \in registered
       /\ joiner[arg[t]] = "exited"
       /\ \A u \in Threads \ {t} : claimed[u] => arg[u] # arg[t]
       /\ \A u \in Threads : pc[u] = "detach" => arg[u] # arg[t]
  /\ \A u \in registered : joiner[u] = "exited" =>
       \E t \in Threads : claimed[t] /\ arg[t] = u
  /\ \A u \in Threads : old[u] # None =>
       /\ old[u] \notin registered
       /\ old[u] # cleaner
       /\ \A v \in Threads \ {u} : old[v] # old[u]

\* The joiner a thread names waits for that thread, and one that waits asleep is
\* named by it, or has been awakened by its exit: a join sleeps through no exit.
JoinerAgrees ==
  /\ \A u, t \in Threads : joiner[u] = t =>
       pc[t] \in {"join", "again"} /\ arg[t] = u /\ ~claimed[t]
  /\ \A t \in Threads : pc[t] = "join" /\ ~claimed[t] =>
       IF joiner[arg[t]] = "exited" THEN sched[t] = "signal"
                                    ELSE joiner[arg[t]] = t

\* A join that is repeated when a savestate is loaded finds its thread in IDM,
\* still joinable: ppu_thread::save writes joinable for the id of a joiner.  An
\* exit that is repeated finds its thread still there.
SavestateKeepsJoins ==
  \A t \in Threads : pc[t] = "again" =>
    /\ t \in registered
    /\ arg[t] # None =>
         arg[t] \in registered /\ joiner[arg[t]] = t

\* The container counts the stack of every thread that has not ended and of
\* every creation under way, whichever step of it fails.
ContainerExact ==
  used = Cardinality({t \in Threads : pc[t] \notin {"none", "reap", "finish", "done"}})
         + Cardinality({t \in Threads : pc[t] \in Creating})

\* Every stack area is paid for from the container: "Try to obtain 'physical
\* memory' from the default container" comes before the allocation.
StackAreasPaid == Cardinality(stacks) <= used

\* A thread that exits ends, although it waits for the one before it, and a join
\* or detach whose thread has exited returns.
ExitCompletes ==
  \A t \in Threads :
    /\ pc[t] \in Exiting ~> host[t] = "finished"
    /\ (pc[t] \in {"join", "detach"} /\ joiner[arg[t]] = "exited")
         ~> pc[t] = "idle"
=============================================================================
