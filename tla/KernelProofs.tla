---------------------------- MODULE KernelProofs ----------------------------
(***************************************************************************)
(* The safety properties of the whole kernel, for every number of tasks,   *)
(* semaphores and buffer slots.  The first half has the invariant every    *)
(* run of the kernel preserves, and what follows from it about types,      *)
(* lists and waiters; the second the effects a run may have on the table,  *)
(* and with them PIDs, quanta, readers and the order of the lists.         *)
(***************************************************************************)
EXTENDS Kernel, ProcessTableProofs

LEMMA ModType ==
  ASSUME NEW a \in Int, NEW b \in Nat, b > 0
  PROVE  a % b \in 0 .. b - 1
OBVIOUS

\* What the process table looks like when the kernel is entered or resumed: untouched while
\* main() still runs, without a running task in the middle of an exit, and with one
\* otherwise.
Situation ==
  /\ cont[current] = "boot" => sched = InitialTable
  /\ cont[current] = "exit" => Parked(sched) /\ current \in ToSet(OnQueue("free"))
  /\ cont[current] \notin {"boot", "exit"} => Running(sched)

\* Nobody is resumed in the middle of main() or of an exit: no other task ran since.
NotResumable(c) == c \in {"boot", "exit"}

OneInKernel == \A t \in Task : NotResumable(cont[t]) => t = current

\* The idle task never blocks in the kernel.
IdleInUser == cont[Idle] = "user"

Core == SchedulerTypeOK /\ Situation /\ OneInKernel /\ IdleInUser

Inv == Core /\ SemaphoresTypeOK /\ KeyboardTypeOK /\ WaitersOnlyAtZero

-----------------------------------------------------------------------------
(* The initial state and the first step. *)

LEMMA InitialLists ==
  /\ InitialTable \in ProcessTable
  /\ Once(InitialTable.queue)
  /\ ToSet(InitialTable.queue["free"]) = Task \ {Idle, Task1}
  /\ \A k \in Queue \ {"free"} : InitialTable.queue[k] = <<>>
<1> DEFINE free == [i \in 1 .. NR_TASKS - 2 |-> i + 1]
<1>1. NR_TASKS \in Nat /\ NR_TASKS >= 4 /\ DEFAULT_QUANTUM \in Nat
  BY TasksAssumption, QuantumAssumption
<1>2. free \in Seq(Task) /\ DOMAIN free = 1 .. NR_TASKS - 2
  BY <1>1, IsASeq DEF Task
<1>3. IsInjective(free)
  BY <1>1 DEF IsInjective
<1>4. ToSet(free) = Task \ {Idle, Task1}
  <2>1. ASSUME NEW t \in Task \ {Idle, Task1} PROVE t \in ToSet(free)
    <3>1. t - 1 \in 1 .. NR_TASKS - 2 /\ t = free[t - 1]
      BY <1>1 DEF Task, Idle, Task1
    <3> QED BY <1>2, <3>1 DEF ToSet
  <2>2. ASSUME NEW t \in ToSet(free) PROVE t \in Task \ {Idle, Task1}
    BY <1>1 DEF ToSet, Task, Idle, Task1
  <2> QED BY <2>1, <2>2
<1> HIDE DEF free
<1>5. /\ InitialTable.queue["free"] = free
      /\ \A k \in Queue \ {"free"} : InitialTable.queue[k] = <<>>
      /\ InitialTable.queue \in [Queue -> Seq(Task)]
  <2>1. InitialTable.queue = [k \in Queue |-> IF k = "free" THEN free ELSE <<>>]
    BY DEF InitialTable, free
  <2>2. <<>> \in Seq(Task)
    OBVIOUS
  <2> QED BY <1>2, <2>1, <2>2, QueueNames
<1>6. ToSet(<<>>) = {} /\ IsInjective(<<>>)
  BY DEF ToSet, IsInjective
<1>7. Once(InitialTable.queue)
  BY <1>3, <1>5, <1>6 DEF Once
<1>8. InitialTable \in ProcessTable
  <2>1. BootTask \in Task
    BY <1>1 DEF Task, BootTask
  <2> QED BY <1>1, <1>5, <2>1 DEF InitialTable, ProcessTable, State
<1> QED BY <1>4, <1>5, <1>7, <1>8

\* return_gate makes task 1 the running task, as the state of its PCB already says.
LEMMA BootRuns == Running([InitialTable EXCEPT !.current = Task1])
<1> DEFINE p == InitialTable
           r == [p EXCEPT !.current = Task1]
<1>1. /\ p \in ProcessTable /\ Once(p.queue)
      /\ ToSet(p.queue["free"]) = Task \ {Idle, Task1}
      /\ \A k \in Queue \ {"free"} : p.queue[k] = <<>>
  BY InitialLists
<1>2. /\ \A t \in Task \ {Idle, Task1} : p.state[t] = "ST_INVALID"
      /\ p.state[Task1] = "ST_RUN"
      /\ Idle \in Task /\ Task1 \in Task /\ Idle # Task1
  BY TasksAssumption DEF InitialTable, Task, Idle, Task1
<1> HIDE DEF p
<1>3. /\ r \in ProcessTable /\ r.current = Task1
      /\ r.queue = p.queue /\ r.state = p.state
  BY <1>1, <1>2 DEF ProcessTable
<1> HIDE DEF r
<1>4. ToSet(<<>>) = {}
  BY DEF ToSet
<1>5. \A k \in Queue \ {"free"} : ToSet(r.queue[k]) = {}
  BY <1>1, <1>3, <1>4
<1>6. Unlinked(r.queue, Idle) /\ Unlinked(r.queue, Task1)
  BY <1>1, <1>3, <1>5 DEF Unlinked
<1>7. AllLinkedBut(r, {Idle, r.current})
  BY <1>1, <1>3, QueueNames DEF AllLinkedBut
<1>8. StatesMatch(r)
  <2>1. StateOn("free") = "ST_INVALID"
    BY DEF StateOn, NULL
  <2> QED BY <1>1, <1>2, <1>3, <1>5, <2>1 DEF StatesMatch
<1>9. r.state[r.current] = "ST_RUN" /\ r.current # Idle /\ Sane(r)
  BY <1>1, <1>2, <1>3 DEF Sane
<1> QED BY <1>3, <1>6, <1>7, <1>8, <1>9 DEF Running, r, p

-----------------------------------------------------------------------------
(* Core is preserved. *)

\* A run of the kernel that starts and ends with a running task.
LEMMA RunningCore ==
  ASSUME Running(sched)', cont' \in [Task -> Continuation], IdleInUser',
         \A t \in Task : ~NotResumable(cont[t])'
  PROVE  Core'
<1>1. sched' \in ProcessTable /\ current' \in Task
  BY SaneFields DEF Running, current
<1>2. Situation'
  BY <1>1 DEF Situation, NotResumable
<1> QED BY <1>1, <1>2 DEF Core, SchedulerTypeOK, OneInKernel

\* What Core says where the kernel runs on behalf of a running task.
LEMMA CoreRuns ==
  ASSUME Core, ~NotResumable(cont[current])
  PROVE  /\ Running(sched) /\ \A t \in Task : ~NotResumable(cont[t])
         /\ current \in Task /\ current = sched.current /\ cont \in [Task -> Continuation]
         /\ cont[Idle] = "user"
<1>1. current \in Task
  BY DEF Core, SchedulerTypeOK, ProcessTable, current
<1> QED BY <1>1 DEF Core, Situation, OneInKernel, SchedulerTypeOK, NotResumable, IdleInUser, current

\* Where the continuations stay as they are, or the running task gets another one.
LEMMA ContinueCore ==
  ASSUME Core, ~NotResumable(cont[current]), Running(sched)',
         \/ UNCHANGED cont
         \/ \E t \in Task, c \in Continuation :
              /\ ~NotResumable(c) /\ (t = Idle => c = "user")
              /\ cont' = [cont EXCEPT ![t] = c]
  PROVE  Core'
<1>1. \A t \in Task : ~NotResumable(cont[t])
  BY CoreRuns
<1>2. cont \in [Task -> Continuation] /\ cont[Idle] = "user"
  BY CoreRuns
<1>3. cont'[Idle] = "user"
  <2>1. Idle \in Task
    BY TasksAssumption DEF Task, Idle
  <2> QED BY <1>2, <2>1
<1>4. cont' \in [Task -> Continuation] /\ \A t \in Task : ~NotResumable(cont'[t])
  BY <1>1, <1>2
<1>5. \A t \in Task : ~NotResumable(cont[t])'
  BY <1>4 DEF NotResumable
<1> QED BY <1>3, <1>4, <1>5, RunningCore DEF IdleInUser

LEMMA UnchangedCore ==
  ASSUME Core, sched' = sched, cont' = cont
  PROVE  Core'
BY DEF Core, SchedulerTypeOK, Situation, OneInKernel, IdleInUser, OnQueue, current

LEMMA ContinuationNames ==
  /\ Continuation = {"user", "sem", "read0", "read1", "exit", "boot", "none"}
  /\ ~NotResumable("user") /\ ~NotResumable("sem") /\ ~NotResumable("read0")
  /\ ~NotResumable("read1") /\ ~NotResumable("none")
BY DEF Continuation, NotResumable

LEMMA ReturnGateCore ==
  ASSUME Core, ReturnGate
  PROVE  Core'
<1>1. sched = InitialTable /\ sched' = [InitialTable EXCEPT !.current = Task1]
  BY DEF Core, Situation, ReturnGate
<1>2. Running(sched)'
  BY <1>1, BootRuns
<1>3. /\ current \in Task /\ cont \in [Task -> Continuation]
      /\ \A t \in Task \ {current} : ~NotResumable(cont[t])
      /\ cont' = [cont EXCEPT ![current] = "none"]
  BY DEF Core, OneInKernel, ReturnGate, SchedulerTypeOK, ProcessTable, current
<1>4. cont' \in [Task -> Continuation] /\ \A t \in Task : ~NotResumable(cont'[t])
  BY <1>3 DEF NotResumable, Continuation
<1>5. \A t \in Task : ~NotResumable(cont[t])'
  BY <1>4 DEF NotResumable
<1>6. current # Idle
  BY <1>1 DEF InitialTable, current, BootTask, Idle
<1>7. IdleInUser'
  BY <1>3, <1>6 DEF Core, IdleInUser
<1> QED BY <1>2, <1>4, <1>5, <1>7, RunningCore

\* In the boot window the guard of clock_routine is false.
LEMMA ClockTickCore ==
  ASSUME Core, ClockTick
  PROVE  Core' /\ GrowsOnly(sched, sched', {"ready"})
<1>1. cont[current] # "boot"
  <2>1. SUFFICES ASSUME cont[current] = "boot" PROVE FALSE
    OBVIOUS
  <2>2. sched = InitialTable
    BY <2>1 DEF Core, Situation
  <2>3. BootTask \in Task /\ BootTask \notin {Idle, Task1}
    BY TasksAssumption DEF Task, BootTask, Idle, Task1
  <2>4. sched.state[current] = "ST_INVALID"
    BY <2>2, <2>3 DEF InitialTable, current
  <2> QED BY <2>4 DEF ClockTick
<1>2. ~NotResumable(cont[current])
  BY <1>1 DEF ClockTick, InterruptsEnabled, NotResumable
<1>3. Running(sched)
  BY <1>2, CoreRuns
<1>4. Running(sched)' /\ GrowsOnly(sched, sched', {"ready"})
  BY <1>3, ExecuteScheduling DEF ClockTick
<1> QED BY <1>2, <1>4, ContinueCore DEF ClockTick

LEMMA InSyscallRuns ==
  ASSUME Core, InSyscall
  PROVE  Running(sched) /\ sched.current # Idle /\ ~NotResumable(cont[current])
<1>1. ~NotResumable(cont[current])
  BY DEF InSyscall, NotResumable
<1> QED BY <1>1, CoreRuns DEF InSyscall, current

LEMMA SpawnCore ==
  ASSUME Core, Spawn
  PROVE  Core' /\ GrowsOnly(sched, sched', {"ready"})
<1>1. Running(sched) /\ sched.current # Idle /\ ~NotResumable(cont[current])
  BY InSyscallRuns DEF Spawn
<1> DEFINE t == FreeTask(sched)
<1>2. Moves(sched, sched', t, "ready") /\ t \in ToSet(sched.queue["free"]) /\ t \in Task
  BY <1>1, SpawnMoves DEF Running, Spawn, OnQueue
<1>3. t \in Task \ {Idle, sched.current}
  BY <1>1, <1>2, QueueNames DEF Running, Unlinked
<1> HIDE DEF t
<1>4. Running(sched)' /\ GrowsOnly(sched, sched', {"ready"})
  BY <1>1, <1>2, <1>3, QueueNames, RunningMoves
<1>5. cont' = [cont EXCEPT ![t] = "user"]
  BY DEF Spawn, t
<1> QED BY <1>1, <1>2, <1>4, <1>5, ContinuationNames, ContinueCore

LEMMA NiceCore ==
  ASSUME Core, NEW q \in NiceQuanta, Nice(q)
  PROVE  Core' /\ GrowsOnly(sched, sched', {})
<1>1. Running(sched) /\ ~NotResumable(cont[current]) /\ q \in Nat
  BY InSyscallRuns, NiceAssumption DEF Nice
<1>2. Running(sched)' /\ GrowsOnly(sched, sched', {})
  BY <1>1, SetQuantum DEF Nice, current
<1> QED BY <1>1, <1>2, ContinueCore DEF Nice

\* The running task blocks on a list.
LEMMA BlockCore ==
  ASSUME Core, ~NotResumable(cont[current]), current # Idle,
         NEW dest \in Queue, NEW is_first \in BOOLEAN,
         NEW c \in Continuation, ~NotResumable(c), Block(dest, is_first, c)
  PROVE  Core' /\ GrowsOnly(sched, sched', {dest})
<1> DEFINE p == update_process_state(sched, current, dest, is_first)
<1>1. Running(sched) /\ current \in Task /\ current = sched.current /\ Sane(sched)
  BY CoreRuns DEF Running
<1>2. Moves(sched, p, sched.current, dest)
  BY <1>1, MovesUpdate
<1>3. sched' = sched_next_rr(p) /\ cont' = [cont EXCEPT ![current] = c]
  BY DEF Block
<1> HIDE DEF p
<1>4. Parked(p) /\ GrowsOnly(sched, p, {dest})
  BY <1>1, <1>2, RunningParks
<1>5. Running(sched)' /\ GrowsOnly(p, sched', {})
  BY <1>3, <1>4, SwitchRuns
<1>6. GrowsOnly(sched, sched', {dest})
  BY <1>4, <1>5 DEF GrowsOnly
<1>7. Core'
  BY <1>1, <1>3, <1>5, ContinueCore
<1> QED BY <1>6, <1>7

LEMMA SysExitCore ==
  ASSUME Core, SysExit
  PROVE  Core' /\ GrowsOnly(sched, sched', {"free"})
<1>1. /\ Running(sched) /\ sched.current # Idle /\ Sane(sched) /\ current \in Task
      /\ current = sched.current /\ \A t \in Task : ~NotResumable(cont[t])
      /\ cont \in [Task -> Continuation]
  BY CoreRuns DEF SysExit, InSyscall, NotResumable, Running
<1>2. Moves(sched, sched', sched.current, "free")
  <2> DEFINE is_first == FALSE
  <2>1. sched' = update_process_state(sched, current, "free", is_first) /\ is_first \in BOOLEAN
    BY DEF SysExit, update_process_state_rr
  <2> HIDE DEF is_first
  <2> QED BY <1>1, <2>1, QueueNames, MovesUpdate
<1>3. Parked(sched)' /\ GrowsOnly(sched, sched', {"free"}) /\ sched.current \in ToSet(sched'.queue["free"])
  BY <1>1, <1>2, QueueNames, RunningParks
<1>4. current' = current
  BY <1>1, <1>2 DEF Moves, current
<1>5. /\ cont' \in [Task -> Continuation] /\ cont'[current] = "exit"
      /\ \A t \in Task \ {current} : ~NotResumable(cont'[t])
  BY <1>1 DEF SysExit, Continuation
<1>6. sched' \in ProcessTable
  BY <1>2 DEF Moves, Sane
<1>7. Situation'
  BY <1>1, <1>3, <1>4, <1>5 DEF Situation, OnQueue
<1>8. OneInKernel'
  BY <1>4, <1>5 DEF OneInKernel, NotResumable
<1>9. IdleInUser'
  BY <1>1 DEF Core, IdleInUser, SysExit, current
<1> QED BY <1>3, <1>5, <1>6, <1>7, <1>8, <1>9 DEF Core, SchedulerTypeOK

LEMMA ExitSwitchCore ==
  ASSUME Core, ExitSwitch
  PROVE  Core' /\ GrowsOnly(sched, sched', {})
<1>1. Parked(sched)
  BY DEF Core, Situation, ExitSwitch
<1>2. Running(sched)' /\ GrowsOnly(sched, sched', {})
  BY <1>1, SwitchRuns DEF ExitSwitch
<1>3. /\ current \in Task /\ cont \in [Task -> Continuation]
      /\ \A t \in Task \ {current} : ~NotResumable(cont[t])
      /\ cont' = [cont EXCEPT ![current] = "none"]
  BY DEF Core, OneInKernel, ExitSwitch, SchedulerTypeOK, ProcessTable, current
<1>4. cont' \in [Task -> Continuation] /\ \A t \in Task : ~NotResumable(cont'[t])
  BY <1>3 DEF NotResumable, Continuation
<1>5. \A t \in Task : ~NotResumable(cont[t])'
  BY <1>4 DEF NotResumable
<1>6. current # Idle
  BY QueueNames DEF Core, Situation, ExitSwitch, Parked, Unlinked, OnQueue
<1>7. IdleInUser'
  BY <1>3, <1>6 DEF Core, IdleInUser
<1> QED BY <1>2, <1>4, <1>5, <1>7, RunningCore

-----------------------------------------------------------------------------
(* The semaphores. *)

\* The first task of a list is neither the idle nor the running task.
LEMMA FirstOfList ==
  ASSUME NEW p, Running(p), NEW k \in Queue, p.queue[k] # <<>>
  PROVE  Head(p.queue[k]) \in Task \ {Idle, p.current} /\ Head(p.queue[k]) \in ToSet(p.queue[k])
BY SaneFields, MembersType DEF Running, Unlinked

LEMMA SemSignalCore ==
  ASSUME Core, NEW s \in Sem, SemSignal(s)
  PROVE  Core' /\ GrowsOnly(sched, sched', {"ready"})
<1>1. Running(sched) /\ sched.current # Idle /\ ~NotResumable(cont[current]) /\ s \in Queue
  BY InSyscallRuns, QueueNames DEF SemSignal
<1>2. CASE OnQueue(s) = <<>>
  <2>1. sched' = sched /\ UNCHANGED cont
    BY <1>2 DEF SemSignal
  <2> QED BY <1>1, <2>1, ContinueCore DEF GrowsOnly
<1>3. CASE OnQueue(s) # <<>>
  <2> DEFINE t == Head(sched.queue[s])
             is_first == FALSE
  <2>1. t \in Task \ {Idle, sched.current}
    BY <1>1, <1>3, FirstOfList DEF OnQueue
  <2>2. /\ sched' = add_process_to_scheduling(sched, t, "BLOCKED_TO_READY", is_first)
        /\ UNCHANGED cont /\ is_first \in BOOLEAN
    BY <1>3 DEF SemSignal, OnQueue
  <2> HIDE DEF t, is_first
  <2>3. Moves(sched, sched', t, "ready")
    BY <1>1, <2>1, <2>2, MovesAdd DEF Running
  <2>4. Running(sched)' /\ GrowsOnly(sched, sched', {"ready"})
    BY <1>1, <2>1, <2>3, QueueNames, RunningMoves
  <2> QED BY <1>1, <2>2, <2>4, ContinueCore
<1> QED BY <1>2, <1>3

\* All waiters become ready: the lists of a destroyed semaphore and of the ready tasks
\* are joined.
LEMMA WakeAllLists ==
  ASSUME NEW p, Sane(p), NEW s \in Sem
  PROVE  LET r == WakeAll(p, s)
         IN  /\ Sane(r) /\ r.current = p.current
             /\ r.queue[s] = <<>>
             /\ ToSet(r.queue["ready"]) = ToSet(p.queue["ready"]) \cup ToSet(p.queue[s])
             /\ \A k \in Queue \ {s, "ready"} : r.queue[k] = p.queue[k]
             /\ \A t \in Task : r.state[t] = IF t \in ToSet(p.queue[s]) THEN StateOn("ready")
                                             ELSE p.state[t]
<1> DEFINE both == p.queue["ready"] \o p.queue[s]
           queue == [p.queue EXCEPT !["ready"] = both, ![s] = <<>>]
           state == [t \in Task |-> IF t \in ToSet(p.queue[s]) THEN StateOn("ready") ELSE p.state[t]]
           r == WakeAll(p, s)
<1>0. r = [p EXCEPT !.queue = queue, !.state = state]
  BY DEF WakeAll
<1>1. /\ p \in ProcessTable /\ p.queue \in [Queue -> Seq(Task)] /\ p.state \in [Task -> State]
      /\ Once(p.queue) /\ s \in Queue /\ "ready" \in Queue /\ s # "ready"
      /\ p.queue["ready"] \in Seq(Task) /\ p.queue[s] \in Seq(Task)
      /\ StateOn("ready") \in State
  BY SaneFields, QueueNames, StateOnType
<1>2. /\ both \in Seq(Task)
      /\ ToSet(both) = ToSet(p.queue["ready"]) \cup ToSet(p.queue[s])
      /\ IsInjective(both)
  <2>1. /\ IsInjective(p.queue["ready"]) /\ IsInjective(p.queue[s])
        /\ ToSet(p.queue["ready"]) \cap ToSet(p.queue[s]) = {}
    BY <1>1 DEF Once
  <2> QED BY <1>1, <2>1, ConcatMembers
<1> HIDE DEF both
<1>3. <<>> \in Seq(Task) /\ ToSet(<<>>) = {} /\ IsInjective(<<>>)
  BY DEF ToSet, IsInjective
<1>4. /\ queue \in [Queue -> Seq(Task)] /\ queue["ready"] = both /\ queue[s] = <<>>
      /\ \A k \in Queue \ {s, "ready"} : queue[k] = p.queue[k]
  BY <1>1, <1>2, <1>3
<1>5. state \in [Task -> State]
  BY <1>1
<1> HIDE DEF queue
<1>6. Once(queue)
  <2>1. ASSUME NEW k \in Queue PROVE IsInjective(queue[k])
    BY <1>1, <1>2, <1>3, <1>4 DEF Once
  <2>2. ASSUME NEW k \in Queue, NEW l \in Queue, k # l, NEW t \in ToSet(queue[k]) \cap ToSet(queue[l])
        PROVE  FALSE
    <3>1. k # s /\ l # s
      BY <1>3, <1>4, <2>2
    <3>2. CASE k = "ready"
      BY <1>1, <1>2, <1>4, <2>2, <3>1, <3>2 DEF Once
    <3>3. CASE l = "ready"
      BY <1>1, <1>2, <1>4, <2>2, <3>1, <3>3 DEF Once
    <3>4. CASE k # "ready" /\ l # "ready"
      BY <1>1, <1>4, <2>2, <3>1, <3>4 DEF Once
    <3> QED BY <3>2, <3>3, <3>4
  <2> QED BY <2>1, <2>2 DEF Once
<1> HIDE DEF r
<1>7. /\ r \in ProcessTable /\ r.queue = queue /\ r.current = p.current /\ r.state = state
  <2> HIDE DEF state
  <2> QED BY <1>0, <1>1, <1>4, <1>5 DEF ProcessTable
<1>8. /\ Sane(r) /\ r.current = p.current /\ r.queue[s] = <<>>
      /\ ToSet(r.queue["ready"]) = ToSet(p.queue["ready"]) \cup ToSet(p.queue[s])
      /\ \A k \in Queue \ {s, "ready"} : r.queue[k] = p.queue[k]
      /\ \A t \in Task : r.state[t] = IF t \in ToSet(p.queue[s]) THEN StateOn("ready")
                                      ELSE p.state[t]
  BY <1>2, <1>4, <1>6, <1>7 DEF Sane
<1> QED BY <1>8 DEF r

LEMMA WakeAllSituation ==
  ASSUME NEW p, Sane(p), NEW s \in Sem
  PROVE  LET r == WakeAll(p, s)
         IN  /\ Parked(p) => Parked(r)
             /\ Running(p) /\ p.current # Idle => Running(r)
             /\ GrowsOnly(p, r, {"ready"})
             /\ r.current = p.current
             /\ r.queue["free"] = p.queue["free"]
<1> DEFINE r == WakeAll(p, s)
<1>1. /\ Sane(r) /\ r.current = p.current
      /\ r.queue[s] = <<>>
      /\ ToSet(r.queue["ready"]) = ToSet(p.queue["ready"]) \cup ToSet(p.queue[s])
      /\ \A k \in Queue \ {s, "ready"} : r.queue[k] = p.queue[k]
      /\ \A t \in Task : r.state[t] = IF t \in ToSet(p.queue[s]) THEN StateOn("ready")
                                      ELSE p.state[t]
  BY WakeAllLists
<1> HIDE DEF r
<1>2. /\ s \in Queue /\ "ready" \in Queue /\ "free" \in Queue /\ s # "ready" /\ s # "free"
      /\ "ready" # "free" /\ ToSet(<<>>) = {}
  BY QueueNames DEF ToSet
<1>3. /\ p.current \in Task /\ Idle \in Task /\ Once(p.queue)
      /\ \A k \in Queue : ToSet(p.queue[k]) \subseteq Task
  BY SaneFields
<1>4. ASSUME NEW t, Unlinked(p.queue, t) PROVE Unlinked(r.queue, t)
  <2>1. SUFFICES ASSUME NEW k \in Queue, t \in ToSet(r.queue[k]) PROVE FALSE
    BY DEF Unlinked
  <2>2. \A l \in Queue : t \notin ToSet(p.queue[l])
    BY <1>4 DEF Unlinked
  <2>3. k # s /\ k # "ready"
    BY <1>1, <1>2, <2>1, <2>2
  <2> QED BY <1>1, <2>1, <2>2, <2>3
<1>5. ASSUME NEW exempt, AllLinkedBut(p, exempt) PROVE AllLinkedBut(r, exempt)
  <2>1. SUFFICES ASSUME NEW t \in Task \ exempt PROVE \E k \in Queue : t \in ToSet(r.queue[k])
    BY DEF AllLinkedBut
  <2>2. PICK k \in Queue : t \in ToSet(p.queue[k])
    BY <1>5 DEF AllLinkedBut
  <2>3. CASE k \in {s, "ready"}
    BY <1>1, <1>2, <2>2, <2>3
  <2>4. CASE k \notin {s, "ready"}
    BY <1>1, <2>2, <2>4
  <2> QED BY <2>3, <2>4
<1>6. ASSUME StatesMatch(p) PROVE StatesMatch(r)
  <2>1. SUFFICES ASSUME NEW k \in Queue, NEW t \in ToSet(r.queue[k]) PROVE r.state[t] = StateOn(k)
    BY DEF StatesMatch
  <2>2. CASE k = s
    BY <1>1, <1>2, <2>1, <2>2
  <2>3. CASE k = "ready"
    <3>1. t \in ToSet(p.queue["ready"]) \/ t \in ToSet(p.queue[s])
      BY <1>1, <2>1, <2>3
    <3>2. t \in Task /\ (t \in ToSet(p.queue["ready"]) => p.state[t] = StateOn("ready"))
      BY <1>2, <1>3, <1>6, <3>1 DEF StatesMatch
    <3> QED BY <1>1, <2>3, <3>1, <3>2
  <2>4. CASE k \notin {s, "ready"}
    <3>1. t \in ToSet(p.queue[k])
      BY <1>1, <2>1, <2>4
    <3>2. t \in Task /\ p.state[t] = StateOn(k) /\ t \notin ToSet(p.queue[s])
      BY <1>2, <1>3, <1>6, <2>4, <3>1 DEF StatesMatch, Once
    <3> QED BY <1>1, <3>2
  <2> QED BY <2>2, <2>3, <2>4
<1>7. ASSUME p.state[p.current] = "ST_RUN" PROVE r.state[p.current] = "ST_RUN" \/ ~Unlinked(p.queue, p.current)
  BY <1>1, <1>2, <1>3, <1>7 DEF Unlinked
<1>8. Parked(p) => Parked(r)
  BY <1>1, <1>4, <1>5, <1>6 DEF Parked
<1>9. Running(p) /\ p.current # Idle => Running(r)
  BY <1>1, <1>4, <1>5, <1>6, <1>7 DEF Running
<1>10. GrowsOnly(p, r, {"ready"})
  <2>1. SUFFICES ASSUME NEW k \in Queue \ {"ready"} PROVE ToSet(r.queue[k]) \subseteq ToSet(p.queue[k])
    BY DEF GrowsOnly
  <2>2. CASE k = s
    BY <1>1, <1>2, <2>2
  <2>3. CASE k # s
    BY <1>1, <2>3
  <2> QED BY <2>2, <2>3
<1>11. r.current = p.current /\ r.queue["free"] = p.queue["free"]
  BY <1>1, <1>2
<1> QED BY <1>8, <1>9, <1>10, <1>11 DEF r

LEMMA SemDestroyCore ==
  ASSUME Core, NEW s \in Sem, SemDestroy(s)
  PROVE  Core' /\ GrowsOnly(sched, sched', {"ready"})
<1>1. Running(sched) /\ sched.current # Idle /\ ~NotResumable(cont[current]) /\ Sane(sched)
  BY InSyscallRuns DEF SemDestroy, Running
<1>2. sched' = WakeAll(sched, s) /\ UNCHANGED cont
  BY DEF SemDestroy, DestroySemaphore
<1>3. Running(sched)' /\ GrowsOnly(sched, sched', {"ready"})
  BY <1>1, <1>2, WakeAllSituation
<1> QED BY <1>1, <1>2, <1>3, ContinueCore

LEMMA ExitDestroySemCore ==
  ASSUME Core, NEW s \in Sem, cont[current] = "exit", DestroySemaphore(s), UNCHANGED cont
  PROVE  Core' /\ GrowsOnly(sched, sched', {"ready"})
<1>1. Parked(sched) /\ Sane(sched) /\ current \in ToSet(sched.queue["free"])
  BY DEF Core, Situation, Parked, OnQueue
<1>2. sched' = WakeAll(sched, s)
  BY DEF DestroySemaphore
<1>3. /\ Parked(sched)' /\ GrowsOnly(sched, sched', {"ready"})
      /\ current' = current /\ sched'.queue["free"] = sched.queue["free"]
  BY <1>1, <1>2, WakeAllSituation DEF current
<1>4. sched' \in ProcessTable /\ Situation'
  BY <1>1, <1>3 DEF Situation, Parked, Sane, OnQueue
<1>5. OneInKernel'
  BY <1>3 DEF Core, OneInKernel, NotResumable
<1> QED BY <1>3, <1>4, <1>5 DEF Core, SchedulerTypeOK, IdleInUser

\* A semaphore that is not in use has no waiters, so emptying its list changes nothing.
LEMMA SemInitCore ==
  ASSUME Core, WaitersOnlyAtZero, NEW s \in Sem, NEW value \in InitValues, SemInit(s, value)
  PROVE  Core' /\ sched' = sched
<1>1. sched.queue[s] = <<>>
  BY DEF WaitersOnlyAtZero, SemInit, Available, OnQueue
<1>2. sched \in ProcessTable /\ s \in Queue
  BY QueueNames DEF Core, SchedulerTypeOK
<1>3. sched' = sched
  <2>1. sched.queue = [sched.queue EXCEPT ![s] = <<>>]
    BY <1>1, <1>2 DEF ProcessTable
  <2>2. sched = [sched EXCEPT !.queue = sched.queue]
    BY <1>2 DEF ProcessTable
  <2>3. sched' = [sched EXCEPT !.queue = [sched.queue EXCEPT ![s] = <<>>]]
    BY DEF SemInit
  <2> QED BY <2>1, <2>2, <2>3
<1>4. UNCHANGED cont
  BY DEF SemInit
<1> QED BY <1>3, <1>4, UnchangedCore

LEMMA SemWaitCore ==
  ASSUME Core, NEW s \in Sem, SemWait(s)
  PROVE  Core' /\ GrowsOnly(sched, sched', IF MustWait(s) THEN {s} ELSE {})
<1>1. ~NotResumable(cont[current]) /\ current # Idle
  BY DEF SemWait, InSyscall, NotResumable
<1>2. CASE MustWait(s)
  <2> DEFINE is_first == FALSE
  <2>1. Block(s, is_first, "sem") /\ is_first \in BOOLEAN
    BY <1>2 DEF SemWait
  <2> HIDE DEF is_first
  <2>2. Core' /\ GrowsOnly(sched, sched', {s})
    BY <1>1, <2>1, BlockCore, QueueNames, ContinuationNames
  <2> QED BY <1>2, <2>2
<1>3. CASE ~MustWait(s)
  <2>1. sched' = sched /\ cont' = cont
    BY <1>3 DEF SemWait
  <2> QED BY <2>1, <1>3, UnchangedCore DEF GrowsOnly
<1> QED BY <1>2, <1>3

LEMMA SemWaitReturnCore ==
  ASSUME Core, SemWaitReturn
  PROVE  Core' /\ sched' = sched
<1>1. ~NotResumable(cont[current]) /\ sched' = sched /\ cont' = [cont EXCEPT ![current] = "user"]
  BY DEF SemWaitReturn, NotResumable
<1>2. Running(sched)' /\ current \in Task
  BY <1>1, CoreRuns
<1> QED BY <1>1, <1>2, ContinueCore, ContinuationNames

-----------------------------------------------------------------------------
(* The keyboard. *)

\* The first reader gets the processor; whoever had it is requeued.
LEMMA WakeFirstReaderRuns ==
  ASSUME NEW p, Running(p), p.queue["keyboard"] # <<>>
  PROVE  Running(WakeFirstReader(p)) /\ GrowsOnly(p, WakeFirstReader(p), {"ready"})
<1> DEFINE reader == Head(p.queue["keyboard"])
           behind == FALSE
           in_front == TRUE
           preempted == IF p.current # Idle
                        THEN add_process_to_scheduling(p, p.current, "SYS_TO_READY", behind)
                        ELSE p
           w == add_process_to_scheduling(preempted, reader, "BLOCKED_TO_READY", in_front)
           n == sched_next_rr(w)
<1>1. behind \in BOOLEAN /\ in_front \in BOOLEAN /\ WakeFirstReader(p) = n
  BY DEF WakeFirstReader
<1> HIDE DEF behind, in_front
<1>2. /\ reader \in Task \ {Idle, p.current} /\ p.current \in Task /\ Sane(p)
      /\ "ready" \in Queue /\ "keyboard" \in Queue
  BY QueueNames, FirstOfList, SaneFields DEF Running
<1> HIDE DEF reader
<1>3. Parked(preempted) /\ GrowsOnly(p, preempted, {"ready"})
  <2>1. CASE p.current = Idle
    BY <2>1, IdleParks DEF GrowsOnly
  <2>2. CASE p.current # Idle
    <3> DEFINE m == add_process_to_scheduling(p, p.current, "SYS_TO_READY", behind)
    <3>1. Moves(p, m, p.current, "ready") /\ preempted = m
      BY <1>1, <1>2, <2>2, MovesAdd
    <3> HIDE DEF m, preempted
    <3> QED BY <1>2, <2>2, <3>1, RunningParks
  <2> QED BY <2>1, <2>2
<1> HIDE DEF preempted
<1>4. Moves(preempted, w, reader, "ready")
  BY <1>1, <1>2, <1>3, MovesAdd DEF Parked
<1> HIDE DEF w
<1>5. Parked(w) /\ GrowsOnly(preempted, w, {"ready"})
  BY <1>2, <1>3, <1>4, ParkedMoves
<1>6. Running(n) /\ GrowsOnly(w, n, {})
  BY <1>5, SwitchRuns
<1> HIDE DEF n
<1>7. GrowsOnly(p, n, {"ready"})
  BY <1>3, <1>5, <1>6 DEF GrowsOnly
<1> QED BY <1>1, <1>6, <1>7

\* In the boot window nobody waits for a key.
LEMMA KeyboardIrqCore ==
  ASSUME Core, KeyboardIrq
  PROVE  Core' /\ GrowsOnly(sched, sched', {"ready"})
<1>1. CASE sched' = sched
  BY <1>1, UnchangedCore DEF KeyboardIrq, GrowsOnly
<1>2. CASE sched' # sched
  <2>1. sched.queue["keyboard"] # <<>> /\ sched' = WakeFirstReader(sched) /\ UNCHANGED cont
    BY <1>2 DEF KeyboardIrq, OnQueue
  <2>2. cont[current] # "boot"
    BY <2>1, InitialLists, QueueNames DEF Core, Situation
  <2>3. ~NotResumable(cont[current])
    BY <2>2 DEF KeyboardIrq, InterruptsEnabled, NotResumable
  <2>4. Running(sched)
    BY <2>3, CoreRuns
  <2>5. Running(sched)' /\ GrowsOnly(sched, sched', {"ready"})
    BY <2>1, <2>4, WakeFirstReaderRuns
  <2> QED BY <2>1, <2>3, <2>5, ContinueCore
<1> QED BY <1>1, <1>2

LEMMA TakeKeysCore ==
  ASSUME Core, ~NotResumable(cont[current]), current # Idle, NEW size, TakeKeys(size)
  PROVE  Core' /\ GrowsOnly(sched, sched', {"keyboard"})
<1>1. \/ \E rest : WaitForRest(rest)
      \/ cont' = [cont EXCEPT ![current] = "user"] /\ sched' = sched
  BY DEF TakeKeys
<1>2. CASE \E rest : WaitForRest(rest)
  <2> DEFINE is_first == TRUE
  <2>1. Block("keyboard", is_first, "read1") /\ is_first \in BOOLEAN
    BY <1>2 DEF WaitForRest
  <2> HIDE DEF is_first
  <2> QED BY <2>1, BlockCore, QueueNames, ContinuationNames
<1>3. CASE cont' = [cont EXCEPT ![current] = "user"] /\ sched' = sched
  <2>1. Running(sched)' /\ current \in Task
    BY <1>3, CoreRuns
  <2>2. Core'
    BY <1>3, <2>1, ContinueCore, ContinuationNames
  <2> QED BY <1>3, <2>2 DEF GrowsOnly
<1> QED BY <1>1, <1>2, <1>3

LEMMA SysReadCore ==
  ASSUME Core, NEW size \in ReadSizes, SysRead(size)
  PROVE  Core' /\ GrowsOnly(sched, sched', {"keyboard"})
<1>1. ~NotResumable(cont[current]) /\ current # Idle
  BY DEF SysRead, InSyscall, NotResumable
<1>2. CASE SomebodyReads
  <2> DEFINE is_first == FALSE
  <2>1. Block("keyboard", is_first, "read0") /\ is_first \in BOOLEAN
    BY <1>2 DEF SysRead
  <2> HIDE DEF is_first
  <2> QED BY <1>1, <2>1, BlockCore, QueueNames, ContinuationNames
<1>3. CASE ~SomebodyReads
  <2>1. TakeKeys(size)
    BY <1>3 DEF SysRead
  <2> QED BY <1>1, <2>1, TakeKeysCore
<1> QED BY <1>2, <1>3

LEMMA ReadResumeCore ==
  ASSUME Core, ReadResume
  PROVE  Core' /\ GrowsOnly(sched, sched', {"keyboard"})
<1>1. ~NotResumable(cont[current]) /\ current # Idle
  BY DEF ReadResume, NotResumable, Core, IdleInUser
<1>2. TakeKeys(need[current])
  BY DEF ReadResume
<1> QED BY <1>1, <1>2, TakeKeysCore

-----------------------------------------------------------------------------
(* Types of the semaphores. *)

LEMMA CoreTask == ASSUME Core PROVE current \in Task /\ sched \in ProcessTable
BY DEF Core, SchedulerTypeOK, ProcessTable, current

LEMMA SpawnSemTypes ==
  ASSUME SemaphoresTypeOK, SemaphoresOnSpawn
  PROVE  SemaphoresTypeOK'
<1>1. <<>> \in Seq(Sem)
  OBVIOUS
<1> QED BY <1>1 DEF SemaphoresTypeOK, SemaphoresOnSpawn

LEMMA SemInitTypes ==
  ASSUME Core, SemaphoresTypeOK, NEW s \in Sem, NEW value \in InitValues, SemInit(s, value)
  PROVE  SemaphoresTypeOK'
<1>1. current \in Task
  BY CoreTask
<1>2. ToInt(value) \in INT_MIN .. INT_MAX
  BY IntAssumption DEF ToInt, INT_MIN, UINT_MAX
<1>3. <<s>> \o owned[current] \in Seq(Sem)
  BY <1>1 DEF SemaphoresTypeOK
<1>4. sem' \in [Sem -> Semaphore]
  BY <1>1, <1>2 DEF SemInit, SemaphoresTypeOK, Semaphore
<1>5. owned' \in [Task -> Seq(Sem)] /\ sem_deleted' \in [Task -> BOOLEAN]
  BY <1>1, <1>3 DEF SemInit, SemaphoresTypeOK
<1> QED BY <1>4, <1>5 DEF SemaphoresTypeOK

LEMMA SemWaitTypes ==
  ASSUME SemaphoresTypeOK, NEW s \in Sem, SemWait(s)
  PROVE  SemaphoresTypeOK'
<1>1. sem[s].count \in INT_MIN .. INT_MAX /\ sem[s] \in Semaphore
  BY DEF SemaphoresTypeOK, Semaphore
<1>2. Decrement(sem[s].count) \in INT_MIN .. INT_MAX
  BY <1>1, IntAssumption DEF Decrement, INT_MIN
<1>3. sem' \in [Sem -> Semaphore]
  <2>1. CASE MustWait(s)
    BY <2>1 DEF SemWait, SemaphoresTypeOK
  <2>2. CASE ~MustWait(s)
    <3>1. sem' = [sem EXCEPT ![s] = [sem[s] EXCEPT !.count = Decrement(sem[s].count)]]
      BY <2>2 DEF SemWait
    <3>2. [sem[s] EXCEPT !.count = Decrement(sem[s].count)] \in Semaphore
      BY <1>1, <1>2 DEF Semaphore
    <3> QED BY <3>1, <3>2 DEF SemaphoresTypeOK
  <2> QED BY <2>1, <2>2
<1> QED BY <1>3 DEF SemWait, SemaphoresTypeOK

LEMMA SemWaitReturnTypes ==
  ASSUME SemaphoresTypeOK, SemWaitReturn
  PROVE  SemaphoresTypeOK'
BY DEF SemaphoresTypeOK, SemWaitReturn, ClearFlag

\* A count that is incremented is below INT_MAX, by the bound MaxCount.
LEMMA SemSignalTypes ==
  ASSUME SemaphoresTypeOK, NEW s \in Sem, SemSignal(s)
  PROVE  SemaphoresTypeOK'
<1>1. sem[s].count \in INT_MIN .. INT_MAX /\ sem[s] \in Semaphore
  BY DEF SemaphoresTypeOK, Semaphore
<1>2. sem' \in [Sem -> Semaphore]
  <2>1. CASE OnQueue(s) # <<>>
    BY <2>1 DEF SemSignal, SemaphoresTypeOK
  <2>2. CASE OnQueue(s) = <<>>
    <3>1. /\ sem' = [sem EXCEPT ![s] = [sem[s] EXCEPT !.count = sem[s].count + 1]]
          /\ sem[s].count < MaxCount
      BY <2>2 DEF SemSignal
    <3>2. sem[s].count + 1 \in INT_MIN .. INT_MAX
      BY <1>1, <3>1, IntAssumption, MaxCountAssumption DEF INT_MIN
    <3>3. [sem[s] EXCEPT !.count = sem[s].count + 1] \in Semaphore
      BY <1>1, <3>2 DEF Semaphore
    <3> QED BY <3>1, <3>3 DEF SemaphoresTypeOK
  <2> QED BY <2>1, <2>2
<1> QED BY <1>2 DEF SemSignal, SemaphoresTypeOK

LEMMA DestroyTypes ==
  ASSUME SemaphoresTypeOK, NEW s \in Sem, DestroySemaphore(s)
  PROVE  SemaphoresTypeOK'
<1>1. /\ sem \in [Sem -> Semaphore] /\ sem[s] \in Semaphore
      /\ owned \in [Task -> Seq(Sem)] /\ sem_deleted \in [Task -> BOOLEAN]
  BY DEF SemaphoresTypeOK
<1>2. sem' \in [Sem -> Semaphore]
  <2>1. sem' = [sem EXCEPT ![s] = [sem[s] EXCEPT !.used = FALSE]]
    BY DEF DestroySemaphore
  <2>2. [sem[s] EXCEPT !.used = FALSE] \in Semaphore
    BY <1>1 DEF Semaphore
  <2> QED BY <1>1, <2>1, <2>2
<1>3. owned' \in [Task -> Seq(Sem)]
  <2> DEFINE o == sem[s].owner
             rest == RemoveFirst(owned[o], s)
  <2>1. owned' = [owned EXCEPT ![o] = rest]
    BY DEF DestroySemaphore
  <2>2. o \in Task => rest \in Seq(Sem)
    <3> HIDE DEF o
    <3> QED BY <1>1, RemoveFirstType
  <2> HIDE DEF o, rest
  <2> QED BY <1>1, <2>1, <2>2
<1>4. sem_deleted' \in [Task -> BOOLEAN]
  <2>1. \A t \in Task : (sem_deleted[t] \/ t \in ToSet(OnQueue(s))) \in BOOLEAN
    BY <1>1
  <2> QED BY <2>1 DEF DestroySemaphore, FlagWaiters
<1> QED BY <1>2, <1>3, <1>4 DEF SemaphoresTypeOK

-----------------------------------------------------------------------------
(* Types of the keyboard. *)

LEMMA KeyboardConstants ==
  /\ B \in Nat /\ B > 0 /\ Keys \in Nat /\ Keys > 0 /\ 0 \in Slot /\ 0 \in 0 .. Keys - 1
BY BufferAssumption DEF B, Keys, Slot

LEMMA KeyboardIrqTypes ==
  ASSUME KeyboardTypeOK, KeyboardIrq
  PROVE  KeyboardTypeOK'
<1>1. /\ keyboard_buffer \in [Slot -> 0 .. Keys - 1] /\ buff_from \in Slot /\ buff_to \in Slot
      /\ remaining_to_read \in Nat \cup {-1} /\ need \in [Task -> Nat]
      /\ next_key \in 0 .. Keys - 1 /\ next_read \in 0 .. Keys - 1
  BY DEF KeyboardTypeOK
<1>2. (next_key + 1) % Keys \in 0 .. Keys - 1
  BY <1>1, KeyboardConstants, ModType
<1>3. NextSlot(buff_to) \in Slot
  BY <1>1, KeyboardConstants DEF NextSlot, Slot
<1>4. CountDown(remaining_to_read) \in Nat \cup {-1}
  BY <1>1 DEF CountDown
<1>5. remaining_to_read' \in Nat \cup {-1}
  BY <1>1, <1>4 DEF KeyboardIrq
<1>6. /\ keyboard_buffer' = [keyboard_buffer EXCEPT ![buff_to] = next_key]
      /\ buff_to' = NextSlot(buff_to) /\ next_key' = (next_key + 1) % Keys
      /\ buff_from' = buff_from /\ need' = need /\ next_read' = next_read
  BY DEF KeyboardIrq
<1> QED BY <1>1, <1>2, <1>3, <1>5, <1>6 DEF KeyboardTypeOK

LEMMA TakeKeysTypes ==
  ASSUME KeyboardTypeOK, NEW size \in Nat, TakeKeys(size)
  PROVE  /\ buff_from' \in Slot /\ next_read' \in 0 .. Keys - 1
         /\ need' \in [Task -> Nat] /\ remaining_to_read' \in Nat \cup {-1}
<1> DEFINE count == IF size < Buffered THEN size ELSE Buffered
<1>1. buff_from \in Int /\ buff_to \in Int /\ need \in [Task -> Nat]
      /\ remaining_to_read \in Nat \cup {-1} /\ next_read \in Int
  BY DEF KeyboardTypeOK, Slot
<1>2. Buffered \in 0 .. B - 1
  BY <1>1, KeyboardConstants, ModType DEF Buffered
<1>3. count \in Nat /\ size - count \in Nat
  BY <1>2, KeyboardConstants
<1>4. /\ buff_from' = (buff_from + count) % B
      /\ next_read' = (next_read + count) % Keys
      /\ need' = [need EXCEPT ![current] = size - count]
      /\ \/ WaitForRest(size - count)
         \/ UNCHANGED remaining_to_read
  BY DEF TakeKeys
<1> HIDE DEF count
<1>5. buff_from' \in Slot
  BY <1>1, <1>3, <1>4, KeyboardConstants, ModType DEF Slot
<1>6. remaining_to_read' \in Nat \cup {-1}
  BY <1>1, <1>3, <1>4 DEF WaitForRest
<1>7. next_read' \in 0 .. Keys - 1
  BY <1>1, <1>3, <1>4, KeyboardConstants, ModType
<1> QED BY <1>1, <1>3, <1>4, <1>5, <1>6, <1>7

LEMMA SysReadTypes ==
  ASSUME KeyboardTypeOK, NEW size \in ReadSizes, SysRead(size)
  PROVE  KeyboardTypeOK'
<1>1. size \in Nat
  BY ReadAssumption
<1>2. UNCHANGED <<keyboard_buffer, buff_to, next_key>>
  BY DEF SysRead
<1>3. CASE SomebodyReads
  BY <1>1, <1>2, <1>3 DEF SysRead, KeyboardTypeOK
<1>4. CASE ~SomebodyReads
  <2>1. TakeKeys(size)
    BY <1>4 DEF SysRead
  <2> QED BY <1>1, <1>2, <2>1, TakeKeysTypes DEF KeyboardTypeOK
<1> QED BY <1>3, <1>4

LEMMA ReadResumeTypes ==
  ASSUME Core, KeyboardTypeOK, ReadResume
  PROVE  KeyboardTypeOK'
<1>1. need[current] \in Nat
  BY CoreTask DEF KeyboardTypeOK
<1>2. TakeKeys(need[current]) /\ UNCHANGED <<keyboard_buffer, buff_to, next_key>>
  BY DEF ReadResume
<1> QED BY <1>1, <1>2, TakeKeysTypes DEF KeyboardTypeOK

-----------------------------------------------------------------------------
(* Nobody waits without need. *)

LEMMA CoreSane == ASSUME Core PROVE Sane(sched)
<1>1. cont[current] = "boot" => Sane(sched)
  BY InitialLists DEF Core, Situation, Sane
<1> QED BY <1>1 DEF Core, Situation, Parked, Running

LEMMA CoreSanePrime == ASSUME Core' PROVE Sane(sched')
<1>1. cont'[current'] = "boot" => Sane(sched')
  BY InitialLists DEF Core, Situation, Sane
<1> QED BY <1>1 DEF Core, Situation, Parked, Running

\* A semaphore whose list stays as it is, or shrinks.
LEMMA StaysUnwaited ==
  ASSUME Core, Core', NEW dests, GrowsOnly(sched, sched', dests), NEW s \in Sem \ dests,
         OnQueue(s) = <<>>
  PROVE  OnQueue(s)' = <<>>
<1>1. Sane(sched) /\ Sane(sched') /\ s \in Queue \ dests
  BY CoreSane, CoreSanePrime, QueueNames
<1>2. sched.queue[s] = <<>>
  BY DEF OnQueue
<1>3. sched'.queue[s] = <<>>
  BY <1>1, <1>2, StaysEmpty
<1> QED BY <1>3 DEF OnQueue

LEMMA WaitersKept ==
  ASSUME Core, Core', WaitersOnlyAtZero, sem' = sem,
         NEW dests, GrowsOnly(sched, sched', dests), dests \cap Sem = {}
  PROVE  WaitersOnlyAtZero'
<1>1. SUFFICES ASSUME NEW s \in Sem, OnQueue(s)' # <<>> PROVE sem'[s].used /\ sem'[s].count = 0
  BY DEF WaitersOnlyAtZero
<1>2. OnQueue(s) # <<>>
  BY <1>1, StaysUnwaited
<1> QED BY <1>2 DEF WaitersOnlyAtZero

LEMMA ListNames ==
  /\ {} \cap Sem = {} /\ {"ready"} \cap Sem = {} /\ {"keyboard"} \cap Sem = {}
  /\ {"free"} \cap Sem = {}
BY QueueNames

LEMMA SemInitWaiters ==
  ASSUME SemaphoresTypeOK, WaitersOnlyAtZero, NEW s \in Sem, NEW value \in InitValues,
         SemInit(s, value), sched' = sched
  PROVE  WaitersOnlyAtZero'
<1>1. OnQueue(s) = <<>>
  BY DEF WaitersOnlyAtZero, SemInit, Available
<1>2. \A z \in Sem \ {s} : sem'[z] = sem[z]
  BY DEF SemInit, SemaphoresTypeOK
<1>3. \A z \in Sem : OnQueue(z)' = OnQueue(z)
  BY DEF OnQueue
<1> QED BY <1>1, <1>2, <1>3 DEF WaitersOnlyAtZero

LEMMA SemWaitWaiters ==
  ASSUME Core, Core', SemaphoresTypeOK, WaitersOnlyAtZero, NEW s \in Sem, SemWait(s),
         GrowsOnly(sched, sched', IF MustWait(s) THEN {s} ELSE {})
  PROVE  WaitersOnlyAtZero'
<1>1. CASE MustWait(s)
  <2>1. sem' = sem /\ sem[s].used /\ sem[s].count = 0 /\ GrowsOnly(sched, sched', {s})
    BY <1>1 DEF SemWait, MustWait
  <2>2. SUFFICES ASSUME NEW z \in Sem \ {s}, OnQueue(z)' # <<>>
                 PROVE  sem[z].used /\ sem[z].count = 0
    BY <2>1 DEF WaitersOnlyAtZero
  <2>3. OnQueue(z) # <<>>
    BY <2>1, <2>2, StaysUnwaited
  <2> QED BY <2>3 DEF WaitersOnlyAtZero
<1>2. CASE ~MustWait(s)
  <2>1. OnQueue(s) = <<>>
    BY <1>2 DEF WaitersOnlyAtZero, MustWait
  <2>2. \A z \in Sem \ {s} : sem'[z] = sem[z]
    BY <1>2 DEF SemWait, SemaphoresTypeOK
  <2>3. \A z \in Sem : OnQueue(z)' = OnQueue(z)
    BY <1>2 DEF SemWait, OnQueue
  <2> QED BY <2>1, <2>2, <2>3 DEF WaitersOnlyAtZero
<1> QED BY <1>1, <1>2

LEMMA SemSignalWaiters ==
  ASSUME Core, Core', SemaphoresTypeOK, WaitersOnlyAtZero, NEW s \in Sem, SemSignal(s),
         GrowsOnly(sched, sched', {"ready"})
  PROVE  WaitersOnlyAtZero'
<1>1. CASE OnQueue(s) = <<>>
  <2>1. \A z \in Sem \ {s} : sem'[z] = sem[z]
    BY <1>1 DEF SemSignal, SemaphoresTypeOK
  <2>2. \A z \in Sem : OnQueue(z)' = OnQueue(z)
    BY <1>1 DEF SemSignal, OnQueue
  <2> QED BY <1>1, <2>1, <2>2 DEF WaitersOnlyAtZero
<1>2. CASE OnQueue(s) # <<>>
  <2>1. sem' = sem
    BY <1>2 DEF SemSignal
  <2> QED BY <2>1, WaitersKept, ListNames
<1> QED BY <1>1, <1>2

LEMMA DestroyWaiters ==
  ASSUME Core, Core', SemaphoresTypeOK, WaitersOnlyAtZero, NEW s \in Sem, DestroySemaphore(s),
         GrowsOnly(sched, sched', {"ready"})
  PROVE  WaitersOnlyAtZero'
<1>1. OnQueue(s)' = <<>>
  <2>1. sched' = WakeAll(sched, s) /\ Sane(sched)
    BY CoreSane DEF DestroySemaphore
  <2>2. sched'.queue[s] = <<>>
    BY <2>1, WakeAllLists
  <2> QED BY <2>2 DEF OnQueue
<1>2. \A z \in Sem \ {s} : sem'[z] = sem[z]
  BY DEF DestroySemaphore, SemaphoresTypeOK
<1>3. SUFFICES ASSUME NEW z \in Sem \ {s}, OnQueue(z)' # <<>> PROVE sem'[z].used /\ sem'[z].count = 0
  BY <1>1 DEF WaitersOnlyAtZero
<1>4. OnQueue(z) # <<>>
  BY <1>3, StaysUnwaited, QueueNames
<1> QED BY <1>2, <1>4 DEF WaitersOnlyAtZero

-----------------------------------------------------------------------------
(* Inv is an invariant. *)

LEMMA InitInv == Init => Inv
<1> SUFFICES ASSUME Init PROVE Inv
  OBVIOUS
<1>1. sched = InitialTable /\ InitialTable \in ProcessTable
  BY InitialLists DEF Init, SchedulerInit
<1>2. /\ BootTask \in Task /\ Idle \in Task /\ BootTask \notin {Idle, Task1}
      /\ current = BootTask
  BY <1>1, TasksAssumption DEF Task, BootTask, Idle, Task1, InitialTable, current
<1>3. cont = [t \in Task |-> CASE t \in {Idle, Task1} -> "user"
                               [] t = BootTask        -> "boot"
                               [] OTHER               -> "none"]
  BY DEF Init, SchedulerInit
<1>4. /\ cont \in [Task -> Continuation] /\ cont[current] = "boot" /\ cont[Idle] = "user"
      /\ \A t \in Task : NotResumable(cont[t]) => t = current
  BY <1>2, <1>3 DEF NotResumable, Continuation
<1>5. Core
  BY <1>1, <1>4 DEF Core, SchedulerTypeOK, Situation, OneInKernel, IdleInUser
<1>6. SemaphoresTypeOK
  <2>1. 0 \in INT_MIN .. INT_MAX /\ <<>> \in Seq(Sem)
    BY IntAssumption DEF INT_MIN
  <2> QED BY <2>1 DEF Init, SemaphoresInit, SemaphoresTypeOK, Semaphore, NoOwner
<1>7. KeyboardTypeOK
  BY KeyboardConstants DEF Init, KeyboardInit, KeyboardTypeOK
<1>8. WaitersOnlyAtZero
  BY <1>1, InitialLists, QueueNames DEF WaitersOnlyAtZero, OnQueue
<1> QED BY <1>5, <1>6, <1>7, <1>8 DEF Inv

LEMMA UnchangedSem == ASSUME SemaphoresTypeOK, UNCHANGED semVars PROVE SemaphoresTypeOK' /\ sem' = sem
BY DEF SemaphoresTypeOK, semVars

LEMMA UnchangedKeyboard == ASSUME KeyboardTypeOK, UNCHANGED kbdVars PROVE KeyboardTypeOK'
BY DEF KeyboardTypeOK, kbdVars

LEMMA SyscallInv ==
  ASSUME Inv, Syscall
  PROVE  Inv'
<1>0. Core /\ SemaphoresTypeOK /\ KeyboardTypeOK /\ WaitersOnlyAtZero
  BY DEF Inv
<1>1. CASE Spawn /\ SemaphoresOnSpawn /\ UNCHANGED kbdVars
  <2>1. Core' /\ GrowsOnly(sched, sched', {"ready"})
    BY <1>0, <1>1, SpawnCore
  <2>2. SemaphoresTypeOK' /\ KeyboardTypeOK' /\ sem' = sem
    BY <1>0, <1>1, SpawnSemTypes, UnchangedKeyboard DEF SemaphoresOnSpawn
  <2> QED BY <1>0, <2>1, <2>2, WaitersKept, ListNames DEF Inv
<1>2. CASE SysExit /\ UNCHANGED <<semVars, kbdVars>>
  <2>1. Core' /\ GrowsOnly(sched, sched', {"free"})
    BY <1>0, <1>2, SysExitCore
  <2>2. SemaphoresTypeOK' /\ KeyboardTypeOK' /\ sem' = sem
    BY <1>0, <1>2, UnchangedSem, UnchangedKeyboard
  <2> QED BY <1>0, <2>1, <2>2, WaitersKept, ListNames DEF Inv
<1>3. ASSUME NEW q \in NiceQuanta, Nice(q), UNCHANGED <<semVars, kbdVars>>
      PROVE  Inv'
  <2>1. Core' /\ GrowsOnly(sched, sched', {})
    BY <1>0, <1>3, NiceCore
  <2>2. SemaphoresTypeOK' /\ KeyboardTypeOK' /\ sem' = sem
    BY <1>0, <1>3, UnchangedSem, UnchangedKeyboard
  <2> QED BY <1>0, <2>1, <2>2, WaitersKept, ListNames DEF Inv
<1>4. ASSUME NEW s \in Sem, NEW value \in InitValues, SemInit(s, value), UNCHANGED kbdVars
      PROVE  Inv'
  <2>1. Core' /\ sched' = sched
    BY <1>0, <1>4, SemInitCore
  <2>2. SemaphoresTypeOK' /\ KeyboardTypeOK' /\ WaitersOnlyAtZero'
    BY <1>0, <1>4, <2>1, SemInitTypes, SemInitWaiters, UnchangedKeyboard
  <2> QED BY <2>1, <2>2 DEF Inv
<1>5. ASSUME NEW s \in Sem, SemWait(s), UNCHANGED kbdVars
      PROVE  Inv'
  <2>1. Core' /\ GrowsOnly(sched, sched', IF MustWait(s) THEN {s} ELSE {})
    BY <1>0, <1>5, SemWaitCore
  <2>2. SemaphoresTypeOK' /\ KeyboardTypeOK' /\ WaitersOnlyAtZero'
    BY <1>0, <1>5, <2>1, SemWaitTypes, SemWaitWaiters, UnchangedKeyboard
  <2> QED BY <2>1, <2>2 DEF Inv
<1>6. ASSUME NEW s \in Sem, SemSignal(s), UNCHANGED kbdVars
      PROVE  Inv'
  <2>1. Core' /\ GrowsOnly(sched, sched', {"ready"})
    BY <1>0, <1>6, SemSignalCore
  <2>2. SemaphoresTypeOK' /\ KeyboardTypeOK' /\ WaitersOnlyAtZero'
    BY <1>0, <1>6, <2>1, SemSignalTypes, SemSignalWaiters, UnchangedKeyboard
  <2> QED BY <2>1, <2>2 DEF Inv
<1>7. ASSUME NEW s \in Sem, SemDestroy(s), UNCHANGED kbdVars
      PROVE  Inv'
  <2>1. Core' /\ GrowsOnly(sched, sched', {"ready"}) /\ DestroySemaphore(s)
    BY <1>0, <1>7, SemDestroyCore DEF SemDestroy
  <2>2. SemaphoresTypeOK' /\ KeyboardTypeOK' /\ WaitersOnlyAtZero'
    BY <1>0, <1>7, <2>1, DestroyTypes, DestroyWaiters, UnchangedKeyboard
  <2> QED BY <2>1, <2>2 DEF Inv
<1>8. ASSUME NEW size \in ReadSizes, SysRead(size), UNCHANGED semVars
      PROVE  Inv'
  <2>1. Core' /\ GrowsOnly(sched, sched', {"keyboard"})
    BY <1>0, <1>8, SysReadCore
  <2>2. SemaphoresTypeOK' /\ KeyboardTypeOK' /\ sem' = sem
    BY <1>0, <1>8, UnchangedSem, SysReadTypes
  <2> QED BY <1>0, <2>1, <2>2, WaitersKept, ListNames DEF Inv
<1> QED BY <1>1, <1>2, <1>3, <1>4, <1>5, <1>6, <1>7, <1>8
       DEF Syscall, Create, Leave, SemaphoreCall, ReadCall

LEMMA ResumeInv ==
  ASSUME Inv, Resume
  PROVE  Inv'
<1>0. Core /\ SemaphoresTypeOK /\ KeyboardTypeOK /\ WaitersOnlyAtZero
  BY DEF Inv
<1>1. CASE SemWaitReturn /\ UNCHANGED kbdVars
  <2>1. Core' /\ GrowsOnly(sched, sched', {})
    BY <1>0, <1>1, SemWaitReturnCore DEF GrowsOnly
  <2>2. SemaphoresTypeOK' /\ KeyboardTypeOK' /\ sem' = sem
    BY <1>0, <1>1, SemWaitReturnTypes, UnchangedKeyboard DEF SemWaitReturn
  <2> QED BY <1>0, <2>1, <2>2, WaitersKept, ListNames DEF Inv
<1>2. CASE ReadResume /\ UNCHANGED semVars
  <2>1. Core' /\ GrowsOnly(sched, sched', {"keyboard"})
    BY <1>0, <1>2, ReadResumeCore
  <2>2. SemaphoresTypeOK' /\ KeyboardTypeOK' /\ sem' = sem
    BY <1>0, <1>2, UnchangedSem, ReadResumeTypes
  <2> QED BY <1>0, <2>1, <2>2, WaitersKept, ListNames DEF Inv
<1>3. CASE ExitDestroySem /\ UNCHANGED kbdVars
  <2> DEFINE s == Head(owned[current])
  <2>1. s \in Sem /\ DestroySemaphore(s) /\ UNCHANGED cont /\ cont[current] = "exit"
    <3>1. owned[current] \in Seq(Sem) /\ owned[current] # <<>>
      BY <1>0, <1>3, CoreTask DEF SemaphoresTypeOK, ExitDestroySem
    <3>2. s \in Sem
      BY <3>1, MembersType
    <3> QED BY <1>3, <3>2 DEF ExitDestroySem
  <2> HIDE DEF s
  <2>2. Core' /\ GrowsOnly(sched, sched', {"ready"})
    BY <1>0, <2>1, ExitDestroySemCore
  <2>3. SemaphoresTypeOK' /\ KeyboardTypeOK' /\ WaitersOnlyAtZero'
    BY <1>0, <1>3, <2>1, <2>2, DestroyTypes, DestroyWaiters, UnchangedKeyboard
  <2> QED BY <2>2, <2>3 DEF Inv
<1>4. CASE ExitDone
  <2>1. Core' /\ GrowsOnly(sched, sched', {})
    BY <1>0, <1>4, ExitSwitchCore DEF ExitDone
  <2>2. SemaphoresTypeOK' /\ KeyboardTypeOK' /\ sem' = sem
    BY <1>0, <1>4, UnchangedSem, UnchangedKeyboard DEF ExitDone
  <2> QED BY <1>0, <2>1, <2>2, WaitersKept, ListNames DEF Inv
<1> QED BY <1>1, <1>2, <1>3, <1>4 DEF Resume

LEMMA NextInv == Inv /\ [Next]_vars => Inv'
<1> SUFFICES ASSUME Inv, [Next]_vars PROVE Inv'
  OBVIOUS
<1>0. Core /\ SemaphoresTypeOK /\ KeyboardTypeOK /\ WaitersOnlyAtZero
  BY DEF Inv
<1>1. CASE Boot
  <2>1. Core'
    BY <1>0, <1>1, ReturnGateCore DEF Boot
  <2>2. SemaphoresTypeOK' /\ KeyboardTypeOK' /\ sem' = sem
    BY <1>0, <1>1, UnchangedSem, UnchangedKeyboard DEF Boot
  <2>3. GrowsOnly(sched, sched', {})
    <3>1. sched \in ProcessTable /\ sched' = [sched EXCEPT !.current = Task1]
      BY <1>0, <1>1, CoreTask DEF Boot, ReturnGate
    <3>2. sched'.queue = sched.queue
      BY <3>1 DEF ProcessTable
    <3> QED BY <3>2 DEF GrowsOnly
  <2> QED BY <1>0, <2>1, <2>2, <2>3, WaitersKept, ListNames DEF Inv
<1>2. CASE Clock
  <2>1. Core' /\ GrowsOnly(sched, sched', {"ready"})
    BY <1>0, <1>2, ClockTickCore DEF Clock
  <2>2. SemaphoresTypeOK' /\ KeyboardTypeOK' /\ sem' = sem
    BY <1>0, <1>2, UnchangedSem, UnchangedKeyboard DEF Clock
  <2> QED BY <1>0, <2>1, <2>2, WaitersKept, ListNames DEF Inv
<1>3. CASE Typing
  <2>1. Core' /\ GrowsOnly(sched, sched', {"ready"})
    BY <1>0, <1>3, KeyboardIrqCore DEF Typing
  <2>2. SemaphoresTypeOK' /\ KeyboardTypeOK' /\ sem' = sem
    BY <1>0, <1>3, UnchangedSem, KeyboardIrqTypes DEF Typing
  <2> QED BY <1>0, <2>1, <2>2, WaitersKept, ListNames DEF Inv
<1>4. CASE UNCHANGED vars
  <2>1. sched' = sched /\ cont' = cont /\ UNCHANGED semVars /\ UNCHANGED kbdVars
    BY <1>4 DEF vars, schedVars
  <2>2. Core' /\ GrowsOnly(sched, sched', {})
    BY <1>0, <2>1, UnchangedCore DEF GrowsOnly
  <2>3. SemaphoresTypeOK' /\ KeyboardTypeOK' /\ sem' = sem
    BY <1>0, <2>1, UnchangedSem, UnchangedKeyboard
  <2> QED BY <1>0, <2>2, <2>3, WaitersKept, ListNames DEF Inv
<1> QED BY <1>1, <1>2, <1>3, <1>4, SyscallInv, ResumeInv DEF Next

\* Every run of the kernel keeps the invariant the theorems below rest on.
THEOREM Invariance == Spec => []Inv
<1> QED BY InitInv, NextInv, PTL DEF Spec

-----------------------------------------------------------------------------
(* What follows from it. *)

LEMMA CoreLists ==
  ASSUME Core
  PROVE  /\ LinkedOnce
         /\ NoLostTask
         /\ RunningIsUnlinked
         /\ StateMatchesQueue
         /\ IdleOnlyWhenNothingReady
<1>1. /\ Sane(sched) /\ current = sched.current /\ current \in Task /\ Once(sched.queue)
      /\ \A k \in Queue : OnQueue(k) = sched.queue[k]
  BY CoreSane, SaneFields DEF current, OnQueue
<1>2. LinkedOnce
  <2>1. SUFFICES ASSUME NEW k \in Queue, NEW l \in Queue,
                        NEW i \in DOMAIN OnQueue(k), NEW j \in DOMAIN OnQueue(l),
                        OnQueue(k)[i] = OnQueue(l)[j]
                 PROVE  k = l /\ i = j
    BY DEF LinkedOnce
  <2>2. OnQueue(k)[i] \in ToSet(OnQueue(k)) /\ OnQueue(l)[j] \in ToSet(OnQueue(l))
    BY DEF ToSet
  <2>3. k = l
    BY <1>1, <2>1, <2>2 DEF Once
  <2>4. IsInjective(OnQueue(k))
    BY <1>1 DEF Once
  <2> QED BY <2>1, <2>3, <2>4 DEF IsInjective
<1>3. CASE cont[current] = "boot"
  <2>1. /\ sched = InitialTable /\ current = BootTask
        /\ ToSet(OnQueue("free")) = Task \ {Idle, Task1}
        /\ \A k \in Queue \ {"free"} : OnQueue(k) = <<>>
    <3>1. sched = InitialTable
      BY <1>3 DEF Core, Situation
    <3>2. InitialTable.current = BootTask
      BY DEF InitialTable
    <3> QED BY <3>1, <3>2, InitialLists DEF OnQueue, current
  <2>2. ToSet(<<>>) = {}
    BY DEF ToSet
  <2>3. \A k \in Queue \ {"free"} : ToSet(OnQueue(k)) = {}
    BY <2>1, <2>2
  <2>4. BootTask \in Task \ {Idle, Task1}
    BY TasksAssumption DEF Task, BootTask, Idle, Task1
  <2>5. NoLostTask
    BY <1>3 DEF NoLostTask
  <2>6. RunningIsUnlinked
    BY <1>3, <2>1, <2>3, <2>4 DEF RunningIsUnlinked, Linked
  <2>7. \A t \in Task \ {Idle, Task1} : sched.state[t] = "ST_INVALID"
    BY <2>1 DEF InitialTable
  <2>8. StateMatchesQueue
    BY <1>3, <2>1, <2>3, <2>7, QueueNames DEF StateMatchesQueue
  <2>9. IdleOnlyWhenNothingReady
    BY <2>1, <2>4 DEF IdleOnlyWhenNothingReady
  <2> QED BY <1>2, <2>5, <2>6, <2>8, <2>9
<1>4. ASSUME StatesMatch(sched), cont[current] \notin {"exit", "boot"} => sched.state[current] = "ST_RUN"
      PROVE  StateMatchesQueue
  <2>1. StateOn("free") = "ST_INVALID" /\ StateOn("ready") = "ST_READY"
        /\ \A k \in {"keyboard"} \cup Sem : StateOn(k) = "ST_BLOCKED" /\ k \in Queue
    BY QueueNames DEF StateOn
  <2>2. \A k \in Queue : \A t \in ToSet(OnQueue(k)) : sched.state[t] = StateOn(k)
    BY <1>1, <1>4 DEF StatesMatch
  <2> QED BY <1>4, <2>1, <2>2, QueueNames DEF StateMatchesQueue
<1>5. CASE cont[current] = "exit"
  <2>1. Parked(sched) /\ current \in ToSet(OnQueue("free"))
    BY <1>5 DEF Core, Situation
  <2>2. /\ \A k \in Queue : Idle \notin ToSet(OnQueue(k))
        /\ \A t \in Task \ {Idle} : \E k \in Queue : t \in ToSet(OnQueue(k))
    BY <1>1, <2>1 DEF Parked, Unlinked, AllLinkedBut
  <2>3. NoLostTask
    BY <2>2 DEF NoLostTask, Linked
  <2>4. \A k \in Queue \ {"free"} : current \notin ToSet(OnQueue(k))
    BY <1>1, <2>1, QueueNames DEF Once
  <2>5. RunningIsUnlinked
    BY <1>5, <2>1, <2>2, <2>4 DEF RunningIsUnlinked, Linked
  <2>6. StateMatchesQueue
    BY <1>4, <1>5, <2>1 DEF Parked
  <2>7. IdleOnlyWhenNothingReady
    BY <2>1, <2>2, QueueNames DEF IdleOnlyWhenNothingReady
  <2> QED BY <1>2, <2>3, <2>5, <2>6, <2>7
<1>6. CASE cont[current] \notin {"boot", "exit"}
  <2>1. Running(sched)
    BY <1>6 DEF Core, Situation
  <2>2. /\ \A k \in Queue : Idle \notin ToSet(OnQueue(k)) /\ current \notin ToSet(OnQueue(k))
        /\ \A t \in Task \ {Idle, current} : \E k \in Queue : t \in ToSet(OnQueue(k))
    BY <1>1, <2>1 DEF Running, Unlinked, AllLinkedBut
  <2>3. NoLostTask
    BY <2>2 DEF NoLostTask, Linked
  <2>4. RunningIsUnlinked
    BY <1>6, <2>2, QueueNames DEF RunningIsUnlinked, Linked
  <2>5. StateMatchesQueue
    BY <1>1, <1>4, <2>1 DEF Running
  <2>6. IdleOnlyWhenNothingReady
    BY <1>1, <2>1, QueueNames DEF Running, IdleOnlyWhenNothingReady
  <2> QED BY <1>2, <2>3, <2>4, <2>5, <2>6
<1> QED BY <1>3, <1>5, <1>6

\* Every variable keeps its type: no index of the keyboard buffer, no list and no field of
\* a PCB or of a semaphore leaves its range, whatever handlers run in whatever order.
THEOREM TypeCorrect == Spec => []TypeOK
<1>1. Inv => TypeOK
  BY DEF Inv, Core, TypeOK
<1> QED BY <1>1, Invariance, PTL

\* An anchor is in one list at most, once: list_add is never called on a linked anchor.
THEOREM ListsStayIntact == Spec => []LinkedOnce
<1>1. Inv => LinkedOnce
  BY CoreLists DEF Inv
<1> QED BY <1>1, Invariance, PTL

\* What the handlers promise each other: whoever gives up the
\* processor is in a list by then, also the task a key or a clock tick preempts.
THEOREM NobodyIsLost == Spec => []NoLostTask
<1>1. Inv => NoLostTask
  BY CoreLists DEF Inv
<1> QED BY <1>1, Invariance, PTL

\* No handler finds the running task in a list, so none takes its PCB or makes it ready.
THEOREM RunningStaysUnlinked == Spec => []RunningIsUnlinked
<1>1. Inv => RunningIsUnlinked
  BY CoreLists DEF Inv
<1> QED BY <1>1, Invariance, PTL

\* The state field says which list the task is in.
THEOREM StatesAreRight == Spec => []StateMatchesQueue
<1>1. Inv => StateMatchesQueue
  BY CoreLists DEF Inv
<1> QED BY <1>1, Invariance, PTL

\* The processor idles only if no task is ready, although the clause of needs_sched_rr
\* that is to look after it (sched.c:167) is never what decides.
THEOREM IdleIsLast == Spec => []IdleOnlyWhenNothingReady
<1>1. Inv => IdleOnlyWhenNothingReady
  BY CoreLists DEF Inv
<1> QED BY <1>1, Invariance, PTL

\* A task sleeps on a semaphore only while its count is 0 and it is in use: no wake-up is
\* lost between sys_sem_wait, sys_sem_signal, sys_sem_destroy and sys_exit.
THEOREM NoWakeupIsLost == Spec => []WaitersOnlyAtZero
<1>1. Inv => WaitersOnlyAtZero
  BY DEF Inv
<1> QED BY <1>1, Invariance, PTL

-----------------------------------------------------------------------------
(***************************************************************************)
(* What a run of the kernel does to the order of the lists, to the running *)
(* task and to the points where tasks resume.  A run has one of ten        *)
(* effects (KernelStep); the invariants below are proved once for each     *)
(* effect.                                                                 *)
(***************************************************************************)

\* The running task will go on at the point c.
GoesOn(c) == cont' = [cont EXCEPT ![current] = c]

\* The first reader gets the processor, and whoever had it is the last of the ready tasks.
Preempts(p, r) ==
  /\ r.current = Head(p.queue["keyboard"])
  /\ r.queue = [p.queue EXCEPT !["keyboard"] = Tail(p.queue["keyboard"]),
                               !["ready"] = IF p.current # Idle THEN Append(@, p.current) ELSE @]
  /\ SameProcesses(p, r) /\ Fresh(r)

Boots ==
  /\ cont[current] = "boot" /\ sched = InitialTable /\ current = BootTask
  /\ sched' = [InitialTable EXCEPT !.current = Task1]
  /\ GoesOn("none")

\* The lists and the running task stay as they are.
Stays ==
  /\ sched'.queue = sched.queue /\ sched'.current = sched.current
  /\ sched'.PID = sched.PID /\ sched'.last_PID = sched.last_PID
  /\ cont' = cont \/ (~NotResumable(cont[current]) /\ GoesOn("user"))
  /\ \/ sched' = sched
     \/ /\ ~NotResumable(cont[current])
        /\ \/ SameProcesses(sched, sched') /\ Ticks(sched, sched')
           \/ \E q \in NiceQuanta : Grants(sched, sched', q)

RotatesOut ==
  /\ cont[current] = "user" /\ cont' = cont
  /\ SameProcesses(sched, sched') /\ Rotates(sched, sched')

IsPreempted ==
  /\ cont[current] = "user" /\ cont' = cont
  /\ sched.queue["keyboard"] # <<>>
  /\ Preempts(sched, sched')

Sleeps(k, is_first, c) ==
  /\ ~NotResumable(cont[current]) /\ cont[current] # "sem" /\ current # Idle
  /\ Blocks(sched, sched', k, is_first)
  /\ GoesOn(c)

Exits ==
  /\ cont[current] = "user" /\ current # Idle
  /\ SameTicks(sched, sched')
  /\ sched'.queue = [sched.queue EXCEPT !["free"] = Append(@, current)]
  /\ GoesOn("exit")

LeavesForGood ==
  /\ cont[current] = "exit"
  /\ Dispatches(sched, sched')
  /\ GoesOn("none")

WakesFirst(s) ==
  /\ cont[current] = "user" /\ current # Idle /\ cont' = cont
  /\ sched.queue[s] # <<>>
  /\ Wakes(sched, sched', s)

WakesAll(s) ==
  /\ cont[current] \in {"user", "exit"} /\ cont' = cont
  /\ sched' = WakeAll(sched, s)

Creates ==
  /\ cont[current] = "user" /\ current # Idle
  /\ sched.queue["free"] # <<>>
  /\ Spawns(sched, sched')
  /\ cont' = [cont EXCEPT ![FreeTask(sched)] = "user"]

KernelStep ==
  \/ Boots
  \/ Stays
  \/ RotatesOut
  \/ IsPreempted
  \/ \E s \in Sem : Sleeps(s, FALSE, "sem")
  \/ Sleeps("keyboard", FALSE, "read0")
  \/ Sleeps("keyboard", TRUE, "read1")
  \/ Exits
  \/ LeavesForGood
  \/ \E s \in Sem : WakesFirst(s)
  \/ \E s \in Sem : WakesAll(s)
  \/ Creates

-----------------------------------------------------------------------------
(* Every action has one of them. *)

\* The keyboard interrupt wakes the first reader.
LEMMA PreemptOrder ==
  ASSUME NEW p, Running(p), p.queue["keyboard"] # <<>>
  PROVE  Preempts(p, WakeFirstReader(p))
<1> DEFINE reader == Head(p.queue["keyboard"])
           behind == FALSE
           in_front == TRUE
           back == IF p.current # Idle THEN Append(p.queue["ready"], p.current) ELSE p.queue["ready"]
           m == update_process_state(p, p.current, "ready", behind)
           preempted == IF p.current # Idle THEN update_stats(m, p.current, "SYS_TO_READY") ELSE p
           w == update_process_state(preempted, reader, "ready", in_front)
           n == sched_next_rr(w)
<1>1. behind \in BOOLEAN /\ in_front \in BOOLEAN /\ WakeFirstReader(p) = n
  BY DEF WakeFirstReader, add_process_to_scheduling, update_stats
<1>2. /\ Sane(p) /\ p.current \in Task /\ Unlinked(p.queue, p.current)
      /\ reader \in Task \ {Idle, p.current} /\ "ready" \in Queue \ {"keyboard"} /\ "keyboard" \in Queue
      /\ p.queue \in [Queue -> Seq(Task)]
  BY QueueNames, FirstOfList, SaneFields DEF Running
<1>3. /\ list_insert(p.queue["ready"], p.current, behind) = Append(p.queue["ready"], p.current)
      /\ \A s : list_insert(s, reader, in_front) = <<reader>> \o s
  BY DEF list_insert
<1> HIDE DEF behind, in_front
<1>4. /\ SameProcesses(p, preempted) /\ preempted.current = p.current
      /\ preempted.queue = [p.queue EXCEPT !["ready"] = back]
      /\ Parked(preempted)
  <2>1. CASE p.current = Idle
    <3>1. preempted = p /\ Parked(p) /\ back = p.queue["ready"]
      BY <2>1, IdleParks
    <3> HIDE DEF preempted, back
    <3>2. [p.queue EXCEPT !["ready"] = p.queue["ready"]] = p.queue
      BY <1>2
    <3> QED BY <3>1, <3>2 DEF SameProcesses
  <2>2. CASE p.current # Idle
    <3>1. preempted = update_stats(m, p.current, "SYS_TO_READY") /\ back = Append(p.queue["ready"], p.current)
      BY <2>2
    <3>2. /\ SameTicks(p, m)
          /\ m.queue = [p.queue EXCEPT !["ready"] = list_insert(p.queue["ready"], p.current, behind)]
      BY <1>1, <1>2, UpdateOrder
    <3>3. Parked(m)
      BY <1>1, <1>2, <2>2, MovesUpdate, RunningParks
    <3> HIDE DEF m, preempted, back
    <3>4. /\ SameFields(m, preempted) /\ preempted.queue = m.queue /\ preempted.state = m.state
          /\ Sane(preempted)
      BY <1>2, <3>1, <3>3, UpdateStats DEF Parked
    <3>5. Parked(preempted)
      BY <3>3, <3>4, SameSituation DEF SameLists, SameFields
    <3> QED BY <1>3, <3>1, <3>2, <3>4, <3>5 DEF SameProcesses, SameTicks, SameFields
  <2> QED BY <2>1, <2>2
<1> HIDE DEF preempted, back
<1>5. preempted.queue["keyboard"] = p.queue["keyboard"] /\ Sane(preempted)
  BY <1>2, <1>4 DEF Parked
<1>6. /\ SameTicks(preempted, w)
      /\ w.queue = [preempted.queue EXCEPT !["keyboard"] = Tail(p.queue["keyboard"]),
                                           !["ready"] = <<reader>> \o preempted.queue["ready"]]
  <2>1. reader = Head(preempted.queue["keyboard"]) /\ preempted.queue["keyboard"] # <<>>
    BY <1>5
  <2> HIDE DEF reader
  <2>2. w = update_process_state(preempted, Head(preempted.queue["keyboard"]), "ready", in_front)
    BY <2>1
  <2> HIDE DEF w
  <2>3. /\ SameTicks(preempted, w)
        /\ w.queue = [preempted.queue EXCEPT !["keyboard"] = Tail(preempted.queue["keyboard"]),
                          !["ready"] = list_insert(preempted.queue["ready"],
                                          Head(preempted.queue["keyboard"]), in_front)]
    <3>1. /\ Sane(preempted) /\ "keyboard" \in Queue /\ "ready" \in Queue \ {"keyboard"}
          /\ in_front \in BOOLEAN /\ preempted.queue["keyboard"] # <<>>
      BY <1>1, <1>2, <1>5, <2>1
    <3> QED BY <2>2, <3>1, UpdateFirst
  <2> QED BY <1>3, <1>5, <2>1, <2>3
<1>7. Parked(w)
  <2> HIDE DEF reader
  <2>1. Moves(preempted, w, reader, "ready")
    BY <1>1, <1>2, <1>5, MovesUpdate
  <2> HIDE DEF w
  <2> QED BY <1>2, <1>4, <2>1, ParkedMoves
<1> HIDE DEF w
<1>8. /\ n.current = NextTask(w)
      /\ n.queue = [w.queue EXCEPT !["ready"] = Others(w.queue["ready"])]
      /\ n.PID = w.PID /\ n.last_PID = w.last_PID /\ n.quantum = w.quantum
      /\ Fresh(n)
  BY <1>7, Dispatch DEF Dispatches, SameProcesses
<1> HIDE DEF n
<1>9. back \in Seq(Task)
  <2>1. p.queue["ready"] \in Seq(Task)
    BY <1>2
  <2> QED BY <1>2, <2>1 DEF back
<1>10. w.queue = [p.queue EXCEPT !["keyboard"] = Tail(p.queue["keyboard"]), !["ready"] = <<reader>> \o back]
       /\ w.queue["ready"] = <<reader>> \o back
  <2> HIDE DEF reader
  <2> QED BY <1>2, <1>4, <1>6
<1>11. /\ <<reader>> \o back # <<>> /\ Head(<<reader>> \o back) = reader
       /\ Tail(<<reader>> \o back) = back
  <2> HIDE DEF reader
  <2> QED BY <1>2, <1>9
<1>12. /\ n.current = reader
       /\ n.queue = [p.queue EXCEPT !["keyboard"] = Tail(p.queue["keyboard"]), !["ready"] = back]
  <2> HIDE DEF reader
  <2> QED BY <1>2, <1>8, <1>10, <1>11 DEF NextTask, Others
<1> QED BY <1>1, <1>4, <1>6, <1>8, <1>12 DEF Preempts, SameProcesses, SameTicks, SameFields, back, reader

LEMMA BlockEffect ==
  ASSUME Core, ~NotResumable(cont[current]), cont[current] # "sem", current # Idle,
         NEW k \in Queue \ {"ready"}, NEW is_first \in BOOLEAN, NEW c, Block(k, is_first, c)
  PROVE  Sleeps(k, is_first, c)
<1>1. Running(sched) /\ current = sched.current
  BY CoreRuns
<1>2. Blocks(sched, sched', k, is_first)
  BY <1>1, BlockSwitch DEF Block
<1> QED BY <1>2 DEF Sleeps, GoesOn, Block

LEMMA SpawnEffect ==
  ASSUME Core, Spawn
  PROVE  Creates
<1>1. Running(sched) /\ sched.queue["free"] # <<>>
  BY InSyscallRuns DEF Spawn, OnQueue
<1>2. Spawns(sched, sched')
  BY <1>1, SpawnOrder DEF Spawn
<1> QED BY <1>1, <1>2 DEF Creates, Spawn, InSyscall

LEMMA SysExitEffect ==
  ASSUME Core, SysExit
  PROVE  Exits
<1> DEFINE is_first == FALSE
<1>1. /\ Sane(sched) /\ current \in Task /\ Unlinked(sched.queue, current) /\ "free" \in Queue
      /\ sched.queue \in [Queue -> Seq(Task)] /\ is_first \in BOOLEAN
  BY InSyscallRuns, CoreRuns, SaneFields, QueueNames DEF SysExit, Running
<1>2. sched' = update_process_state(sched, current, "free", is_first)
  BY DEF SysExit, update_process_state_rr
<1>3. list_insert(sched.queue["free"], current, is_first) = Append(sched.queue["free"], current)
  BY DEF list_insert
<1> HIDE DEF is_first
<1>4. /\ SameTicks(sched, sched')
      /\ sched'.queue = [sched.queue EXCEPT !["free"] = list_insert(sched.queue["free"], current, is_first)]
  BY <1>1, <1>2, UpdateOrder
<1> QED BY <1>3, <1>4 DEF Exits, SysExit, InSyscall, GoesOn

LEMMA ExitSwitchEffect ==
  ASSUME Core, ExitSwitch
  PROVE  LeavesForGood
<1>1. Parked(sched)
  BY DEF Core, Situation, ExitSwitch
<1>2. Dispatches(sched, sched')
  BY <1>1, Dispatch DEF ExitSwitch
<1> QED BY <1>2 DEF LeavesForGood, GoesOn, ExitSwitch

LEMMA ClockEffect ==
  ASSUME Core, ClockTick
  PROVE  Stays \/ RotatesOut
<1>1. cont[current] # "boot"
  <2>1. SUFFICES ASSUME cont[current] = "boot" PROVE FALSE
    OBVIOUS
  <2>2. sched = InitialTable
    BY <2>1 DEF Core, Situation
  <2>3. BootTask \in Task /\ BootTask \notin {Idle, Task1}
    BY TasksAssumption DEF Task, BootTask, Idle, Task1
  <2>4. sched.state[current] = "ST_INVALID"
    BY <2>2, <2>3 DEF InitialTable, current
  <2> QED BY <2>4 DEF ClockTick
<1>2. cont[current] = "user" /\ ~NotResumable(cont[current]) /\ cont' = cont
  BY <1>1 DEF ClockTick, InterruptsEnabled, NotResumable
<1>3. Running(sched) /\ current = sched.current
  BY <1>2, CoreRuns
<1>4. SameProcesses(sched, sched') /\ (Ticks(sched, sched') \/ Rotates(sched, sched'))
  BY <1>3, ClockOrder DEF ClockTick
<1>5. CASE Ticks(sched, sched')
  BY <1>2, <1>4, <1>5 DEF Stays, Ticks, SameProcesses
<1>6. CASE Rotates(sched, sched')
  BY <1>2, <1>4, <1>6 DEF RotatesOut
<1> QED BY <1>4, <1>5, <1>6

LEMMA NiceEffect ==
  ASSUME Core, NEW q \in NiceQuanta, Nice(q)
  PROVE  Stays
<1>1. Running(sched) /\ ~NotResumable(cont[current]) /\ q \in Nat /\ cont' = cont
  BY InSyscallRuns, NiceAssumption DEF Nice
<1>2. Grants(sched, sched', q)
  BY <1>1, SetQuantumTicks DEF Nice, current
<1> QED BY <1>1, <1>2 DEF Stays, Grants

LEMMA UnchangedEffect ==
  ASSUME sched' = sched, cont' = cont \/ (~NotResumable(cont[current]) /\ GoesOn("user"))
  PROVE  Stays
BY DEF Stays

LEMMA ReturnGateEffect ==
  ASSUME Core, ReturnGate
  PROVE  Boots
<1>1. sched = InitialTable
  BY DEF Core, Situation, ReturnGate
<1> QED BY <1>1 DEF Boots, ReturnGate, GoesOn, InitialTable, current

LEMMA SemWaitEffect ==
  ASSUME Core, NEW s \in Sem, SemWait(s)
  PROVE  IF MustWait(s) THEN Sleeps(s, FALSE, "sem") ELSE Stays
<1>1. ~NotResumable(cont[current]) /\ cont[current] # "sem" /\ current # Idle /\ s \in Queue \ {"ready"}
  BY QueueNames DEF SemWait, InSyscall, NotResumable
<1>2. CASE MustWait(s)
  <2> DEFINE is_first == FALSE
  <2>1. Block(s, is_first, "sem") /\ is_first \in BOOLEAN
    BY <1>2 DEF SemWait
  <2> HIDE DEF is_first
  <2>2. Sleeps(s, is_first, "sem")
    BY <1>1, <2>1, BlockEffect
  <2> QED BY <1>2, <2>2 DEF is_first
<1>3. CASE ~MustWait(s)
  BY <1>3, UnchangedEffect DEF SemWait
<1> QED BY <1>2, <1>3

LEMMA SemSignalEffect ==
  ASSUME Core, NEW s \in Sem, SemSignal(s)
  PROVE  IF sched.queue[s] = <<>> THEN Stays ELSE WakesFirst(s)
<1>1. CASE sched.queue[s] = <<>>
  BY <1>1, UnchangedEffect DEF SemSignal, OnQueue
<1>2. CASE sched.queue[s] # <<>>
  <2>1. Sane(sched) /\ s \in Queue \ {"ready"}
    BY InSyscallRuns, QueueNames DEF SemSignal, Running
  <2>2. sched' = add_process_to_scheduling(sched, Head(sched.queue[s]), "BLOCKED_TO_READY", FALSE)
    BY <1>2 DEF SemSignal, OnQueue
  <2>3. Wakes(sched, sched', s)
    BY <1>2, <2>1, <2>2, WakeOrder
  <2> QED BY <1>2, <2>3 DEF WakesFirst, SemSignal, InSyscall
<1> QED BY <1>1, <1>2

LEMMA DestroyEffect ==
  ASSUME NEW s \in Sem, DestroySemaphore(s), cont' = cont, cont[current] \in {"user", "exit"}
  PROVE  WakesAll(s)
BY DEF WakesAll, DestroySemaphore

\* In the boot window nobody waits for a key.
LEMMA KeyboardIrqEffect ==
  ASSUME Core, KeyboardIrq
  PROVE  \/ Stays /\ sched' = sched
         \/ IsPreempted
<1>1. CASE sched' = sched
  BY <1>1, UnchangedEffect DEF KeyboardIrq
<1>2. CASE sched' # sched
  <2>1. sched.queue["keyboard"] # <<>> /\ sched' = WakeFirstReader(sched) /\ cont' = cont
    BY <1>2 DEF KeyboardIrq, OnQueue
  <2>2. cont[current] # "boot"
    BY <2>1, InitialLists, QueueNames DEF Core, Situation
  <2>3. cont[current] = "user" /\ ~NotResumable(cont[current])
    BY <2>2 DEF KeyboardIrq, InterruptsEnabled, NotResumable
  <2>4. Running(sched)
    BY <2>3, CoreRuns
  <2>5. Preempts(sched, sched')
    BY <2>1, <2>4, PreemptOrder
  <2> QED BY <2>1, <2>3, <2>5 DEF IsPreempted
<1> QED BY <1>1, <1>2

LEMMA WaitForRestEffect ==
  ASSUME Core, ~NotResumable(cont[current]), cont[current] # "sem", current # Idle,
         NEW rest, WaitForRest(rest)
  PROVE  Sleeps("keyboard", TRUE, "read1")
<1> DEFINE is_first == TRUE
<1>1. Block("keyboard", is_first, "read1") /\ is_first \in BOOLEAN
  BY DEF WaitForRest
<1> HIDE DEF is_first
<1>2. Sleeps("keyboard", is_first, "read1")
  BY <1>1, BlockEffect, QueueNames
<1> QED BY <1>2 DEF is_first

LEMMA TakeKeysEffect ==
  ASSUME Core, ~NotResumable(cont[current]), cont[current] # "sem", current # Idle,
         NEW size, TakeKeys(size)
  PROVE  \/ Stays /\ sched' = sched /\ GoesOn("user")
         \/ Sleeps("keyboard", TRUE, "read1")
<1>1. \/ \E rest : WaitForRest(rest)
      \/ GoesOn("user") /\ sched' = sched
  BY DEF TakeKeys, GoesOn
<1> QED BY <1>1, WaitForRestEffect, UnchangedEffect

LEMMA SysReadEffect ==
  ASSUME Core, NEW size \in ReadSizes, SysRead(size)
  PROVE  IF SomebodyReads THEN Sleeps("keyboard", FALSE, "read0")
         ELSE \/ Stays /\ sched' = sched /\ GoesOn("user")
              \/ Sleeps("keyboard", TRUE, "read1")
<1>1. ~NotResumable(cont[current]) /\ cont[current] # "sem" /\ current # Idle
  BY DEF SysRead, InSyscall, NotResumable
<1>2. CASE SomebodyReads
  <2> DEFINE is_first == FALSE
  <2>1. Block("keyboard", is_first, "read0") /\ is_first \in BOOLEAN
    BY <1>2 DEF SysRead
  <2> HIDE DEF is_first
  <2>2. Sleeps("keyboard", is_first, "read0")
    BY <1>1, <2>1, BlockEffect, QueueNames
  <2> QED BY <1>2, <2>2 DEF is_first
<1>3. CASE ~SomebodyReads
  BY <1>1, <1>3, TakeKeysEffect DEF SysRead
<1> QED BY <1>2, <1>3

LEMMA ReadResumeEffect ==
  ASSUME Core, ReadResume
  PROVE  \/ Stays /\ sched' = sched /\ GoesOn("user")
         \/ Sleeps("keyboard", TRUE, "read1")
<1>1. ~NotResumable(cont[current]) /\ cont[current] # "sem" /\ current # Idle
  BY DEF ReadResume, NotResumable, Core, IdleInUser
<1> QED BY <1>1, TakeKeysEffect DEF ReadResume

LEMMA StepEffect ==
  ASSUME Inv, [Next]_vars
  PROVE  KernelStep
<1>0. Core /\ WaitersOnlyAtZero /\ SemaphoresTypeOK
  BY DEF Inv
<1>1. CASE Boot
  BY <1>0, <1>1, ReturnGateEffect DEF Boot, KernelStep
<1>2. CASE Clock
  BY <1>0, <1>2, ClockEffect DEF Clock, KernelStep
<1>3. CASE Typing
  BY <1>0, <1>3, KeyboardIrqEffect DEF Typing, KernelStep
<1>4. CASE UNCHANGED vars
  BY <1>4, UnchangedEffect DEF vars, schedVars, KernelStep
<1>5. CASE Syscall
  <2>1. CASE Create
    BY <1>0, <2>1, SpawnEffect DEF Create, KernelStep
  <2>2. CASE Leave
    BY <1>0, <2>2, SysExitEffect DEF Leave, KernelStep
  <2>3. ASSUME NEW q \in NiceQuanta, Nice(q) PROVE KernelStep
    BY <1>0, <2>3, NiceEffect DEF KernelStep
  <2>4. ASSUME NEW s \in Sem, NEW value \in InitValues, SemInit(s, value) PROVE KernelStep
    <3>1. sched' = sched /\ cont' = cont
      BY <1>0, <2>4, SemInitCore DEF SemInit
    <3> QED BY <3>1, UnchangedEffect DEF KernelStep
  <2>5. ASSUME NEW s \in Sem, SemWait(s) PROVE KernelStep
    BY <1>0, <2>5, SemWaitEffect DEF KernelStep
  <2>6. ASSUME NEW s \in Sem, SemSignal(s) PROVE KernelStep
    BY <1>0, <2>6, SemSignalEffect DEF KernelStep
  <2>7. ASSUME NEW s \in Sem, SemDestroy(s) PROVE KernelStep
    BY <1>0, <2>7, DestroyEffect DEF SemDestroy, InSyscall, KernelStep
  <2>8. ASSUME NEW size \in ReadSizes, SysRead(size) PROVE KernelStep
    BY <1>0, <2>8, SysReadEffect DEF KernelStep
  <2> QED BY <1>5, <2>1, <2>2, <2>3, <2>4, <2>5, <2>6, <2>7, <2>8 DEF Syscall, SemaphoreCall, ReadCall
<1>6. CASE Resume
  <2>1. CASE SemWaitReturn
    BY <2>1, UnchangedEffect DEF SemWaitReturn, NotResumable, GoesOn, KernelStep
  <2>2. CASE ReadResume
    BY <1>0, <2>2, ReadResumeEffect DEF KernelStep
  <2>3. CASE ExitDestroySem
    <3>1. Head(owned[current]) \in Sem
      <4>1. owned[current] \in Seq(Sem) /\ owned[current] # <<>>
        BY <1>0, <2>3, CoreTask DEF SemaphoresTypeOK, ExitDestroySem
      <4> QED BY <4>1, MembersType
    <3> QED BY <2>3, <3>1, DestroyEffect DEF ExitDestroySem, KernelStep
  <2>4. CASE ExitDone
    BY <1>0, <2>4, ExitSwitchEffect DEF ExitDone, KernelStep
  <2> QED BY <1>6, <2>1, <2>2, <2>3, <2>4 DEF Resume
<1> QED BY <1>1, <1>2, <1>3, <1>4, <1>5, <1>6 DEF Next

-----------------------------------------------------------------------------
(* What the effects add to the lists. *)

\* No list but k gets new members, and k gets none but those of new.
Adds(p, r, k, new) ==
  /\ \A l \in Queue \ {k} : ToSet(r.queue[l]) \subseteq ToSet(p.queue[l])
  /\ ToSet(r.queue[k]) \subseteq ToSet(p.queue[k]) \cup new

LEMMA AppendMembers ==
  ASSUME NEW S, NEW s \in Seq(S), NEW e \in S
  PROVE  /\ Append(s, e) \in Seq(S) /\ Append(s, e) # <<>>
         /\ ToSet(Append(s, e)) = ToSet(s) \cup {e}
         /\ IsInjective(s) /\ e \notin ToSet(s) => IsInjective(Append(s, e))
<1> DEFINE is_first == FALSE
<1>1. Append(s, e) = list_insert(s, e, is_first) /\ is_first \in BOOLEAN
  BY DEF list_insert
<1> HIDE DEF is_first
<1>2. /\ list_insert(s, e, is_first) \in Seq(S)
      /\ ToSet(list_insert(s, e, is_first)) = ToSet(s) \cup {e}
      /\ IsInjective(s) /\ e \notin ToSet(s) => IsInjective(list_insert(s, e, is_first))
  BY <1>1, InsertMembers
<1>3. Append(s, e) # <<>>
  BY AppendProperties
<1> QED BY <1>1, <1>2, <1>3

LEMMA OthersMembers ==
  ASSUME NEW S, NEW s \in Seq(S)
  PROVE  Others(s) \in Seq(S) /\ ToSet(Others(s)) \subseteq ToSet(s)
<1>1. CASE s = <<>>
  BY <1>1 DEF Others
<1>2. CASE s # <<>>
  BY <1>2, TailMembers DEF Others
<1> QED BY <1>1, <1>2

LEMMA BlocksAdds ==
  ASSUME NEW p, NEW r, Sane(p), NEW k \in Queue \ {"ready"}, NEW is_first \in BOOLEAN,
         Blocks(p, r, k, is_first)
  PROVE  Adds(p, r, k, {p.current})
<1> DEFINE inserted == list_insert(p.queue[k], p.current, is_first)
           others == Others(p.queue["ready"])
<1>1. /\ p.queue \in [Queue -> Seq(Task)] /\ "ready" \in Queue /\ p.current \in Task
  BY SaneFields, QueueNames
<1>2. ToSet(inserted) = ToSet(p.queue[k]) \cup {p.current}
  BY <1>1, InsertMembers
<1>3. ToSet(others) \subseteq ToSet(p.queue["ready"])
  BY <1>1, OthersMembers
<1>4. r.queue = [p.queue EXCEPT ![k] = inserted, !["ready"] = others]
  BY DEF Blocks
<1> HIDE DEF inserted, others
<1> QED BY <1>1, <1>2, <1>3, <1>4 DEF Adds

LEMMA DispatchesAdds ==
  ASSUME NEW p, NEW r, Sane(p), Dispatches(p, r)
  PROVE  Adds(p, r, "ready", {})
<1> DEFINE others == Others(p.queue["ready"])
<1>1. p.queue \in [Queue -> Seq(Task)] /\ "ready" \in Queue
  BY SaneFields, QueueNames
<1>2. ToSet(others) \subseteq ToSet(p.queue["ready"])
  BY <1>1, OthersMembers
<1>3. r.queue = [p.queue EXCEPT !["ready"] = others]
  BY DEF Dispatches
<1> HIDE DEF others
<1> QED BY <1>1, <1>2, <1>3 DEF Adds

LEMMA RotatesAdds ==
  ASSUME NEW p, NEW r, Sane(p), Rotates(p, r)
  PROVE  Adds(p, r, "ready", {p.current})
<1> DEFINE all == Append(p.queue["ready"], p.current)
           rest == Tail(all)
<1>1. p.queue \in [Queue -> Seq(Task)] /\ "ready" \in Queue /\ p.current \in Task
  BY SaneFields, QueueNames
<1>2. all \in Seq(Task) /\ all # <<>> /\ ToSet(all) = ToSet(p.queue["ready"]) \cup {p.current}
  BY <1>1, AppendMembers
<1>3. r.queue = [p.queue EXCEPT !["ready"] = rest]
  BY DEF Rotates
<1> HIDE DEF all
<1>4. ToSet(rest) \subseteq ToSet(all)
  BY <1>2, TailMembers
<1> HIDE DEF rest
<1> QED BY <1>1, <1>2, <1>3, <1>4 DEF Adds

LEMMA PreemptsAdds ==
  ASSUME NEW p, NEW r, Sane(p), p.queue["keyboard"] # <<>>, Preempts(p, r)
  PROVE  Adds(p, r, "ready", {p.current} \ {Idle})
<1> DEFINE first == Append(p.queue["ready"], p.current)
           back == IF p.current # Idle THEN first ELSE p.queue["ready"]
           rest == Tail(p.queue["keyboard"])
<1>1. /\ p.queue \in [Queue -> Seq(Task)] /\ "ready" \in Queue /\ "keyboard" \in Queue
      /\ p.current \in Task
  BY SaneFields, QueueNames
<1>2. ToSet(first) = ToSet(p.queue["ready"]) \cup {p.current}
  BY <1>1, AppendMembers
<1>3. r.queue = [p.queue EXCEPT !["keyboard"] = rest, !["ready"] = back]
  BY DEF Preempts
<1>4. ToSet(rest) \subseteq ToSet(p.queue["keyboard"])
  BY <1>1, TailMembers
<1> HIDE DEF rest, first
<1>5. ToSet(back) \subseteq ToSet(p.queue["ready"]) \cup ({p.current} \ {Idle})
  BY <1>2
<1> HIDE DEF back
<1> QED BY <1>1, <1>3, <1>4, <1>5 DEF Adds

LEMMA WakesAdds ==
  ASSUME NEW p, NEW r, Sane(p), NEW k \in Queue \ {"ready"}, p.queue[k] # <<>>, Wakes(p, r, k)
  PROVE  Adds(p, r, "ready", ToSet(p.queue[k]))
<1> DEFINE t == Head(p.queue[k])
           back == Append(p.queue["ready"], t)
           rest == Tail(p.queue[k])
<1>1. /\ p.queue \in [Queue -> Seq(Task)] /\ "ready" \in Queue /\ t \in ToSet(p.queue[k])
      /\ t \in Task
  BY SaneFields, QueueNames, MembersType
<1>2. ToSet(back) = ToSet(p.queue["ready"]) \cup {t}
  BY <1>1, AppendMembers
<1>3. ToSet(rest) \subseteq ToSet(p.queue[k])
  BY <1>1, TailMembers
<1>4. r.queue = [p.queue EXCEPT ![k] = rest, !["ready"] = back]
  BY DEF Wakes
<1> HIDE DEF t, back, rest
<1> QED BY <1>1, <1>2, <1>3, <1>4 DEF Adds

LEMMA WakeAllAdds ==
  ASSUME NEW p, Sane(p), NEW s \in Sem
  PROVE  Adds(p, WakeAll(p, s), "ready", ToSet(p.queue[s]))
<1> DEFINE r == WakeAll(p, s)
<1>1. /\ r.queue[s] = <<>>
      /\ ToSet(r.queue["ready"]) = ToSet(p.queue["ready"]) \cup ToSet(p.queue[s])
      /\ \A k \in Queue \ {s, "ready"} : r.queue[k] = p.queue[k]
  BY WakeAllLists
<1>2. ToSet(<<>>) = {}
  BY DEF ToSet
<1> HIDE DEF r
<1>3. Adds(p, r, "ready", ToSet(p.queue[s]))
  BY <1>1, <1>2 DEF Adds
<1> QED BY <1>3 DEF r

\* A new process is no longer in the free queue.
LEMMA SpawnsAdds ==
  ASSUME NEW p, NEW r, Sane(p), p.queue["free"] # <<>>, Spawns(p, r)
  PROVE  /\ Adds(p, r, "ready", {FreeTask(p)})
         /\ ToSet(r.queue["free"]) = ToSet(p.queue["free"]) \ {FreeTask(p)}
         /\ FreeTask(p) \in ToSet(p.queue["free"]) /\ FreeTask(p) \in Task
<1> DEFINE t == FreeTask(p)
           back == Append(p.queue["ready"], t)
           rest == Tail(p.queue["free"])
<1>1. /\ p.queue \in [Queue -> Seq(Task)] /\ "ready" \in Queue /\ "free" \in Queue
      /\ IsInjective(p.queue["free"])
      /\ t = Head(p.queue["free"]) /\ t \in ToSet(p.queue["free"]) /\ t \in Task
  BY SaneFields, QueueNames, MembersType DEF FreeTask, Once
<1>2. ToSet(back) = ToSet(p.queue["ready"]) \cup {t}
  BY <1>1, AppendMembers
<1>3. ToSet(rest) = ToSet(p.queue["free"]) \ {t}
  BY <1>1, TailMembers
<1>4. r.queue = [p.queue EXCEPT !["free"] = rest, !["ready"] = back]
  BY DEF Spawns
<1> HIDE DEF t, back, rest
<1>5. /\ Adds(p, r, "ready", {t})
      /\ ToSet(r.queue["free"]) = ToSet(p.queue["free"]) \ {t}
  BY <1>1, <1>2, <1>3, <1>4 DEF Adds
<1> QED BY <1>1, <1>5 DEF t

LEMMA ExitsAdds ==
  ASSUME Sane(sched), current = sched.current, Exits
  PROVE  /\ Adds(sched, sched', "free", {current})
         /\ ToSet(sched'.queue["free"]) = ToSet(sched.queue["free"]) \cup {current}
<1> DEFINE back == Append(sched.queue["free"], current)
<1>1. sched.queue \in [Queue -> Seq(Task)] /\ "free" \in Queue /\ current \in Task
  BY SaneFields, QueueNames
<1>2. ToSet(back) = ToSet(sched.queue["free"]) \cup {current}
  BY <1>1, AppendMembers
<1>3. sched'.queue = [sched.queue EXCEPT !["free"] = back]
  BY DEF Exits
<1> HIDE DEF back
<1> QED BY <1>1, <1>2, <1>3 DEF Adds

-----------------------------------------------------------------------------
(* Where the tasks in a list resume. *)

\* The points at which a task in list k resumes.
Resumes(k) == CASE k = "free"     -> {"none", "exit", "boot"}
                [] k = "ready"    -> {"user", "sem"}
                [] k = "keyboard" -> {"read0", "read1"}
                [] OTHER          -> {"sem"}

ListsResume == \A k \in Queue : \A t \in ToSet(OnQueue(k)) : cont[t] \in Resumes(k)

Resumption == ListsResume /\ (cont[current] = "boot" => cont[Task1] = "user")

LEMMA ResumptionInit == ASSUME SchedulerInit PROVE Resumption
<1>1. /\ sched = InitialTable /\ current = BootTask /\ BootTask \in Task
      /\ Task1 \in Task /\ Task1 # BootTask
  BY TasksAssumption DEF SchedulerInit, InitialTable, current, Task, Task1, BootTask
<1>2. /\ ToSet(OnQueue("free")) = Task \ {Idle, Task1}
      /\ \A k \in Queue \ {"free"} : OnQueue(k) = <<>>
  BY <1>1, InitialLists DEF OnQueue
<1>3. \A t \in Task \ {Idle, Task1} : cont[t] \in {"boot", "none"}
  BY DEF SchedulerInit
<1>4. ToSet(<<>>) = {}
  BY DEF ToSet
<1>5. ListsResume
  BY <1>2, <1>3, <1>4 DEF ListsResume, Resumes
<1>6. cont[Task1] = "user"
  BY <1>1 DEF SchedulerInit
<1> QED BY <1>5, <1>6 DEF Resumption

LEMMA ListsResumeKept ==
  ASSUME ListsResume, NEW k \in Queue, NEW new, Adds(sched, sched', k, new),
         \A t \in new : cont'[t] \in Resumes(k),
         \A l \in Queue : \A t \in ToSet(OnQueue(l)) :
           cont'[t] = cont[t] \/ cont'[t] \in Resumes(l) \/ t \notin ToSet(sched'.queue[l])
  PROVE  ListsResume'
<1>1. SUFFICES ASSUME NEW l \in Queue, NEW t \in ToSet(sched'.queue[l])
               PROVE  cont'[t] \in Resumes(l)
  BY DEF ListsResume, OnQueue
<1>2. CASE t \in ToSet(OnQueue(l))
  BY <1>1, <1>2 DEF ListsResume
<1>3. CASE t \notin ToSet(OnQueue(l))
  BY <1>1, <1>3 DEF Adds, OnQueue
<1> QED BY <1>2, <1>3

\* Only main() can have the continuation "boot", so nobody gets it.
LEMMA BootIsOver ==
  ASSUME Core, cont[current] # "boot", NEW x \in Task, NEW c, c # "boot",
         cont' = cont \/ cont' = [cont EXCEPT ![x] = c], current' \in Task
  PROVE  cont'[current'] # "boot"
<1>1. cont[current'] # "boot" /\ cont \in [Task -> Continuation]
  BY DEF Core, OneInKernel, NotResumable, SchedulerTypeOK
<1> QED BY <1>1

\* The running task is in no list, but in the free queue if it is in the middle of an exit.
LEMMA CurrentUnlinked ==
  ASSUME Core
  PROVE  /\ current \in Task /\ current = sched.current /\ cont \in [Task -> Continuation]
         /\ Sane(sched)
         /\ ~NotResumable(cont[current]) => \A l \in Queue : current \notin ToSet(OnQueue(l))
         /\ \A l \in Queue \ {"free"} : current \notin ToSet(OnQueue(l))
         /\ ~NotResumable(cont[current]) => cont[Idle] = "user"
<1>1. RunningIsUnlinked
  BY CoreLists
<1> QED BY <1>1, CoreSane, CoreTask
       DEF RunningIsUnlinked, current, Core, SchedulerTypeOK, NotResumable, IdleInUser

LEMMA ResumptionKept ==
  ASSUME Core, Core', Resumption, KernelStep
  PROVE  Resumption'
<1>0. /\ current \in Task /\ current = sched.current /\ cont \in [Task -> Continuation] /\ Sane(sched)
      /\ ~NotResumable(cont[current]) => \A l \in Queue : current \notin ToSet(OnQueue(l))
      /\ \A l \in Queue \ {"free"} : current \notin ToSet(OnQueue(l))
      /\ current' \in Task /\ ListsResume /\ "ready" \in Queue /\ "free" \in Queue /\ "keyboard" \in Queue
      /\ \A s \in Sem : s \in Queue \ {"ready", "free", "keyboard"}
  <2>1. current' \in Task
    BY CoreTask DEF Core, SchedulerTypeOK, ProcessTable, current
  <2> QED BY <2>1, CurrentUnlinked, QueueNames DEF Resumption
<1>1. CASE Boots
  <2>1. /\ sched'.queue = sched.queue /\ sched'.current = Task1
    BY <1>1, InitialLists DEF Boots, ProcessTable
  <2>2. Adds(sched, sched', "ready", {})
    BY <2>1 DEF Adds
  <2>3. cont' = [cont EXCEPT ![current] = "none"] /\ Task1 # current /\ cont[Task1] = "user" /\ Task1 \in Task
    BY <1>0, <1>1, SaneFields DEF Boots, GoesOn, Resumption, Task1, BootTask
  <2>4. ListsResume'
    <3>1. \A l \in Queue : \A t \in ToSet(OnQueue(l)) : cont'[t] = cont[t] \/ cont'[t] \in Resumes(l)
      <4>1. "none" \in Resumes("free")
        BY DEF Resumes
      <4> QED BY <1>0, <2>3, <4>1
    <3> QED BY <1>0, <2>2, <3>1, ListsResumeKept
  <2>5. cont'[current'] = "user"
    BY <1>0, <2>1, <2>3 DEF current
  <2> QED BY <2>4, <2>5 DEF Resumption
<1>2. CASE Stays
  <2>1. Adds(sched, sched', "ready", {}) /\ current' = current
    BY <1>2 DEF Adds, Stays, current
  <2>2. cont' = cont \/ (~NotResumable(cont[current]) /\ cont' = [cont EXCEPT ![current] = "user"])
    BY <1>2 DEF Stays, GoesOn
  <2>3. ListsResume'
    <3>1. \A l \in Queue : \A t \in ToSet(OnQueue(l)) : cont'[t] = cont[t]
      <4>1. CASE cont' = cont
        BY <4>1
      <4>2. CASE ~NotResumable(cont[current]) /\ cont' = [cont EXCEPT ![current] = "user"]
        BY <1>0, <4>2
      <4> QED BY <2>2, <4>1, <4>2
    <3> QED BY <1>0, <2>1, <3>1, ListsResumeKept
  <2>4. cont'[current'] = "boot" => cont'[Task1] = "user"
    BY <1>0, <2>1, <2>2 DEF Resumption
  <2> QED BY <2>3, <2>4 DEF Resumption
<1>3. ASSUME ListsResume', cont[current] # "boot", NEW x \in Task, NEW c, c # "boot",
             cont' = cont \/ cont' = [cont EXCEPT ![x] = c]
      PROVE  Resumption'
  BY <1>0, <1>3, BootIsOver DEF Resumption
<1>4. CASE RotatesOut
  <2>1. Adds(sched, sched', "ready", {current}) /\ cont' = cont /\ cont[current] = "user"
    BY <1>0, <1>4, RotatesAdds DEF RotatesOut
  <2>2. \A t \in {current} : cont'[t] \in Resumes("ready")
    BY <2>1 DEF Resumes
  <2>3. ListsResume'
    BY <1>0, <2>1, <2>2, ListsResumeKept
  <2> QED BY <1>0, <1>3, <2>1, <2>3
<1>5. CASE IsPreempted
  <2>1. Adds(sched, sched', "ready", {current} \ {Idle}) /\ cont' = cont /\ cont[current] = "user"
    BY <1>0, <1>5, PreemptsAdds DEF IsPreempted
  <2>2. \A t \in {current} \ {Idle} : cont'[t] \in Resumes("ready")
    BY <2>1 DEF Resumes
  <2>3. ListsResume'
    BY <1>0, <2>1, <2>2, ListsResumeKept
  <2> QED BY <1>0, <1>3, <2>1, <2>3
<1>6. ASSUME NEW k \in Queue \ {"ready", "free"}, NEW is_first \in BOOLEAN, NEW c \in Resumes(k),
             Sleeps(k, is_first, c)
      PROVE  Resumption'
  <2>1. Adds(sched, sched', k, {current})
    BY <1>0, <1>6, BlocksAdds DEF Sleeps
  <2>2. /\ cont' = [cont EXCEPT ![current] = c] /\ ~NotResumable(cont[current])
        /\ c # "boot" /\ cont[current] # "boot"
    BY <1>6 DEF Sleeps, GoesOn, Resumes, NotResumable
  <2>3. \A t \in {current} : cont'[t] \in Resumes(k)
    BY <1>0, <1>6, <2>2
  <2>4. \A l \in Queue : \A t \in ToSet(OnQueue(l)) : cont'[t] = cont[t]
    BY <1>0, <2>2
  <2>5. ListsResume'
    BY <1>0, <2>1, <2>3, <2>4, ListsResumeKept
  <2> QED BY <1>0, <1>3, <2>2, <2>5
<1>7. CASE Exits
  <2>1. Adds(sched, sched', "free", {current})
    BY <1>0, <1>7, ExitsAdds
  <2>2. cont' = [cont EXCEPT ![current] = "exit"] /\ cont[current] = "user"
    BY <1>7 DEF Exits, GoesOn
  <2>3. \A t \in {current} : cont'[t] \in Resumes("free")
    BY <1>0, <2>2 DEF Resumes
  <2>4. \A l \in Queue : \A t \in ToSet(OnQueue(l)) : cont'[t] = cont[t]
    BY <1>0, <2>2 DEF NotResumable
  <2>5. ListsResume'
    BY <1>0, <2>1, <2>3, <2>4, ListsResumeKept
  <2> QED BY <1>0, <1>3, <2>2, <2>5
<1>8. CASE LeavesForGood
  <2>1. Adds(sched, sched', "ready", {})
    BY <1>0, <1>8, DispatchesAdds DEF LeavesForGood
  <2>2. cont' = [cont EXCEPT ![current] = "none"] /\ cont[current] = "exit" /\ "none" \in Resumes("free")
    BY <1>8 DEF LeavesForGood, GoesOn, Resumes
  <2>3. \A l \in Queue : \A t \in ToSet(OnQueue(l)) : cont'[t] = cont[t] \/ cont'[t] \in Resumes(l)
    BY <1>0, <2>2
  <2>4. ListsResume'
    BY <1>0, <2>1, <2>3, ListsResumeKept
  <2> QED BY <1>0, <1>3, <2>2, <2>4
<1>9. ASSUME NEW s \in Sem, Adds(sched, sched', "ready", ToSet(OnQueue(s))), cont' = cont,
             cont[current] # "boot"
      PROVE  Resumption'
  <2>1. \A t \in ToSet(OnQueue(s)) : cont'[t] = "sem"
    BY <1>0, <1>9 DEF ListsResume, Resumes
  <2>2. \A t \in ToSet(OnQueue(s)) : cont'[t] \in Resumes("ready")
    BY <2>1 DEF Resumes
  <2>3. ListsResume'
    BY <1>0, <1>9, <2>2, ListsResumeKept
  <2> QED BY <1>0, <1>3, <1>9, <2>3
<1>10. ASSUME NEW s \in Sem, WakesFirst(s) PROVE Resumption'
  <2>1. Adds(sched, sched', "ready", ToSet(OnQueue(s))) /\ cont' = cont /\ cont[current] = "user"
    BY <1>0, <1>10, WakesAdds DEF WakesFirst, OnQueue
  <2> QED BY <1>9, <2>1
<1>11. ASSUME NEW s \in Sem, WakesAll(s) PROVE Resumption'
  <2>1. Adds(sched, sched', "ready", ToSet(OnQueue(s))) /\ cont' = cont /\ cont[current] # "boot"
    BY <1>0, <1>11, WakeAllAdds DEF WakesAll, OnQueue
  <2> QED BY <1>9, <2>1
<1>12. CASE Creates
  <2> DEFINE t == FreeTask(sched)
  <2>1. /\ Adds(sched, sched', "ready", {t}) /\ t \in Task
        /\ ToSet(sched'.queue["free"]) = ToSet(sched.queue["free"]) \ {t}
        /\ t \in ToSet(sched.queue["free"])
    BY <1>0, <1>12, SpawnsAdds DEF Creates
  <2>2. cont' = [cont EXCEPT ![t] = "user"] /\ cont[current] = "user"
    BY <1>12 DEF Creates
  <2> HIDE DEF t
  <2>3. \A u \in {t} : cont'[u] \in Resumes("ready")
    BY <1>0, <2>1, <2>2 DEF Resumes
  <2>4. \A l \in Queue : \A u \in ToSet(OnQueue(l)) : cont'[u] = cont[u] \/ u \notin ToSet(sched'.queue[l])
    <3>1. \A l \in Queue \ {"free"} : t \notin ToSet(OnQueue(l))
      BY <1>0, <2>1, SaneFields DEF Once, OnQueue
    <3> QED BY <1>0, <2>1, <2>2, <3>1
  <2>5. ListsResume'
    BY <1>0, <2>1, <2>3, <2>4, ListsResumeKept
  <2> QED BY <1>0, <1>3, <2>1, <2>2, <2>5
<1>13. ASSUME NEW s \in Sem, Sleeps(s, FALSE, "sem") PROVE Resumption'
  <2>1. "sem" \in Resumes(s)
    BY <1>0 DEF Resumes
  <2> QED BY <1>0, <1>6, <1>13, <2>1
<1>14. CASE Sleeps("keyboard", FALSE, "read0") \/ Sleeps("keyboard", TRUE, "read1")
  <2>1. "read0" \in Resumes("keyboard") /\ "read1" \in Resumes("keyboard")
        /\ "keyboard" \in Queue \ {"ready", "free"}
    BY <1>0 DEF Resumes
  <2> QED BY <1>6, <1>14, <2>1
<1> QED BY <1>1, <1>2, <1>4, <1>5, <1>7, <1>8, <1>10, <1>11, <1>12, <1>13, <1>14 DEF KernelStep

-----------------------------------------------------------------------------
(* The processes that exist, and their PIDs. *)

\* A process exists until it leaves the processor for good: it still looks for its
\* semaphores by its PID when its PCB is free already.
Living == (Task \ ToSet(OnQueue("free"))) \cup (IF cont[current] = "exit" THEN {current} ELSE {})

PIDsUnique ==
  \A t \in Living : /\ sched.PID[t] < sched.last_PID
                    /\ \A u \in Living : sched.PID[t] = sched.PID[u] => t = u

LEMMA PIDsInit == ASSUME SchedulerInit PROVE Living = {Idle, Task1} /\ PIDsUnique
<1>1. sched = InitialTable /\ current = BootTask /\ Idle \in Task /\ Task1 \in Task /\ BootTask \in Task
  BY TasksAssumption DEF SchedulerInit, InitialTable, current, Task, Idle, Task1, BootTask
<1>2. ToSet(OnQueue("free")) = Task \ {Idle, Task1}
  BY <1>1, InitialLists DEF OnQueue
<1>3. cont[current] = "boot"
  BY <1>1 DEF SchedulerInit, BootTask, Idle, Task1
<1>4. Living = {Idle, Task1}
  BY <1>1, <1>2, <1>3 DEF Living
<1>5. sched.PID[Idle] = 0 /\ sched.PID[Task1] = 1 /\ sched.last_PID = 2
  BY <1>1 DEF InitialTable, Idle, Task1
<1> QED BY <1>4, <1>5 DEF PIDsUnique

\* In the middle of an exit only the running task is, and nobody after it has left.
LEMMA LivingStays ==
  ASSUME Core, Core', sched'.queue["free"] = sched.queue["free"],
         cont'[current'] = "exit" => cont[current] = "exit" /\ current' = current
  PROVE  Living' \subseteq Living
BY DEF Living, OnQueue

\* The running task, and every task that is in a list other than the free queue, exists.
LEMMA LivingMembers ==
  ASSUME Core
  PROVE  /\ ~(cont[current] = "boot") => current \in Living
         /\ Living \subseteq Task /\ Idle \in Living
         /\ \A k \in Queue \ {"free"} : ToSet(OnQueue(k)) \subseteq Living
<1>1. /\ current \in Task /\ Sane(sched) /\ RunningIsUnlinked
  BY CurrentUnlinked, CoreLists
<1>2. /\ Idle \in Task /\ Once(sched.queue) /\ "free" \in Queue
      /\ \A k \in Queue : ToSet(sched.queue[k]) \subseteq Task
  BY <1>1, SaneFields, QueueNames
<1>3. ASSUME NEW k \in Queue \ {"free"} PROVE ToSet(OnQueue(k)) \subseteq Living
  BY <1>2 DEF Living, Once, OnQueue
<1>4. Idle \in Living /\ Living \subseteq Task
  BY <1>1, <1>2 DEF RunningIsUnlinked, Linked, Living
<1>5. cont[current] # "boot" => current \in Living
  BY <1>1 DEF RunningIsUnlinked, Living
<1> QED BY <1>3, <1>4, <1>5

\* No run but one that creates a process brings one to life or gives out a PID.
LEMMA NobodyAppears ==
  ASSUME Core, Core', KernelStep, ~Creates
  PROVE  Living' \subseteq Living /\ sched'.PID = sched.PID /\ sched'.last_PID = sched.last_PID
<1>0. /\ current \in Task /\ current = sched.current /\ cont \in [Task -> Continuation] /\ Sane(sched)
      /\ current' \in Task /\ current' = sched'.current
      /\ sched.queue \in [Queue -> Seq(Task)] /\ sched \in ProcessTable
      /\ "ready" \in Queue /\ "free" \in Queue /\ "keyboard" \in Queue
      /\ \A s \in Sem : s \in Queue \ {"ready", "free", "keyboard"}
  <2>1. current' \in Task
    BY CoreTask DEF Core, SchedulerTypeOK, ProcessTable, current
  <2> QED BY <2>1, CurrentUnlinked, SaneFields, QueueNames DEF current
\* Who has the continuation "exit" had it before, if the running task gets another one.
<1>1. ASSUME NEW c, c # "exit", cont' = cont \/ cont' = [cont EXCEPT ![current] = c]
      PROVE  cont'[current'] = "exit" => cont[current] = "exit" /\ current' = current
  <2>1. cont'[current'] = "exit" => cont[current'] = "exit"
    BY <1>0, <1>1
  <2>2. cont[current'] = "exit" => current' = current
    BY <1>0 DEF Core, OneInKernel, NotResumable
  <2> QED BY <2>1, <2>2
<1>2. CASE Boots
  <2>1. /\ sched'.queue = sched.queue /\ sched'.PID = sched.PID /\ sched'.last_PID = sched.last_PID
    BY <1>2, InitialLists DEF Boots, ProcessTable
  <2>2. cont' = [cont EXCEPT ![current] = "none"]
    BY <1>2 DEF Boots, GoesOn
  <2> QED BY <1>1, <2>1, <2>2, LivingStays
<1>3. CASE Stays
  <2>1. /\ sched'.queue = sched.queue /\ sched'.PID = sched.PID /\ sched'.last_PID = sched.last_PID
        /\ cont' = cont \/ cont' = [cont EXCEPT ![current] = "user"]
    BY <1>3 DEF Stays, GoesOn
  <2> QED BY <1>1, <2>1, LivingStays
<1>4. CASE RotatesOut
  <2>1. /\ sched'.PID = sched.PID /\ sched'.last_PID = sched.last_PID
        /\ cont' = cont
    BY <1>4 DEF RotatesOut, SameProcesses
  <2>2. sched'.queue["free"] = sched.queue["free"]
    BY <1>0, <1>4 DEF RotatesOut, Rotates
  <2> QED BY <1>1, <2>1, <2>2, LivingStays
<1>5. CASE IsPreempted
  <2>1. /\ sched'.PID = sched.PID /\ sched'.last_PID = sched.last_PID
        /\ cont' = cont
    BY <1>5 DEF IsPreempted, Preempts, SameProcesses
  <2>2. sched'.queue["free"] = sched.queue["free"]
    BY <1>0, <1>5 DEF IsPreempted, Preempts
  <2> QED BY <1>1, <2>1, <2>2, LivingStays
<1>6. ASSUME NEW k \in Queue \ {"ready", "free"}, NEW is_first, NEW c, c # "exit",
             Sleeps(k, is_first, c)
      PROVE  Living' \subseteq Living /\ sched'.PID = sched.PID /\ sched'.last_PID = sched.last_PID
  <2>1. /\ sched'.PID = sched.PID /\ sched'.last_PID = sched.last_PID
        /\ cont' = [cont EXCEPT ![current] = c]
    BY <1>6 DEF Sleeps, Blocks, SameProcesses, GoesOn
  <2>2. sched'.queue["free"] = sched.queue["free"]
    BY <1>0, <1>6 DEF Sleeps, Blocks
  <2> QED BY <1>1, <1>6, <2>1, <2>2, LivingStays
<1>7. CASE Exits
  <2>1. /\ sched'.PID = sched.PID /\ sched'.last_PID = sched.last_PID /\ current' = current
        /\ ToSet(sched'.queue["free"]) = ToSet(sched.queue["free"]) \cup {current}
    BY <1>0, <1>7, ExitsAdds DEF Exits, SameTicks, SameFields
  <2>2. current \in Living
    BY <1>7, LivingMembers DEF Exits
  <2>3. Living' \subseteq Living
    BY <2>1, <2>2 DEF Living, OnQueue
  <2> QED BY <2>1, <2>3
<1>8. CASE LeavesForGood
  <2>1. /\ sched'.PID = sched.PID /\ sched'.last_PID = sched.last_PID
        /\ cont' = [cont EXCEPT ![current] = "none"]
    BY <1>8 DEF LeavesForGood, Dispatches, SameProcesses, GoesOn
  <2>2. sched'.queue["free"] = sched.queue["free"]
    BY <1>0, <1>8 DEF LeavesForGood, Dispatches
  <2> QED BY <1>1, <2>1, <2>2, LivingStays
<1>9. ASSUME NEW s \in Sem, WakesFirst(s)
      PROVE  Living' \subseteq Living /\ sched'.PID = sched.PID /\ sched'.last_PID = sched.last_PID
  <2>1. sched'.PID = sched.PID /\ sched'.last_PID = sched.last_PID /\ cont' = cont
    BY <1>9 DEF WakesFirst, Wakes, SameTicks, SameFields
  <2>2. sched'.queue["free"] = sched.queue["free"]
    <3>1. "free" # s
      BY <1>0
    <3> QED BY <1>0, <1>9, <3>1 DEF WakesFirst, Wakes
  <2> QED BY <1>1, <2>1, <2>2, LivingStays
<1>10. ASSUME NEW s \in Sem, WakesAll(s)
       PROVE  Living' \subseteq Living /\ sched'.PID = sched.PID /\ sched'.last_PID = sched.last_PID
  <2>1. sched'.PID = sched.PID /\ sched'.last_PID = sched.last_PID /\ cont' = cont
    BY <1>0, <1>10 DEF WakesAll, WakeAll, ProcessTable
  <2>2. sched'.queue["free"] = sched.queue["free"]
    BY <1>0, <1>10, WakeAllSituation DEF WakesAll
  <2> QED BY <1>1, <2>1, <2>2, LivingStays
<1>11. ASSUME NEW s \in Sem, Sleeps(s, FALSE, "sem")
       PROVE  Living' \subseteq Living /\ sched'.PID = sched.PID /\ sched'.last_PID = sched.last_PID
  BY <1>0, <1>6, <1>11
<1>12. CASE Sleeps("keyboard", FALSE, "read0") \/ Sleeps("keyboard", TRUE, "read1")
  <2>1. "keyboard" \in Queue \ {"ready", "free"}
    BY <1>0
  <2> QED BY <1>6, <1>12, <2>1
<1> QED BY <1>2, <1>3, <1>4, <1>5, <1>7, <1>8, <1>9, <1>10, <1>11, <1>12 DEF KernelStep

\* What is created is one process, with a PID nobody had.
LEMMA OneAppears ==
  ASSUME Core, Core', Creates
  PROVE  /\ FreeTask(sched) \in Task \ Living
         /\ Living' = Living \cup {FreeTask(sched)}
         /\ current' = current /\ current \in Living /\ current = sched.current
         /\ sched'.PID = [sched.PID EXCEPT ![FreeTask(sched)] = sched.last_PID]
         /\ sched'.last_PID = sched.last_PID + 1
         /\ sched.PID \in [Task -> Nat] /\ sched.last_PID \in Nat
<1> DEFINE t == FreeTask(sched)
<1>0. /\ current \in Task /\ current = sched.current /\ cont \in [Task -> Continuation] /\ Sane(sched)
      /\ sched.PID \in [Task -> Nat] /\ sched.last_PID \in Nat
  BY CurrentUnlinked DEF Core, SchedulerTypeOK, ProcessTable
<1>1. /\ ToSet(sched'.queue["free"]) = ToSet(sched.queue["free"]) \ {t}
      /\ t \in ToSet(sched.queue["free"]) /\ t \in Task
  BY <1>0, SpawnsAdds DEF Creates
<1>2. current \in Living /\ cont[current] = "user"
  BY LivingMembers DEF Creates
<1>3. /\ current' = current
      /\ sched'.PID = [sched.PID EXCEPT ![t] = sched.last_PID] /\ sched'.last_PID = sched.last_PID + 1
      /\ cont' = [cont EXCEPT ![t] = "user"]
  BY DEF Creates, Spawns, current
<1> HIDE DEF t
<1>4. cont'[current'] = "user"
  BY <1>0, <1>1, <1>2, <1>3
<1>5. t \notin Living /\ Living' = Living \cup {t}
  BY <1>1, <1>2, <1>4 DEF Living, OnQueue
<1> QED BY <1>0, <1>1, <1>2, <1>3, <1>5 DEF t

LEMMA PIDsKept ==
  ASSUME Core, Core', PIDsUnique, KernelStep
  PROVE  PIDsUnique'
<1>1. CASE ~Creates
  <2>1. Living' \subseteq Living /\ sched'.PID = sched.PID /\ sched'.last_PID = sched.last_PID
    BY <1>1, NobodyAppears
  <2> QED BY <2>1 DEF PIDsUnique
<1>2. CASE Creates
  <2> DEFINE n == FreeTask(sched)
  <2>1. /\ n \in Task \ Living /\ Living' = Living \cup {n} /\ Living \subseteq Task
        /\ sched'.PID = [sched.PID EXCEPT ![n] = sched.last_PID]
        /\ sched'.last_PID = sched.last_PID + 1
        /\ sched.PID \in [Task -> Nat] /\ sched.last_PID \in Nat
    BY <1>2, OneAppears, LivingMembers
  <2> HIDE DEF n
  <2>2. /\ sched'.PID[n] = sched.last_PID
        /\ \A t \in Living : sched'.PID[t] = sched.PID[t] /\ sched.PID[t] < sched.last_PID
                             /\ sched.PID[t] \in Nat
    BY <2>1 DEF PIDsUnique
  <2>3. SUFFICES ASSUME NEW t \in Living', NEW u \in Living'
                 PROVE  /\ sched'.PID[t] < sched'.last_PID
                        /\ sched'.PID[t] = sched'.PID[u] => t = u
    BY DEF PIDsUnique
  <2>4. sched'.PID[t] < sched'.last_PID
    BY <2>1, <2>2, <2>3
  <2>5. ASSUME sched'.PID[t] = sched'.PID[u] PROVE t = u
    <3>1. CASE t \in Living /\ u \in Living
      BY <2>2, <2>5, <3>1 DEF PIDsUnique
    <3>2. CASE t = n \/ u = n
      BY <2>1, <2>2, <2>3, <2>5, <3>2
    <3> QED BY <2>1, <2>3, <3>1, <3>2
  <2> QED BY <2>4, <2>5
<1> QED BY <1>1, <1>2

-----------------------------------------------------------------------------
(* Quanta. *)

Granted == NiceQuanta \cup {DEFAULT_QUANTUM}

QuantaGranted == \A t \in Living : sched.quantum[t] \in Granted

Quanta == QuantaGranted /\ RemainingIsExact

\* What RemainingIsExact says where the kernel does not start.
Exact(p) ==
  /\ p.remaining[p.current] = Left(p)
  /\ \E quantum \in Granted : p.current_ticks < quantum

LEMMA ExactMeans == ASSUME current = sched.current PROVE RemainingIsExact <=> (cont[current] # "boot" => Exact(sched))
BY DEF RemainingIsExact, Exact, Left, Granted

LEMMA FreshExact ==
  ASSUME NEW p, Sane(p), Fresh(p)
  PROVE  Exact(p)
<1>1. p.quantum[p.current] \in Nat /\ DEFAULT_QUANTUM \in Nat /\ DEFAULT_QUANTUM > 0
  BY SaneFields, QuantumAssumption
<1> QED BY <1>1 DEF Fresh, Exact, Left, Granted

LEMMA QuantaInit == ASSUME SchedulerInit PROVE Quanta
<1>1. sched = InitialTable /\ current = BootTask /\ cont[current] = "boot"
  BY TasksAssumption DEF SchedulerInit, InitialTable, current, Task, Idle, Task1, BootTask
<1>2. Living = {Idle, Task1} /\ Idle \in Task /\ Task1 \in Task
  BY PIDsInit, TasksAssumption DEF Task, Idle, Task1
<1> QED BY <1>1, <1>2 DEF Quanta, QuantaGranted, RemainingIsExact, InitialTable, Granted

LEMMA QuantaKept ==
  ASSUME Core, Core', Quanta, KernelStep
  PROVE  Quanta'
<1>0. /\ current \in Task /\ current = sched.current /\ Sane(sched) /\ Sane(sched') /\ current' = sched'.current
      /\ cont[current] # "boot" => Exact(sched) /\ current \in Living
      /\ Living \subseteq Task /\ cont \in [Task -> Continuation]
      /\ sched.quantum \in [Task -> Nat] /\ sched'.quantum \in [Task -> Nat]
  <2>1. Sane(sched')
    BY CoreSanePrime
  <2>2. sched.quantum \in [Task -> Nat] /\ sched'.quantum \in [Task -> Nat]
    BY <2>1, CurrentUnlinked DEF Sane, ProcessTable
  <2> QED BY <2>1, <2>2, CurrentUnlinked, LivingMembers, ExactMeans DEF Quanta, current
<1>1. ASSUME QuantaGranted', Exact(sched') PROVE Quanta'
  <2>1. RemainingIsExact'
    BY <1>0, <1>1 DEF RemainingIsExact, Exact, Left, Granted
  <2> QED BY <1>1, <2>1 DEF Quanta
<1>2. ASSUME ~Creates, sched'.quantum = sched.quantum PROVE QuantaGranted'
  BY <1>2, NobodyAppears DEF Quanta, QuantaGranted
<1>3. ASSUME ~Creates, sched'.quantum = sched.quantum, Fresh(sched') PROVE Quanta'
  BY <1>0, <1>1, <1>2, <1>3, FreshExact
<1>4. ASSUME ~Creates, sched'.quantum = sched.quantum, cont[current] # "boot",
             sched'.current = sched.current, sched'.remaining = sched.remaining,
             sched'.current_ticks = sched.current_ticks
      PROVE  Quanta'
  <2>1. Exact(sched')
    BY <1>0, <1>4 DEF Exact, Left
  <2> QED BY <1>1, <1>2, <1>4, <2>1
<1>5. CASE Creates
  <2> DEFINE n == FreeTask(sched)
  <2>1. /\ n \in Task \ Living /\ Living' = Living \cup {n} /\ current \in Living /\ current' = current
    BY <1>5, OneAppears
  <2>2. /\ sched'.current = sched.current /\ sched'.current_ticks = sched.current_ticks
        /\ sched'.quantum = [sched.quantum EXCEPT ![n] = sched.quantum[sched.current]]
        /\ sched'.remaining[sched.current] = sched.remaining[sched.current]
    BY <1>5 DEF Creates, Spawns
  <2> HIDE DEF n
  <2>3. \A t \in Living : sched'.quantum[t] = sched.quantum[t]
    BY <1>0, <2>1, <2>2
  <2>4. QuantaGranted'
    <3>1. sched'.quantum[n] = sched.quantum[current]
      BY <1>0, <2>1, <2>2
    <3> QED BY <2>1, <2>3, <3>1 DEF Quanta, QuantaGranted
  <2>5. Exact(sched')
    <3>1. cont[current] # "boot"
      BY <1>5 DEF Creates
    <3> QED BY <1>0, <2>1, <2>2, <2>3, <3>1 DEF Exact, Left
  <2> QED BY <1>1, <2>4, <2>5
<1>6. CASE ~Creates
  <2>1. CASE Boots
    <3>1. /\ sched'.quantum = sched.quantum /\ sched'.current = Task1 /\ Task1 \in Task
          /\ sched'.current_ticks = 0 /\ sched'.remaining[Task1] = sched'.quantum[Task1]
      <4>1. InitialTable \in ProcessTable /\ Task1 \in Task
        BY InitialLists, <1>0, SaneFields
      <4>2. /\ InitialTable.current_ticks = 0
            /\ InitialTable.remaining[Task1] = InitialTable.quantum[Task1]
        BY <4>1 DEF InitialTable
      <4> QED BY <2>1, <4>1, <4>2 DEF Boots, ProcessTable
    <3> QED BY <1>3, <1>6, <3>1 DEF Fresh
  <2>2. CASE Stays
    <3>1. CASE sched' = sched
      <4>1. CASE cont[current] = "boot"
        <5>1. cont' = cont /\ current' = current
          BY <1>0, <2>2, <3>1, <4>1 DEF Stays, NotResumable, current
        <5>2. RemainingIsExact'
          BY <4>1, <5>1 DEF RemainingIsExact
        <5> QED BY <1>2, <1>6, <3>1, <5>2 DEF Quanta
      <4>2. CASE cont[current] # "boot"
        BY <1>4, <1>6, <3>1, <4>2
      <4> QED BY <4>1, <4>2
    <3>2. CASE ~NotResumable(cont[current]) /\ SameProcesses(sched, sched') /\ Ticks(sched, sched')
      <4>1. CASE Fresh(sched')
        BY <1>3, <1>6, <3>2, <4>1 DEF SameProcesses
      <4>2. CASE sched'.remaining[sched'.current] = Left(sched') /\ Left(sched') # 0
        <5>1. /\ sched'.quantum = sched.quantum /\ sched'.current = sched.current
              /\ current \in Living /\ sched.quantum[current] \in Granted
          BY <1>0, <3>2 DEF SameProcesses, Ticks, NotResumable, Quanta, QuantaGranted
        <5>2. sched'.current_ticks \in Nat /\ sched'.quantum[sched'.current] \in Nat
          BY <1>0, SaneFields
        <5>3. sched'.current_ticks < sched'.quantum[sched'.current]
          BY <4>2, <5>2 DEF Left
        <5>4. Exact(sched')
          BY <1>0, <4>2, <5>1, <5>3 DEF Exact
        <5> QED BY <1>1, <1>2, <1>6, <5>1, <5>4
      <4> QED BY <3>2, <4>1, <4>2 DEF Ticks
    <3>3. ASSUME ~NotResumable(cont[current]), NEW q \in NiceQuanta, Grants(sched, sched', q)
          PROVE  Quanta'
      <4>1. /\ sched'.current = sched.current /\ sched'.current_ticks = sched.current_ticks
            /\ sched'.quantum = [sched.quantum EXCEPT ![current] = q]
            /\ sched'.remaining[sched'.current] = Left(sched')
        BY <1>0, <3>3 DEF Grants
      <4>2. QuantaGranted'
        <5>1. Living' \subseteq Living
          BY <1>6, NobodyAppears
        <5>2. \A t \in Living : sched'.quantum[t] = q \/ sched'.quantum[t] = sched.quantum[t]
          BY <1>0, <4>1
        <5> QED BY <5>1, <5>2 DEF Quanta, QuantaGranted, Granted
      <4>3. Exact(sched')
        BY <1>0, <3>3, <4>1 DEF Exact, NotResumable
      <4> QED BY <1>1, <4>2, <4>3
    <3> QED BY <2>2, <3>1, <3>2, <3>3 DEF Stays
  <2>3. CASE RotatesOut
    BY <1>3, <1>6, <2>3 DEF RotatesOut, Rotates, SameProcesses
  <2>4. CASE IsPreempted
    BY <1>3, <1>6, <2>4 DEF IsPreempted, Preempts, SameProcesses
  <2>5. ASSUME NEW k, NEW is_first, NEW c, Sleeps(k, is_first, c) PROVE Quanta'
    BY <1>3, <1>6, <2>5 DEF Sleeps, Blocks, SameProcesses
  <2>6. CASE Exits
    BY <1>4, <1>6, <2>6 DEF Exits, SameTicks, SameFields
  <2>7. CASE LeavesForGood
    BY <1>3, <1>6, <2>7 DEF LeavesForGood, Dispatches, SameProcesses
  <2>8. ASSUME NEW s \in Sem, WakesFirst(s) PROVE Quanta'
    BY <1>4, <1>6, <2>8 DEF WakesFirst, Wakes, SameTicks, SameFields
  <2>9. ASSUME NEW s \in Sem, WakesAll(s) PROVE Quanta'
    <3>1. /\ sched'.quantum = sched.quantum /\ sched'.current = sched.current
          /\ sched'.remaining = sched.remaining /\ sched'.current_ticks = sched.current_ticks
          /\ cont[current] # "boot"
      BY <1>0, <2>9 DEF WakesAll, WakeAll, Sane, ProcessTable
    <3> QED BY <1>4, <1>6, <3>1
  <2> QED BY <1>6, <2>1, <2>2, <2>3, <2>4, <2>5, <2>6, <2>7, <2>8, <2>9 DEF KernelStep
<1> QED BY <1>5, <1>6

-----------------------------------------------------------------------------
(* The invariant, and what follows from it. *)

ProcessInv == Resumption /\ PIDsUnique /\ Quanta

LEMMA ProcessInit == Init => ProcessInv
BY ResumptionInit, PIDsInit, QuantaInit DEF Init, ProcessInv

LEMMA ProcessStep == Inv /\ Inv' /\ ProcessInv /\ [Next]_vars => ProcessInv'
<1> SUFFICES ASSUME Inv, Inv', ProcessInv, [Next]_vars PROVE ProcessInv'
  OBVIOUS
<1>1. Core /\ Core' /\ KernelStep
  BY StepEffect DEF Inv
<1> QED BY <1>1, ResumptionKept, PIDsKept, QuantaKept DEF ProcessInv

\* Every run of the kernel keeps that invariant too.
THEOREM ProcessInvariance == Spec => [](Inv /\ ProcessInv)
<1>1. Init => Inv /\ ProcessInv
  BY InitInv, ProcessInit
<1>2. (Inv /\ ProcessInv) /\ [Next]_vars => (Inv /\ ProcessInv)'
  BY NextInv, ProcessStep
<1> QED BY <1>1, <1>2, PTL DEF Spec

\* No two live processes have the same PID, however PCBs are reused: sys_sem_destroy never
\* takes one process for another.
THEOREM PIDsStayUnique == Spec => []LivePIDsUnique
<1>1. ASSUME Inv, ProcessInv PROVE LivePIDsUnique
  <2>1. StateMatchesQueue
    BY <1>1, CoreLists DEF Inv
  <2>2. \A t \in Task : sched.state[t] # "ST_INVALID" => t \in Living
    BY <2>1 DEF StateMatchesQueue, Living
  <2> QED BY <1>1, <2>2 DEF ProcessInv, PIDsUnique, LivePIDsUnique
<1> QED BY <1>1, ProcessInvariance, PTL

\* The task is told what it has left of its quantum, and nobody keeps the processor for longer
\* than the longest quantum anybody asked for, whoever wakes, forks, exits or calls set_quantum.
THEOREM QuantumIsExact == Spec => []RemainingIsExact
<1>1. ProcessInv => RemainingIsExact
  BY DEF ProcessInv, Quanta
<1> QED BY <1>1, ProcessInvariance, PTL

LEMMA ReadersQueue ==
  ASSUME Core, Resumption
  PROVE  ReadersNeverReady
<1>1. \A k \in Queue : \A t \in ToSet(OnQueue(k)) : cont[t] \in Resumes(k)
  BY DEF Resumption, ListsResume
<1>2. \A t \in ToSet(OnQueue("keyboard")) : cont[t] \in {"read0", "read1"}
  BY <1>1, QueueNames DEF Resumes
<1>3. ASSUME NEW t \in Task, cont[t] \in {"read0", "read1"}
      PROVE  t \in ToSet(OnQueue("keyboard")) \/ t = current
  <2>1. ASSUME NEW k \in Queue, t \in ToSet(OnQueue(k)) PROVE k = "keyboard"
    BY <1>1, <1>3, <2>1 DEF Resumes
  <2>2. CASE cont[current] = "boot"
    <3>1. ToSet(OnQueue("free")) = Task \ {Idle, Task1} /\ cont[Idle] = "user" /\ cont[Task1] = "user"
      BY <2>2, InitialLists DEF Core, Situation, IdleInUser, Resumption, OnQueue
    <3> QED BY <1>3, <2>1, <3>1, QueueNames
  <2>3. CASE cont[current] # "boot"
    <3>1. NoLostTask /\ cont[Idle] = "user"
      BY CoreLists DEF Core, IdleInUser
    <3> QED BY <1>3, <2>1, <2>3, <3>1 DEF NoLostTask, Linked
  <2> QED BY <2>2, <2>3
<1> QED BY <1>2, <1>3 DEF ReadersNeverReady

\* Between keyboard_routine waking a reader and that reader looking at the buffer no other
\* task runs, so its keys cannot be taken from under it.
THEOREM ReadersAreNeverReady == Spec => []ReadersNeverReady
<1>1. Inv /\ ProcessInv => ReadersNeverReady
  BY ReadersQueue DEF Inv, ProcessInv
<1> QED BY <1>1, ProcessInvariance, PTL

-----------------------------------------------------------------------------
(* The order of the lists. *)

\* Nobody's position in r is greater than it was in s.
NobodyBack(s, r) == \A i \in DOMAIN s, j \in DOMAIN r : s[i] = r[j] => j <= i

\* What the effects do to a first-in first-out list: members join at the end, and one may
\* leave at the head.
LEMMA JoinAndLeave ==
  ASSUME NEW s \in Seq(Task), NEW e \in Seq(Task), NEW both, both = s \o e, IsInjective(both)
  PROVE  /\ NobodyBack(s, both)
         /\ both # <<>> => NobodyBack(s, Tail(both))
         /\ NobodyBack(s, <<>>)
<1>1. /\ Len(s) \in Nat /\ DOMAIN s = 1 .. Len(s) /\ Len(e) \in Nat
      /\ both \in Seq(Task) /\ Len(both) = Len(s) + Len(e) /\ DOMAIN both = 1 .. Len(s) + Len(e)
      /\ \A i \in 1 .. Len(s) : both[i] = s[i]
  BY ConcatProperties, LenProperties
<1>2. ASSUME NEW i \in DOMAIN s, NEW j \in DOMAIN both, s[i] = both[j] PROVE j = i
  BY <1>1, <1>2 DEF IsInjective
<1>3. NobodyBack(s, both)
  BY <1>1, <1>2 DEF NobodyBack
<1>4. ASSUME both # <<>> PROVE NobodyBack(s, Tail(both))
  <2> DEFINE r == Tail(both)
  <2>1. /\ DOMAIN r = 1 .. Len(both) - 1
        /\ \A j \in 1 .. Len(both) - 1 : r[j] = both[j + 1]
    BY <1>1, <1>4, HeadTailProperties, LenProperties, EmptySeq
  <2> HIDE DEF r
  <2>2. SUFFICES ASSUME NEW i \in DOMAIN s, NEW j \in DOMAIN r, s[i] = r[j] PROVE j <= i
    BY DEF NobodyBack, r
  <2>3. j + 1 \in DOMAIN both /\ s[i] = both[j + 1]
    BY <1>1, <2>1, <2>2
  <2>4. j + 1 = i
    BY <1>2, <2>3
  <2> QED BY <1>1, <2>1, <2>2, <2>4
<1>5. NobodyBack(s, <<>>)
  BY DEF NobodyBack
<1> QED BY <1>3, <1>4, <1>5

LEMMA NobodyBackSame ==
  ASSUME NEW s \in Seq(Task), IsInjective(s)
  PROVE  NobodyBack(s, s) /\ NobodyBack(s, Others(s)) /\ NobodyBack(s, <<>>)
<1>1. <<>> \in Seq(Task) /\ s = s \o <<>>
  OBVIOUS
<1>2. NobodyBack(s, s) /\ (s # <<>> => NobodyBack(s, Tail(s))) /\ NobodyBack(s, <<>>)
  <2> DEFINE e == <<>>
  <2>1. e \in Seq(Task) /\ s = s \o e
    BY <1>1
  <2> HIDE DEF e
  <2> QED BY <2>1, JoinAndLeave
<1> QED BY <1>2 DEF Others

LEMMA NobodyBackAppend ==
  ASSUME NEW s \in Seq(Task), IsInjective(s), NEW t \in Task, t \notin ToSet(s)
  PROVE  NobodyBack(s, Append(s, t)) /\ NobodyBack(s, Tail(Append(s, t)))
<1> DEFINE e == <<t>>
           both == Append(s, t)
<1>1. e \in Seq(Task) /\ both = s \o e /\ IsInjective(both) /\ both # <<>>
  BY AppendIsConcat, AppendMembers
<1> HIDE DEF e, both
<1>2. NobodyBack(s, both) /\ NobodyBack(s, Tail(both))
  BY <1>1, JoinAndLeave
<1> QED BY <1>2 DEF both

\* In order, all first-in first-out lists of the next state.
KeepsOrder(p, r) == \A k \in Fifo : NobodyBack(p.queue[k], r.queue[k])

LEMMA OrderKept ==
  ASSUME Core, KernelStep
  PROVE  KeepsOrder(sched, sched')
<1>0. /\ current \in Task /\ current = sched.current /\ Sane(sched)
      /\ sched.queue \in [Queue -> Seq(Task)] /\ sched \in ProcessTable
      /\ ~NotResumable(cont[current]) => \A l \in Queue : current \notin ToSet(sched.queue[l])
      /\ "ready" \in Queue /\ "free" \in Queue /\ "keyboard" \in Queue
      /\ \A s \in Sem : s \in Queue \ {"ready", "free", "keyboard"}
  BY CurrentUnlinked, SaneFields, QueueNames DEF OnQueue
<1>1. /\ Fifo \subseteq Queue \ {"free", "keyboard"} /\ Fifo = {"ready"} \cup Sem
      /\ \A k \in Queue : sched.queue[k] \in Seq(Task) /\ IsInjective(sched.queue[k])
  BY <1>0 DEF Fifo, Sane, Once
<1>2. \A k \in Queue : /\ NobodyBack(sched.queue[k], sched.queue[k])
                       /\ NobodyBack(sched.queue[k], Others(sched.queue[k]))
                       /\ NobodyBack(sched.queue[k], <<>>)
                       /\ sched.queue[k] # <<>> => NobodyBack(sched.queue[k], Tail(sched.queue[k]))
  <2>1. ASSUME NEW k \in Queue
        PROVE  /\ NobodyBack(sched.queue[k], sched.queue[k])
               /\ NobodyBack(sched.queue[k], Others(sched.queue[k]))
               /\ NobodyBack(sched.queue[k], <<>>)
    BY <1>1, NobodyBackSame
  <2> QED BY <2>1 DEF Others
<1>3. ASSUME NEW k \in Queue, NEW t \in Task, t \notin ToSet(sched.queue[k])
      PROVE  /\ NobodyBack(sched.queue[k], Append(sched.queue[k], t))
             /\ NobodyBack(sched.queue[k], Tail(Append(sched.queue[k], t)))
  BY <1>1, <1>3, NobodyBackAppend
<1>4. ASSUME sched'.queue = sched.queue PROVE KeepsOrder(sched, sched')
  BY <1>1, <1>2, <1>4 DEF KeepsOrder
<1>5. CASE Boots
  <2>1. sched'.queue = sched.queue
    BY <1>0, <1>5 DEF Boots, ProcessTable
  <2> QED BY <1>4, <2>1
<1>6. CASE Stays
  BY <1>4, <1>6 DEF Stays
<1>7. CASE RotatesOut
  <2> DEFINE rest == Tail(Append(sched.queue["ready"], current))
  <2>1. NobodyBack(sched.queue["ready"], rest)
    BY <1>0, <1>3, <1>7 DEF RotatesOut, NotResumable
  <2>2. sched'.queue = [sched.queue EXCEPT !["ready"] = rest]
    BY <1>0, <1>7 DEF RotatesOut, Rotates
  <2> HIDE DEF rest
  <2> QED BY <1>0, <1>1, <1>2, <2>1, <2>2 DEF KeepsOrder
<1>8. CASE IsPreempted
  <2> DEFINE first == Append(sched.queue["ready"], current)
             back == IF current # Idle THEN first ELSE sched.queue["ready"]
             rest == Tail(sched.queue["keyboard"])
  <2>1. NobodyBack(sched.queue["ready"], first)
    BY <1>0, <1>3, <1>8 DEF IsPreempted, NotResumable
  <2>2. sched'.queue = [sched.queue EXCEPT !["keyboard"] = rest, !["ready"] = back]
    BY <1>0, <1>8 DEF IsPreempted, Preempts
  <2> HIDE DEF first, rest
  <2>3. NobodyBack(sched.queue["ready"], back)
    BY <1>0, <1>2, <2>1
  <2> HIDE DEF back
  <2> QED BY <1>0, <1>1, <1>2, <2>2, <2>3 DEF KeepsOrder
<1>9. ASSUME NEW s \in Sem, Sleeps(s, FALSE, "sem") PROVE KeepsOrder(sched, sched')
  <2> DEFINE back == Append(sched.queue[s], current)
             others == Others(sched.queue["ready"])
  <2>1. NobodyBack(sched.queue[s], back)
    BY <1>0, <1>3, <1>9 DEF Sleeps
  <2>2. sched'.queue = [sched.queue EXCEPT ![s] = back, !["ready"] = others]
    BY <1>0, <1>9 DEF Sleeps, Blocks, list_insert
  <2>3. NobodyBack(sched.queue["ready"], others)
    BY <1>0, <1>2
  <2> HIDE DEF back, others
  <2> QED BY <1>0, <1>1, <1>2, <2>1, <2>2, <2>3 DEF KeepsOrder
<1>10. ASSUME NEW is_first, NEW c, Sleeps("keyboard", is_first, c) PROVE KeepsOrder(sched, sched')
  <2> DEFINE inserted == list_insert(sched.queue["keyboard"], current, is_first)
             others == Others(sched.queue["ready"])
  <2>1. sched'.queue = [sched.queue EXCEPT !["keyboard"] = inserted, !["ready"] = others]
    BY <1>0, <1>10 DEF Sleeps, Blocks
  <2>2. NobodyBack(sched.queue["ready"], others)
    BY <1>0, <1>2
  <2> HIDE DEF inserted, others
  <2> QED BY <1>0, <1>1, <1>2, <2>1, <2>2 DEF KeepsOrder
<1>11. CASE Exits
  BY <1>0, <1>1, <1>2, <1>11 DEF Exits, KeepsOrder
<1>12. CASE LeavesForGood
  <2> DEFINE others == Others(sched.queue["ready"])
  <2>1. sched'.queue = [sched.queue EXCEPT !["ready"] = others]
    BY <1>0, <1>12 DEF LeavesForGood, Dispatches
  <2>2. NobodyBack(sched.queue["ready"], others)
    BY <1>0, <1>2
  <2> HIDE DEF others
  <2> QED BY <1>0, <1>1, <1>2, <2>1, <2>2 DEF KeepsOrder
<1>13. ASSUME NEW s \in Sem, WakesFirst(s) PROVE KeepsOrder(sched, sched')
  <2> DEFINE t == Head(sched.queue[s])
             back == Append(sched.queue["ready"], t)
             rest == Tail(sched.queue[s])
  <2>1. t \in ToSet(sched.queue[s]) /\ t \in Task /\ t \notin ToSet(sched.queue["ready"])
    <3>1. sched.queue[s] \in Seq(Task) /\ sched.queue[s] # <<>>
      BY <1>0, <1>13 DEF WakesFirst
    <3>2. t \in ToSet(sched.queue[s]) /\ t \in Task
      BY <3>1, MembersType
    <3>3. ToSet(sched.queue["ready"]) \cap ToSet(sched.queue[s]) = {}
      BY <1>0 DEF Sane, Once
    <3> QED BY <3>2, <3>3
  <2>2. sched'.queue = [sched.queue EXCEPT ![s] = rest, !["ready"] = back]
    BY <1>0, <1>13 DEF WakesFirst, Wakes
  <2> HIDE DEF t
  <2>3. NobodyBack(sched.queue["ready"], back) /\ NobodyBack(sched.queue[s], rest)
    BY <1>0, <1>2, <1>3, <1>13, <2>1 DEF WakesFirst
  <2> HIDE DEF back, rest
  <2> QED BY <1>0, <1>1, <1>2, <2>2, <2>3 DEF KeepsOrder
<1>14. ASSUME NEW s \in Sem, WakesAll(s) PROVE KeepsOrder(sched, sched')
  <2> DEFINE both == sched.queue["ready"] \o sched.queue[s]
             r == WakeAll(sched, s)
  <2>1. IsInjective(both)
    <3>1. ToSet(sched.queue["ready"]) \cap ToSet(sched.queue[s]) = {}
      BY <1>0 DEF Sane, Once
    <3> QED BY <1>0, <1>1, <3>1, ConcatMembers
  <2>2. r.queue = [sched.queue EXCEPT !["ready"] = both, ![s] = <<>>]
    BY <1>0 DEF WakeAll, ProcessTable
  <2>3. NobodyBack(sched.queue["ready"], both)
    <3>1. sched.queue["ready"] \in Seq(Task) /\ sched.queue[s] \in Seq(Task)
      BY <1>0
    <3> QED BY <2>1, <3>1, JoinAndLeave
  <2>4. sched' = r
    BY <1>14 DEF WakesAll
  <2> HIDE DEF both, r
  <2> QED BY <1>0, <1>1, <1>2, <2>2, <2>3, <2>4 DEF KeepsOrder
<1>15. CASE Creates
  <2> DEFINE t == FreeTask(sched)
             back == Append(sched.queue["ready"], t)
             rest == Tail(sched.queue["free"])
  <2>1. t \in ToSet(sched.queue["free"]) /\ t \in Task /\ t \notin ToSet(sched.queue["ready"])
    <3>1. t \in ToSet(sched.queue["free"]) /\ t \in Task
      BY <1>0, <1>15, SpawnsAdds DEF Creates
    <3> QED BY <1>0, <3>1 DEF Sane, Once
  <2>2. sched'.queue = [sched.queue EXCEPT !["free"] = rest, !["ready"] = back]
    BY <1>0, <1>15 DEF Creates, Spawns
  <2> HIDE DEF t
  <2>3. NobodyBack(sched.queue["ready"], back)
    BY <1>0, <1>3, <2>1
  <2> HIDE DEF back, rest
  <2> QED BY <1>0, <1>1, <1>2, <2>2, <2>3 DEF KeepsOrder
<1> QED BY <1>5, <1>6, <1>7, <1>8, <1>9, <1>10, <1>11, <1>12, <1>13, <1>14, <1>15 DEF KernelStep

\* Nobody is overtaken in the ready queue or in the list of a semaphore, by any handler.
THEOREM NobodyOvertakes == Spec => NoOvertaking
<1>1. ASSUME Inv, [Next]_vars
      PROVE  [\A k \in Fifo : \A i \in DOMAIN OnQueue(k), j \in DOMAIN OnQueue(k)' :
                OnQueue(k)[i] = OnQueue(k)'[j] => j <= i]_schedVars
  BY <1>1, StepEffect, OrderKept DEF Inv, KeepsOrder, NobodyBack, OnQueue
<1> QED BY <1>1, Invariance, PTL DEF Spec, NoOvertaking
=============================================================================
