----------------------------- MODULE SystemProofs -----------------------------
(***************************************************************************)
(* The kernel and its memory together: the scheduler runs tasks that have  *)
(* an address space, and does to the memory what Memory describes, so that *)
(* what is proved of Kernel and of Memory holds of the system.             *)
(***************************************************************************)
EXTENDS System, KernelProofs, FiniteSetTheorems

\* The memory of the system, with what is proved about it.
Proved == INSTANCE MemoryProofs WITH current <- running

LEMMA MemoryFits ==
  /\ NR_TASKS \in Nat /\ NR_TASKS > 1
  /\ NUM_PAG_CODE \in Nat \ {0} /\ NUM_PAG_DATA \in Nat \ {0} /\ PAGE_SIZE \in Nat \ {0}
  /\ PAG_LOG_INIT_HEAP \in Nat /\ PAG_LOG_INIT_HEAP > NUM_PAG_CODE + NUM_PAG_DATA
  /\ NUM_PAG_KERNEL \in Nat \ {0}
  /\ TOTAL_PAGES \in Nat /\ TOTAL_PAGES > NUM_PAG_KERNEL + 2 * (NUM_PAG_CODE + NUM_PAG_DATA)
  /\ Increments \subseteq Int \ {0} /\ Clones \in BOOLEAN /\ TouchFirst \in BOOLEAN
  /\ 0 \in Value
PROOF  BY TasksAssumption, SystemAssumption

\* Mem and Proved are the same memory.
LEMMA SameMemory ==
  /\ Mem!Init <=> Proved!Init
  /\ Mem!Next <=> Proved!Next
  /\ Mem!vars = Proved!vars /\ Mem!vars' = Proved!vars'
  /\ Mem!TLBCoherent <=> Proved!TLBCoherent
  /\ Mem!RefCountsExact <=> Proved!RefCountsExact
  /\ Mem!WritableIsPrivate <=> Proved!WritableIsPrivate
PROOF
  <1> USE DEF
      Mem!Task, Mem!Idle, Mem!Task1, Mem!Dir, Mem!NULL, Mem!Page, Mem!Code, Mem!Data,
      Mem!Frame, Mem!Byte, Mem!Entry, Mem!Absent, Mem!Mapped, Mem!frameVars, Mem!dirVars,
      Mem!cpuVars, Mem!vars, Mem!Allocatable, Mem!FreeFrames, Mem!NewFrame, Mem!alloc_frames,
      Mem!CountAfterFree, Mem!Signed, Mem!free_frames, Mem!alloc_and_free_frames, Mem!PT,
      Mem!FramesOf, Mem!HeapPages, Mem!HeapRange, Mem!Alive, Mem!HeapOf, Mem!UsersOf,
      Mem!Owned, Mem!Outdated, Mem!set_cr3, Mem!NoFlush, Mem!FlushAfterFork, Mem!SwitchTo,
      Mem!Running, Mem!FirstFrame, Mem!InitFrames, Mem!KernelPages, Mem!set_user_pages,
      Mem!InitDirectories, Mem!Init, Mem!Translations, Mem!OwnPages, Mem!Write,
      Mem!access_ok, Mem!MakeWritable, Mem!CountAfterCopy, Mem!CopyPage, Mem!Halt,
      Mem!Touchable, Mem!PageFault, Mem!KernelWrites, Mem!SyscallWrites, Mem!CountAfterShare,
      Mem!ReadOnly, Mem!share_cow_pages, Mem!allocate_DIR, Mem!reuse_DIR, Mem!Fork,
      Mem!HeapOfThread, Mem!Clone, Mem!LastUser, Mem!free_user_pages, Mem!free_DIR, Mem!Exit,
      Mem!Switch, Mem!HEAP_START, Mem!SbrkFails, Mem!IsFree, Mem!Grow, Mem!FlushAfterShrink,
      Mem!Shrink, Mem!Sbrk, Mem!UserAccess, Mem!SystemCall, Mem!Next, Mem!References,
      Mem!CodeFrames, Mem!RefCountsExact, Mem!WritableIsPrivate, Mem!TLBCoherent,
      Mem!Cardinality, Proved!Task, Proved!Idle, Proved!Task1, Proved!Dir, Proved!NULL,
      Proved!Page, Proved!Code, Proved!Data, Proved!Frame, Proved!Byte, Proved!Entry,
      Proved!Absent, Proved!Mapped, Proved!frameVars, Proved!dirVars, Proved!cpuVars,
      Proved!vars, Proved!Allocatable, Proved!FreeFrames, Proved!NewFrame,
      Proved!alloc_frames, Proved!CountAfterFree, Proved!Signed, Proved!free_frames,
      Proved!alloc_and_free_frames, Proved!PT, Proved!FramesOf, Proved!HeapPages,
      Proved!HeapRange, Proved!Alive, Proved!HeapOf, Proved!UsersOf, Proved!Owned,
      Proved!Outdated, Proved!set_cr3, Proved!NoFlush, Proved!FlushAfterFork,
      Proved!SwitchTo, Proved!Running, Proved!FirstFrame, Proved!InitFrames,
      Proved!KernelPages, Proved!set_user_pages, Proved!InitDirectories, Proved!Init,
      Proved!Translations, Proved!OwnPages, Proved!Write, Proved!access_ok,
      Proved!MakeWritable, Proved!CountAfterCopy, Proved!CopyPage, Proved!Halt,
      Proved!Touchable, Proved!PageFault, Proved!KernelWrites, Proved!SyscallWrites,
      Proved!CountAfterShare, Proved!ReadOnly, Proved!share_cow_pages, Proved!allocate_DIR,
      Proved!reuse_DIR, Proved!Fork, Proved!HeapOfThread, Proved!Clone, Proved!LastUser,
      Proved!free_user_pages, Proved!free_DIR, Proved!Exit, Proved!Switch, Proved!HEAP_START,
      Proved!SbrkFails, Proved!IsFree, Proved!Grow, Proved!FlushAfterShrink, Proved!Shrink,
      Proved!Sbrk, Proved!UserAccess, Proved!SystemCall, Proved!Next, Proved!References,
      Proved!CodeFrames, Proved!RefCountsExact, Proved!WritableIsPrivate, Proved!TLBCoherent,
      Proved!Cardinality
  <1>1. Mem!Init <=> Proved!Init  OBVIOUS
  <1>2. Mem!Next <=> Proved!Next  OBVIOUS
  <1>3. Mem!vars = Proved!vars /\ Mem!vars' = Proved!vars'  OBVIOUS
  <1>4. Mem!TLBCoherent <=> Proved!TLBCoherent  OBVIOUS
  <1>5. Mem!RefCountsExact <=> Proved!RefCountsExact  OBVIOUS
  <1>6. Mem!WritableIsPrivate <=> Proved!WritableIsPrivate  OBVIOUS
  <1> QED  BY <1>1, <1>2, <1>3, <1>4, <1>5, <1>6

-----------------------------------------------------------------------------
(* The kernel does what Kernel says. *)

LEMMA KernelRuns == ASSUME [SystemNext]_systemVars PROVE [Next]_vars
PROOF
  <1>1. CASE UNCHANGED systemVars  BY <1>1 DEF systemVars
  <1>2. CASE Elsewhere
    BY <1>2 DEF Elsewhere, Next, Resume, Syscall
  <1>3. CASE Read
    BY <1>3 DEF Read, Next, Resume, Syscall
  <1>4. CASE ForkOrClone
    BY <1>4 DEF ForkOrClone, Next, Syscall
  <1>5. CASE FreeProcess
    BY <1>5 DEF FreeProcess, Next, Syscall
  <1>6. CASE Alone
    BY <1>6 DEF Alone
  <1> QED  BY <1>1, <1>2, <1>3, <1>4, <1>5, <1>6 DEF SystemNext

\* The runs of the kernel that create no task and free none.
QuietStep ==
  \/ Boots \/ Stays \/ RotatesOut \/ IsPreempted
  \/ \E s \in Sem : Sleeps(s, FALSE, "sem")
  \/ Sleeps("keyboard", FALSE, "read0") \/ Sleeps("keyboard", TRUE, "read1")
  \/ LeavesForGood
  \/ \E s \in Sem : WakesFirst(s) \/ WakesAll(s)

LEMMA QuietEffect ==
  ASSUME Inv, Elsewhere \/ Read
  PROVE  QuietStep
PROOF
  <1>1. Core /\ SemaphoresTypeOK  BY DEF Inv
  <1>2. CASE Boot  BY <1>1, <1>2, ReturnGateEffect DEF Boot, QuietStep
  <1>3. CASE Clock  BY <1>1, <1>3, ClockEffect DEF Clock, QuietStep
  <1>4. CASE Typing  BY <1>1, <1>4, KeyboardIrqEffect DEF Typing, QuietStep
  <1>5. CASE ExitDone  BY <1>1, <1>5, ExitSwitchEffect DEF ExitDone, QuietStep
  <1>6. CASE SemaphoreCall
    <2>1. ASSUME NEW s \in Sem, NEW value \in InitValues, SemInit(s, value)  PROVE QuietStep
      <3>1. sched' = sched /\ cont' = cont  BY <2>1, SemInitCore DEF SemInit, Inv
      <3> QED  BY <3>1, UnchangedEffect DEF QuietStep
    <2>2. ASSUME NEW s \in Sem, SemWait(s)  PROVE QuietStep
      BY <1>1, <2>2, SemWaitEffect DEF QuietStep
    <2>3. ASSUME NEW s \in Sem, SemSignal(s)  PROVE QuietStep
      BY <1>1, <2>3, SemSignalEffect DEF QuietStep
    <2>4. ASSUME NEW s \in Sem, SemDestroy(s)  PROVE QuietStep
      BY <1>1, <2>4, DestroyEffect DEF SemDestroy, InSyscall, QuietStep
    <2> QED  BY <1>6, <2>1, <2>2, <2>3, <2>4 DEF SemaphoreCall
  <1>7. CASE SemWaitReturn
    BY <1>7, UnchangedEffect DEF SemWaitReturn, NotResumable, GoesOn, QuietStep
  <1>8. CASE ExitDestroySem
    <2>1. owned[current] \in Seq(Sem) /\ owned[current] # <<>>
      BY <1>1, <1>8, CoreTask DEF SemaphoresTypeOK, ExitDestroySem
    <2>2. Head(owned[current]) \in Sem  BY <2>1, MembersType
    <2> QED  BY <1>8, <2>2, DestroyEffect DEF ExitDestroySem, QuietStep
  <1>9. ASSUME NEW q \in NiceQuanta, Nice(q)  PROVE QuietStep
    BY <1>1, <1>9, NiceEffect DEF QuietStep
  <1>10. ASSUME NEW size \in ReadSizes, SysRead(size)  PROVE QuietStep
    BY <1>1, <1>10, SysReadEffect DEF QuietStep
  <1>11. CASE ReadResume  BY <1>1, <1>11, ReadResumeEffect DEF QuietStep
  <1> QED  BY <1>2, <1>3, <1>4, <1>5, <1>6, <1>7, <1>8, <1>9, <1>10, <1>11
           DEF Elsewhere, Read, ReadCall

\* They leave the free queue alone, and get at most one task out of the list of continuations.
LEMMA FreeQueueKept ==
  ASSUME Core, QuietStep
  PROVE  /\ OnQueue("free")' = OnQueue("free")
         /\ cont' = cont \/ \E c \in Continuation : ~NotResumable(c) /\ GoesOn(c)
         /\ cont[current] = "boot" => Boots \/ (sched' = sched /\ cont' = cont)
PROOF
  <1>0. /\ current \in Task /\ current = sched.current /\ Sane(sched)
        /\ sched.queue \in [Queue -> Seq(Task)] /\ sched \in ProcessTable
        /\ "ready" \in Queue /\ "free" \in Queue /\ "keyboard" \in Queue /\ "free" # "ready"
        /\ \A s \in Sem : s \in Queue \ {"ready", "free", "keyboard"}
    BY CurrentUnlinked, SaneFields, QueueNames
  <1>1. CASE Boots
    BY <1>1, InitialLists, ContinuationNames DEF Boots, OnQueue, ProcessTable
  <1>2. CASE Stays
    BY <1>2, ContinuationNames DEF Stays, OnQueue, NotResumable
  <1>3. CASE RotatesOut
    BY <1>0, <1>3 DEF RotatesOut, Rotates, OnQueue
  <1>4. CASE IsPreempted
    BY <1>0, <1>4 DEF IsPreempted, Preempts, OnQueue
  <1>5. ASSUME NEW k \in Queue \ {"ready", "free"}, NEW is_first, NEW c \in {"sem", "read0", "read1"},
               Sleeps(k, is_first, c)
        PROVE  /\ OnQueue("free")' = OnQueue("free") /\ cont[current] # "boot"
               /\ \E a \in Continuation : ~NotResumable(a) /\ GoesOn(a)
    BY <1>0, <1>5, ContinuationNames DEF Sleeps, Blocks, OnQueue, NotResumable
  <1>6. CASE LeavesForGood
    BY <1>0, <1>6, ContinuationNames DEF LeavesForGood, Dispatches, OnQueue
  <1>7. ASSUME NEW s \in Sem, WakesFirst(s)
        PROVE  OnQueue("free")' = OnQueue("free") /\ cont[current] # "boot" /\ cont' = cont
    BY <1>0, <1>7 DEF WakesFirst, Wakes, OnQueue
  <1>8. ASSUME NEW s \in Sem, WakesAll(s)
        PROVE  OnQueue("free")' = OnQueue("free") /\ cont[current] # "boot" /\ cont' = cont
    <2>1. WakeAll(sched, s).queue["free"] = sched.queue["free"]
      BY <1>0, WakeAllLists
    <2> QED  BY <1>8, <2>1 DEF WakesAll, OnQueue
  <1>9. "keyboard" \in Queue \ {"ready", "free"} /\ \A s \in Sem : s \in Queue \ {"ready", "free"}
    BY <1>0, QueueNames
  <1> QED  BY <1>1, <1>2, <1>3, <1>4, <1>5, <1>6, <1>7, <1>8, <1>9 DEF QuietStep

\* Whoever runs after such a run of the kernel, and did not before, is not in the free queue.
LEMMA RunsOn ==
  ASSUME Core, Core', Resumption, QuietStep
  PROVE  running \in Task /\ (running' = running \/ running' \in Task \ ToSet(OnQueue("free")))
PROOF
  <1>1. /\ OnQueue("free")' = OnQueue("free")
        /\ cont' = cont \/ \E c \in Continuation : ~NotResumable(c) /\ GoesOn(c)
        /\ cont[current] = "boot" => Boots \/ (sched' = sched /\ cont' = cont)
    BY FreeQueueKept
  <1>2. current \in Task /\ current' \in Task /\ cont \in [Task -> Continuation]
    BY CoreTask DEF Core, SchedulerTypeOK, ProcessTable, current
  <1>3. Task1 \in Task /\ BootTask \in Task /\ Task1 # BootTask
    BY TasksAssumption DEF Task, Task1, BootTask
  <1>4. CASE cont[current] = "boot"
    <2>1. CASE sched' = sched /\ cont' = cont  BY <2>1, <1>2, <1>3 DEF running, current
    <2>2. CASE Boots
      <3>1. current' = Task1  BY <2>2, InitialLists DEF Boots, current, ProcessTable
      <3>2. cont'[Task1] = "user"
        BY <2>2, <1>2, <1>3, <1>4 DEF Boots, GoesOn, Resumption
      <3> QED  BY <3>1, <3>2, <1>3, <1>4 DEF running
    <2> QED  BY <2>1, <2>2, <1>1, <1>4
  <1>5. CASE cont[current] # "boot"
    <2>1. running = current  BY <1>5 DEF running
    <2>2. cont'[current'] # "boot"
      BY <1>1, <1>2, <1>5, BootIsOver DEF GoesOn, NotResumable
    <2>3. running' = current'  BY <2>2 DEF running
    <2>4. ASSUME current' # current  PROVE current' \notin ToSet(OnQueue("free"))
      <3>1. cont'[current'] = cont[current']  BY <2>4, <1>1, <1>2 DEF GoesOn
      <3>2. ~NotResumable(cont[current'])  BY <2>4, <1>2 DEF Core, OneInKernel
      <3>3. \A l \in Queue : current' \notin ToSet(OnQueue(l)')
        <4>1. Core' => RunningIsUnlinked'  BY CoreLists, PTL
        <4> QED  BY <4>1, <3>1, <3>2, QueueNames DEF RunningIsUnlinked, NotResumable
      <3> QED  BY <3>3, <1>1, QueueNames
    <2> QED  BY <2>1, <2>3, <2>4, <1>2
  <1> QED  BY <1>4, <1>5

-----------------------------------------------------------------------------
(* And to the memory what Memory says. *)

\* A PCB is free when it has no directory.
Coupled == \A t \in Task : Mem!Alive(t) <=> t \notin ToSet(OnQueue("free"))

SystemInv == Inv /\ ProcessInv /\ Proved!MemoryInv /\ Proved!SpaceInv /\ Coupled

\* What the parts of the invariant say in the words of System.
LEMMA Directories ==
  ASSUME Proved!MemoryInv
  PROVE  /\ Mem!NULL \notin Mem!Dir /\ Mem!Task = Task /\ Mem!Idle = Idle
         /\ dir \in [Task -> Mem!Dir \cup {Mem!NULL}] /\ free_dirs \in Seq(Mem!Dir)
PROOF
  <1>1. Mem!NULL \notin Mem!Dir  BY TasksAssumption DEF Mem!NULL, Mem!Dir
  <1>2. Mem!Task = Task /\ Mem!Idle = Idle  BY DEF Mem!Task, Task, Mem!Idle, Idle
  <1>3. dir \in [Task -> Mem!Dir \cup {Mem!NULL}] /\ free_dirs \in Seq(Mem!Dir)
    BY DEF Proved!MemoryInv, Proved!DirInv, Proved!Task, Proved!Dir, Proved!NULL,
           Mem!Dir, Mem!NULL, Task
  <1> QED  BY <1>1, <1>2, <1>3

\* A switch alone, and one after a write of the kernel.
LEMMA FollowSteps ==
  ASSUME running' = running \/ (running' \in Task /\ Mem!Alive(running')),
         Proved!MemoryInv, halted = "no", Follow, UNCHANGED content
  PROVE  [Mem!Next]_(Mem!vars)
PROOF
  <1>1. /\ Mem!SwitchTo(running') /\ halted' = halted
        /\ UNCHANGED <<phys_mem, cow_count_mem, pagusr_table, dir_count, free_dirs, dir, heap>>
    BY DEF Follow, tableVars
  <1>2. CASE running' = running
    BY <1>1, <1>2 DEF Mem!SwitchTo, Mem!vars, Mem!frameVars, Mem!dirVars, Mem!cpuVars
  <1>3. CASE running' # running
    <2>1. running' \in Mem!Task /\ Mem!Alive(running')  BY <1>3, Directories
    <2>2. Mem!Switch(running')
      BY <1>1, <1>3, <2>1 DEF Mem!Switch, Mem!frameVars, Mem!dirVars
    <2> QED  BY <2>1, <2>2 DEF Mem!Next
  <1> QED  BY <1>2, <1>3

LEMMA FollowWrites ==
  ASSUME running' = running \/ (running' \in Task /\ Mem!Alive(running')),
         Proved!MemoryInv, halted = "no", Follow,
         Mem!Running, running \in Task, Mem!Alive(running),
         NEW p \in SyscallPages, NEW v \in Value,
         Mem!access_ok(running, p), Mem!KernelWrites(p, v)
  PROVE  Mem!Next
PROOF
  <1>1. /\ Mem!SwitchTo(running') /\ halted' = halted
        /\ UNCHANGED <<phys_mem, cow_count_mem, pagusr_table, dir_count, free_dirs, dir, heap>>
    BY DEF Follow, tableVars
  <1>2. Mem!Task = Task  BY Directories
  <1>3. running' \in Mem!Task /\ Mem!Alive(running')  BY <1>2
  <1>4. IF running' = running THEN UNCHANGED <<running, Mem!cpuVars>>
                              ELSE Mem!SwitchTo(running')
    BY <1>1 DEF Mem!SwitchTo, Mem!cpuVars
  <1>5. UNCHANGED <<Mem!frameVars, Mem!dirVars, pagusr_table, heap, halted>>
    BY <1>1 DEF Mem!frameVars, Mem!dirVars
  <1>6. Mem!SyscallWrites(p, v, running')
    BY <1>3, <1>4, <1>5 DEF Mem!SyscallWrites
  <1> QED  BY <1>3, <1>6 DEF Mem!SystemCall, Mem!Next

\* The runs of the kernel without a new task or one that leaves.
LEMMA QuietFollows ==
  ASSUME SystemInv, Inv', halted = "no", Elsewhere \/ Read
  PROVE  [Mem!Next]_(Mem!vars) /\ Coupled'
PROOF
  <1>1. Core /\ Core' /\ Resumption  BY DEF SystemInv, Inv, ProcessInv
  <1>2. QuietStep  BY QuietEffect DEF SystemInv
  <1>3. running \in Task /\ (running' = running \/ running' \in Task \ ToSet(OnQueue("free")))
    BY <1>1, <1>2, RunsOn
  <1>4. running' = running \/ (running' \in Task /\ Mem!Alive(running'))
    BY <1>3 DEF SystemInv, Coupled
  <1>5. Follow  BY DEF Elsewhere, Read
  <1>6. Proved!MemoryInv  BY DEF SystemInv
  <1>7. dir' = dir  BY <1>5 DEF Follow, tableVars
  <1>8. Coupled'
    <2>1. OnQueue("free")' = OnQueue("free")  BY <1>1, <1>2, FreeQueueKept
    <2> QED  BY <2>1, <1>7 DEF SystemInv, Coupled, Mem!Alive
  <1>9. CASE content' = content
    <2>1. [Mem!Next]_(Mem!vars)  BY <1>4, <1>5, <1>6, <1>9, FollowSteps
    <2> QED  BY <2>1, <1>8
  <1>10. CASE content' # content
    <2>1. Read /\ \E p \in SyscallPages, v \in Value :
                    Mem!access_ok(running, p) /\ Mem!KernelWrites(p, v)
      BY <1>10 DEF Elsewhere, Read
    <2>2. cont[current] \in {"user", "read0", "read1"} /\ current # Idle
      BY <2>1, <1>1 DEF Read, ReadCall, SysRead, InSyscall, ReadResume, Core, IdleInUser
    <2>3. running = current  BY <2>2 DEF running
    <2>4. current \notin ToSet(OnQueue("free"))
      BY <2>2, <1>1, CoreLists DEF RunningIsUnlinked
    <2>5. Mem!Running /\ Mem!Alive(running)
      BY <2>2, <2>3, <2>4, <1>3, <1>6, Directories DEF SystemInv, Coupled, Mem!Running
    <2>6. PICK p \in SyscallPages, v \in Value :
            Mem!access_ok(running, p) /\ Mem!KernelWrites(p, v)
      BY <2>1
    <2>7. Mem!Next  BY <2>5, <2>6, <1>3, <1>4, <1>5, <1>6, FollowWrites
    <2> QED  BY <2>7, <1>8
  <1> QED  BY <1>8, <1>9, <1>10

\* A fork or a clone.
LEMMA NewTaskFollows ==
  ASSUME SystemInv, ForkOrClone
  PROVE  Mem!Next /\ Coupled'
PROOF
  <1> DEFINE new == FreeTask(sched)
  <1>1. Core /\ Proved!MemoryInv /\ Proved!SpaceInv /\ Coupled  BY DEF SystemInv, Inv
  <1>2. Creates  BY <1>1, SpawnEffect DEF ForkOrClone, Create
  <1>3. /\ new \in Task /\ ToSet(OnQueue("free"))' = ToSet(OnQueue("free")) \ {new}
    <2>1. Sane(sched)  BY <1>1, CurrentUnlinked
    <2> QED  BY <1>2, <2>1, SpawnsAdds DEF Creates, OnQueue
  <1>4. running = current /\ running \in Task
    BY <1>1, <1>2, CoreTask DEF Creates, running
  <1> HIDE DEF new
  <1>5. ASSUME NEW d \in Mem!Dir, dir' = [dir EXCEPT ![new] = d]  PROVE Coupled'
    <2>1. Mem!NULL # d /\ dir \in [Task -> Mem!Dir \cup {Mem!NULL}]  BY <1>1, Directories
    <2>2. ASSUME NEW t \in Task
          PROVE  Mem!Alive(t)' <=> t \notin ToSet(OnQueue("free"))'
      BY <1>1, <1>3, <1>5, <2>1 DEF Coupled, Mem!Alive
    <2> QED  BY <2>2 DEF Coupled
  <1>6. CASE Mem!Fork(new)
    <2>1. Mem!Next  BY <1>1, <1>3, <1>6, Directories DEF Mem!SystemCall, Mem!Next
    <2>2. free_dirs # <<>> /\ dir' = [dir EXCEPT ![new] = Head(free_dirs)]
      BY <1>6 DEF Mem!Fork, Mem!allocate_DIR
    <2>3. Head(free_dirs) \in Mem!Dir  BY <1>1, <2>2, Directories
    <2> QED  BY <2>1, <2>2, <2>3, <1>5
  <1>7. ASSUME Clones, NEW p \in SyscallPages, NEW v \in Value, Mem!Clone(new, p, v)
        PROVE  Mem!Next /\ Coupled'
    <2>1. Mem!Alive(running) /\ dir' = [dir EXCEPT ![new] = dir[running]]
      BY <1>7 DEF Mem!Clone, Mem!Running, Mem!reuse_DIR
    <2>2. p \in Mem!Page  BY SystemAssumption DEF Mem!Page
    <2>3. Mem!Next  BY <1>1, <1>3, <1>7, <2>2, Directories DEF Mem!SystemCall, Mem!Next
    <2>4. dir[running] \in Mem!Dir  BY <1>1, <1>4, <2>1, Directories DEF Mem!Alive
    <2> QED  BY <2>1, <2>3, <2>4, <1>5
  <1> QED  BY <1>6, <1>7 DEF ForkOrClone, new

\* A process that leaves.
LEMMA ExitFollows ==
  ASSUME SystemInv, FreeProcess
  PROVE  Mem!Next /\ Coupled'
PROOF
  <1>1. Core /\ Proved!MemoryInv /\ Coupled  BY DEF SystemInv, Inv
  <1>2. Exits  BY <1>1, SysExitEffect DEF FreeProcess, Leave
  <1>3. ToSet(OnQueue("free"))' = ToSet(OnQueue("free")) \cup {current}
    <2>1. Sane(sched) /\ current = sched.current  BY <1>1, CurrentUnlinked
    <2> QED  BY <1>2, <2>1, ExitsAdds DEF OnQueue
  <1>4. running = current /\ running \in Task
    BY <1>1, <1>2, CoreTask DEF Exits, running
  <1>5. dir' = [dir EXCEPT ![running] = Mem!NULL]
    BY DEF FreeProcess, Mem!Exit, Mem!free_DIR
  <1>6. dir \in [Task -> Mem!Dir \cup {Mem!NULL}]  BY <1>1, Directories
  <1>7. ASSUME NEW t \in Task
        PROVE  Mem!Alive(t)' <=> t \notin ToSet(OnQueue("free"))'
    BY <1>1, <1>3, <1>4, <1>5, <1>6, <1>7 DEF Coupled, Mem!Alive
  <1>8. Mem!Next  BY DEF FreeProcess, Mem!SystemCall, Mem!Next
  <1> QED  BY <1>7, <1>8 DEF Coupled

\* What a program does without the scheduler.
LEMMA AloneFollows ==
  ASSUME SystemInv, Alone
  PROVE  Mem!Next /\ Coupled'
PROOF
  <1>1. Mem!Next  BY DEF Alone, Mem!SystemCall, Mem!Next
  <1>2. dir' = dir
    <2>1. ASSUME NEW p, Mem!PageFault(p)  PROVE dir' = dir
      BY <2>1 DEF Mem!PageFault, Mem!dirVars
    <2>2. ASSUME NEW p, NEW v, Mem!Write(p, v)  PROVE dir' = dir
      BY <2>2 DEF Mem!Write, Mem!dirVars
    <2>3. ASSUME NEW i, Mem!Sbrk(i)  PROVE dir' = dir
      BY <2>3 DEF Mem!Sbrk, Mem!dirVars
    <2> QED  BY <2>1, <2>2, <2>3 DEF Alone, Mem!UserAccess
  <1>3. OnQueue("free")' = OnQueue("free")  BY DEF Alone, vars, schedVars, OnQueue
  <1> QED  BY <1>1, <1>2, <1>3 DEF SystemInv, Coupled, Mem!Alive

LEMMA MemoryFollows ==
  ASSUME SystemInv, Inv', [SystemNext]_systemVars
  PROVE  [Mem!Next]_(Mem!vars) /\ Coupled'
PROOF
  <1>1. CASE UNCHANGED systemVars
    <2>1. UNCHANGED <<vars, phys_mem, cow_count_mem, pagusr_table, dir_count, free_dirs, dir,
                      heap, content, cr3, tlb, halted>>
      BY <1>1 DEF systemVars, tableVars
    <2>2. running' = running /\ OnQueue("free")' = OnQueue("free")
      BY <2>1 DEF vars, schedVars, running, current, OnQueue
    <2>3. UNCHANGED Mem!vars
      BY <2>1, <2>2 DEF Mem!vars, Mem!frameVars, Mem!dirVars, Mem!cpuVars
    <2>4. Coupled'  BY <2>1, <2>2 DEF SystemInv, Coupled, Mem!Alive
    <2> QED  BY <2>3, <2>4
  <1>2. CASE SystemNext
    BY <1>2, QuietFollows, NewTaskFollows, ExitFollows, AloneFollows DEF SystemNext
  <1> QED  BY <1>1, <1>2

-----------------------------------------------------------------------------
(* The invariant of the system. *)

LEMMA SystemStarts == SystemInit => SystemInv
PROOF
  <1> SUFFICES ASSUME SystemInit  PROVE SystemInv  OBVIOUS
  <1>1. Init /\ Mem!Init  BY DEF SystemInit
  <1>2. Inv /\ ProcessInv  BY <1>1, InitInv, ProcessInit
  <1>3. Proved!Init  BY <1>1, SameMemory
  <1>4. Proved!MemoryInv /\ Proved!SpaceInv
    BY <1>3, MemoryFits, Proved!TypeInit, Proved!DirInit, Proved!CoherentInit, Proved!SpaceInit
       DEF Proved!MemoryInv
  <1>5. ToSet(OnQueue("free")) = Task \ {Idle, Task1}
    BY <1>1, InitialLists DEF Init, SchedulerInit, OnQueue
  <1>6. \A t \in Task : dir[t] = IF t \in {Idle, Task1} THEN NR_TASKS - 1 - t ELSE Mem!NULL
    BY <1>1 DEF Mem!Init, Mem!InitDirectories, Mem!Task, Task, Mem!Idle, Idle, Mem!Task1, Task1
  <1>7. NR_TASKS - 1 - Idle # Mem!NULL /\ NR_TASKS - 1 - Task1 # Mem!NULL
    BY TasksAssumption DEF Idle, Task1, Mem!NULL
  <1>8. Coupled  BY <1>5, <1>6, <1>7 DEF Coupled, Mem!Alive
  <1> QED  BY <1>2, <1>4, <1>8 DEF SystemInv

LEMMA SystemStep == SystemInv /\ [SystemNext]_systemVars => SystemInv'
PROOF
  <1> SUFFICES ASSUME SystemInv, [SystemNext]_systemVars  PROVE SystemInv'  OBVIOUS
  <1>1. Inv /\ ProcessInv /\ Proved!MemoryInv /\ Proved!SpaceInv  BY DEF SystemInv
  <1>2. [Next]_vars  BY KernelRuns
  <1>3. Inv'  BY <1>1, <1>2, NextInv
  <1>4. ProcessInv'  BY <1>1, <1>2, <1>3, ProcessStep
  <1>5. [Mem!Next]_(Mem!vars) /\ Coupled'  BY <1>3, MemoryFollows
  <1>6. [Proved!Next]_(Proved!vars)  BY <1>5, SameMemory
  <1>7. Proved!MemoryTypeOK /\ Proved!DirInv /\ Proved!TLBCoherent  BY <1>1 DEF Proved!MemoryInv
  <1>8. Proved!MemoryTypeOK' /\ Proved!DirInv'  BY <1>6, <1>7, MemoryFits, Proved!TypeStep
  <1>9. Proved!TLBCoherent'  BY <1>6, <1>7, MemoryFits, Proved!CoherentStep
  <1>10. Proved!SpaceInv'  BY <1>1, <1>6, <1>7, MemoryFits, Proved!SpaceStep
  <1>11. Proved!MemoryInv'  BY <1>8, <1>9 DEF Proved!MemoryInv
  <1> QED  BY <1>3, <1>4, <1>5, <1>10, <1>11 DEF SystemInv

\* Every step of the system keeps the invariants of the kernel and of the memory, and a PCB is
\* free exactly when it has no directory.
THEOREM SystemInvariance == SystemSpec => []SystemInv
PROOF
  BY SystemStarts, SystemStep, PTL DEF SystemSpec

\* The system is a kernel: all that is proved of Spec holds of the kernel with its memory.
THEOREM KernelInSystem == SystemSpec => Spec
PROOF
  <1>1. SystemInit => Init  BY DEF SystemInit
  <1> QED  BY <1>1, KernelRuns, PTL DEF SystemSpec, Spec

\* MemoryImplemented: the scheduler, with all its switches, and fork, clone, exit, sbrk and the
\* reads as they are scheduled, does to the memory only what Memory allows.
THEOREM MemoryIsImplemented == SystemSpec => MemoryImplemented
PROOF
  <1>1. SystemInit => Mem!Init  BY DEF SystemInit
  <1>2. SystemInv /\ SystemInv' /\ [SystemNext]_systemVars => [Mem!Next]_(Mem!vars)
    BY MemoryFollows DEF SystemInv
  <1> QED  BY <1>1, <1>2, SystemInvariance, PTL DEF SystemSpec, MemoryImplemented, Mem!Spec

LEMMA MemorySpec == MemoryImplemented => Proved!Spec
PROOF
  <1>1. Mem!Init => Proved!Init  BY SameMemory
  <1>2. [Mem!Next]_(Mem!vars) => [Proved!Next]_(Proved!vars)  BY SameMemory
  <1> QED  BY <1>1, <1>2, PTL DEF MemoryImplemented, Mem!Spec, Proved!Spec

\* AddressSpaceWhileUsed: whoever gets the processor has an address space, and finds his own
\* directory in cr3 and nothing old in the TLB.
THEOREM TasksHaveAddressSpaces == SystemSpec => []AddressSpaceWhileUsed
PROOF
  <1>1. SystemInv => AddressSpaceWhileUsed
    BY SameMemory DEF SystemInv, Coupled, AddressSpaceWhileUsed, Proved!MemoryInv
  <1> QED  BY <1>1, SystemInvariance, PTL

\* FramesAreCounted, however the scheduler interleaves the processes, with the hypotheses under
\* which it holds of Memory: the count of a frame is a signed char, and the programs do not use
\* threads together with sbrk.
THEOREM FramesCounted ==
  ASSUME NR_TASKS <= 128, ~Clones \/ Increments = {}
  PROVE  SystemSpec => []FramesAreCounted
PROOF
  <1>1. Proved!Separate  BY DEF Proved!Separate
  <1>2. Proved!Spec => []Proved!RefCountsExact  BY <1>1, MemoryFits, Proved!FramesAreCountedExactly
  <1>3. Proved!Spec => []Proved!WritableIsPrivate  BY <1>1, MemoryFits, Proved!WritersAreAlone
  <1>4. Proved!RefCountsExact /\ Proved!WritableIsPrivate => FramesAreCounted
    BY SameMemory DEF FramesAreCounted
  <1> QED  BY <1>2, <1>3, <1>4, MemorySpec, MemoryIsImplemented, PTL

-----------------------------------------------------------------------------
(* Enough directories. *)

\* The tasks that are alive use at most as many directories as they are.
LEMMA DirectoriesSuffice ==
  ASSUME NEW N \in Nat, NEW T, NEW D, IsFiniteSet(T), IsFiniteSet(D),
         Cardinality(T) = N, Cardinality(D) = N,
         NEW F \in SUBSET T, NEW G \in SUBSET D, NEW d,
         \A t \in T \ F : d[t] \in D \ G,
         \A c \in D \ G : \E t \in T \ F : d[t] = c
  PROVE  Cardinality(F) <= Cardinality(G)
PROOF
  <1> DEFINE f == [t \in T \ F |-> d[t]]
  <1>1. f \in Surjection(T \ F, D \ G)  BY DEF Surjection
  <1>2. /\ IsFiniteSet(T \ F) /\ Cardinality(T \ F) = Cardinality(T) - Cardinality(T \cap F)
        /\ Cardinality(D \ G) = Cardinality(D) - Cardinality(D \cap G)
    BY FS_Difference
  <1>3. T \cap F = F /\ D \cap G = G  OBVIOUS
  <1> HIDE DEF f
  <1>4. Cardinality(D \ G) <= Cardinality(T \ F)  BY <1>1, <1>2, FS_Surjection
  <1>5. Cardinality(F) \in Nat /\ Cardinality(G) \in Nat  BY FS_Subset, FS_CardinalityType
  <1>6. Cardinality(T \ F) = N - Cardinality(F)  BY <1>2, <1>3
  <1>7. Cardinality(D \ G) = N - Cardinality(G)  BY <1>2, <1>3
  <1> QED  BY <1>4, <1>5, <1>6, <1>7

LEMMA SameCounting ==
  /\ \A S : Proved!Cardinality(S) = Cardinality(S) /\ (Proved!IsFiniteSet(S) <=> IsFiniteSet(S))
  /\ \A s : Proved!ToSet(s) = ToSet(s) /\ (Proved!IsInjective(s) <=> IsInjective(s))
PROOF
  BY DEF Proved!Cardinality, Cardinality, Proved!IsFiniteSet, IsFiniteSet, Proved!ToSet, ToSet,
         Proved!IsInjective, IsInjective

\* The directories in the list are those no task has.
LEMMA FreeDirectories ==
  ASSUME Proved!MemoryInv, NEW d \in Mem!Dir
  PROVE  d \in ToSet(free_dirs) <=> \A t \in Task : dir[t] # d
PROOF
  <1>1. d \in Proved!Dir /\ Proved!DirInv  BY DEF Mem!Dir, Proved!Dir, Proved!MemoryInv
  <1>2. d \in ToSet(free_dirs) <=> Proved!Cardinality(Proved!UsersOf(d)) = 0
    <2>1. ToSet(free_dirs) = Proved!ToSet(free_dirs)  BY SameCounting
    <2> QED  BY <1>1, <2>1 DEF Proved!DirInv
  <1>3. \A S : Proved!Cardinality(S) = Cardinality(S) /\ (Proved!IsFiniteSet(S) <=> IsFiniteSet(S))
    BY SameCounting
  <1>4. IsFiniteSet(Proved!UsersOf(d))
    BY <1>3, MemoryFits, Proved!UsersFinite DEF Proved!UsersOf
  <1>5. Proved!UsersOf(d) = {t \in Task : dir[t] = d}  BY DEF Proved!UsersOf, Proved!Task, Task
  <1> QED  BY <1>2, <1>3, <1>4, <1>5, FS_EmptySet

LEMMA EnoughDirectories == SystemInv => FreeTasksHaveDirectories
PROOF
  <1> SUFFICES ASSUME SystemInv  PROVE FreeTasksHaveDirectories  OBVIOUS
  <1> DEFINE F == ToSet(OnQueue("free"))
             G == ToSet(free_dirs)
  <1>1. Core /\ Proved!MemoryInv /\ Coupled  BY DEF SystemInv, Inv
  <1>2. OnQueue("free") \in Seq(Task) /\ IsInjective(OnQueue("free"))
    <2>1. Sane(sched)  BY <1>1, CurrentUnlinked
    <2> QED  BY <2>1, SaneFields, QueueNames DEF OnQueue, Once
  <1>3. free_dirs \in Seq(Mem!Dir) /\ dir \in [Task -> Mem!Dir \cup {Mem!NULL}]
        /\ Mem!NULL \notin Mem!Dir
    BY <1>1, Directories
  <1>4. Cardinality(F) = Len(OnQueue("free"))
    <2>1. Proved!IsInjective(OnQueue("free"))  BY <1>2, SameCounting
    <2>2. Proved!Cardinality(Proved!ToSet(OnQueue("free"))) = Len(OnQueue("free"))
      BY <1>2, <2>1, MemoryFits, Proved!DistinctMembers
    <2> QED  BY <2>2, SameCounting
  <1>5. Cardinality(G) = Len(free_dirs)
    <2>1. Proved!IsInjective(free_dirs)  BY <1>1 DEF Proved!MemoryInv, Proved!DirInv
    <2>2. Proved!Cardinality(Proved!ToSet(free_dirs)) = Len(free_dirs)
      BY <1>3, <2>1, MemoryFits, Proved!DistinctMembers
    <2> QED  BY <2>2, SameCounting
  <1>6. \A t \in Task \ F : dir[t] \in Mem!Dir \ G
    <2> SUFFICES ASSUME NEW t \in Task \ F  PROVE dir[t] \in Mem!Dir \ G  OBVIOUS
    <2>1. dir[t] \in Mem!Dir  BY <1>1, <1>3 DEF Coupled, Mem!Alive
    <2>2. ~(\A u \in Task : dir[u] # dir[t])  OBVIOUS
    <2> QED  BY <1>1, <2>1, <2>2, FreeDirectories
  <1>7. \A c \in Mem!Dir \ G : \E t \in Task \ F : dir[t] = c
    <2> SUFFICES ASSUME NEW c \in Mem!Dir \ G  PROVE \E t \in Task \ F : dir[t] = c  OBVIOUS
    <2>1. PICK t \in Task : dir[t] = c  BY <1>1, FreeDirectories
    <2>2. t \notin F  BY <1>1, <1>3, <2>1 DEF Coupled, Mem!Alive
    <2> QED  BY <2>1, <2>2
  <1>8. /\ NR_TASKS \in Nat /\ IsFiniteSet(Task) /\ Cardinality(Task) = NR_TASKS
        /\ IsFiniteSet(Mem!Dir) /\ Cardinality(Mem!Dir) = NR_TASKS
    BY TasksAssumption, FS_Interval DEF Task, Mem!Dir
  <1>9. F \in SUBSET Task /\ G \in SUBSET Mem!Dir  BY <1>2, <1>3, MembersType
  <1> HIDE DEF F, G
  <1>10. Cardinality(F) <= Cardinality(G)  BY <1>6, <1>7, <1>8, <1>9, DirectoriesSuffice
  <1> QED  BY <1>4, <1>5, <1>10 DEF FreeTasksHaveDirectories

\* FreeTasksHaveDirectories: allocate_process, which takes the PCB first (sched.c:47), finds a
\* directory for it whatever processes and threads there are.
THEOREM DirectoryForEveryTask == SystemSpec => []FreeTasksHaveDirectories
PROOF
  BY EnoughDirectories, SystemInvariance, PTL
=============================================================================
