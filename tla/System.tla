------------------------------- MODULE System -------------------------------
(***************************************************************************)
(* The kernel with its memory: Kernel decides which task runs, Memory what *)
(* address space it runs in.  Each run of the kernel does its part of both *)
(* in one step, and a program uses its memory only while it runs in user   *)
(* mode.                                                                   *)
(***************************************************************************)
EXTENDS Kernel

CONSTANTS
  NUM_PAG_CODE, NUM_PAG_DATA, PAG_LOG_INIT_HEAP, PAGE_SIZE, NUM_PAG_KERNEL, TOTAL_PAGES,
  Increments, Clones, SyscallPages, TouchFirst, Value     \* those of Memory

ASSUME SystemAssumption ==
  /\ NUM_PAG_CODE \in Nat \ {0} /\ NUM_PAG_DATA \in Nat \ {0} /\ PAGE_SIZE \in Nat \ {0}
  /\ PAG_LOG_INIT_HEAP \in Nat /\ PAG_LOG_INIT_HEAP > NUM_PAG_CODE + NUM_PAG_DATA
  /\ NUM_PAG_KERNEL \in Nat \ {0}
  /\ TOTAL_PAGES \in Nat /\ TOTAL_PAGES > NUM_PAG_KERNEL + 2 * (NUM_PAG_CODE + NUM_PAG_DATA)
  /\ Increments \subseteq Int \ {0} /\ Clones \in BOOLEAN /\ TouchFirst \in BOOLEAN
  /\ 0 \in Value /\ SyscallPages \subseteq 0 .. PAG_LOG_INIT_HEAP

VARIABLES
  phys_mem, cow_count_mem, content, pagusr_table, dir_count, free_dirs, dir, heap, cr3, tlb,
  halted                                                  \* those of Memory

\* The task whose directory is in use; main() has loaded the one of the first process.
running == IF cont[current] = "boot" THEN Task1 ELSE current

Mem == INSTANCE Memory WITH current <- running

tableVars  == <<phys_mem, cow_count_mem, pagusr_table, dir_count, free_dirs, dir, heap>>
systemVars == <<vars, tableVars, content, cr3, tlb, halted>>

SystemInit == Init /\ Mem!Init

\* The switch, if the run of the kernel ends with one, loads cr3.
Follow == Mem!SwitchTo(running') /\ UNCHANGED <<tableVars, halted>>

\* Runs of the kernel that do not use the memory of programs.
Elsewhere ==
  /\ \/ Boot \/ Clock \/ Typing \/ ExitDone
     \/ SemaphoreCall /\ UNCHANGED kbdVars
     \/ SemWaitReturn /\ UNCHANGED kbdVars
     \/ ExitDestroySem /\ UNCHANGED kbdVars
     \/ \E q \in NiceQuanta : Nice(q) /\ UNCHANGED <<semVars, kbdVars>>
  /\ Follow /\ UNCHANGED content

\* A read stores the keys it takes in the program's memory, before it goes on or sleeps.  (A
\* page that is not there is in Mem!PageFault.)
Read ==
  /\ \/ ReadCall
     \/ ReadResume /\ UNCHANGED semVars
  /\ IF buff_from' = buff_from THEN UNCHANGED content
     ELSE \E p \in SyscallPages, v \in Value :
            Mem!access_ok(running, p) /\ Mem!KernelWrites(p, v)
  /\ Follow

\* sys_fork, and sys_clone, give the PCB they take an address space.
ForkOrClone ==
  /\ Create
  /\ \/ Mem!Fork(FreeTask(sched))
     \/ Clones /\ \E p \in SyscallPages, v \in Value : Mem!Clone(FreeTask(sched), p, v)

\* free_process gives back the PCB and the address space.
FreeProcess == Leave /\ Mem!Exit

\* What a program does without the scheduler.
Alone ==
  /\ InSyscall /\ UNCHANGED vars
  /\ Mem!UserAccess \/ \E increment \in Increments : Mem!Sbrk(increment)

SystemNext == halted = "no" /\ (Elsewhere \/ Read \/ ForkOrClone \/ FreeProcess \/ Alone)

SystemSpec == SystemInit /\ [][SystemNext]_systemVars

-----------------------------------------------------------------------------

\* Whenever a PCB is free so is a directory, also while a process that exits still runs and
\* with threads that share one: allocate_process does not fail half-way (sched.c:47).
FreeTasksHaveDirectories == Len(free_dirs) >= Len(OnQueue("free"))

\* A task has a directory as long as it is not in the free queue, and whatever hands it the
\* processor, a clock tick, a key, a wait or an exit, it goes on with that directory loaded: no
\* task that may be scheduled has lost its address space, and no free PCB keeps one.
AddressSpaceWhileUsed ==
  /\ \A t \in Task : Mem!Alive(t) <=> t \notin ToSet(OnQueue("free"))
  /\ Mem!TLBCoherent

\* However many processes, with however many threads, are forked from each other: the count
\* of each frame is the number of address spaces that have it, and it is written to only where
\* that is one.
FramesAreCounted == Mem!RefCountsExact /\ Mem!WritableIsPrivate

\* The scheduler switches between tasks that are alive only, and never in the middle of what
\* the memory takes for one step: all that holds of Memory holds of the system.
MemoryImplemented == Mem!Spec
=============================================================================
