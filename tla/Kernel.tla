------------------------------- MODULE Kernel -------------------------------
(***************************************************************************)
(* The kernel: the scheduler, the semaphores and the keyboard on one       *)
(* process table.  Each disjunct of Next is one run of the kernel of a     *)
(* component, with what the other components do and do not change in it.   *)
(***************************************************************************)
EXTENDS Semaphores, Keyboard

vars == <<schedVars, semVars, kbdVars>>

Init == SchedulerInit /\ SemaphoresInit /\ KeyboardInit

\* A mistake: leave free_semaphores out of free_process.
ExitDone_KeepsSemaphores == ExitSwitch /\ UNCHANGED <<semVars, kbdVars>>

\* The last step of sys_exit, after free_semaphores has gone through the whole list.
ExitDone == ExitSwitch /\ owned[current] = <<>> /\ UNCHANGED <<semVars, kbdVars>>

Boot == ReturnGate /\ UNCHANGED <<semVars, kbdVars>>

Clock == ClockTick /\ UNCHANGED <<semVars, kbdVars>>

\* Where a task goes on in the kernel after a task_switch, or in the middle of an exit.
Resume ==
  \/ SemWaitReturn /\ UNCHANGED kbdVars
  \/ ReadResume /\ UNCHANGED semVars
  \/ ExitDestroySem /\ UNCHANGED kbdVars
  \/ ExitDone

Create == Spawn /\ SemaphoresOnSpawn /\ UNCHANGED kbdVars

Leave == SysExit /\ UNCHANGED <<semVars, kbdVars>>

SemaphoreCall ==
  \/ \E s \in Sem, value \in InitValues : SemInit(s, value)
  \/ \E s \in Sem : SemWait(s) \/ SemSignal(s) \/ SemDestroy(s)

ReadCall == \E size \in ReadSizes : SysRead(size) /\ UNCHANGED semVars

Syscall ==
  \/ Create
  \/ Leave
  \/ \E q \in NiceQuanta : Nice(q) /\ UNCHANGED <<semVars, kbdVars>>
  \/ SemaphoreCall /\ UNCHANGED kbdVars
  \/ ReadCall

Typing == KeyboardIrq /\ UNCHANGED semVars

Next == Boot \/ Clock \/ Resume \/ Syscall \/ Typing

Spec == Init /\ [][Next]_vars

\* The processor goes on executing the kernel, and the timer goes on interrupting it.
FairSpec == Spec /\ WF_vars(Boot) /\ WF_vars(Clock) /\ WF_vars(Resume)

\* Every variable keeps its type: no index of the keyboard buffer runs off its end, and no
\* list, PCB or semaphore gets a value its type has not.
TypeOK == SchedulerTypeOK /\ SemaphoresTypeOK /\ KeyboardTypeOK

-----------------------------------------------------------------------------

\* Round robin is fair: a task in the ready queue gets the processor, whatever the others
\* do, and however often the keyboard puts a reader in front of it.
ReadyTaskRuns == \A t \in Task : (t \in ToSet(OnQueue("ready"))) ~> (t = current)

\* A read ends if somebody goes on typing, also when it has to wait behind other readers.
ReadEnds ==
  WF_vars(Typing) => \A t \in Task : (cont[t] \in {"read0", "read1"}) ~> (cont[t] = "user")
=============================================================================
