------------------------------ MODULE Scheduler ------------------------------
(***************************************************************************)
(* The CPU and the scheduler: who runs, where a task that lost the CPU     *)
(* will go on, and the handlers of sched.c and sys.c that need nothing but *)
(* the process table (clock interrupt, fork, clone, exit, set_quantum).    *)
(*                                                                         *)
(* Every gate is an interrupt gate (interrupt.c:42-54), so the kernel runs *)
(* with interrupts disabled and loses the CPU only in task_switch.  An     *)
(* action is therefore a whole run of the kernel: from an entry, or from   *)
(* the point after a task_switch, to iret or to the next task_switch.      *)
(* cont[t] is that point for task t, what its kernel stack would resume:   *)
(*                                                                         *)
(*   "user"   nothing but the way back to user mode (a task preempted by   *)
(*            an interrupt, a task that never ran), or user mode itself    *)
(*   "sem"    after sched_next_rr in sys_sem_wait                          *)
(*   "read0"  after block_in_read(0): the buffer was not looked at yet     *)
(*   "read1"  after block_in_read(1): inside the while loop of the read    *)
(*   "exit"   in sys_exit, the PCB already in the free queue               *)
(*   "boot"   main() after enable_int, before return_gate                  *)
(*   "none"   a PCB nobody runs on                                         *)
(***************************************************************************)
EXTENDS ProcessTable

CONSTANTS
  MaxPID,        \* bound: no process is created when last_PID reaches it
  NiceQuanta     \* quanta that set_quantum is called with

ASSUME BoundAssumption == MaxPID \in Nat /\ MaxPID >= 2
ASSUME NiceAssumption == NiceQuanta \subseteq Nat

VARIABLES
  sched,         \* the process table
  cont           \* where each task resumes

schedVars == <<sched, cont>>

Continuation == {"user", "sem", "read0", "read1", "exit", "boot", "none"}

current  == sched.current
OnQueue(k) == sched.queue[k]

\* Interrupts are enabled only in user mode, in cpu_idle and at the end of main.
InterruptsEnabled == cont[current] \in {"user", "boot"}

\* A system call comes from a task in user mode; the idle task makes none.
InSyscall == cont[current] = "user" /\ current # Idle

SchedulerInit ==
  /\ sched = InitialTable
  /\ cont = [t \in Task |-> CASE t \in {Idle, Task1} -> "user"
                              [] t = BootTask        -> "boot"
                              [] OTHER               -> "none"]

\* return_gate: the first jump to user mode; esp0 of the TSS already names task 1.
ReturnGate ==
  /\ cont[current] = "boot"
  /\ sched' = [sched EXCEPT !.current = Task1]
  /\ cont' = [cont EXCEPT ![current] = "none"]

\* A mistake: clock_routine without its guard on the boot window.
ClockTick_NoGuard ==
  /\ InterruptsEnabled
  /\ sched' = execute_scheduling(sched)
  /\ UNCHANGED cont

\* clock_routine.  Where the guard is false it does nothing, and only while main()
\* still runs on the stack of a free PCB is it false.
ClockTick ==
  /\ InterruptsEnabled
  /\ sched.state[current] = "ST_RUN"
  /\ sched' = execute_scheduling(sched)
  /\ UNCHANGED cont

\* sys_fork and sys_clone; with no free PCB they return -EAGAIN and change nothing.
Spawn ==
  /\ InSyscall
  /\ OnQueue("free") # <<>>
  /\ sched.last_PID < MaxPID
  /\ sched' = spawn(sched)
  /\ cont' = [cont EXCEPT ![FreeTask(sched)] = "user"]

\* A mistake: leave the PCB of a process that exits in the ready queue.
SysExit_StaysReady ==
  /\ InSyscall
  /\ sched' = update_process_state_rr(sched, current, "ready")
  /\ cont' = [cont EXCEPT ![current] = "exit"]

\* sys_exit up to free_semaphores: the PCB of the running task is already free.
SysExit ==
  /\ InSyscall
  /\ sched' = update_process_state_rr(sched, current, "free")
  /\ cont' = [cont EXCEPT ![current] = "exit"]

\* The end of sys_exit: leave the CPU for good.
ExitSwitch ==
  /\ cont[current] = "exit"
  /\ sched' = sched_next_rr(sched)
  /\ cont' = [cont EXCEPT ![current] = "none"]

\* zeos_sys_nice, in libauxjp.a: set_quantum on the running task.
Nice(q) ==
  /\ InSyscall
  /\ sched' = set_quantum(sched, current, q)
  /\ UNCHANGED cont

\* Block the running task on a list, to go on later at the point c.
Block(dest, is_first, c) ==
  /\ sched' = sched_next_rr(update_process_state(sched, current, dest, is_first))
  /\ cont' = [cont EXCEPT ![current] = c]

-----------------------------------------------------------------------------
(* What holds of the process table in every state of the kernel. *)

\* The types of the process table and of the points where tasks resume.
SchedulerTypeOK ==
  /\ sched \in ProcessTable
  /\ cont \in [Task -> Continuation]

\* A task is linked in at most one list, and there only once: an anchor has one
\* next and one prev pointer (list.c), so linking it twice would corrupt a list.
LinkedOnce ==
  \A k, l \in Queue : \A i \in DOMAIN OnQueue(k), j \in DOMAIN OnQueue(l) :
    OnQueue(k)[i] = OnQueue(l)[j] => k = l /\ i = j

Linked(t) == \E k \in Queue : t \in ToSet(OnQueue(k))

\* No task is ever lost: a task that is not running is linked in some list, so that
\* somebody can find it (respuestas.txt, 2c, on the task a keyboard interrupt
\* preempts).  Only the idle task is in no list.
NoLostTask == \A t \in Task \ {Idle} : Linked(t) \/ t = current \/ cont[current] = "boot"

\* The running task is in no list, so no other handler can wake, queue or reuse it.  Only
\* main() and a process in sys_exit run on the stack of a PCB that is in a list, which is
\* the free queue, and no handler that takes a PCB from it runs meanwhile.
RunningIsUnlinked ==
  /\ ~Linked(Idle)
  /\ \A k \in Queue \ {"free"} : current \notin ToSet(OnQueue(k))
  /\ current \in ToSet(OnQueue("free")) <=> cont[current] \in {"exit", "boot"}

\* The state field agrees with the list: the guards that read it (clock_routine,
\* sys_get_stats) decide as if they had looked at the lists.
StateMatchesQueue ==
  /\ \A t \in ToSet(OnQueue("free")) : sched.state[t] = "ST_INVALID"
  /\ \A t \in ToSet(OnQueue("ready")) : sched.state[t] = "ST_READY"
  /\ \A k \in {"keyboard"} \cup Sem : \A t \in ToSet(OnQueue(k)) : sched.state[t] = "ST_BLOCKED"
  /\ cont[current] \notin {"exit", "boot"} => sched.state[current] = "ST_RUN"

\* The idle task runs only when nobody else could: whoever makes a task ready while
\* it runs switches to that task at once.
IdleOnlyWhenNothingReady == current = Idle => OnQueue("ready") = <<>>

\* Two live processes never share a PID, or sys_sem_destroy would take one for the other.
LivePIDsUnique ==
  \A t, u \in {v \in Task : sched.state[v] # "ST_INVALID"} :
    sched.PID[t] = sched.PID[u] => t = u

\* What the running task is told it has left of its quantum is what it has left; in
\* particular the quantum starts afresh at every switch.  The CPU is not kept for longer than
\* the longest quantum anybody asks for.
RemainingIsExact ==
  cont[current] # "boot" =>
    /\ sched.remaining[current] =
         IF sched.quantum[current] >= sched.current_ticks
         THEN sched.quantum[current] - sched.current_ticks ELSE 0
    /\ \E quantum \in NiceQuanta \cup {DEFAULT_QUANTUM} : sched.current_ticks < quantum

\* Nobody overtakes in a first-in first-out list: as long as a task stays in it, its
\* position does not grow.  (block_in_read and keyboard_routine do insert at the head
\* of a list, but never in front of a task that then still has to wait.)
NoOvertaking ==
  [][\A k \in Fifo : \A i \in DOMAIN OnQueue(k), j \in DOMAIN OnQueue(k)' :
       OnQueue(k)[i] = OnQueue(k)'[j] => j <= i]_schedVars
=============================================================================
