---------------------------- MODULE ProcessTable ----------------------------
(***************************************************************************)
(* The process table of sched.c and the functions that thread it: the      *)
(* array tasks[] of PCBs, the free queue, the ready queue, the queues a    *)
(* task can block on, and the round-robin policy.                          *)
(*                                                                         *)
(* The C handlers call these functions one after the other with interrupts *)
(* disabled, so each one is an operator that maps a process table p to the *)
(* process table it leaves, under its name in the source; a handler is     *)
(* their composition.  The one function that does not return to its caller *)
(* is task_switch, the last call of sched_next_rr: it sets p.current, and  *)
(* what the caller would do next becomes a continuation of the task that   *)
(* lost the CPU (module Scheduler).                                        *)
(***************************************************************************)
EXTENDS Integers, Sequences, SequencesExt

CONSTANTS
  NR_TASKS,          \* number of PCBs                            (sched.h:13)
  DEFAULT_QUANTUM,   \* ticks of a new task                       (sched.h:91)
  Sem                \* the indices of semaphores[]               (sched.h:54)

\* main() runs on the kernel stack of tasks[3] (system.c:67), so the slot exists.
ASSUME TasksAssumption == NR_TASKS \in Nat /\ NR_TASKS >= 4
ASSUME QuantumAssumption == DEFAULT_QUANTUM \in Nat /\ DEFAULT_QUANTUM > 0
\* A semaphore's blocked list is none of the kernel's three global lists.
ASSUME SemAssumption == Sem \cap {"none", "free", "ready", "keyboard"} = {}

Task     == 0 .. NR_TASKS - 1    \* a PCB is named by its slot in tasks[]
Idle     == 0                    \* idle_task: the first allocate_process
Task1    == 1                    \* the second one
BootTask == 3                    \* the slot whose stack main() runs on

State == {"ST_RUN", "ST_READY", "ST_BLOCKED", "ST_INVALID"}

\* Every list a task's anchor can be linked in; NULL stands for no list.
Queue == {"free", "ready", "keyboard"} \cup Sem
NULL  == "none"

Fifo == {"ready"} \cup Sem

ProcessTable ==
  [current       : Task,
   state         : [Task -> State],
   queue         : [Queue -> Seq(Task)],
   PID           : [Task -> Nat],
   last_PID      : Nat,
   quantum       : [Task -> Nat],
   remaining     : [Task -> Nat],   \* st.remaining_ticks
   current_ticks : Nat]

(***************************************************************************)
(* Accounting: the part of update_stats the scheduler reads back.          *)
(***************************************************************************)

update_stats(p, t, e) ==
  CASE e \in {"QUANTUM_UPDATED", "CURRENT_TICKS_UPDATED"} ->
         [p EXCEPT !.remaining[t] =
            IF p.quantum[t] >= p.current_ticks THEN p.quantum[t] - p.current_ticks ELSE 0]
    [] e \in {"FREE_TO_READY", "SYS_TO_READY"} ->
         [p EXCEPT !.remaining[t] = p.quantum[t]]
    [] OTHER -> p

(***************************************************************************)
(* Moving a task between lists.                                            *)
(***************************************************************************)

\* A mistake: link an anchor again without unlinking it.
list_del_Nothing(q, t) == q

\* list_del: whichever list holds the anchor loses it.
list_del(q, t) == [k \in Queue |-> RemoveFirst(q[k], t)]

\* A mistake: list_add and list_add_tail the other way round.
list_insert_Swapped(s, t, is_first) == IF is_first THEN Append(s, t) ELSE <<t>> \o s

\* list_add or list_add_tail.
list_insert(s, t, is_first) == IF is_first THEN <<t>> \o s ELSE Append(s, t)

\* A mistake: take every list but the free queue for one to block on.
StateOn_AlwaysBlocked(dest) ==
  CASE dest = NULL    -> "ST_RUN"
    [] dest = "free"  -> "ST_INVALID"
    [] OTHER          -> "ST_BLOCKED"

StateOn(dest) ==
  CASE dest = NULL    -> "ST_RUN"
    [] dest = "ready" -> "ST_READY"
    [] dest = "free"  -> "ST_INVALID"
    [] OTHER          -> "ST_BLOCKED"

\* The lists of update_process_state: off any list, and onto dest unless it is NULL.
relink(q, t, dest, is_first) ==
  LET unlinked == list_del(q, t)
  IN  IF dest = NULL THEN unlinked
      ELSE [unlinked EXCEPT ![dest] = list_insert(@, t, is_first)]

update_process_state(p, t, dest, is_first) ==
  [p EXCEPT !.state[t] = StateOn(dest), !.queue = relink(@, t, dest, is_first)]

update_process_state_rr(p, t, dest) == update_process_state(p, t, dest, FALSE)

add_process_to_scheduling(p, t, e, is_first) ==
  update_stats(update_process_state(p, t, "ready", is_first), t, e)

(***************************************************************************)
(* Round robin.                                                            *)
(***************************************************************************)

\* A mistake: choose the task that became ready last.
NextTask_Last(p) == IF p.queue["ready"] # <<>> THEN Last(p.queue["ready"]) ELSE Idle

NextTask(p) == IF p.queue["ready"] # <<>> THEN Head(p.queue["ready"]) ELSE Idle

\* The chosen task starts with no ticks used, so update_stats(CURRENT_TICKS_UPDATED)
\* leaves it its whole quantum.
sched_next_rr(p) ==
  [update_process_state_rr(p, NextTask(p), NULL) EXCEPT
     !.current = NextTask(p),
     !.current_ticks = 0,
     !.remaining[NextTask(p)] = p.quantum[NextTask(p)]]

update_sched_data_rr(p) ==
  update_stats([p EXCEPT !.current_ticks = @ + 1], p.current, "CURRENT_TICKS_UPDATED")

\* A mistake: let the quantum pass by one tick.
needs_sched_rr_OneTooMany(p) ==
  \/ p.current = Idle /\ p.queue["ready"] # <<>>
  \/ p.current_ticks > p.quantum[p.current]

needs_sched_rr(p) ==
  \/ p.current = Idle /\ p.queue["ready"] # <<>>
  \/ p.remaining[p.current] = 0

execute_scheduling(p) ==
  LET q == update_sched_data_rr(p)
      requeued == IF q.current # Idle
                  THEN update_process_state_rr(q, q.current, "ready")
                  ELSE q
  IN  IF needs_sched_rr(q)
      THEN sched_next_rr(update_stats(requeued, q.current, "SYS_TO_READY"))
      ELSE q

\* A mistake: count the new quantum from its start.
set_quantum_FromStart(p, t, new_quantum) ==
  update_stats([p EXCEPT !.quantum[t] = new_quantum, !.current_ticks = 0], p.current,
               "QUANTUM_UPDATED")

set_quantum(p, t, new_quantum) ==
  update_stats([p EXCEPT !.quantum[t] = new_quantum], p.current, "QUANTUM_UPDATED")

(***************************************************************************)
(* Creating and freeing a process.                                         *)
(***************************************************************************)

\* The PCB the next allocate_process takes.
FreeTask(p) == Head(p.queue["free"])

\* A mistake: last_PID is read but not advanced.
allocate_process_SamePID(p) ==
  LET t == FreeTask(p)
  IN  [p EXCEPT !.queue = list_del(@, t),
                !.PID[t] = p.last_PID,
                !.quantum[t] = DEFAULT_QUANTUM,
                !.remaining[t] = 0]

\* Only where the free queue is not empty.  A free PCB implies a free directory,
\* so allocate_DIR does not fail here (sched.c:47-49); the state field keeps
\* ST_INVALID until the caller moves the task.
allocate_process(p) ==
  LET t == FreeTask(p)
  IN  [p EXCEPT !.queue = list_del(@, t),
                !.PID[t] = p.last_PID,
                !.last_PID = @ + 1,
                !.quantum[t] = DEFAULT_QUANTUM,
                !.remaining[t] = 0]

\* sys_fork and sys_clone: the child inherits the quantum and joins the ready queue.
spawn(p) ==
  LET t == FreeTask(p)
      child == [allocate_process(p) EXCEPT !.quantum[t] = p.quantum[p.current]]
  IN  add_process_to_scheduling(child, t, "FREE_TO_READY", FALSE)

(***************************************************************************)
(* The table after init_sched, init_idle and init_task1, when main() goes  *)
(* on to user mode: the idle task has never run, task 1 is marked running, *)
(* and the stack in use is that of a PCB that is still free.               *)
(***************************************************************************)
InitialTable ==
  [current       |-> BootTask,
   state         |-> [t \in Task |-> CASE t = Idle  -> "ST_READY"
                                       [] t = Task1 -> "ST_RUN"
                                       [] OTHER     -> "ST_INVALID"],
   queue         |-> [k \in Queue |-> IF k = "free" THEN [i \in 1 .. NR_TASKS - 2 |-> i + 1]
                                      ELSE <<>>],
   PID           |-> [t \in Task |-> IF t = Task1 THEN 1 ELSE 0],
   last_PID      |-> 2,
   quantum       |-> [t \in Task |-> IF t \in {Idle, Task1} THEN DEFAULT_QUANTUM ELSE 0],
   remaining     |-> [t \in Task |-> IF t = Task1 THEN DEFAULT_QUANTUM ELSE 0],
   current_ticks |-> 0]
=============================================================================
