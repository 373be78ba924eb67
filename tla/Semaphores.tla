----------------------------- MODULE Semaphores -----------------------------
(***************************************************************************)
(* The semaphores of sys.c.  The blocked list of a semaphore is one of the *)
(* queues of the process table, under the semaphore's name; owned[t] is    *)
(* the list task_struct.semaphores, the newest semaphore first.            *)
(***************************************************************************)
EXTENDS Scheduler

CONSTANTS
  INT_MAX,       \* the largest C int
  InitValues,    \* values sem_init is called with, as unsigned int
  MaxCount       \* bound: no signal adds to a count that has reached it

INT_MIN  == -INT_MAX - 1
UINT_MAX == 2 * INT_MAX + 1

ASSUME IntAssumption == INT_MAX \in Nat /\ InitValues \subseteq 0 .. UINT_MAX
ASSUME MaxCountAssumption == MaxCount \in Nat /\ MaxCount <= INT_MAX

VARIABLES
  sem,           \* semaphores[]: used, count and owner
  owned,         \* the list of each task's semaphores
  sem_deleted    \* the flag a destroyed semaphore leaves in its waiters

semVars == <<sem, owned, sem_deleted>>

NoOwner == NR_TASKS   \* the owner of a semaphore nobody initialised yet

Semaphore == [used : BOOLEAN, count : INT_MIN .. INT_MAX, owner : Task \cup {NoOwner}]

\* The conversion of sem->count = value, and the decrement, on a C int.
ToInt(v)     == IF v > INT_MAX THEN v - (UINT_MAX + 1) ELSE v
Decrement(c) == IF c = INT_MIN THEN INT_MAX ELSE c - 1

SemaphoresInit ==
  /\ sem = [s \in Sem |-> [used |-> FALSE, count |-> 0, owner |-> NoOwner]]
  /\ owned = [t \in Task |-> <<>>]
  /\ sem_deleted = [t \in Task |-> FALSE]

\* allocate_process empties the list of the new task and clears its flag.
SemaphoresOnSpawn ==
  /\ owned' = [owned EXCEPT ![FreeTask(sched)] = <<>>]
  /\ sem_deleted' = [sem_deleted EXCEPT ![FreeTask(sched)] = FALSE]
  /\ UNCHANGED sem

Available(s) == ~sem[s].used

\* sys_sem_init: -EBUSY if in use.  The test value < 0 (sys.c:223) is never true of an
\* unsigned value.  The blocked list is emptied, whatever it holds.
SemInit(s, value) ==
  /\ InSyscall
  /\ Available(s)
  /\ sem' = [sem EXCEPT ![s] = [used |-> TRUE, count |-> ToInt(value), owner |-> current]]
  /\ owned' = [owned EXCEPT ![current] = <<s>> \o @]
  /\ sched' = [sched EXCEPT !.queue[s] = <<>>]
  /\ UNCHANGED <<cont, sem_deleted>>

\* A mistake: keep one unit back.
MustWait_KeepsOne(s) == sem[s].count <= 1

MustWait(s) == sem[s].count = 0

\* sys_sem_wait up to its return or its task_switch.
SemWait(s) ==
  /\ InSyscall
  /\ sem[s].used
  /\ IF MustWait(s)
     THEN Block(s, FALSE, "sem") /\ UNCHANGED sem
     ELSE /\ sem' = [sem EXCEPT ![s].count = Decrement(@)]
          /\ UNCHANGED <<sched, cont>>
  /\ UNCHANGED <<owned, sem_deleted>>

\* A mistake: return from the wait with the flag still set.
ClearFlag_Not(t) == UNCHANGED sem_deleted

ClearFlag(t) == sem_deleted' = [sem_deleted EXCEPT ![t] = FALSE]

\* sys_sem_wait after the switch: -1 if the flag is set, which it clears; 0 otherwise.
SemWaitReturn ==
  /\ cont[current] = "sem"
  /\ ClearFlag(current)
  /\ cont' = [cont EXCEPT ![current] = "user"]
  /\ UNCHANGED <<sched, sem, owned>>

\* sys_sem_signal: hand the signal to the first waiter, or count it.
SemSignal(s) ==
  /\ InSyscall
  /\ sem[s].used
  /\ IF OnQueue(s) = <<>>
     THEN /\ sem[s].count < MaxCount
          /\ sem' = [sem EXCEPT ![s].count = @ + 1]
          /\ UNCHANGED sched
     ELSE /\ sched' = add_process_to_scheduling(sched, Head(OnQueue(s)), "BLOCKED_TO_READY", FALSE)
          /\ UNCHANGED sem
  /\ UNCHANGED <<cont, owned, sem_deleted>>

\* A mistake: wake the waiters and not tell them why.
FlagWaiters_None(s) == UNCHANGED sem_deleted

FlagWaiters(s) == sem_deleted' = [t \in Task |-> sem_deleted[t] \/ t \in ToSet(OnQueue(s))]

\* The loop of sys_sem_destroy over the waiters, first to last, each to the tail of the
\* ready queue: list_for_each_safe reads the next anchor before the current one is moved.
WakeAll(p, s) ==
  [p EXCEPT !.queue = [p.queue EXCEPT !["ready"] = @ \o p.queue[s], ![s] = <<>>],
            !.state = [t \in Task |-> IF t \in ToSet(p.queue[s]) THEN StateOn("ready")
                                      ELSE p.state[t]]]

\* sys_sem_destroy by the owner; any other process gets -1.
DestroySemaphore(s) ==
  /\ sem[s].used
  /\ sched.PID[current] = sched.PID[sem[s].owner]
  /\ sem' = [sem EXCEPT ![s].used = FALSE]
  /\ owned' = [owned EXCEPT ![sem[s].owner] = RemoveFirst(@, s)]
  /\ sched' = WakeAll(sched, s)
  /\ FlagWaiters(s)

SemDestroy(s) ==
  /\ InSyscall
  /\ DestroySemaphore(s)
  /\ UNCHANGED cont

\* One iteration of free_semaphores in sys_exit.
ExitDestroySem ==
  /\ cont[current] = "exit"
  /\ owned[current] # <<>>
  /\ DestroySemaphore(Head(owned[current]))
  /\ UNCHANGED cont

-----------------------------------------------------------------------------

\* The types of the semaphores' variables; a count is a C int.
SemaphoresTypeOK ==
  /\ sem \in [Sem -> Semaphore]
  /\ owned \in [Task -> Seq(Sem)]
  /\ sem_deleted \in [Task -> BOOLEAN]

\* Nobody sleeps on a semaphore that could let it through or that is gone: a waiter
\* implies a semaphore in use whose count is 0, so no wake-up was lost.
WaitersOnlyAtZero == \A s \in Sem : OnQueue(s) # <<>> => sem[s].used /\ sem[s].count = 0

\* The two sides of ownership agree, and the owner of a semaphore in use is a process
\* that still runs or is just destroying it: exit leaves no semaphore behind that
\* nobody could destroy, or that a later process in the same PCB would inherit.
OwnerIsAlive ==
  \A s \in Sem :
    /\ \A t \in Task : s \in ToSet(owned[t]) <=> sem[s].used /\ sem[s].owner = t
    /\ sem[s].used => \/ sched.state[sem[s].owner] # "ST_INVALID"
                      \/ sem[s].owner = current /\ cont[current] = "exit"

\* The flag is set only in a task that was woken by a destroy and has not returned yet,
\* so it never makes a later wait of the same task fail.
FlagMeansDestroyed ==
  \A t \in Task : sem_deleted[t] => cont[t] = "sem" /\ sched.state[t] \in {"ST_READY", "ST_RUN"}

\* How the wait of a task ended that was woken and has not returned from it.
WaitResult(t) ==
  IF cont[t] # "sem" \/ \E s \in Sem : t \in ToSet(OnQueue(s)) THEN "none"
  ELSE IF sem_deleted[t] THEN "destroyed" ELSE "signalled"

Service == INSTANCE SemaphoreService WITH
  Process   <- Task,
  Semaphore <- Sem,
  Nobody    <- NoOwner,
  owner     <- [s \in Sem |-> IF sem[s].used THEN sem[s].owner ELSE NoOwner],
  count     <- [s \in Sem |-> IF sem[s].used THEN sem[s].count ELSE 0],
  queue     <- [s \in Sem |-> OnQueue(s)],
  result    <- [t \in Task |-> WaitResult(t)]

\* The semaphores keep their promise: waits are served in their order, each unit once; a wait
\* reports failure exactly if its semaphore was destroyed, however long after it was woken it
\* runs and looks at its flag (sys.c:255); and initialising a semaphore loses no waiter.
ServiceImplemented == Service!Init /\ [][Service!Next]_(Service!vars)
=============================================================================
