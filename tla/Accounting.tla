----------------------------- MODULE Accounting -----------------------------
(***************************************************************************)
(* stats.c: for what each task used its time, which get_stats reports.     *)
(* Every handler of Kernel, with the events it reports to update_stats.    *)
(*                                                                         *)
(* get_ticks reads the time stamp counter, so time passes in user mode as  *)
(* well as in the kernel.  In the kernel it passes here between the entry  *)
(* and the first of the other events.  st.remaining_ticks is in            *)
(* ProcessTable; st.total_trans, which counts switches, is left out, and   *)
(* so are the counters of the idle task.                                   *)
(***************************************************************************)
EXTENDS Kernel

CONSTANT MaxTicks        \* bound: the time goes as far as that

ASSUME TicksAssumption == MaxTicks \in Nat

VARIABLES
  now,                   \* get_ticks()
  st                     \* the stats of each process

statVars == <<now, st>>

Process == Task \ {Idle}
Counter == {"user_ticks", "system_ticks", "blocked_ticks", "ready_ticks"}

reset_stats == [c \in Counter \cup {"elapsed_total_ticks"} |-> 0]

\* The counter an event adds the time since the last event to.
CounterOf(e) ==
  CASE e = "USER_TO_SYS"                                       -> "user_ticks"
    [] e \in {"SYS_TO_USER", "SYS_TO_READY", "SYS_TO_BLOCKED"} -> "system_ticks"
    [] e = "READY_TO_SYS"                                      -> "ready_ticks"
    [] e = "BLOCKED_TO_READY"                                  -> "blocked_ticks"

charge(s, t, counter, time) ==
  IF t = Idle THEN s ELSE
  [s EXCEPT ![t][counter] = @ + (time - s[t].elapsed_total_ticks),
            ![t].elapsed_total_ticks = time]

\* update_stats for an event at the end of a run of the kernel.
event(s, t, e) == charge(s, t, CounterOf(e), now')

AccountingInit ==
  /\ now = 0
  /\ st = [t \in Process |-> reset_stats]

-----------------------------------------------------------------------------

\* A run of the kernel takes some time.
KernelRuns == now' \in {now, now + 1} /\ now' <= MaxTicks

\* update_entering_sys.
Entered == charge(st, current, CounterOf("USER_TO_SYS"), now)

\* update_leaving_sys, if the task that has the processor now goes on in user mode.
leaving(s) == IF InterruptsEnabled' THEN event(s, sched'.current, "SYS_TO_USER") ELSE s

\* The events of sched_next_rr, and of the task it switches to.
switching(s) == leaving(event(s, sched'.current, "READY_TO_SYS"))

\* The running task goes on, or it is blocked (sys_sem_wait, block_in_read).
goingOn(s) ==
  IF sched'.current = current THEN leaving(s)
  ELSE switching(event(s, current, "SYS_TO_BLOCKED"))

\* add_process_to_scheduling for the waiters sem_signal and sem_destroy wake.
waking(s) ==
  LET woken == {t \in Task : sched.state[t] = "ST_BLOCKED" /\ sched'.state[t] = "ST_READY"}
  IN  [t \in Process |-> IF t \in woken THEN event(s, t, "BLOCKED_TO_READY")[t] ELSE s[t]]

\* A mistake: charge a task that a key preempts for nothing.
preempting_NoEvent(s) == s

\* What keyboard_routine reports of the process it preempts.
preempting(s) == event(s, current, "SYS_TO_READY")

CountClock ==
  /\ Clock /\ KernelRuns
  /\ st' = IF sched'.current = current THEN leaving(Entered)
           ELSE switching(event(Entered, current, "SYS_TO_READY"))

CountTyping ==
  /\ Typing /\ KernelRuns
  /\ st' = IF sched' = sched THEN leaving(Entered)
           ELSE switching(event(preempting(Entered), Head(OnQueue("keyboard")),
                                "BLOCKED_TO_READY"))

\* allocate_process, and FREE_TO_READY of the child of fork or clone.
starting(s) ==
  [s EXCEPT ![FreeTask(sched)] = [reset_stats EXCEPT !.elapsed_total_ticks = now']]

\* A system call of Kernel.  A process that exits reports nothing more.
CountSyscall ==
  /\ KernelRuns
  /\ \/ Create /\ st' = leaving(starting(Entered))
     \/ Leave /\ st' = Entered
     \/ \E q \in NiceQuanta : Nice(q) /\ UNCHANGED <<semVars, kbdVars>> /\ st' = leaving(Entered)
     \/ SemaphoreCall /\ UNCHANGED kbdVars /\ st' = goingOn(waking(Entered))
     \/ ReadCall /\ st' = goingOn(Entered)

CountResume ==
  /\ KernelRuns
  /\ \/ SemWaitReturn /\ UNCHANGED kbdVars /\ st' = leaving(st)
     \/ ReadResume /\ UNCHANGED semVars /\ st' = goingOn(st)
     \/ ExitDestroySem /\ UNCHANGED kbdVars /\ st' = waking(st)
     \/ ExitDone /\ st' = switching(st)

\* The case of REFRESH in update_stats.
RefreshedCounter(t) == IF sched.state[t] = "ST_READY" THEN "ready_ticks" ELSE "blocked_ticks"

\* sys_get_stats of a task that is not free: the counters of one that does not run are
\* brought up to date.
GetStats(t) ==
  /\ InSyscall /\ KernelRuns /\ UNCHANGED vars
  /\ sched.state[t] # "ST_INVALID"
  /\ st' = leaving(IF sched.state[t] \in {"ST_READY", "ST_BLOCKED"}
                   THEN charge(Entered, t, RefreshedCounter(t), now') ELSE Entered)

\* Entries to the kernel that leave all of Kernel alone, such as getpid and ignored keys.
OtherEntry ==
  /\ InterruptsEnabled /\ KernelRuns /\ UNCHANGED vars
  /\ st' = leaving(Entered)

\* Time passes in user mode, or while main() goes on to it.
UserRuns ==
  /\ InterruptsEnabled /\ now < MaxTicks
  /\ now' = now + 1
  /\ UNCHANGED <<vars, st>>

CountedInit == Init /\ AccountingInit

CountedNext ==
  \/ Boot /\ UNCHANGED statVars
  \/ CountClock \/ CountTyping \/ CountSyscall \/ CountResume \/ OtherEntry \/ UserRuns
  \/ \E t \in Process : GetStats(t)

CountedSpec == CountedInit /\ [][CountedNext]_<<vars, statVars>>

-----------------------------------------------------------------------------

Used(t) == sched.state[t] # "ST_INVALID"

\* What a task does between two runs of the kernel.
Doing(t) ==
  CASE sched.state[t] = "ST_READY"   -> "ready_ticks"
    [] sched.state[t] = "ST_BLOCKED" -> "blocked_ticks"
    [] OTHER -> IF InterruptsEnabled THEN "user_ticks" ELSE "system_ticks"

\* The time a task has spent on something, with what no event has reported yet.
Spent(t, c) == st[t][c] + (IF c = Doing(t) THEN now - st[t].elapsed_total_ticks ELSE 0)

\* The time that passes is added for every process to what it does in that time and to nothing
\* else, whichever handlers it enters and leaves the kernel through and whoever it is that
\* wakes or preempts it: no event is missing, doubled or reported too late.  A new process has
\* spent nothing, whoever had its PCB before and however late, so that what get_stats reports
\* adds up to the age of the process.
TicksGoWhereSpent ==
  [][\A t \in Process : \A c \in Counter :
       LET did == IF t = current /\ ~UserRuns THEN "system_ticks" ELSE Doing(t)
       IN  /\ Used(t) /\ Used(t)' =>
                Spent(t, c)' = Spent(t, c) + (IF c = did THEN now' - now ELSE 0)
           /\ ~Used(t) /\ Used(t)' => Spent(t, c)' = 0]_<<vars, statVars>>
=============================================================================
