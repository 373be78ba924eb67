---------------------------- MODULE AddressSpaces ----------------------------
(***************************************************************************)
(* What a program is promised about memory: each process has a memory of   *)
(* its own, which its threads have in common.  A fork copies; what is      *)
(* written while a task runs is written in the memory of that task, and    *)
(* seen nowhere else.  There are no frames here, and nothing is shared     *)
(* between processes.                                                      *)
(***************************************************************************)
EXTENDS Naturals

CONSTANTS Task, Idle, Task1,
          Space, NoSpace,   \* names of memories
          Page, Data,       \* pages; those that every process has
          Value

VARIABLES
  home,     \* the memory of each task
  space,    \* the pages of each memory, and what is in them
  current   \* the task that runs

Users(s) == {t \in Task : home[t] = s}
Empty    == [p \in {} |-> 0]

\* m with other pages: those n has too keep their contents.
Agree(m, n) == \A p \in DOMAIN m \cap DOMAIN n : n[p] = m[p]

\* At most one page of m is written.
OneWritten(m, n) == \E p \in DOMAIN m, v \in Value : n = [m EXCEPT ![p] = v]

Init ==
  /\ home[Task1] \in Space /\ home[Task1] # home[Idle]
  /\ \A t \in Task \ {Idle, Task1} : home[t] = NoSpace
  /\ space = [s \in Space |-> IF s = home[Task1] THEN [p \in Data |-> 0] ELSE Empty]
  /\ current = Task1

\* Only the memory s changes.
Only(s) == space' = [space EXCEPT ![s] = space'[s]]

Write(t) ==
  /\ OneWritten(space[home[t]], space'[home[t]])
  /\ Only(home[t])
  /\ UNCHANGED home

\* The child gets the data, and possibly other pages.
Fork(t, child) ==
  /\ home[child] = NoSpace
  /\ \E s \in Space :
       /\ Users(s) = {}
       /\ home' = [home EXCEPT ![child] = s]
       /\ Data \subseteq DOMAIN space'[s] /\ DOMAIN space'[s] \subseteq DOMAIN space[home[t]]
       /\ Agree(space[home[t]], space'[s])
       /\ Only(s)

\* The stack of the new thread is written.
Clone(t, thread) ==
  /\ home[thread] = NoSpace
  /\ home' = [home EXCEPT ![thread] = home[t]]
  /\ OneWritten(space[home[t]], space'[home[t]])
  /\ Only(home[t])

\* All pages go with the last thread, and before those a thread had for itself.
Exit(t) ==
  /\ home' = [home EXCEPT ![t] = NoSpace]
  /\ LET s == home[t]
     IN  IF Users(s) = {t}
         THEN space' = [space EXCEPT ![s] = Empty]
         ELSE /\ Data \subseteq DOMAIN space'[s] /\ DOMAIN space'[s] \subseteq DOMAIN space[s]
              /\ Agree(space[s], space'[s])
              /\ Only(s)

\* sbrk: what new pages contain is not promised.
Resize(t) ==
  /\ Data \subseteq DOMAIN space'[home[t]]
  /\ Agree(space[home[t]], space'[home[t]])
  /\ Only(home[t])
  /\ UNCHANGED home

\* Only the task that runs, unless it is the idle task or has left its memory, does something.
Step ==
  /\ current # Idle /\ home[current] # NoSpace
  /\ \/ Write(current) \/ Exit(current) \/ Resize(current)
     \/ \E u \in Task : Fork(current, u) \/ Clone(current, u)

\* After anything, and after nothing, another task may run, if it has a memory.
Dispatch == current' = current \/ current' \in {t \in Task : home'[t] # NoSpace}

Next == (Step \/ UNCHANGED <<home, space>>) /\ Dispatch

Spec == Init /\ [][Next]_<<home, space, current>>
=============================================================================
