----------------------------- MODULE TaskQueues -----------------------------
(***************************************************************************)
(* What the kernel takes the lists of list.c for: sequences of tasks,      *)
(* which change as ProcessTable says and not otherwise.  Waking everybody  *)
(* in a list (sys_sem_destroy) takes them out first to last.               *)
(***************************************************************************)
EXTENDS ProcessTable

VARIABLES
  queue,         \* the tasks in each list
  waking         \* the list that is being emptied

vars == <<queue, waking>>

Init ==
  /\ queue = [k \in Queue |-> <<>>]
  /\ waking = NULL

Move(t, dest, is_first) ==
  /\ waking = NULL
  /\ queue' = relink(queue, t, dest, is_first)
  /\ UNCHANGED waking

Begin(k) ==
  /\ waking = NULL
  /\ waking' = k
  /\ UNCHANGED queue

Wake ==
  /\ waking # NULL /\ queue[waking] # <<>>
  /\ queue' = relink(queue, Head(queue[waking]), "ready", FALSE)
  /\ UNCHANGED waking

End ==
  /\ waking # NULL /\ queue[waking] = <<>>
  /\ waking' = NULL
  /\ UNCHANGED queue

Next ==
  \/ \E t \in Task, dest \in Queue \cup {NULL}, is_first \in BOOLEAN : Move(t, dest, is_first)
  \/ \E k \in Queue : Begin(k)
  \/ Wake \/ End

Spec == Init /\ [][Next]_vars
=============================================================================
