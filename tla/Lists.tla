-------------------------------- MODULE Lists --------------------------------
(***************************************************************************)
(* list.c and list.h: circular doubly linked lists through the anchors in  *)
(* the PCBs, as the scheduler and the semaphores use them.  What the other *)
(* modules call a sequence of tasks is here a chain of pointers.           *)
(*                                                                         *)
(* Any task may be moved at any time to any list that is initialised, or   *)
(* off its list: what the handlers do is a part of that.                   *)
(***************************************************************************)
EXTENDS Integers, Sequences

CONSTANTS
  NR_TASKS,      \* PCBs
  Sem            \* semaphores, each with a list of its own

Task  == 0 .. NR_TASKS - 1
Queue == {"free", "ready", "keyboard"} \cup Sem
None  == "none"                  \* the dest of a task that is to be in no list

ASSUME ListsAssumption ==
  /\ NR_TASKS \in Nat /\ NR_TASKS >= 4
  /\ Sem \cap {"free", "ready", "keyboard", None} = {}

Anchor(t) == <<"anchor", t>>     \* &task->anchor
ListHead(k)  == <<"head", k>>       \* the struct list_head of list k
Anchors   == {Anchor(t) : t \in Task}
Heads     == {ListHead(k) : k \in Queue}
Node      == Anchors \cup Heads
NULL      == <<"NULL">>

VARIABLES
  links,         \* next and prev of each struct list_head
  waking,        \* the list the loop of sys_sem_destroy goes through, or None
  pos, aux       \* the variables of that loop

loopVars == <<waking, pos, aux>>
vars == <<links, loopVars>>

INIT_LIST_HEAD(l, h) == [next |-> [l.next EXCEPT ![h] = h], prev |-> [l.prev EXCEPT ![h] = h]]

\* A mistake: do not tell the entry behind.
list_add_between_OneWay(l, new, before, after) ==
  [next |-> [l.next EXCEPT ![new] = after, ![before] = new],
   prev |-> [l.prev EXCEPT ![new] = before]]

\* __list_add.
list_add_between(l, new, before, after) ==
  [next |-> [l.next EXCEPT ![new] = after, ![before] = new],
   prev |-> [l.prev EXCEPT ![after] = new, ![new] = before]]

list_add(l, new, h)      == list_add_between(l, new, h, l.next[h])
list_add_tail(l, new, h) == list_add_between(l, new, l.prev[h], h)

list_del(l, entry) ==
  LET before == l.prev[entry]
      after  == l.next[entry]
  IN  [next |-> [l.next EXCEPT ![before] = after, ![entry] = NULL],
       prev |-> [l.prev EXCEPT ![after] = before, ![entry] = NULL]]

list_empty(l, h) == l.next[h] = h

\* What update_process_state does to the lists.  An anchor in no list has null pointers, from
\* the start or since list_del.
update_process_state(l, t, dest, is_first) ==
  LET a == Anchor(t)
      unlinked == IF l.next[a] # NULL /\ l.prev[a] # NULL THEN list_del(l, a) ELSE l
  IN  IF dest = None THEN unlinked
      ELSE IF is_first THEN list_add(unlinked, a, ListHead(dest))
      ELSE list_add_tail(unlinked, a, ListHead(dest))

\* When init_sched and init_keyboard have initialised their lists; a semaphore's is not yet.
Init ==
  LET heads == {ListHead(k) : k \in Queue \ Sem}
      self  == [n \in Node |-> IF n \in heads THEN n ELSE NULL]
  IN  /\ links = [next |-> self, prev |-> self]
      /\ waking = None /\ pos = NULL /\ aux = NULL

Initialised(k) == links.next[ListHead(k)] # NULL

\* A task is moved, by whichever handler.
Move(t, dest, is_first) ==
  /\ waking = None
  /\ dest # None => Initialised(dest)
  /\ links' = update_process_state(links, t, dest, is_first)
  /\ UNCHANGED loopVars

\* sys_sem_init, of a semaphore nobody waits for.
SemInit(s) ==
  /\ waking = None
  /\ Initialised(s) => list_empty(links, ListHead(s))
  /\ links' = INIT_LIST_HEAD(links, ListHead(s))
  /\ UNCHANGED loopVars

\* list_for_each_safe in sys_sem_destroy: its start, its body with its step, and its end.
DestroyBegins(s) ==
  /\ waking = None /\ Initialised(s)
  /\ waking' = s
  /\ pos' = links.next[ListHead(s)]
  /\ aux' = links.next[pos']
  /\ UNCHANGED links

\* A mistake: list_for_each, which reads the next entry after the body has moved this one, and
\* goes round the other list.
Following_Unsafe ==
  LET n == links'.next[pos] IN IF n \in Heads THEN links'.next[n] ELSE n

Following == aux

DestroyWakes ==
  /\ waking # None /\ pos # ListHead(waking)
  /\ links' = update_process_state(links, pos[2], "ready", FALSE)
  /\ pos' = Following
  /\ aux' = links'.next[pos']
  /\ UNCHANGED waking

DestroyEnds ==
  /\ waking # None /\ pos = ListHead(waking)
  /\ waking' = None /\ pos' = NULL /\ aux' = NULL
  /\ UNCHANGED links

Next ==
  \/ \E t \in Task, dest \in Queue \cup {None}, is_first \in BOOLEAN : Move(t, dest, is_first)
  \/ \E s \in Sem : SemInit(s) \/ DestroyBegins(s)
  \/ DestroyWakes \/ DestroyEnds

Spec == Init /\ [][Next]_vars

-----------------------------------------------------------------------------

\* The tasks in a list, as following the next pointers finds them.
Tasks(k) ==
  LET node[i \in 0 .. NR_TASKS] ==
        IF i = 0 THEN ListHead(k) ELSE IF node[i - 1] = NULL THEN NULL ELSE links.next[node[i - 1]]
      n == CHOOSE n \in 0 .. NR_TASKS :
             /\ \A i \in 1 .. n : node[i] \in Anchors
             /\ n < NR_TASKS => node[n + 1] \notin Anchors
  IN  [i \in 1 .. n |-> node[i][2]]

\* Wherever an entry is linked its two neighbours point back to it, and an entry that is not
\* linked has null pointers both ways, for update_process_state to tell: no sequence of moves
\* corrupts a list.
LinksAgree ==
  \A n \in Node :
    /\ links.next[n] # NULL <=> links.prev[n] # NULL
    /\ links.next[n] # NULL => links.prev[links.next[n]] = n /\ links.next[links.prev[n]] = n

Queues == INSTANCE TaskQueues WITH
  DEFAULT_QUANTUM <- 1, queue <- [k \in Queue |-> Tasks(k)]

\* The lists are sequences of tasks, the functions do to them what ProcessTable says, and the
\* loop that wakes the waiters of a semaphore wakes all of them in their order, although it
\* moves the entry it stands on to another list.
ListsAreSequences == Queues!Spec
=============================================================================
