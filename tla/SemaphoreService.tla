-------------------------- MODULE SemaphoreService --------------------------
(***************************************************************************)
(* What semaphores promise to programs: a wait takes a unit, or is served  *)
(* by a signal in the order of the waits, or is told that its semaphore    *)
(* was destroyed, which only the owner does.  Implemented by Semaphores,   *)
(* with its counts that are C ints, a flag in each PCB, and the processor  *)
(* and the ready queue between a wake-up and the return from a wait.       *)
(***************************************************************************)
EXTENDS Naturals, Sequences, SequencesExt

CONSTANTS Process, Semaphore, Nobody

VARIABLES
  owner,       \* of each semaphore; Nobody if it does not exist
  count,       \* its units
  queue,       \* who waits for it, the first one first
  result       \* how the wait of each process ended, until it returns

vars == <<owner, count, queue, result>>

Init ==
  /\ owner  = [s \in Semaphore |-> Nobody]
  /\ count  = [s \in Semaphore |-> 0]
  /\ queue  = [s \in Semaphore |-> <<>>]
  /\ result = [p \in Process |-> "none"]

Exists(s) == owner[s] # Nobody

\* Whoever waits for a semaphore that is created would wait for ever.
Create(p, s) ==
  /\ ~Exists(s)
  /\ owner' = [owner EXCEPT ![s] = p]
  /\ count'[s] \in Nat /\ count' = [count EXCEPT ![s] = count'[s]]
  /\ UNCHANGED <<queue, result>>

Take(s) ==
  /\ Exists(s) /\ count[s] > 0
  /\ count' = [count EXCEPT ![s] = @ - 1]
  /\ UNCHANGED <<owner, queue, result>>

Wait(p, s) ==
  /\ Exists(s) /\ count[s] = 0
  /\ queue' = [queue EXCEPT ![s] = Append(@, p)]
  /\ UNCHANGED <<owner, count, result>>

Put(s) ==
  /\ Exists(s) /\ queue[s] = <<>>
  /\ count' = [count EXCEPT ![s] = @ + 1]
  /\ UNCHANGED <<owner, queue, result>>

Signal(s) ==
  /\ Exists(s) /\ queue[s] # <<>>
  /\ queue' = [queue EXCEPT ![s] = Tail(@)]
  /\ result' = [result EXCEPT ![Head(queue[s])] = "signalled"]
  /\ UNCHANGED <<owner, count>>

Destroy(p, s) ==
  /\ owner[s] = p
  /\ owner' = [owner EXCEPT ![s] = Nobody]
  /\ count' = [count EXCEPT ![s] = 0]
  /\ queue' = [queue EXCEPT ![s] = <<>>]
  /\ result' = [q \in Process |-> IF q \in ToSet(queue[s]) THEN "destroyed" ELSE result[q]]

Return(p) ==
  /\ result[p] # "none"
  /\ result' = [result EXCEPT ![p] = "none"]
  /\ UNCHANGED <<owner, count, queue>>

Next ==
  \/ \E s \in Semaphore : Take(s) \/ Put(s) \/ Signal(s)
  \/ \E p \in Process, s \in Semaphore : Create(p, s) \/ Wait(p, s) \/ Destroy(p, s)
  \/ \E p \in Process : Return(p)

Spec == Init /\ [][Next]_vars
=============================================================================
