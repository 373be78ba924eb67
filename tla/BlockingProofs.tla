--------------------------- MODULE BlockingProofs ---------------------------
(***************************************************************************)
(* The system calls that block, for every number of tasks, semaphores and  *)
(* slots of the buffer.                                                    *)
(*                                                                         *)
(* The semaphores: who owns them, what the flag of a destroyed one means,  *)
(* and that they implement the module SemaphoreService.                    *)
(*                                                                         *)
(* The keyboard: no key is lost or read twice, one read is in progress at  *)
(* a time, the countdown belongs to the reader it wakes, and the readers   *)
(* are given the keys in the order of their calls (module KeyStream).      *)
(***************************************************************************)
EXTENDS KernelProofs

-----------------------------------------------------------------------------
(* Who stays: processes, and tasks in the ready queue. *)

\* Only who leaves the processor for good no longer exists afterwards.
LEMMA NobodyDies ==
  ASSUME Core, Core', KernelStep
  PROVE  /\ Living \ {current} \subseteq Living'
         /\ ~LeavesForGood => Living \subseteq Living'
<1>0. /\ current \in Task /\ current = sched.current /\ cont \in [Task -> Continuation] /\ Sane(sched)
      /\ "ready" \in Queue /\ "free" \in Queue /\ "keyboard" \in Queue
      /\ \A s \in Sem : s \in Queue \ {"ready", "free", "keyboard"}
      /\ current' = sched'.current
  BY CurrentUnlinked, QueueNames DEF current
<1>1. ASSUME ToSet(sched'.queue["free"]) \subseteq ToSet(sched.queue["free"])
      PROVE  Living \ {current} \subseteq Living'
  BY <1>1 DEF Living, OnQueue
<1>2. ASSUME ToSet(sched'.queue["free"]) \subseteq ToSet(sched.queue["free"]),
             \/ cont[current] # "exit"
             \/ current' = current /\ cont'[current] = cont[current]
      PROVE  Living \subseteq Living'
  BY <1>1, <1>2 DEF Living, OnQueue
<1>3. ASSUME NEW k \in Queue \ {"free"}, NEW new, Adds(sched, sched', k, new)
      PROVE  ToSet(sched'.queue["free"]) \subseteq ToSet(sched.queue["free"])
  BY <1>0, <1>3 DEF Adds
<1>4. CASE Boots
  <2>1. sched'.queue = sched.queue
    BY <1>4, InitialLists DEF Boots, ProcessTable
  <2> QED BY <1>1, <1>2, <1>4, <2>1 DEF Boots
<1>5. CASE Stays
  <2>1. sched'.queue = sched.queue /\ current' = current
    BY <1>0, <1>5 DEF Stays
  <2>2. cont[current] # "exit" \/ cont' = cont
    BY <1>5 DEF Stays, NotResumable
  <2> QED BY <1>1, <1>2, <2>1, <2>2
<1>6. CASE RotatesOut
  <2>1. cont[current] # "exit" /\ Adds(sched, sched', "ready", {current})
    BY <1>0, <1>6, RotatesAdds DEF RotatesOut
  <2> QED BY <1>0, <1>1, <1>2, <1>3, <2>1
<1>7. CASE IsPreempted
  <2>1. cont[current] # "exit" /\ Adds(sched, sched', "ready", {current} \ {Idle})
    BY <1>0, <1>7, PreemptsAdds DEF IsPreempted
  <2> QED BY <1>0, <1>1, <1>2, <1>3, <2>1
<1>8. ASSUME NEW k \in Queue \ {"ready", "free"}, NEW is_first \in BOOLEAN, NEW c,
             Sleeps(k, is_first, c)
      PROVE  Living \subseteq Living'
  <2>1. cont[current] # "exit" /\ Adds(sched, sched', k, {current})
    BY <1>0, <1>8, BlocksAdds DEF Sleeps, NotResumable
  <2> QED BY <1>0, <1>2, <1>3, <2>1
<1>9. CASE Exits
  <2>1. /\ ToSet(sched'.queue["free"]) = ToSet(sched.queue["free"]) \cup {current}
        /\ current' = current /\ cont'[current] = "exit" /\ cont[current] = "user"
    BY <1>0, <1>9, ExitsAdds DEF Exits, SameTicks, SameFields, GoesOn
  <2> QED BY <2>1 DEF Living, OnQueue
<1>10. CASE LeavesForGood
  <2>1. Adds(sched, sched', "ready", {})
    BY <1>0, <1>10, DispatchesAdds DEF LeavesForGood
  <2> QED BY <1>0, <1>1, <1>3, <1>10, <2>1
<1>11. ASSUME NEW s \in Sem, WakesFirst(s) PROVE Living \subseteq Living'
  <2>1. cont[current] # "exit" /\ Adds(sched, sched', "ready", ToSet(OnQueue(s)))
    BY <1>0, <1>11, WakesAdds DEF WakesFirst, OnQueue
  <2> QED BY <1>0, <1>2, <1>3, <2>1
<1>12. ASSUME NEW s \in Sem, WakesAll(s) PROVE Living \subseteq Living'
  <2>1. cont' = cont /\ Adds(sched, sched', "ready", ToSet(sched.queue[s]))
    BY <1>0, <1>12, WakeAllAdds DEF WakesAll
  <2>2. current' = current
    BY <1>0, <1>12, WakeAllSituation DEF WakesAll
  <2> QED BY <1>0, <1>2, <1>3, <2>1, <2>2
<1>13. CASE Creates
  <2>1. Living \subseteq Living'
    BY <1>13, OneAppears
  <2> QED BY <2>1
<1>14. ASSUME NEW s \in Sem, Sleeps(s, FALSE, "sem") PROVE Living \subseteq Living'
  BY <1>0, <1>8, <1>14
<1>15. CASE Sleeps("keyboard", FALSE, "read0") \/ Sleeps("keyboard", TRUE, "read1")
  <2>1. "keyboard" \in Queue \ {"ready", "free"}
    BY <1>0
  <2>2. Living \subseteq Living'
    BY <1>8, <1>15, <2>1
  <2> QED BY <2>2
<1> QED BY <1>4, <1>5, <1>6, <1>7, <1>9, <1>10, <1>11, <1>12, <1>13, <1>14, <1>15 DEF KernelStep

\* A ready task stays ready until it runs.
LEMMA ReadyStays ==
  ASSUME Core, KernelStep, NEW t \in ToSet(OnQueue("ready"))
  PROVE  t \in ToSet(sched'.queue["ready"]) \/ t = sched'.current
<1> DEFINE ready == sched.queue["ready"]
<1>0. /\ current \in Task /\ current = sched.current /\ sched \in ProcessTable /\ Sane(sched)
      /\ sched.queue \in [Queue -> Seq(Task)] /\ ready \in Seq(Task) /\ t \in ToSet(ready)
      /\ "ready" \in Queue /\ "free" \in Queue /\ "keyboard" \in Queue
      /\ \A s \in Sem : s \in Queue \ {"ready", "free", "keyboard"}
  BY CurrentUnlinked, SaneFields, QueueNames DEF OnQueue
<1>1. ready # <<>> /\ ToSet(ready) = {Head(ready)} \cup ToSet(Tail(ready))
  <2>1. ready # <<>>
    BY <1>0, MembersType
  <2> QED BY <1>0, <2>1, TailMembers
<1>2. ASSUME NEW p, NEW r, r.queue["ready"] = Others(p.queue["ready"]), r.current = NextTask(p),
             p.queue["ready"] = ready
      PROVE  t \in ToSet(r.queue["ready"]) \/ t = r.current
  BY <1>0, <1>1, <1>2 DEF Others, NextTask
<1>3. ASSUME NEW e \in Task
      PROVE  LET both == Append(ready, e)
             IN  t \in ToSet(both) /\ (t = Head(both) \/ t \in ToSet(Tail(both)))
  <2> DEFINE both == Append(ready, e)
  <2>1. both \in Seq(Task) /\ both # <<>> /\ ToSet(both) = ToSet(ready) \cup {e}
    <3>1. ready \in Seq(Task)
      BY <1>0
    <3> HIDE DEF ready
    <3> QED BY <3>1, AppendMembers
  <2> HIDE DEF both
  <2>2. ToSet(both) = {Head(both)} \cup ToSet(Tail(both))
    BY <2>1, TailMembers
  <2>3. t \in ToSet(both) /\ (t = Head(both) \/ t \in ToSet(Tail(both)))
    BY <1>0, <2>1, <2>2
  <2> QED BY <2>3 DEF both
<1>4. CASE Boots
  BY <1>0, <1>4 DEF Boots, ProcessTable
<1>5. CASE Stays
  BY <1>0, <1>5 DEF Stays
<1>6. CASE RotatesOut
  <2> DEFINE both == Append(ready, current)
  <2>1. t = Head(both) \/ t \in ToSet(Tail(both))
    BY <1>0, <1>3
  <2>2. sched'.queue["ready"] = Tail(both) /\ sched'.current = Head(both)
    BY <1>0, <1>6 DEF RotatesOut, Rotates
  <2> QED BY <2>1, <2>2
<1>7. CASE IsPreempted
  <2> DEFINE both == Append(ready, current)
  <2>1. t \in ToSet(both)
    BY <1>0, <1>3
  <2>2. sched'.queue["ready"] = both \/ sched'.queue["ready"] = ready
    BY <1>0, <1>7 DEF IsPreempted, Preempts
  <2> QED BY <1>0, <2>1, <2>2
<1>8. ASSUME NEW k \in Queue \ {"ready"}, NEW is_first, NEW c, Sleeps(k, is_first, c)
      PROVE  t \in ToSet(sched'.queue["ready"]) \/ t = sched'.current
  <2>1. sched'.queue["ready"] = Others(ready) /\ sched'.current = NextTask(sched)
    BY <1>0, <1>8 DEF Sleeps, Blocks
  <2> QED BY <1>2, <2>1
<1>9. CASE Exits
  BY <1>0, <1>9 DEF Exits
<1>10. CASE LeavesForGood
  <2>1. sched'.queue["ready"] = Others(ready) /\ sched'.current = NextTask(sched)
    BY <1>0, <1>10 DEF LeavesForGood, Dispatches
  <2> QED BY <1>2, <2>1
<1>11. ASSUME NEW s \in Sem, WakesFirst(s) PROVE t \in ToSet(sched'.queue["ready"])
  <2> DEFINE u == Head(sched.queue[s])
             both == Append(ready, u)
  <2>1. u \in Task
    <3>1. sched.queue[s] \in Seq(Task) /\ sched.queue[s] # <<>>
      BY <1>0, <1>11 DEF WakesFirst
    <3> QED BY <3>1, MembersType
  <2>2. sched'.queue["ready"] = both
    BY <1>0, <1>11 DEF WakesFirst, Wakes
  <2> HIDE DEF u
  <2> QED BY <1>3, <2>1, <2>2
<1>12. ASSUME NEW s \in Sem, WakesAll(s) PROVE t \in ToSet(sched'.queue["ready"])
  <2>1. ToSet(WakeAll(sched, s).queue["ready"]) = ToSet(ready) \cup ToSet(sched.queue[s])
    BY <1>0, WakeAllLists
  <2> QED BY <1>0, <1>12, <2>1 DEF WakesAll
<1>13. CASE Creates
  <2> DEFINE u == FreeTask(sched)
             both == Append(ready, u)
  <2>1. u \in Task
    BY <1>0, <1>13, SpawnsAdds DEF Creates
  <2>2. sched'.queue["ready"] = both
    BY <1>0, <1>13 DEF Creates, Spawns
  <2> HIDE DEF u
  <2> QED BY <1>3, <2>1, <2>2
<1>14. ASSUME NEW s \in Sem, Sleeps(s, FALSE, "sem")
       PROVE  t \in ToSet(sched'.queue["ready"]) \/ t = sched'.current
  BY <1>0, <1>8, <1>14
<1>15. CASE Sleeps("keyboard", FALSE, "read0") \/ Sleeps("keyboard", TRUE, "read1")
  <2>1. "keyboard" \in Queue \ {"ready"}
    BY <1>0
  <2> QED BY <1>8, <1>15, <2>1
<1> QED BY <1>4, <1>5, <1>6, <1>7, <1>9, <1>10, <1>11, <1>12, <1>13, <1>14, <1>15 DEF KernelStep

-----------------------------------------------------------------------------
(* The steps of the kernel as the semaphores see them. *)

\* No waiter moves, and no semaphore changes.
QuietStep ==
  /\ UNCHANGED semVars
  /\ \/ Boots
     \/ Stays /\ (cont[current] = "sem" => cont' = cont)
     \/ RotatesOut
     \/ IsPreempted
     \/ Sleeps("keyboard", FALSE, "read0")
     \/ Sleeps("keyboard", TRUE, "read1")
     \/ Exits
     \/ LeavesForGood /\ owned[current] = <<>>

SemaphoreStep ==
  \/ QuietStep
  \/ Creates /\ SemaphoresOnSpawn
  \/ \E s \in Sem, value \in InitValues : SemInit(s, value) /\ sched' = sched
  \/ \E s \in Sem : SemWait(s) /\ (MustWait(s) => Sleeps(s, FALSE, "sem"))
  \/ \E s \in Sem : SemSignal(s) /\ (sched.queue[s] # <<>> => WakesFirst(s))
  \/ \E s \in Sem : DestroySemaphore(s) /\ WakesAll(s)
  \/ SemWaitReturn

LEMMA SemaphoreSteps ==
  ASSUME Inv, [Next]_vars
  PROVE  SemaphoreStep
<1>0. Core /\ WaitersOnlyAtZero /\ SemaphoresTypeOK
  BY DEF Inv
<1>1. CASE Boot
  <2>1. Boots /\ UNCHANGED semVars
    BY <1>0, <1>1, ReturnGateEffect DEF Boot
  <2> QED BY <2>1 DEF SemaphoreStep, QuietStep
<1>2. CASE Clock
  <2>1. (Stays \/ RotatesOut) /\ UNCHANGED semVars /\ cont[current] # "sem"
    BY <1>0, <1>2, ClockEffect DEF Clock, ClockTick, InterruptsEnabled
  <2> QED BY <2>1 DEF SemaphoreStep, QuietStep
<1>3. CASE Typing
  <2>1. (Stays \/ IsPreempted) /\ UNCHANGED semVars /\ cont[current] # "sem"
    BY <1>0, <1>3, KeyboardIrqEffect DEF Typing, KeyboardIrq, InterruptsEnabled
  <2> QED BY <2>1 DEF SemaphoreStep, QuietStep
<1>4. CASE UNCHANGED vars
  <2>1. Stays /\ UNCHANGED semVars /\ cont' = cont
    BY <1>4, UnchangedEffect DEF vars, schedVars
  <2> QED BY <2>1 DEF SemaphoreStep, QuietStep
<1>5. CASE Syscall
  <2>1. CASE Create
    <3>1. Creates /\ SemaphoresOnSpawn
      BY <1>0, <2>1, SpawnEffect DEF Create
    <3> QED BY <3>1 DEF SemaphoreStep
  <2>2. CASE Leave
    <3>1. Exits /\ UNCHANGED semVars
      BY <1>0, <2>2, SysExitEffect DEF Leave
    <3> QED BY <3>1 DEF SemaphoreStep, QuietStep
  <2>3. ASSUME NEW q \in NiceQuanta, Nice(q), UNCHANGED semVars PROVE SemaphoreStep
    <3>1. Stays /\ cont[current] # "sem"
      BY <1>0, <2>3, NiceEffect DEF Nice, InSyscall
    <3> QED BY <2>3, <3>1 DEF SemaphoreStep, QuietStep
  <2>4. ASSUME NEW s \in Sem, NEW value \in InitValues, SemInit(s, value) PROVE SemaphoreStep
    <3>1. sched' = sched
      BY <1>0, <2>4, SemInitCore
    <3> QED BY <2>4, <3>1 DEF SemaphoreStep
  <2>5. ASSUME NEW s \in Sem, SemWait(s) PROVE SemaphoreStep
    BY <1>0, <2>5, SemWaitEffect DEF SemaphoreStep
  <2>6. ASSUME NEW s \in Sem, SemSignal(s) PROVE SemaphoreStep
    BY <1>0, <2>6, SemSignalEffect DEF SemaphoreStep
  <2>7. ASSUME NEW s \in Sem, SemDestroy(s) PROVE SemaphoreStep
    <3>1. DestroySemaphore(s) /\ WakesAll(s)
      BY <1>0, <2>7, DestroyEffect DEF SemDestroy, InSyscall
    <3> QED BY <3>1 DEF SemaphoreStep
  <2>8. ASSUME NEW size \in ReadSizes, SysRead(size), UNCHANGED semVars PROVE SemaphoreStep
    <3>1. /\ Stays \/ Sleeps("keyboard", FALSE, "read0") \/ Sleeps("keyboard", TRUE, "read1")
          /\ cont[current] # "sem"
      BY <1>0, <2>8, SysReadEffect DEF SysRead, InSyscall
    <3> QED BY <2>8, <3>1 DEF SemaphoreStep, QuietStep
  <2> QED BY <1>5, <2>1, <2>2, <2>3, <2>4, <2>5, <2>6, <2>7, <2>8 DEF Syscall, SemaphoreCall, ReadCall
<1>6. CASE Resume
  <2>1. CASE SemWaitReturn
    BY <2>1 DEF SemaphoreStep
  <2>2. CASE ReadResume /\ UNCHANGED semVars
    <3>1. (Stays \/ Sleeps("keyboard", TRUE, "read1")) /\ cont[current] # "sem"
      BY <1>0, <2>2, ReadResumeEffect DEF ReadResume
    <3> QED BY <2>2, <3>1 DEF SemaphoreStep, QuietStep
  <2>3. CASE ExitDestroySem
    <3> DEFINE s == Head(owned[current])
    <3>1. s \in Sem
      <4>1. owned[current] \in Seq(Sem) /\ owned[current] # <<>>
        BY <1>0, <2>3, CoreTask DEF SemaphoresTypeOK, ExitDestroySem
      <4> QED BY <4>1, MembersType
    <3>2. DestroySemaphore(s) /\ WakesAll(s)
      BY <2>3, <3>1, DestroyEffect DEF ExitDestroySem
    <3> HIDE DEF s
    <3> QED BY <3>1, <3>2 DEF SemaphoreStep
  <2>4. CASE ExitDone
    <3>1. LeavesForGood /\ owned[current] = <<>> /\ UNCHANGED semVars
      BY <1>0, <2>4, ExitSwitchEffect DEF ExitDone
    <3> QED BY <3>1 DEF SemaphoreStep, QuietStep
  <2> QED BY <1>6, <2>1, <2>2, <2>3, <2>4 DEF Resume
<1> QED BY <1>1, <1>2, <1>3, <1>4, <1>5, <1>6 DEF Next

-----------------------------------------------------------------------------
(* Who owns the semaphores. *)

ListsAreOfOwners ==
  \A t \in Task : /\ IsInjective(owned[t])
                  /\ \A s \in Sem : s \in ToSet(owned[t]) <=> sem[s].used /\ sem[s].owner = t

OwnersLive == \A s \in Sem : sem[s].used => sem[s].owner \in Living \ {Idle}

Ownership == ListsAreOfOwners /\ OwnersLive

LEMMA OwnershipInit == ASSUME Init PROVE Ownership
<1>1. ToSet(<<>>) = {} /\ IsInjective(<<>>)
  BY DEF ToSet, IsInjective
<1> QED BY <1>1 DEF Init, SemaphoresInit, Ownership, ListsAreOfOwners, OwnersLive

\* The process that destroys a semaphore is its owner, as PIDs are unique.
LEMMA DestroyerOwns ==
  ASSUME Core, PIDsUnique, Ownership, NEW s \in Sem, DestroySemaphore(s),
         cont[current] \in {"user", "exit"}
  PROVE  sem[s].owner = current /\ sem[s].used
<1>1. current \in Living
  BY LivingMembers
<1>2. sem[s].used /\ sched.PID[current] = sched.PID[sem[s].owner]
  BY DEF DestroySemaphore
<1>3. sem[s].owner \in Living
  BY <1>2 DEF Ownership, OwnersLive
<1> QED BY <1>1, <1>2, <1>3 DEF PIDsUnique

\* A list with nobody in it is empty.
LEMMA OwnsNothing ==
  ASSUME SemaphoresTypeOK, NEW t \in Task
  PROVE  ToSet(owned[t]) = {} <=> owned[t] = <<>>
BY MembersType DEF SemaphoresTypeOK

LEMMA OwnershipKept ==
  ASSUME Inv, Inv', PIDsUnique, Ownership, KernelStep, SemaphoreStep
  PROVE  Ownership'
<1>0. /\ Core /\ Core' /\ SemaphoresTypeOK /\ ListsAreOfOwners /\ OwnersLive
      /\ current \in Task /\ current = sched.current /\ sem \in [Sem -> Semaphore]
      /\ owned \in [Task -> Seq(Sem)]
  BY CoreTask DEF Inv, Ownership, SemaphoresTypeOK, current
<1>1. ASSUME owned' = owned, \A s \in Sem : sem'[s].used = sem[s].used /\ sem'[s].owner = sem[s].owner,
             LeavesForGood => owned[current] = <<>>
      PROVE  Ownership'
  <2>1. ListsAreOfOwners'
    BY <1>0, <1>1 DEF ListsAreOfOwners
  <2>2. ASSUME NEW s \in Sem, sem[s].used PROVE sem[s].owner \in Living' \ {Idle}
    <3>1. sem[s].owner \in Living \ {Idle}
      BY <1>0, <2>2 DEF OwnersLive
    <3>2. CASE LeavesForGood
      <4>1. ToSet(owned[current]) = {}
        BY <1>0, <1>1, <3>2, OwnsNothing
      <4>2. sem[s].owner # current
        BY <1>0, <2>2, <4>1 DEF ListsAreOfOwners
      <4> QED BY <1>0, <3>1, <4>2, NobodyDies
    <3>3. CASE ~LeavesForGood
      BY <1>0, <3>1, <3>3, NobodyDies
    <3> QED BY <3>2, <3>3
  <2>3. OwnersLive'
    BY <1>1, <2>2 DEF OwnersLive
  <2> QED BY <2>1, <2>3 DEF Ownership
<1>2. CASE QuietStep
  <2>1. owned' = owned /\ sem' = sem
    BY <1>2 DEF QuietStep, semVars
  <2>2. ASSUME LeavesForGood PROVE owned[current] = <<>>
    <3>1. cont[current] = "exit" /\ cont' # cont
      BY <1>0, <2>2 DEF LeavesForGood, GoesOn, Core, SchedulerTypeOK
    <3>2. ~Boots /\ ~RotatesOut /\ ~IsPreempted /\ ~Exits
      BY <3>1 DEF Boots, RotatesOut, IsPreempted, Exits
    <3>3. ~Stays
      BY <3>1 DEF Stays, NotResumable
    <3>4. ~Sleeps("keyboard", FALSE, "read0") /\ ~Sleeps("keyboard", TRUE, "read1")
      BY <3>1 DEF Sleeps, NotResumable
    <3> QED BY <1>2, <3>2, <3>3, <3>4 DEF QuietStep
  <2> QED BY <1>1, <2>1, <2>2
<1>3. CASE Creates /\ SemaphoresOnSpawn
  <2> DEFINE t == FreeTask(sched)
  <2>1. t \in Task \ Living
    BY <1>0, <1>3, OneAppears
  <2>2. owned' = [owned EXCEPT ![t] = <<>>] /\ sem' = sem
    BY <1>3 DEF SemaphoresOnSpawn
  <2> HIDE DEF t
  <2>3. ToSet(owned[t]) = {}
    <3>1. \A s \in Sem : s \notin ToSet(owned[t])
      BY <1>0, <2>1 DEF ListsAreOfOwners, OwnersLive
    <3>2. ToSet(owned[t]) \subseteq Sem
      BY <1>0, <2>1, MembersType
    <3> QED BY <3>1, <3>2
  <2>4. owned[t] = <<>>
    BY <1>0, <2>1, <2>3, OwnsNothing
  <2>5. owned' = owned
    BY <1>0, <2>1, <2>2, <2>4
  <2>6. ~LeavesForGood
    BY <1>3 DEF LeavesForGood, Creates
  <2> QED BY <1>1, <2>2, <2>5, <2>6
<1>4. ASSUME NEW s \in Sem, NEW value \in InitValues, SemInit(s, value), sched' = sched
      PROVE  Ownership'
  <2> DEFINE list == <<s>> \o owned[current]
             new == [used |-> TRUE, count |-> ToInt(value), owner |-> current]
  <2>1. /\ ~sem[s].used /\ current # Idle /\ cont[current] = "user"
        /\ sem' = [sem EXCEPT ![s] = new] /\ owned' = [owned EXCEPT ![current] = list]
        /\ cont' = cont /\ current' = current
    BY <1>4 DEF SemInit, Available, InSyscall, current
  <2>2. new.used /\ new.owner = current
    OBVIOUS
  <2>3. /\ list \in Seq(Sem) /\ ToSet(list) = {s} \cup ToSet(owned[current]) /\ IsInjective(list)
    <3> DEFINE one == <<s>>
    <3>1. one \in Seq(Sem) /\ ToSet(one) = {s} /\ IsInjective(one)
      BY SingletonSeq
    <3>2. owned[current] \in Seq(Sem) /\ IsInjective(owned[current]) /\ s \notin ToSet(owned[current])
      BY <1>0, <2>1 DEF ListsAreOfOwners
    <3>3. list = one \o owned[current]
      OBVIOUS
    <3> HIDE DEF one, list
    <3>4. ToSet(one) \cap ToSet(owned[current]) = {}
      BY <3>1, <3>2
    <3> QED BY <3>1, <3>2, <3>3, <3>4, ConcatMembers
  <2> HIDE DEF list, new
  <2>4. /\ sem'[s].used /\ sem'[s].owner = current
        /\ \A z \in Sem \ {s} : sem'[z] = sem[z]
        /\ owned'[current] = list /\ \A t \in Task \ {current} : owned'[t] = owned[t]
    BY <1>0, <2>1, <2>2
  <2>5. ListsAreOfOwners'
    <3>1. SUFFICES ASSUME NEW t \in Task
                   PROVE  /\ IsInjective(owned'[t])
                          /\ \A z \in Sem : z \in ToSet(owned'[t]) <=> sem'[z].used /\ sem'[z].owner = t
      BY DEF ListsAreOfOwners
    <3>2. /\ IsInjective(owned[t])
          /\ \A z \in Sem : z \in ToSet(owned[t]) <=> sem[z].used /\ sem[z].owner = t
      BY <1>0 DEF ListsAreOfOwners
    <3>3. CASE t = current
      BY <2>3, <2>4, <3>2, <3>3
    <3>4. CASE t # current
      <4>1. owned'[t] = owned[t] /\ s \notin ToSet(owned[t])
        BY <2>1, <2>4, <3>2, <3>4
      <4> QED BY <2>4, <3>2, <3>4, <4>1
    <3> QED BY <3>3, <3>4
  <2>6. current \in Living /\ Living' = Living
    BY <1>0, <1>4, <2>1, LivingMembers DEF Living, OnQueue
  <2>7. OwnersLive'
    BY <1>0, <2>1, <2>4, <2>6 DEF OwnersLive
  <2> QED BY <2>5, <2>7 DEF Ownership
<1>5. ASSUME NEW s \in Sem, NEW c, sem' = sem \/ sem' = [sem EXCEPT ![s].count = c], owned' = owned,
             cont[current] # "exit"
      PROVE  Ownership'
  <2>1. \A z \in Sem : sem'[z].used = sem[z].used /\ sem'[z].owner = sem[z].owner
    <3>1. CASE sem' = sem
      BY <3>1
    <3>2. CASE sem' = [sem EXCEPT ![s].count = c]
      <4>1. sem'[s] = [sem[s] EXCEPT !.count = c] /\ sem[s] \in Semaphore
            /\ \A z \in Sem \ {s} : sem'[z] = sem[z]
        BY <1>0, <3>2
      <4>2. sem'[s].used = sem[s].used /\ sem'[s].owner = sem[s].owner
        BY <4>1 DEF Semaphore
      <4> QED BY <4>1, <4>2
    <3> QED BY <1>5, <3>1, <3>2
  <2> QED BY <1>1, <1>5, <2>1 DEF LeavesForGood
<1>6. ASSUME NEW s \in Sem, SemWait(s) PROVE Ownership'
  <2>1. sem' = sem \/ sem' = [sem EXCEPT ![s].count = Decrement(sem[s].count)]
    BY <1>6 DEF SemWait
  <2>2. owned' = owned /\ cont[current] # "exit"
    BY <1>6 DEF SemWait, InSyscall
  <2> QED BY <1>5, <2>1, <2>2
<1>7. ASSUME NEW s \in Sem, SemSignal(s) PROVE Ownership'
  <2>1. sem' = sem \/ sem' = [sem EXCEPT ![s].count = sem[s].count + 1]
    BY <1>7 DEF SemSignal
  <2>2. owned' = owned /\ cont[current] # "exit"
    BY <1>7 DEF SemSignal, InSyscall
  <2> QED BY <1>5, <2>1, <2>2
<1>8. CASE SemWaitReturn
  <2>1. owned' = owned /\ sem' = sem /\ cont[current] # "exit"
    BY <1>8 DEF SemWaitReturn
  <2> QED BY <1>1, <2>1 DEF LeavesForGood
<1>9. ASSUME NEW s \in Sem, DestroySemaphore(s), WakesAll(s) PROVE Ownership'
  <2> DEFINE list == RemoveFirst(owned[current], s)
  <2>1. sem[s].owner = current /\ cont[current] \in {"user", "exit"}
    BY <1>0, <1>9, DestroyerOwns DEF WakesAll
  <2>2. sem' = [sem EXCEPT ![s].used = FALSE] /\ owned' = [owned EXCEPT ![current] = list]
    BY <1>9, <2>1 DEF DestroySemaphore
  <2>3. IsInjective(list) /\ ToSet(list) = ToSet(owned[current]) \ {s}
    <3>1. owned[current] \in Seq(Sem) /\ IsInjective(owned[current])
      BY <1>0 DEF ListsAreOfOwners
    <3> QED BY <3>1, RemoveFirstMembers
  <2> HIDE DEF list
  <2>4. /\ ~sem'[s].used
        /\ \A z \in Sem \ {s} : sem'[z] = sem[z]
        /\ owned'[current] = list /\ \A t \in Task \ {current} : owned'[t] = owned[t]
    <3>1. sem'[s] = [sem[s] EXCEPT !.used = FALSE] /\ sem[s] \in Semaphore
      BY <1>0, <2>2
    <3>2. ~sem'[s].used
      BY <3>1 DEF Semaphore
    <3> QED BY <1>0, <2>2, <3>2
  <2>5. ListsAreOfOwners'
    <3>1. SUFFICES ASSUME NEW t \in Task
                   PROVE  /\ IsInjective(owned'[t])
                          /\ \A z \in Sem : z \in ToSet(owned'[t]) <=> sem'[z].used /\ sem'[z].owner = t
      BY DEF ListsAreOfOwners
    <3>2. /\ IsInjective(owned[t])
          /\ \A z \in Sem : z \in ToSet(owned[t]) <=> sem[z].used /\ sem[z].owner = t
      BY <1>0 DEF ListsAreOfOwners
    <3>3. CASE t = current
      BY <2>3, <2>4, <3>2, <3>3
    <3>4. CASE t # current
      <4>1. owned'[t] = owned[t] /\ s \notin ToSet(owned[t])
        BY <2>1, <2>4, <3>2, <3>4
      <4> QED BY <2>4, <3>2, <3>4, <4>1
    <3> QED BY <3>3, <3>4
  <2>6. Living \subseteq Living'
    <3>1. ~LeavesForGood
      <4>1. SUFFICES ASSUME LeavesForGood PROVE FALSE
        OBVIOUS
      <4>2. cont' = cont /\ cont' = [cont EXCEPT ![current] = "none"] /\ cont[current] = "exit"
            /\ cont \in [Task -> Continuation]
        BY <1>0, <1>9, <4>1 DEF WakesAll, LeavesForGood, GoesOn, Core, SchedulerTypeOK
      <4> QED BY <1>0, <4>2
    <3> QED BY <1>0, <3>1, NobodyDies
  <2>7. OwnersLive'
    BY <1>0, <2>4, <2>6 DEF OwnersLive
  <2> QED BY <2>5, <2>7 DEF Ownership
<1> QED BY <1>2, <1>3, <1>4, <1>6, <1>7, <1>8, <1>9 DEF SemaphoreStep

-----------------------------------------------------------------------------
(* The flag a destroyed semaphore leaves in its waiters. *)

Flags == \A t \in Task : sem_deleted[t] => /\ cont[t] = "sem"
                                           /\ t = current \/ t \in ToSet(OnQueue("ready"))

LEMMA FlagsInit == ASSUME Init PROVE Flags
BY DEF Init, SemaphoresInit, Flags

\* A task with the flag set that does not run stays ready, or gets the processor.
LEMMA FlagsStay ==
  ASSUME Core, KernelStep, Flags, cont[current] # "sem",
         NEW x \in Task, NEW c, cont[x] # "sem", cont' = cont \/ cont' = [cont EXCEPT ![x] = c],
         \A t \in Task : sem_deleted'[t] =>
           sem_deleted[t] \/ (cont'[t] = "sem" /\ t \in ToSet(sched'.queue["ready"]))
  PROVE  Flags'
<1>1. SUFFICES ASSUME NEW t \in Task, sem_deleted'[t],
                      ~(cont'[t] = "sem" /\ t \in ToSet(sched'.queue["ready"]))
               PROVE  cont'[t] = "sem" /\ t = sched'.current
  BY DEF Flags, OnQueue, current
<1>2. cont[t] = "sem" /\ t \in ToSet(OnQueue("ready"))
  BY <1>1 DEF Flags
<1>3. cont'[t] = "sem"
  BY <1>2 DEF Core, SchedulerTypeOK
<1> QED BY <1>1, <1>2, <1>3, ReadyStays

LEMMA FlagsKept ==
  ASSUME Inv, Resumption, Flags, KernelStep, SemaphoreStep
  PROVE  Flags'
<1>0. /\ Core /\ current \in Task /\ cont \in [Task -> Continuation] /\ Sane(sched)
      /\ sem_deleted \in [Task -> BOOLEAN] /\ ListsResume
      /\ \A s \in Sem : s \in Queue \ {"ready", "free", "keyboard"}
  BY CurrentUnlinked, QueueNames DEF Inv, SemaphoresTypeOK, Resumption
<1>1. ASSUME sem_deleted' = sem_deleted, cont[current] # "sem",
             \/ cont' = cont
             \/ \E c \in Continuation : cont' = [cont EXCEPT ![current] = c]
      PROVE  Flags'
  BY <1>0, <1>1, FlagsStay
<1>2. CASE QuietStep
  <2>1. sem_deleted' = sem_deleted
    BY <1>2 DEF QuietStep, semVars
  <2>2. CASE Stays /\ cont[current] = "sem"
    <3>1. cont' = cont /\ sched'.queue = sched.queue /\ sched'.current = sched.current
      <4>1. cont' = cont
        BY <1>2, <2>2 DEF QuietStep, Boots, RotatesOut, IsPreempted, Sleeps, Exits, LeavesForGood
      <4> QED BY <2>2, <4>1 DEF Stays
    <3> QED BY <2>1, <3>1 DEF Flags, OnQueue, current
  <2>3. CASE ~(Stays /\ cont[current] = "sem")
    <3>1. cont[current] # "sem"
      BY <1>2, <2>3 DEF QuietStep, Boots, RotatesOut, IsPreempted, Sleeps, Exits, LeavesForGood
    <3>2. \/ cont' = cont
          \/ \E c \in Continuation : cont' = [cont EXCEPT ![current] = c]
      BY <1>2 DEF QuietStep, Boots, Stays, RotatesOut, IsPreempted, Sleeps, Exits, LeavesForGood,
                  GoesOn, Continuation
    <3> QED BY <1>1, <2>1, <3>1, <3>2
  <2> QED BY <2>2, <2>3
<1>3. CASE Creates /\ SemaphoresOnSpawn
  <2> DEFINE t == FreeTask(sched)
  <2>1. t \in Task /\ t \in ToSet(OnQueue("free"))
    BY <1>0, <1>3, SpawnMoves DEF Creates, OnQueue
  <2>2. cont[t] # "sem"
    BY <1>0, <2>1, QueueNames DEF ListsResume, Resumes
  <2>3. /\ cont[current] # "sem" /\ cont' = [cont EXCEPT ![t] = "user"]
        /\ sem_deleted' = [sem_deleted EXCEPT ![t] = FALSE]
    BY <1>3 DEF Creates, SemaphoresOnSpawn
  <2> HIDE DEF t
  <2>4. \A u \in Task : sem_deleted'[u] => sem_deleted[u]
    BY <1>0, <2>1, <2>3
  <2> QED BY <1>0, <2>1, <2>2, <2>3, <2>4, FlagsStay
<1>4. ASSUME NEW s \in Sem, NEW value \in InitValues, SemInit(s, value) PROVE Flags'
  <2>1. sem_deleted' = sem_deleted /\ cont' = cont /\ cont[current] # "sem"
    BY <1>4 DEF SemInit, InSyscall
  <2> QED BY <1>1, <2>1
<1>5. ASSUME NEW s \in Sem, SemWait(s), MustWait(s) => Sleeps(s, FALSE, "sem") PROVE Flags'
  <2>1. sem_deleted' = sem_deleted /\ cont[current] # "sem"
    BY <1>5 DEF SemWait, InSyscall
  <2>2. \/ cont' = cont
        \/ \E c \in Continuation : cont' = [cont EXCEPT ![current] = c]
    BY <1>5 DEF SemWait, Block, Continuation
  <2> QED BY <1>1, <2>1, <2>2
<1>6. ASSUME NEW s \in Sem, SemSignal(s) PROVE Flags'
  <2>1. sem_deleted' = sem_deleted /\ cont' = cont /\ cont[current] # "sem"
    BY <1>6 DEF SemSignal, InSyscall
  <2> QED BY <1>1, <2>1
<1>7. ASSUME NEW s \in Sem, DestroySemaphore(s), WakesAll(s) PROVE Flags'
  <2>1. cont' = cont /\ cont[current] # "sem" /\ sched' = WakeAll(sched, s)
    BY <1>7 DEF WakesAll
  <2>2. ToSet(sched'.queue["ready"]) = ToSet(sched.queue["ready"]) \cup ToSet(sched.queue[s])
    BY <1>0, <2>1, WakeAllLists
  <2>3. \A t \in ToSet(OnQueue(s)) : cont[t] = "sem"
    BY <1>0 DEF ListsResume, Resumes
  <2>4. sem_deleted' = [t \in Task |-> sem_deleted[t] \/ t \in ToSet(OnQueue(s))]
    BY <1>7 DEF DestroySemaphore, FlagWaiters
  <2>5. ASSUME NEW t \in Task, sem_deleted'[t], ~sem_deleted[t]
        PROVE  cont'[t] = "sem" /\ t \in ToSet(sched'.queue["ready"])
    <3>1. t \in ToSet(OnQueue(s))
      BY <2>4, <2>5
    <3> QED BY <2>1, <2>2, <2>3, <3>1 DEF OnQueue
  <2> QED BY <1>0, <2>1, <2>5, FlagsStay
<1>8. CASE SemWaitReturn
  <2>1. /\ sem_deleted' = [sem_deleted EXCEPT ![current] = FALSE]
        /\ cont' = [cont EXCEPT ![current] = "user"] /\ sched' = sched
    BY <1>8 DEF SemWaitReturn, ClearFlag
  <2>2. SUFFICES ASSUME NEW t \in Task, sem_deleted'[t]
                 PROVE  cont'[t] = "sem" /\ t \in ToSet(OnQueue("ready"))
    BY <2>1 DEF Flags, OnQueue
  <2>3. t # current /\ sem_deleted[t]
    BY <1>0, <2>1, <2>2
  <2>4. cont[t] = "sem" /\ t \in ToSet(OnQueue("ready"))
    BY <2>3 DEF Flags
  <2> QED BY <1>0, <2>1, <2>3, <2>4
<1> QED BY <1>2, <1>3, <1>4, <1>5, <1>6, <1>7, <1>8 DEF SemaphoreStep

-----------------------------------------------------------------------------
(* Both in every state. *)

SemInv == Ownership /\ Flags

LEMMA SemStep == Inv /\ Inv' /\ ProcessInv /\ SemInv /\ [Next]_vars => SemInv'
<1> SUFFICES ASSUME Inv, Inv', ProcessInv, SemInv, [Next]_vars PROVE SemInv'
  OBVIOUS
<1>1. Core /\ KernelStep /\ SemaphoreStep
  BY StepEffect, SemaphoreSteps DEF Inv
<1> QED BY <1>1, OwnershipKept, FlagsKept DEF SemInv, ProcessInv

\* Every run of the kernel keeps the two sides of ownership equal, the owners alive, and the
\* flags of destroyed semaphores in tasks that are on their way back from the wait.
THEOREM SemaphoreInvariance == Spec => [](Inv /\ ProcessInv /\ SemInv)
<1>1. Init => SemInv
  BY OwnershipInit, FlagsInit DEF SemInv
<1>2. (Inv /\ ProcessInv /\ SemInv) /\ [Next]_vars => (Inv /\ ProcessInv /\ SemInv)'
  BY NextInv, ProcessStep, SemStep
<1> QED BY <1>1, <1>2, InitInv, ProcessInit, PTL DEF Spec

\* A semaphore in use has an owner that is still there to destroy it, in the list of that owner
\* and of nobody else: exit leaves none behind, and whoever reuses the PCB inherits none.
THEOREM OwnersAreAlive == Spec => []OwnerIsAlive
<1>1. ASSUME Inv, SemInv PROVE OwnerIsAlive
  <2>0. Core /\ ListsAreOfOwners /\ OwnersLive /\ current \in Task
    BY <1>1, CoreTask DEF Inv, SemInv, Ownership
  <2>1. NoLostTask /\ StateMatchesQueue /\ RunningIsUnlinked
    BY <2>0, CoreLists
  <2>2. ASSUME NEW t \in Living \ {Idle}
        PROVE  sched.state[t] # "ST_INVALID" \/ (t = current /\ cont[current] = "exit")
    <3>1. t \in Task
      BY <2>0, <2>2, LivingMembers
    <3>2. CASE cont[current] = "boot"
      <4>1. sched = InitialTable
        BY <2>0, <3>2 DEF Core, Situation
      <4>2. t = Task1
        BY <2>2, <3>1, <3>2, <4>1, InitialLists DEF Living, OnQueue
      <4> QED BY <3>1, <4>1, <4>2 DEF InitialTable, Task1, Idle
    <3>3. CASE t = current /\ cont[current] # "boot"
      BY <2>1, <3>3 DEF StateMatchesQueue
    <3>4. CASE t # current /\ cont[current] # "boot"
      <4>1. PICK k \in Queue : t \in ToSet(OnQueue(k))
        BY <2>1, <2>2, <3>1, <3>4 DEF NoLostTask, Linked
      <4>2. k # "free"
        BY <2>2, <3>4, <4>1 DEF Living
      <4>3. sched.state[t] \in {"ST_READY", "ST_BLOCKED"}
        BY <2>1, <4>1, <4>2 DEF StateMatchesQueue, Queue
      <4> QED BY <4>3
    <3> QED BY <3>2, <3>3, <3>4
  <2> QED BY <2>0, <2>2 DEF ListsAreOfOwners, OwnersLive, OwnerIsAlive
<1> QED BY <1>1, SemaphoreInvariance, PTL

\* The flag is never left over for a later wait: whoever has it is about to return from the
\* wait in sys_sem_wait that a sys_sem_destroy ended.
THEOREM FlagsMeanDestroyed == Spec => []FlagMeansDestroyed
<1>1. ASSUME Inv, SemInv PROVE FlagMeansDestroyed
  <2>1. StateMatchesQueue
    BY <1>1, CoreLists DEF Inv
  <2> QED BY <1>1, <2>1 DEF SemInv, Flags, FlagMeansDestroyed, StateMatchesQueue
<1> QED BY <1>1, SemaphoreInvariance, PTL

-----------------------------------------------------------------------------
(* The semaphores implement SemaphoreService, if no count starts negative. *)

\* The state of the service: what the module Semaphores substitutes for its variables.
TheOwner  == [s \in Sem |-> IF sem[s].used THEN sem[s].owner ELSE NoOwner]
TheCount  == [s \in Sem |-> IF sem[s].used THEN sem[s].count ELSE 0]
TheQueue  == [s \in Sem |-> OnQueue(s)]
TheResult == [t \in Task |-> WaitResult(t)]

NoNegativeCount == \A s \in Sem : sem[s].count \in 0 .. INT_MAX

LEMMA CountsInit == ASSUME Init PROVE NoNegativeCount
BY IntAssumption DEF Init, SemaphoresInit, NoNegativeCount

LEMMA CountsKept ==
  ASSUME InitValues \subseteq 0 .. INT_MAX, SemaphoresTypeOK, NoNegativeCount, SemaphoreStep
  PROVE  NoNegativeCount'
<1>0. sem \in [Sem -> Semaphore] /\ INT_MAX \in Nat /\ MaxCount <= INT_MAX /\ MaxCount \in Nat
  BY IntAssumption, MaxCountAssumption DEF SemaphoresTypeOK
<1>1. ASSUME sem' = sem PROVE NoNegativeCount'
  BY <1>1 DEF NoNegativeCount
<1>2. ASSUME NEW s \in Sem, NEW c \in 0 .. INT_MAX, sem' = [sem EXCEPT ![s].count = c]
      PROVE  NoNegativeCount'
  <2>1. \A z \in Sem \ {s} : sem'[z] = sem[z]
    BY <1>0, <1>2
  <2>2. sem'[s] = [sem[s] EXCEPT !.count = c] /\ sem[s] \in Semaphore
    BY <1>0, <1>2
  <2>3. sem'[s].count = c
    BY <2>2 DEF Semaphore
  <2> QED BY <2>1, <2>3 DEF NoNegativeCount
<1>3. ASSUME NEW s \in Sem, NEW value \in InitValues, SemInit(s, value) PROVE NoNegativeCount'
  <2> DEFINE new == [used |-> TRUE, count |-> ToInt(value), owner |-> current]
  <2>1. sem' = [sem EXCEPT ![s] = new]
    BY <1>3 DEF SemInit
  <2>2. new.count \in 0 .. INT_MAX
    BY <1>0 DEF ToInt
  <2> HIDE DEF new
  <2> QED BY <1>0, <2>1, <2>2 DEF NoNegativeCount
<1>4. ASSUME NEW s \in Sem, SemWait(s) PROVE NoNegativeCount'
  <2>1. CASE sem' = sem
    BY <1>1, <2>1
  <2>2. CASE sem' # sem
    <3>1. sem' = [sem EXCEPT ![s].count = Decrement(sem[s].count)] /\ sem[s].count # 0
      BY <1>4, <2>2 DEF SemWait, MustWait
    <3>2. Decrement(sem[s].count) \in 0 .. INT_MAX
      BY <1>0, <3>1 DEF Decrement, NoNegativeCount, INT_MIN
    <3> QED BY <1>2, <3>1, <3>2
  <2> QED BY <2>1, <2>2
<1>5. ASSUME NEW s \in Sem, SemSignal(s) PROVE NoNegativeCount'
  <2>1. CASE sem' = sem
    BY <1>1, <2>1
  <2>2. CASE sem' # sem
    <3>1. sem' = [sem EXCEPT ![s].count = sem[s].count + 1] /\ sem[s].count < MaxCount
      BY <1>5, <2>2 DEF SemSignal
    <3>2. sem[s].count + 1 \in 0 .. INT_MAX
      BY <1>0, <3>1 DEF NoNegativeCount
    <3> QED BY <1>2, <3>1, <3>2
  <2> QED BY <2>1, <2>2
<1>6. ASSUME NEW s \in Sem, DestroySemaphore(s) PROVE NoNegativeCount'
  <2>1. sem' = [sem EXCEPT ![s].used = FALSE]
    BY <1>6 DEF DestroySemaphore
  <2>2. \A z \in Sem \ {s} : sem'[z] = sem[z]
    BY <1>0, <2>1
  <2>3. sem'[s] = [sem[s] EXCEPT !.used = FALSE] /\ sem[s] \in Semaphore
    BY <1>0, <2>1
  <2>4. sem'[s].count = sem[s].count
    BY <2>3 DEF Semaphore
  <2> QED BY <2>2, <2>4 DEF NoNegativeCount
<1>7. CASE QuietStep \/ (Creates /\ SemaphoresOnSpawn) \/ SemWaitReturn
  <2>1. sem' = sem
    BY <1>7 DEF QuietStep, semVars, SemaphoresOnSpawn, SemWaitReturn
  <2> QED BY <1>1, <2>1
<1> QED BY <1>3, <1>4, <1>5, <1>6, <1>7 DEF SemaphoreStep

\* A run that moves no waiter ends no wait, as seen by the service.
LEMMA NobodyMoved ==
  ASSUME \A s \in Sem : sched'.queue[s] = sched.queue[s],
         \A t \in Task : cont'[t] = "sem" <=> cont[t] = "sem",
         \A t \in Task : cont[t] = "sem" => sem_deleted'[t] = sem_deleted[t]
  PROVE  TheQueue' = TheQueue /\ TheResult' = TheResult
<1>1. TheQueue' = TheQueue
  BY DEF TheQueue, OnQueue
<1>2. ASSUME NEW t \in Task PROVE WaitResult(t)' = WaitResult(t)
  <2> DEFINE waits == \E s \in Sem : t \in ToSet(OnQueue(s))
  <2>1. waits' <=> waits
    BY DEF OnQueue
  <2>2. WaitResult(t) = IF cont[t] # "sem" \/ waits THEN "none"
                        ELSE IF sem_deleted[t] THEN "destroyed" ELSE "signalled"
    BY DEF WaitResult
  <2>3. WaitResult(t)' = IF cont'[t] # "sem" \/ waits' THEN "none"
                         ELSE IF sem_deleted'[t] THEN "destroyed" ELSE "signalled"
    BY DEF WaitResult
  <2> HIDE DEF waits
  <2> QED BY <2>1, <2>2, <2>3
<1>3. TheResult' = TheResult
  BY <1>2 DEF TheResult
<1> QED BY <1>1, <1>3

\* Only the running task, or a task that is created, changes where it goes on.
LEMMA SameWaits ==
  ASSUME NEW x \in Task, NEW c, cont[x] # "sem", c # "sem", cont \in [Task -> Continuation],
         cont' = cont \/ cont' = [cont EXCEPT ![x] = c]
  PROVE  \A t \in Task : cont'[t] = "sem" <=> cont[t] = "sem"
OBVIOUS

LEMMA QuietMap ==
  ASSUME Core, QuietStep
  PROVE  TheOwner' = TheOwner /\ TheCount' = TheCount /\ TheQueue' = TheQueue /\ TheResult' = TheResult
<1>0. /\ current \in Task /\ cont \in [Task -> Continuation]
      /\ sched \in ProcessTable /\ sched.queue \in [Queue -> Seq(Task)]
      /\ \A s \in Sem : s \in Queue \ {"ready", "free", "keyboard"}
  BY CurrentUnlinked, SaneFields, QueueNames
<1>1. sem' = sem /\ sem_deleted' = sem_deleted
  BY DEF QuietStep, semVars
<1>2. \A s \in Sem : sched'.queue[s] = sched.queue[s]
  <2>1. CASE Boots
    BY <1>0, <2>1 DEF Boots, ProcessTable
  <2>2. CASE Stays
    BY <2>2 DEF Stays
  <2>3. CASE RotatesOut
    BY <1>0, <2>3 DEF RotatesOut, Rotates
  <2>4. CASE IsPreempted
    BY <1>0, <2>4 DEF IsPreempted, Preempts
  <2>5. CASE Sleeps("keyboard", FALSE, "read0") \/ Sleeps("keyboard", TRUE, "read1")
    BY <1>0, <2>5 DEF Sleeps, Blocks
  <2>6. CASE Exits
    BY <1>0, <2>6 DEF Exits
  <2>7. CASE LeavesForGood
    BY <1>0, <2>7 DEF LeavesForGood, Dispatches
  <2> QED BY <2>1, <2>2, <2>3, <2>4, <2>5, <2>6, <2>7 DEF QuietStep
<1>3. \A t \in Task : cont'[t] = "sem" <=> cont[t] = "sem"
  <2>1. CASE cont' = cont
    BY <2>1
  <2>2. CASE cont' # cont
    <3>1. /\ cont[current] # "sem"
          /\ \E c \in Continuation \ {"sem"} : cont' = [cont EXCEPT ![current] = c]
      BY <2>2 DEF QuietStep, Boots, Stays, RotatesOut, IsPreempted, Sleeps, Exits, LeavesForGood,
                  GoesOn, Continuation
    <3> QED BY <1>0, <3>1, SameWaits
  <2> QED BY <2>1, <2>2
<1>4. TheOwner' = TheOwner /\ TheCount' = TheCount
  BY <1>1 DEF TheOwner, TheCount
<1>5. TheQueue' = TheQueue /\ TheResult' = TheResult
  BY <1>1, <1>2, <1>3, NobodyMoved
<1> QED BY <1>4, <1>5

\* The steps of the service, in those terms.
LEMMA ServiceSteps ==
  ASSUME NEW s \in Sem, NEW p \in Task
  PROVE  /\ /\ TheOwner[s] = NoOwner /\ TheOwner' = [TheOwner EXCEPT ![s] = p]
            /\ TheCount'[s] \in Nat /\ TheCount' = [TheCount EXCEPT ![s] = TheCount'[s]]
            /\ TheQueue' = TheQueue /\ TheResult' = TheResult
            => Service!Create(p, s)
         /\ /\ TheOwner[s] # NoOwner /\ TheCount[s] > 0
            /\ TheCount' = [TheCount EXCEPT ![s] = TheCount[s] - 1]
            /\ TheOwner' = TheOwner /\ TheQueue' = TheQueue /\ TheResult' = TheResult
            => Service!Take(s)
         /\ /\ TheOwner[s] # NoOwner /\ TheCount[s] = 0
            /\ TheQueue' = [TheQueue EXCEPT ![s] = Append(TheQueue[s], p)]
            /\ TheOwner' = TheOwner /\ TheCount' = TheCount /\ TheResult' = TheResult
            => Service!Wait(p, s)
         /\ /\ TheOwner[s] # NoOwner /\ TheQueue[s] = <<>>
            /\ TheCount' = [TheCount EXCEPT ![s] = TheCount[s] + 1]
            /\ TheOwner' = TheOwner /\ TheQueue' = TheQueue /\ TheResult' = TheResult
            => Service!Put(s)
         /\ /\ TheOwner[s] # NoOwner /\ TheQueue[s] # <<>>
            /\ TheQueue' = [TheQueue EXCEPT ![s] = Tail(TheQueue[s])]
            /\ TheResult' = [TheResult EXCEPT ![Head(TheQueue[s])] = "signalled"]
            /\ TheOwner' = TheOwner /\ TheCount' = TheCount
            => Service!Signal(s)
         /\ /\ TheOwner[s] = p /\ TheOwner' = [TheOwner EXCEPT ![s] = NoOwner]
            /\ TheCount' = [TheCount EXCEPT ![s] = 0]
            /\ TheQueue' = [TheQueue EXCEPT ![s] = <<>>]
            /\ TheResult' = [t \in Task |-> IF t \in ToSet(TheQueue[s]) THEN "destroyed"
                                            ELSE TheResult[t]]
            => Service!Destroy(p, s)
BY DEF TheOwner, TheCount, TheQueue, TheResult, Service!Exists, Service!Create, Service!Take,
       Service!Wait, Service!Put, Service!Signal, Service!Destroy, Service!ToSet, ToSet

LEMMA ServiceReturn ==
  ASSUME NEW p \in Task, TheResult[p] # "none", TheResult' = [TheResult EXCEPT ![p] = "none"],
         TheOwner' = TheOwner, TheCount' = TheCount, TheQueue' = TheQueue
  PROVE  Service!Return(p)
BY DEF TheOwner, TheCount, TheQueue, TheResult, Service!Return

\* Every other run of the kernel is a step of the service.
LEMMA SemInitMap ==
  ASSUME InitValues \subseteq 0 .. INT_MAX, Inv, NEW s \in Sem, NEW value \in InitValues,
         SemInit(s, value), sched' = sched
  PROVE  Service!Create(current, s)
<1> DEFINE new == [used |-> TRUE, count |-> ToInt(value), owner |-> current]
<1>1. /\ current \in Task /\ sem \in [Sem -> Semaphore] /\ ~sem[s].used
      /\ sem' = [sem EXCEPT ![s] = new] /\ cont' = cont /\ sem_deleted' = sem_deleted
  BY CoreTask DEF Inv, SemaphoresTypeOK, SemInit, Available
<1>2. new.used /\ new.count \in Nat /\ new.owner = current
  BY IntAssumption DEF ToInt
<1> HIDE DEF new
<1>3. /\ TheOwner[s] = NoOwner /\ TheOwner' = [TheOwner EXCEPT ![s] = current]
      /\ TheCount' = [TheCount EXCEPT ![s] = new.count]
  BY <1>1, <1>2 DEF TheOwner, TheCount
<1>4. TheCount'[s] \in Nat /\ TheCount' = [TheCount EXCEPT ![s] = TheCount'[s]]
  BY <1>2, <1>3 DEF TheCount
<1>5. TheQueue' = TheQueue /\ TheResult' = TheResult
  BY <1>1, NobodyMoved
<1> QED BY <1>1, <1>3, <1>4, <1>5, ServiceSteps

LEMMA OwnerExists ==
  ASSUME Core, OwnersLive, NEW s \in Sem, sem[s].used
  PROVE  TheOwner[s] # NoOwner /\ TheOwner[s] = sem[s].owner /\ TheCount[s] = sem[s].count
<1>1. sem[s].owner \in Task
  BY LivingMembers DEF OwnersLive
<1>2. NoOwner \notin Task
  BY TasksAssumption DEF NoOwner, Task
<1> QED BY <1>1, <1>2 DEF TheOwner, TheCount

\* Only the queue of s changes, as the service wants it.
LEMMA QueueIs ==
  ASSUME Core, NEW s \in Sem, NEW new, NEW ready,
         sched'.queue = [sched.queue EXCEPT ![s] = new, !["ready"] = ready]
  PROVE  /\ TheQueue' = [TheQueue EXCEPT ![s] = new]
         /\ sched'.queue[s] = new /\ \A z \in Sem \ {s} : sched'.queue[z] = sched.queue[z]
<1>1. sched.queue \in [Queue -> Seq(Task)] /\ \A z \in Sem : z \in Queue \ {"ready", "free", "keyboard"}
  BY CoreSane, SaneFields, QueueNames
<1>2. sched'.queue[s] = new /\ \A z \in Sem \ {s} : sched'.queue[z] = sched.queue[z]
  BY <1>1
<1> QED BY <1>2 DEF TheQueue, OnQueue

\* Only the count of s changes.
LEMMA CountIs ==
  ASSUME sem \in [Sem -> Semaphore], NEW s \in Sem, sem[s].used, NEW c,
         sem' = [sem EXCEPT ![s].count = c]
  PROVE  TheOwner' = TheOwner /\ TheCount' = [TheCount EXCEPT ![s] = c]
<1>1. /\ \A z \in Sem \ {s} : sem'[z] = sem[z]
      /\ sem'[s] = [sem[s] EXCEPT !.count = c] /\ sem[s] \in Semaphore
  OBVIOUS
<1>2. sem'[s].used = sem[s].used /\ sem'[s].owner = sem[s].owner /\ sem'[s].count = c
  BY <1>1 DEF Semaphore
<1> QED BY <1>1, <1>2 DEF TheOwner, TheCount

LEMMA SemWaitMap ==
  ASSUME Inv, Ownership, NoNegativeCount, NEW s \in Sem, SemWait(s),
         MustWait(s) => Sleeps(s, FALSE, "sem")
  PROVE  Service!Take(s) \/ Service!Wait(current, s)
<1>1. /\ Core /\ current \in Task /\ cont \in [Task -> Continuation] /\ sem \in [Sem -> Semaphore]
      /\ cont[current] # "sem" /\ sem_deleted' = sem_deleted /\ sem[s].used
      /\ TheOwner[s] # NoOwner /\ TheCount[s] = sem[s].count /\ current = sched.current
  BY CoreTask, OwnerExists DEF Inv, SemaphoresTypeOK, Ownership, SemWait, InSyscall, Core,
                               SchedulerTypeOK, current
<1>2. CASE MustWait(s)
  <2>1. TheCount[s] = 0 /\ sem' = sem /\ cont' = [cont EXCEPT ![current] = "sem"]
    BY <1>1, <1>2 DEF MustWait, SemWait, Block
  <2>2. sched'.queue = [sched.queue EXCEPT ![s] = Append(sched.queue[s], current),
                                           !["ready"] = Others(sched.queue["ready"])]
    BY <1>1, <1>2 DEF Sleeps, Blocks, list_insert
  <2>3. /\ TheQueue' = [TheQueue EXCEPT ![s] = Append(sched.queue[s], current)]
        /\ sched'.queue[s] = Append(sched.queue[s], current)
        /\ \A z \in Sem \ {s} : sched'.queue[z] = sched.queue[z]
    BY <1>1, <2>2, QueueIs
  <2>4. ToSet(sched'.queue[s]) = ToSet(sched.queue[s]) \cup {current}
    <3>1. sched.queue[s] \in Seq(Task)
      BY <1>1, CoreSane, SaneFields, QueueNames
    <3> QED BY <1>1, <2>3, <3>1, AppendMembers
  <2>5. ASSUME NEW t \in Task PROVE WaitResult(t)' = WaitResult(t)
    <3>1. CASE t = current
      BY <1>1, <2>1, <2>4, <3>1 DEF WaitResult, OnQueue
    <3>2. CASE t # current
      <4>1. \A z \in Sem : t \in ToSet(sched'.queue[z]) <=> t \in ToSet(sched.queue[z])
        BY <2>3, <2>4, <3>2
      <4>2. cont'[t] = cont[t]
        BY <1>1, <2>1, <3>2
      <4> QED BY <1>1, <4>1, <4>2 DEF WaitResult, OnQueue
    <3> QED BY <3>1, <3>2
  <2>6. TheOwner' = TheOwner /\ TheCount' = TheCount /\ TheResult' = TheResult
    BY <2>1, <2>5 DEF TheOwner, TheCount, TheResult
  <2>7. TheQueue' = [TheQueue EXCEPT ![s] = Append(TheQueue[s], current)]
    BY <2>3 DEF TheQueue, OnQueue
  <2> QED BY <1>1, <2>1, <2>6, <2>7, ServiceSteps
<1>3. CASE ~MustWait(s)
  <2>1. /\ sched' = sched /\ cont' = cont
        /\ sem' = [sem EXCEPT ![s].count = Decrement(sem[s].count)]
    BY <1>3 DEF SemWait
  <2>2. sem[s].count \in 1 .. INT_MAX /\ Decrement(sem[s].count) = sem[s].count - 1
    BY <1>3, IntAssumption DEF MustWait, NoNegativeCount, Decrement, INT_MIN
  <2>3. /\ TheCount[s] > 0 /\ TheOwner' = TheOwner
        /\ TheCount' = [TheCount EXCEPT ![s] = TheCount[s] - 1]
    <3>1. /\ TheOwner' = TheOwner
          /\ TheCount' = [TheCount EXCEPT ![s] = Decrement(sem[s].count)]
      BY <1>1, <2>1, CountIs
    <3>2. TheCount[s] > 0 /\ Decrement(sem[s].count) = TheCount[s] - 1
      BY <1>1, <2>2
    <3> QED BY <3>1, <3>2
  <2>4. TheQueue' = TheQueue /\ TheResult' = TheResult
    BY <1>1, <2>1, NobodyMoved
  <2> QED BY <1>1, <2>3, <2>4, ServiceSteps
<1> QED BY <1>2, <1>3

LEMMA SemSignalMap ==
  ASSUME Inv, Resumption, Ownership, Flags, NEW s \in Sem, SemSignal(s),
         sched.queue[s] # <<>> => WakesFirst(s)
  PROVE  Service!Put(s) \/ Service!Signal(s)
<1>1. /\ Core /\ current \in Task /\ sem \in [Sem -> Semaphore]
      /\ sem_deleted' = sem_deleted /\ cont' = cont /\ sem[s].used
      /\ TheOwner[s] # NoOwner /\ TheCount[s] = sem[s].count
      /\ sched.queue[s] \in Seq(Task) /\ Once(sched.queue) /\ "ready" \in Queue
      /\ s \in Queue \ {"ready", "free", "keyboard"}
  BY CoreTask, CoreSane, SaneFields, QueueNames, OwnerExists DEF Inv, SemaphoresTypeOK, Ownership, SemSignal
<1>2. CASE sched.queue[s] = <<>>
  <2>1. /\ sched' = sched
        /\ sem' = [sem EXCEPT ![s].count = sem[s].count + 1]
    BY <1>2 DEF SemSignal, OnQueue
  <2>2. TheOwner' = TheOwner /\ TheCount' = [TheCount EXCEPT ![s] = TheCount[s] + 1]
    BY <1>1, <2>1, CountIs
  <2>3. TheQueue' = TheQueue /\ TheResult' = TheResult /\ TheQueue[s] = <<>>
    BY <1>1, <1>2, <2>1, NobodyMoved DEF TheQueue, OnQueue
  <2> QED BY <1>1, <2>2, <2>3, ServiceSteps
<1>3. CASE sched.queue[s] # <<>>
  <2> DEFINE others == Tail(sched.queue[s])
  <2>0. PICK first \in Task : first = Head(sched.queue[s])
    BY <1>1, <1>3, MembersType
  <2>1. /\ first \in ToSet(sched.queue[s])
        /\ ToSet(others) = ToSet(sched.queue[s]) \ {first}
    <3>1. sched.queue[s] \in Seq(Task) /\ sched.queue[s] # <<>> /\ IsInjective(sched.queue[s])
      BY <1>1, <1>3 DEF Once
    <3> QED BY <2>0, <3>1, MembersType, TailMembers
  <2>2. sem' = sem
    BY <1>3 DEF SemSignal, OnQueue
  <2>3. sched'.queue = [sched.queue EXCEPT ![s] = others, !["ready"] = Append(sched.queue["ready"], first)]
    BY <1>3, <2>0 DEF WakesFirst, Wakes
  <2> HIDE DEF others
  <2>4. /\ TheQueue' = [TheQueue EXCEPT ![s] = others]
        /\ sched'.queue[s] = others
        /\ \A z \in Sem \ {s} : sched'.queue[z] = sched.queue[z]
    BY <1>1, <2>3, QueueIs
  \* The first waiter was told nothing yet, and waits for nothing any more.
  <2>5. WaitResult(first)' = "signalled"
    <3>1. cont[first] = "sem"
      BY <1>1, <2>1 DEF Resumption, ListsResume, Resumes, OnQueue
    <3>2. ~sem_deleted[first]
      <4>1. first \notin ToSet(OnQueue("ready"))
        BY <1>1, <2>1 DEF Once, OnQueue
      <4>2. first # current
        BY <1>1, <2>1, CurrentUnlinked DEF OnQueue
      <4> QED BY <2>1, <4>1, <4>2 DEF Flags
    <3>3. \A z \in Sem : first \notin ToSet(sched'.queue[z])
      <4>1. \A z \in Sem \ {s} : first \notin ToSet(sched.queue[z])
        BY <1>1, <2>1, QueueNames DEF Once
      <4> QED BY <2>1, <2>4, <4>1
    <3> QED BY <1>1, <3>1, <3>2, <3>3 DEF WaitResult, OnQueue
  <2>6. ASSUME NEW t \in Task \ {first} PROVE WaitResult(t)' = WaitResult(t)
    <3>1. \A z \in Sem : t \in ToSet(sched'.queue[z]) <=> t \in ToSet(sched.queue[z])
      BY <2>1, <2>4, <2>6
    <3> QED BY <1>1, <3>1 DEF WaitResult, OnQueue
  <2>7. TheResult' = [TheResult EXCEPT ![first] = "signalled"]
    BY <2>1, <2>5, <2>6 DEF TheResult
  <2>8. TheOwner' = TheOwner /\ TheCount' = TheCount
    BY <2>2 DEF TheOwner, TheCount
  <2>9. TheQueue[s] # <<>> /\ others = Tail(TheQueue[s]) /\ first = Head(TheQueue[s])
    BY <1>3, <2>0 DEF TheQueue, OnQueue, others
  <2> QED BY <1>1, <2>4, <2>7, <2>8, <2>9, ServiceSteps
<1> QED BY <1>2, <1>3

LEMMA DestroyMap ==
  ASSUME Inv, Resumption, PIDsUnique, Ownership, NEW s \in Sem, DestroySemaphore(s), WakesAll(s)
  PROVE  Service!Destroy(current, s)
<1>1. /\ Core /\ current \in Task /\ sem \in [Sem -> Semaphore] /\ Sane(sched) /\ cont' = cont
      /\ sem_deleted \in [Task -> BOOLEAN] /\ sched' = WakeAll(sched, s)
      /\ sem[s].owner = current /\ sem[s].used /\ TheOwner[s] = current
      /\ sched.queue[s] \in Seq(Task) /\ Once(sched.queue)
      /\ \A z \in Sem : z \in Queue \ {"ready", "free", "keyboard"}
  <2>1. Core /\ cont[current] \in {"user", "exit"} /\ OwnersLive
    BY DEF Inv, WakesAll, Ownership
  <2>2. sem[s].owner = current /\ sem[s].used
    BY <2>1, DestroyerOwns
  <2> QED BY <2>1, <2>2, CoreTask, CoreSane, SaneFields, QueueNames, OwnerExists
          DEF Inv, SemaphoresTypeOK, WakesAll
<1>2. /\ sem' = [sem EXCEPT ![s].used = FALSE]
      /\ sem_deleted' = [t \in Task |-> sem_deleted[t] \/ t \in ToSet(sched.queue[s])]
  BY DEF DestroySemaphore, FlagWaiters, OnQueue
<1>3. /\ TheOwner' = [TheOwner EXCEPT ![s] = NoOwner]
      /\ TheCount' = [TheCount EXCEPT ![s] = 0]
  <2>1. /\ \A z \in Sem \ {s} : sem'[z] = sem[z]
        /\ sem'[s] = [sem[s] EXCEPT !.used = FALSE] /\ sem[s] \in Semaphore
    BY <1>1, <1>2
  <2>2. ~sem'[s].used
    BY <2>1 DEF Semaphore
  <2> QED BY <2>1, <2>2 DEF TheOwner, TheCount
<1>4. sched'.queue[s] = <<>> /\ \A z \in Sem \ {s} : sched'.queue[z] = sched.queue[z]
  BY <1>1, WakeAllLists
<1>5. TheQueue' = [TheQueue EXCEPT ![s] = <<>>]
  BY <1>4 DEF TheQueue, OnQueue
<1>6. ASSUME NEW t \in Task
      PROVE  WaitResult(t)' = IF t \in ToSet(sched.queue[s]) THEN "destroyed" ELSE WaitResult(t)
  <2>1. ToSet(<<>>) = {}
    BY DEF ToSet
  <2>2. CASE t \in ToSet(sched.queue[s])
    <3>1. cont[t] = "sem"
      BY <1>1, <2>2 DEF Resumption, ListsResume, Resumes, OnQueue
    <3>2. \A z \in Sem : t \notin ToSet(sched'.queue[z])
      BY <1>1, <1>4, <2>1, <2>2 DEF Once
    <3>3. sem_deleted'[t]
      BY <1>2, <2>2
    <3> QED BY <1>1, <2>2, <3>1, <3>2, <3>3 DEF WaitResult, OnQueue
  <2>3. CASE t \notin ToSet(sched.queue[s])
    <3>1. \A z \in Sem : t \in ToSet(sched'.queue[z]) <=> t \in ToSet(sched.queue[z])
      BY <1>4, <2>1, <2>3
    <3>2. sem_deleted'[t] = sem_deleted[t]
      BY <1>1, <1>2, <2>3
    <3> QED BY <1>1, <2>3, <3>1, <3>2 DEF WaitResult, OnQueue
  <2> QED BY <2>2, <2>3
<1>7. TheResult' = [t \in Task |-> IF t \in ToSet(TheQueue[s]) THEN "destroyed" ELSE TheResult[t]]
  BY <1>6 DEF TheResult, TheQueue, OnQueue
<1> QED BY <1>1, <1>3, <1>5, <1>7, ServiceSteps

LEMMA SemWaitReturnMap ==
  ASSUME Inv, SemWaitReturn
  PROVE  Service!Return(current)
<1>0. PICK p \in Task : p = current
  BY CoreTask DEF Inv
<1>1. /\ Core /\ cont \in [Task -> Continuation] /\ sem_deleted \in [Task -> BOOLEAN]
      /\ sched' = sched /\ sem' = sem /\ cont[p] = "sem"
      /\ cont' = [cont EXCEPT ![p] = "user"] /\ sem_deleted' = [sem_deleted EXCEPT ![p] = FALSE]
      /\ \A z \in Sem : z \in Queue \ {"free"}
  BY <1>0, QueueNames DEF Inv, Core, SchedulerTypeOK, SemaphoresTypeOK, SemWaitReturn, ClearFlag
<1>2. WaitResult(p) # "none"
  <2>1. \A z \in Sem : p \notin ToSet(OnQueue(z))
    BY <1>0, <1>1, CurrentUnlinked
  <2> QED BY <1>1, <2>1 DEF WaitResult
<1>3. WaitResult(p)' = "none"
  BY <1>1 DEF WaitResult
<1>4. ASSUME NEW t \in Task \ {p} PROVE WaitResult(t)' = WaitResult(t)
  BY <1>1, <1>4 DEF WaitResult, OnQueue
<1>5. TheResult[p] # "none" /\ TheResult' = [TheResult EXCEPT ![p] = "none"]
  BY <1>2, <1>3, <1>4 DEF TheResult
<1>6. TheOwner' = TheOwner /\ TheCount' = TheCount /\ TheQueue' = TheQueue
  BY <1>1 DEF TheOwner, TheCount, TheQueue, OnQueue
<1> QED BY <1>0, <1>5, <1>6, ServiceReturn

LEMMA CreatesMap ==
  ASSUME Core, SemaphoresTypeOK, Resumption, Creates, SemaphoresOnSpawn
  PROVE  TheOwner' = TheOwner /\ TheCount' = TheCount /\ TheQueue' = TheQueue /\ TheResult' = TheResult
<1>0. PICK t \in Task : t = FreeTask(sched) /\ t \in ToSet(OnQueue("free"))
  BY CoreSane, SpawnMoves DEF Creates, OnQueue
<1>1. cont[t] # "sem" /\ cont \in [Task -> Continuation]
  BY <1>0, QueueNames DEF Resumption, ListsResume, Resumes, Core, SchedulerTypeOK
<1>2. /\ cont' = [cont EXCEPT ![t] = "user"]
      /\ sem_deleted' = [sem_deleted EXCEPT ![t] = FALSE] /\ sem' = sem
  BY <1>0 DEF Creates, SemaphoresOnSpawn
<1>3. \A s \in Sem : sched'.queue[s] = sched.queue[s]
  BY CoreSane, SaneFields, QueueNames DEF Creates, Spawns
<1>4. \A u \in Task : cont'[u] = "sem" <=> cont[u] = "sem"
  BY <1>1, <1>2, SameWaits
<1>5. \A u \in Task : cont[u] = "sem" => sem_deleted'[u] = sem_deleted[u]
  BY <1>1, <1>2 DEF SemaphoresTypeOK
<1>6. TheQueue' = TheQueue /\ TheResult' = TheResult
  BY <1>3, <1>4, <1>5, NobodyMoved
<1> QED BY <1>2, <1>6 DEF TheOwner, TheCount

LEMMA StepMap ==
  ASSUME InitValues \subseteq 0 .. INT_MAX, Inv, ProcessInv, SemInv, NoNegativeCount, [Next]_vars
  PROVE  [Service!Next]_(Service!vars)
<1>0. Core /\ SemaphoresTypeOK /\ Resumption /\ PIDsUnique /\ Ownership /\ Flags /\ SemaphoreStep
      /\ current \in Task
  BY SemaphoreSteps, CoreTask DEF Inv, ProcessInv, SemInv
<1>1. ASSUME TheOwner' = TheOwner, TheCount' = TheCount, TheQueue' = TheQueue, TheResult' = TheResult
      PROVE  UNCHANGED Service!vars
  BY <1>1 DEF Service!vars, TheOwner, TheCount, TheQueue, TheResult
<1>2. CASE QuietStep
  BY <1>0, <1>1, <1>2, QuietMap
<1>3. CASE Creates /\ SemaphoresOnSpawn
  BY <1>0, <1>1, <1>3, CreatesMap
<1>4. ASSUME NEW s \in Sem, NEW value \in InitValues, SemInit(s, value), sched' = sched
      PROVE  Service!Next
  BY <1>0, <1>4, SemInitMap DEF Service!Next
<1>5. ASSUME NEW s \in Sem, SemWait(s), MustWait(s) => Sleeps(s, FALSE, "sem")
      PROVE  Service!Next
  BY <1>0, <1>5, SemWaitMap DEF Service!Next
<1>6. ASSUME NEW s \in Sem, SemSignal(s), sched.queue[s] # <<>> => WakesFirst(s)
      PROVE  Service!Next
  BY <1>0, <1>6, SemSignalMap DEF Service!Next
<1>7. ASSUME NEW s \in Sem, DestroySemaphore(s), WakesAll(s)
      PROVE  Service!Next
  BY <1>0, <1>7, DestroyMap DEF Service!Next
<1>8. CASE SemWaitReturn
  BY <1>0, <1>8, SemWaitReturnMap DEF Service!Next
<1> QED BY <1>0, <1>2, <1>3, <1>4, <1>5, <1>6, <1>7, <1>8 DEF SemaphoreStep

LEMMA InitMap == Init => Service!Init
<1> SUFFICES ASSUME Init PROVE Service!Init
  OBVIOUS
<1>1. \A s \in Sem : ~sem[s].used /\ OnQueue(s) = <<>>
  <2>1. sched = InitialTable /\ \A s \in Sem : s \in Queue \ {"free"}
    BY QueueNames DEF Init, SchedulerInit
  <2> QED BY <2>1, InitialLists DEF Init, SemaphoresInit, OnQueue
<1>2. \A t \in Task : WaitResult(t) = "none"
  BY DEF Init, SchedulerInit, WaitResult
<1> QED BY <1>1, <1>2 DEF Service!Init

\* The semaphores of sys.c keep what SemaphoreService promises: waits are served in their order,
\* each unit once, and report failure exactly if the semaphore was destroyed.  It takes that
\* nobody initialises one with a value above INT_MAX: sys_sem_init does not refuse it
\* (sys.c:223), and the count it leaves is negative.
THEOREM ServiceIsImplemented ==
  ASSUME InitValues \subseteq 0 .. INT_MAX
  PROVE  Spec => ServiceImplemented
<1>1. Init => NoNegativeCount
  BY CountsInit
<1>2. Inv /\ NoNegativeCount /\ [Next]_vars => NoNegativeCount'
  BY CountsKept, SemaphoreSteps DEF Inv
<1>3. Inv /\ ProcessInv /\ SemInv /\ NoNegativeCount /\ [Next]_vars => [Service!Next]_(Service!vars)
  BY StepMap
<1>4. Spec => [](Inv /\ ProcessInv /\ SemInv)
  BY SemaphoreInvariance
<1> QED BY <1>1, <1>2, <1>3, <1>4, InitMap, PTL DEF Spec, ServiceImplemented

-----------------------------------------------------------------------------
(* The circular buffer. *)

\* What % does to the sums and differences of indices.
LEMMA ModWraps ==
  ASSUME NEW x \in Int, NEW n \in Nat, n > 0
  PROVE  /\ x \in 0 .. n - 1 => x % n = x
         /\ x \in n .. 2 * n - 1 => x % n = x - n
         /\ x \in -n .. -1 => x % n = x + n
<1>1. x = n * (x \div n) + (x % n) /\ x % n \in 0 .. n - 1
  OBVIOUS
<1> QED BY <1>1

\* The slot i places after slot a, and the number i after number k.
Wrap(x, n) == IF x < n THEN x ELSE x - n

LEMMA SlotAfter ==
  /\ \A a \in Slot, i \in 0 .. B : (a + i) % B = Wrap(a + i, B)
  /\ \A k \in 0 .. Keys - 1, i \in 0 .. B : (k + i) % Keys = Wrap(k + i, Keys)
<1>1. ASSUME NEW a \in Slot, NEW i \in 0 .. B PROVE (a + i) % B = Wrap(a + i, B)
  BY <1>1, KeyboardConstants, ModWraps DEF Slot, Wrap
<1>2. ASSUME NEW k \in 0 .. Keys - 1, NEW i \in 0 .. B PROVE (k + i) % Keys = Wrap(k + i, Keys)
  <2>1. i <= Keys
    BY KeyboardConstants DEF Keys
  <2> QED BY <1>2, <2>1, KeyboardConstants, ModWraps DEF Wrap
<1> QED BY <1>1, <1>2

\* How many slots and keys lie between two indices.
Distance(from, to, n) == IF from <= to THEN to - from ELSE to - from + n

LEMMA DistanceIs ==
  /\ \A from, to \in Slot : (to - from) % B = Distance(from, to, B)
  /\ \A read, key \in 0 .. Keys - 1 : (key - read) % Keys = Distance(read, key, Keys)
<1>1. ASSUME NEW from \in Slot, NEW to \in Slot PROVE (to - from) % B = Distance(from, to, B)
  BY <1>1, KeyboardConstants, ModWraps DEF Distance, Slot
<1>2. ASSUME NEW read \in 0 .. Keys - 1, NEW key \in 0 .. Keys - 1
      PROVE  (key - read) % Keys = Distance(read, key, Keys)
  BY <1>2, KeyboardConstants, ModWraps DEF Distance
<1> QED BY <1>1, <1>2

\* The keys between two indices of the buffer, without %.
Ordered(buffer, from, to, read, key) ==
  /\ Distance(from, to, B) = Distance(read, key, Keys)
  /\ \A i \in 0 .. Distance(from, to, B) - 1 : buffer[Wrap(from + i, B)] = Wrap(read + i, Keys)

LEMMA OrderedMeans ==
  ASSUME NEW buffer, NEW from \in Slot, NEW to \in Slot, NEW read \in 0 .. Keys - 1, NEW key \in 0 .. Keys - 1
  PROVE  /\ (to - from) % B = (key - read) % Keys
         /\ \A i \in 0 .. ((to - from) % B) - 1 : buffer[(from + i) % B] = (read + i) % Keys
         <=> Ordered(buffer, from, to, read, key)
<1>1. (to - from) % B = Distance(from, to, B) /\ (key - read) % Keys = Distance(read, key, Keys)
  BY DistanceIs
<1>2. Distance(from, to, B) \in 0 .. B - 1
  BY KeyboardConstants DEF Distance, Slot
<1>3. \A i \in 0 .. Distance(from, to, B) - 1 :
        (from + i) % B = Wrap(from + i, B) /\ (read + i) % Keys = Wrap(read + i, Keys)
  BY <1>2, SlotAfter, KeyboardConstants
<1> QED BY <1>1, <1>3 DEF Ordered

LEMMA InOrderMeans ==
  /\ KeyboardTypeOK => (BufferInOrder <=> Ordered(keyboard_buffer, buff_from, buff_to, next_read, next_key))
  /\ KeyboardTypeOK' => (BufferInOrder' <=> Ordered(keyboard_buffer', buff_from', buff_to', next_read', next_key'))
BY OrderedMeans DEF KeyboardTypeOK, BufferInOrder, Buffered

LEMMA BufferedIs ==
  /\ KeyboardTypeOK => /\ Buffered = Distance(buff_from, buff_to, B)
                       /\ Buffered \in 0 .. B - 1
                       /\ is_buffer_full(buff_from, buff_to) <=> Buffered = B - 1
  /\ KeyboardTypeOK' => /\ Buffered' = Distance(buff_from', buff_to', B)
                        /\ Buffered' \in 0 .. B - 1
                        /\ is_buffer_full(buff_from', buff_to') <=> Buffered' = B - 1
<1>1. ASSUME NEW from \in Slot, NEW to \in Slot
      PROVE  /\ Distance(from, to, B) \in 0 .. B - 1
             /\ is_buffer_full(from, to) <=> Distance(from, to, B) = B - 1
  BY KeyboardConstants DEF Distance, Slot, is_buffer_full
<1> QED BY <1>1, DistanceIs DEF KeyboardTypeOK, Buffered

\* A key that is accepted is the last of those in the buffer.
LEMMA KeyAccepted ==
  ASSUME KeyboardTypeOK, KeyboardTypeOK', BufferInOrder, KeyboardIrq
  PROVE  BufferInOrder' /\ Buffered' = Buffered + 1 /\ Buffered < B - 1
<1> DEFINE n == Distance(buff_from, buff_to, B)
<1>1. /\ buff_from \in 0 .. B - 1 /\ buff_to \in 0 .. B - 1 /\ B \in Nat /\ B > 0 /\ Keys = 2 * B
      /\ next_key \in 0 .. Keys - 1 /\ next_read \in 0 .. Keys - 1
      /\ keyboard_buffer \in [Slot -> 0 .. Keys - 1]
  BY KeyboardConstants DEF KeyboardTypeOK, Slot, Keys
<1>2. /\ keyboard_buffer' = [keyboard_buffer EXCEPT ![buff_to] = next_key]
      /\ buff_to' = Wrap(buff_to + 1, B) /\ next_key' = Wrap(next_key + 1, Keys)
      /\ buff_from' = buff_from /\ next_read' = next_read
      /\ n < B - 1
  <2>1. (next_key + 1) % Keys = Wrap(next_key + 1, Keys)
    BY <1>1, SlotAfter
  <2>2. NextSlot(buff_to) = Wrap(buff_to + 1, B)
    BY <1>1 DEF NextSlot, Wrap
  <2>3. n < B - 1
    BY <1>1, BufferedIs DEF KeyboardIrq
  <2> QED BY <2>1, <2>2, <2>3 DEF KeyboardIrq
<1>3. n \in Nat /\ Distance(buff_from, buff_to', B) = n + 1
  BY <1>1, <1>2 DEF Distance, Wrap
<1>4. Distance(next_read, next_key', Keys) = n + 1
  <2>1. n = Distance(next_read, next_key, Keys)
    BY InOrderMeans DEF Ordered
  <2> HIDE DEF n
  <2> QED BY <1>1, <1>2, <1>3, <2>1 DEF Distance, Wrap
<1>5. ASSUME NEW i \in 0 .. n PROVE keyboard_buffer'[Wrap(buff_from + i, B)] = Wrap(next_read + i, Keys)
  <2>1. CASE i = n
    <3>1. Wrap(buff_from + i, B) = buff_to
      BY <1>1, <2>1 DEF Distance, Wrap
    <3>2. Wrap(next_read + i, Keys) = next_key
      <4>1. i = Distance(next_read, next_key, Keys)
        BY <2>1, InOrderMeans DEF Ordered
      <4> QED BY <1>1, <4>1 DEF Distance, Wrap
    <3> QED BY <1>1, <1>2, <3>1, <3>2 DEF Slot
  <2>2. CASE i # n
    <3>1. i \in 0 .. n - 1
      BY <1>3, <2>2
    <3>2. Wrap(buff_from + i, B) # buff_to /\ Wrap(buff_from + i, B) \in Slot
      BY <1>1, <3>1 DEF Distance, Wrap, Slot
    <3>3. keyboard_buffer[Wrap(buff_from + i, B)] = Wrap(next_read + i, Keys)
      BY <3>1, InOrderMeans DEF Ordered
    <3> QED BY <1>1, <1>2, <3>2, <3>3
  <2> QED BY <2>1, <2>2
<1>6. Ordered(keyboard_buffer', buff_from', buff_to', next_read', next_key')
  BY <1>2, <1>3, <1>4, <1>5 DEF Ordered
<1>7. BufferInOrder'
  BY <1>6, InOrderMeans
<1>8. Buffered' = n + 1 /\ Buffered = n
  <2>1. Buffered' = Distance(buff_from', buff_to', B)
    BY BufferedIs
  <2> QED BY <1>2, <1>3, <2>1, BufferedIs
<1> QED BY <1>2, <1>7, <1>8

\* Keys are taken from the front.
LEMMA KeysTaken ==
  ASSUME KeyboardTypeOK, KeyboardTypeOK', BufferInOrder, NEW count \in 0 .. Buffered,
         buff_from' = (buff_from + count) % B, next_read' = (next_read + count) % Keys,
         UNCHANGED <<keyboard_buffer, buff_to, next_key>>
  PROVE  /\ BufferInOrder' /\ Buffered' = Buffered - count
         /\ \A i \in 0 .. Buffered - count - 1 :
              (buff_from' + i) % B = (buff_from + (count + i)) % B
<1> DEFINE n == Distance(buff_from, buff_to, B)
<1>1. /\ buff_from \in 0 .. B - 1 /\ buff_to \in 0 .. B - 1 /\ B \in Nat /\ B > 0 /\ Keys = 2 * B
      /\ next_key \in 0 .. Keys - 1 /\ next_read \in 0 .. Keys - 1
      /\ Buffered = n /\ n \in 0 .. B - 1 /\ count \in 0 .. n
  BY KeyboardConstants, BufferedIs DEF KeyboardTypeOK, Slot, Keys
<1>2. /\ buff_from' = Wrap(buff_from + count, B) /\ next_read' = Wrap(next_read + count, Keys)
      /\ keyboard_buffer' = keyboard_buffer /\ buff_to' = buff_to /\ next_key' = next_key
  BY <1>1, SlotAfter DEF Slot
<1>3. Distance(buff_from', buff_to, B) = n - count
  BY <1>1, <1>2 DEF Distance, Wrap
<1>4. Distance(next_read', next_key, Keys) = n - count
  <2>1. n = Distance(next_read, next_key, Keys)
    BY InOrderMeans DEF Ordered
  <2> HIDE DEF n
  <2> QED BY <1>1, <1>2, <2>1 DEF Distance, Wrap
<1>5. ASSUME NEW i \in 0 .. n - count - 1
      PROVE  /\ Wrap(buff_from' + i, B) = Wrap(buff_from + (count + i), B)
             /\ Wrap(next_read' + i, Keys) = Wrap(next_read + (count + i), Keys)
             /\ count + i \in 0 .. n - 1
             /\ (buff_from' + i) % B = (buff_from + (count + i)) % B
  <2> HIDE DEF n
  <2>1. /\ Wrap(buff_from' + i, B) = Wrap(buff_from + (count + i), B)
        /\ Wrap(next_read' + i, Keys) = Wrap(next_read + (count + i), Keys)
        /\ count + i \in 0 .. n - 1 /\ i \in 0 .. B
    BY <1>1, <1>2, <1>5 DEF Wrap
  <2>2. (buff_from' + i) % B = Wrap(buff_from' + i, B)
    <3>1. buff_from' \in Slot
      BY DEF KeyboardTypeOK
    <3> QED BY <2>1, <3>1, SlotAfter
  <2>3. (buff_from + (count + i)) % B = Wrap(buff_from + (count + i), B)
    <3>1. buff_from \in Slot /\ count + i \in 0 .. B
      BY <1>1, <2>1 DEF Slot
    <3> QED BY <3>1, SlotAfter
  <2> QED BY <2>1, <2>2, <2>3
<1>6. Ordered(keyboard_buffer', buff_from', buff_to', next_read', next_key')
  <2>1. \A i \in 0 .. n - 1 : keyboard_buffer[Wrap(buff_from + i, B)] = Wrap(next_read + i, Keys)
    BY InOrderMeans DEF Ordered
  <2> HIDE DEF n
  <2> QED BY <1>2, <1>3, <1>4, <1>5, <2>1 DEF Ordered
<1>7. BufferInOrder' /\ Buffered' = n - count
  <2>1. Buffered' = Distance(buff_from', buff_to', B)
    BY BufferedIs
  <2> QED BY <1>2, <1>3, <1>6, <2>1, InOrderMeans
<1> QED BY <1>1, <1>5, <1>7

-----------------------------------------------------------------------------
(* The steps of the kernel as the readers see them. *)

ReadPoint == {"read0", "read1"}

Reading == cont[current] \in ReadPoint

\* Nothing happens to a reader or to the buffer.
Aside ==
  /\ UNCHANGED kbdVars
  /\ sched'.queue["keyboard"] = sched.queue["keyboard"]
  /\ \A t \in Task : cont[t] \in ReadPoint \/ cont'[t] \in ReadPoint => cont'[t] = cont[t]
  /\ \/ current' = current /\ cont'[current] = cont[current]
     \/ ~Reading /\ ~Reading'

KeyboardStep ==
  \/ Aside
  \/ KeyboardIrq /\ (sched' = sched \/ IsPreempted)
  \/ \E size \in ReadSizes : SysRead(size)
  \/ ReadResume

\* Who gets the processor from the ready queue, or is the idle task, is not in the middle of
\* a read.
LEMMA ReadyDoNotRead ==
  ASSUME Core, Resumption
  PROVE  /\ cont[Idle] \notin ReadPoint
         /\ \A t \in ToSet(OnQueue("ready")) : cont[t] \notin ReadPoint
         /\ cont[NextTask(sched)] \notin ReadPoint
<1>1. /\ cont[Idle] = "user" /\ \A t \in ToSet(OnQueue("ready")) : cont[t] \in {"user", "sem"}
  BY QueueNames DEF Core, IdleInUser, Resumption, ListsResume, Resumes
<1>2. NextTask(sched) = Idle \/ NextTask(sched) \in ToSet(OnQueue("ready"))
  <2>1. OnQueue("ready") \in Seq(Task)
    BY CoreSane, SaneFields, QueueNames DEF OnQueue
  <2> QED BY <2>1, MembersType DEF NextTask, OnQueue
<1> QED BY <1>1, <1>2 DEF ReadPoint

\* A step that leaves the keyboard and its queue alone is such a step, if who gets the
\* processor is not in the middle of a read.
LEMMA AsideBySwitch ==
  ASSUME Core, UNCHANGED kbdVars, sched'.queue["keyboard"] = sched.queue["keyboard"],
         NEW x \in Task, NEW c, c \notin ReadPoint, cont[x] \notin ReadPoint, ~Reading,
         cont' = cont \/ cont' = [cont EXCEPT ![x] = c],
         sched'.current = sched.current \/ (sched'.current \in Task /\ cont[sched'.current] \notin ReadPoint)
  PROVE  Aside
<1>1. cont \in [Task -> Continuation] /\ current \in Task /\ current = sched.current
      /\ current' = sched'.current
  BY CurrentUnlinked DEF current
<1>2. \A t \in Task : cont[t] \in ReadPoint \/ cont'[t] \in ReadPoint => cont'[t] = cont[t]
  BY <1>1
<1>3. ~Reading'
  BY <1>1 DEF Reading
<1> QED BY <1>2, <1>3 DEF Aside

LEMMA AsideEffects ==
  ASSUME Core, Core', Resumption, UNCHANGED kbdVars,
         \/ Boots \/ RotatesOut \/ Exits \/ LeavesForGood \/ Creates
         \/ Stays /\ (Reading => cont' = cont)
         \/ \E s \in Sem : (Sleeps(s, FALSE, "sem") /\ ~Reading) \/ WakesFirst(s) \/ WakesAll(s)
  PROVE  Aside
<1> DEFINE q == sched.queue["keyboard"]
<1>0. /\ current \in Task /\ current = sched.current /\ cont \in [Task -> Continuation]
      /\ sched \in ProcessTable /\ sched.queue \in [Queue -> Seq(Task)] /\ Sane(sched)
      /\ current' = sched'.current /\ current' \in Task
      /\ "ready" \in Queue /\ "free" \in Queue /\ "keyboard" \in Queue
      /\ \A s \in Sem : s \in Queue \ {"ready", "free", "keyboard"}
  <2>1. current' \in Task
    BY CoreTask DEF Core, SchedulerTypeOK, ProcessTable, current
  <2> QED BY <2>1, CurrentUnlinked, SaneFields, QueueNames DEF current
<1>1. "user" \notin ReadPoint /\ "none" \notin ReadPoint /\ "sem" \notin ReadPoint /\ "exit" \notin ReadPoint
      /\ "boot" \notin ReadPoint
  BY DEF ReadPoint
<1>2. CASE Boots
  <2>1. sched'.queue["keyboard"] = q /\ sched'.current = Task1 /\ Task1 \in Task
    BY <1>0, <1>2, SaneFields DEF Boots, ProcessTable
  <2>2. cont[Task1] = "user" /\ cont[current] = "boot" /\ cont' = [cont EXCEPT ![current] = "none"]
    BY <1>2 DEF Boots, GoesOn, Resumption
  <2> QED BY <1>0, <1>1, <2>1, <2>2, AsideBySwitch DEF Reading
<1>3. CASE Stays /\ (Reading => cont' = cont)
  <2>1. sched'.queue = sched.queue /\ current' = current
    BY <1>0, <1>3 DEF Stays
  <2>2. CASE cont' = cont
    BY <2>1, <2>2 DEF Aside
  <2>3. CASE cont' # cont
    <3>1. ~Reading /\ cont' = [cont EXCEPT ![current] = "user"]
      BY <1>3, <2>3 DEF Stays, GoesOn
    <3> QED BY <1>0, <1>1, <2>1, <3>1, AsideBySwitch DEF Reading
  <2> QED BY <2>2, <2>3
<1>4. CASE RotatesOut
  <2> DEFINE all == Append(sched.queue["ready"], current)
  <2>1. /\ cont[current] = "user" /\ cont' = cont /\ sched'.queue["keyboard"] = q
        /\ sched'.current = Head(all)
    BY <1>0, <1>4 DEF RotatesOut, Rotates
  <2>2. Head(all) = current \/ Head(all) \in ToSet(OnQueue("ready"))
    <3>1. sched.queue["ready"] \in Seq(Task)
      BY <1>0
    <3>2. all \in Seq(Task) /\ all # <<>> /\ ToSet(all) = ToSet(sched.queue["ready"]) \cup {current}
      BY <1>0, <3>1, AppendMembers
    <3> HIDE DEF all
    <3>3. Head(all) \in ToSet(all)
      BY <3>2, MembersType
    <3> QED BY <3>2, <3>3 DEF OnQueue
  <2> HIDE DEF all
  <2>3. cont[sched'.current] \notin ReadPoint
    BY <1>1, <2>1, <2>2, ReadyDoNotRead
  <2> QED BY <1>0, <1>1, <2>1, <2>3, AsideBySwitch DEF Reading
<1>5. CASE Exits
  <2>1. /\ cont[current] = "user" /\ cont' = [cont EXCEPT ![current] = "exit"]
        /\ sched'.queue["keyboard"] = q /\ sched'.current = sched.current
    BY <1>0, <1>5 DEF Exits, GoesOn, SameTicks, SameFields
  <2> QED BY <1>0, <1>1, <2>1, AsideBySwitch DEF Reading
<1>6. CASE LeavesForGood
  <2>1. /\ cont[current] = "exit" /\ cont' = [cont EXCEPT ![current] = "none"]
        /\ sched'.queue["keyboard"] = q /\ sched'.current = NextTask(sched)
    BY <1>0, <1>6 DEF LeavesForGood, GoesOn, Dispatches
  <2>2. cont[sched'.current] \notin ReadPoint
    BY <2>1, ReadyDoNotRead
  <2> QED BY <1>0, <1>1, <2>1, <2>2, AsideBySwitch DEF Reading
<1>7. CASE Creates
  <2>1. PICK t \in Task : t = FreeTask(sched) /\ t \in ToSet(OnQueue("free"))
    BY <1>0, <1>7, SpawnMoves DEF Creates, OnQueue
  <2>2. cont[t] \notin ReadPoint
    BY <1>0, <2>1 DEF Resumption, ListsResume, Resumes, ReadPoint
  <2>3. /\ cont[current] = "user" /\ cont' = [cont EXCEPT ![t] = "user"]
        /\ sched'.queue["keyboard"] = q /\ sched'.current = sched.current
    BY <1>0, <1>7, <2>1 DEF Creates, Spawns
  <2> QED BY <1>0, <1>1, <2>2, <2>3, AsideBySwitch DEF Reading
<1>8. ASSUME NEW s \in Sem, Sleeps(s, FALSE, "sem"), ~Reading PROVE Aside
  <2>1. /\ cont' = [cont EXCEPT ![current] = "sem"]
        /\ sched'.queue["keyboard"] = q /\ sched'.current = NextTask(sched)
    BY <1>0, <1>8 DEF Sleeps, GoesOn, Blocks
  <2>2. cont[sched'.current] \notin ReadPoint
    BY <2>1, ReadyDoNotRead
  <2> QED BY <1>0, <1>1, <1>8, <2>1, <2>2, AsideBySwitch DEF Reading
<1>9. ASSUME NEW s \in Sem, WakesFirst(s) PROVE Aside
  <2>1. /\ cont[current] = "user" /\ cont' = cont
        /\ sched'.queue["keyboard"] = q /\ sched'.current = sched.current
    BY <1>0, <1>9 DEF WakesFirst, Wakes, SameTicks, SameFields
  <2> QED BY <1>0, <1>1, <2>1, AsideBySwitch DEF Reading
<1>10. ASSUME NEW s \in Sem, WakesAll(s) PROVE Aside
  <2>1. WakeAll(sched, s).current = sched.current /\ WakeAll(sched, s).queue["keyboard"] = q
    BY <1>0, WakeAllLists
  <2>2. /\ cont[current] \in {"user", "exit"} /\ cont' = cont
        /\ sched'.queue["keyboard"] = q /\ sched'.current = sched.current
    BY <1>10, <2>1 DEF WakesAll
  <2>3. ~Reading /\ cont[current] \notin ReadPoint
    BY <1>1, <2>2 DEF Reading
  <2> QED BY <1>0, <1>1, <2>2, <2>3, AsideBySwitch
<1> QED BY <1>2, <1>3, <1>4, <1>5, <1>6, <1>7, <1>8, <1>9, <1>10

LEMMA KeyboardSteps ==
  ASSUME Inv, Inv', Resumption, [Next]_vars
  PROVE  KeyboardStep
<1>0. Core /\ Core' /\ WaitersOnlyAtZero /\ SemaphoresTypeOK
  BY DEF Inv
<1>1. CASE Boot
  <2>1. Boots /\ UNCHANGED kbdVars
    BY <1>0, <1>1, ReturnGateEffect DEF Boot
  <2> QED BY <1>0, <2>1, AsideEffects DEF KeyboardStep
<1>2. CASE Clock
  <2>1. (Stays \/ RotatesOut) /\ UNCHANGED kbdVars /\ ~Reading
    BY <1>0, <1>2, ClockEffect DEF Clock, ClockTick, InterruptsEnabled, Reading, ReadPoint
  <2> QED BY <1>0, <2>1, AsideEffects DEF KeyboardStep
<1>3. CASE Typing
  <2>1. KeyboardIrq /\ (sched' = sched \/ IsPreempted)
    BY <1>0, <1>3, KeyboardIrqEffect DEF Typing
  <2> QED BY <2>1 DEF KeyboardStep
<1>4. CASE UNCHANGED vars
  <2>1. Stays /\ UNCHANGED kbdVars /\ cont' = cont
    BY <1>4, UnchangedEffect DEF vars, schedVars
  <2> QED BY <1>0, <2>1, AsideEffects DEF KeyboardStep
<1>5. CASE Syscall
  <2>0. ASSUME InSyscall PROVE ~Reading
    BY <2>0 DEF InSyscall, Reading, ReadPoint
  <2>1. CASE Create
    <3>1. Creates /\ UNCHANGED kbdVars
      BY <1>0, <2>1, SpawnEffect DEF Create
    <3> QED BY <1>0, <3>1, AsideEffects DEF KeyboardStep
  <2>2. CASE Leave
    <3>1. Exits /\ UNCHANGED kbdVars
      BY <1>0, <2>2, SysExitEffect DEF Leave
    <3> QED BY <1>0, <3>1, AsideEffects DEF KeyboardStep
  <2>3. ASSUME NEW q \in NiceQuanta, Nice(q), UNCHANGED kbdVars PROVE KeyboardStep
    <3>1. Stays /\ ~Reading
      BY <1>0, <2>0, <2>3, NiceEffect DEF Nice
    <3> QED BY <1>0, <2>3, <3>1, AsideEffects DEF KeyboardStep
  <2>4. ASSUME NEW s \in Sem, NEW value \in InitValues, SemInit(s, value), UNCHANGED kbdVars
        PROVE  KeyboardStep
    <3>1. Stays /\ cont' = cont
      BY <1>0, <2>4, SemInitCore, UnchangedEffect DEF SemInit
    <3> QED BY <1>0, <2>4, <3>1, AsideEffects DEF KeyboardStep
  <2>5. ASSUME NEW s \in Sem, SemWait(s), UNCHANGED kbdVars PROVE KeyboardStep
    <3>1. (Sleeps(s, FALSE, "sem") \/ Stays) /\ ~Reading
      BY <1>0, <2>0, <2>5, SemWaitEffect DEF SemWait
    <3> QED BY <1>0, <2>5, <3>1, AsideEffects DEF KeyboardStep
  <2>6. ASSUME NEW s \in Sem, SemSignal(s), UNCHANGED kbdVars PROVE KeyboardStep
    <3>1. (WakesFirst(s) \/ Stays) /\ ~Reading
      BY <1>0, <2>0, <2>6, SemSignalEffect DEF SemSignal
    <3> QED BY <1>0, <2>6, <3>1, AsideEffects DEF KeyboardStep
  <2>7. ASSUME NEW s \in Sem, SemDestroy(s), UNCHANGED kbdVars PROVE KeyboardStep
    <3>1. WakesAll(s)
      BY <1>0, <2>7, DestroyEffect DEF SemDestroy, InSyscall
    <3> QED BY <1>0, <2>7, <3>1, AsideEffects DEF KeyboardStep
  <2>8. ASSUME NEW size \in ReadSizes, SysRead(size) PROVE KeyboardStep
    BY <2>8 DEF KeyboardStep
  <2> QED BY <1>5, <2>1, <2>2, <2>3, <2>4, <2>5, <2>6, <2>7, <2>8 DEF Syscall, SemaphoreCall, ReadCall
<1>6. CASE Resume
  <2>1. CASE SemWaitReturn /\ UNCHANGED kbdVars
    <3>1. Stays /\ ~Reading
      BY <2>1, UnchangedEffect DEF SemWaitReturn, NotResumable, GoesOn, Reading, ReadPoint
    <3> QED BY <1>0, <2>1, <3>1, AsideEffects DEF KeyboardStep
  <2>2. CASE ReadResume
    BY <2>2 DEF KeyboardStep
  <2>3. CASE ExitDestroySem /\ UNCHANGED kbdVars
    <3>1. Head(owned[current]) \in Sem
      <4>1. owned[current] \in Seq(Sem) /\ owned[current] # <<>>
        BY <1>0, <2>3, CoreTask DEF SemaphoresTypeOK, ExitDestroySem
      <4> QED BY <4>1, MembersType
    <3>2. \E s \in Sem : WakesAll(s)
      BY <2>3, <3>1, DestroyEffect DEF ExitDestroySem
    <3> QED BY <1>0, <2>3, <3>2, AsideEffects DEF KeyboardStep
  <2>4. CASE ExitDone
    <3>1. LeavesForGood /\ UNCHANGED kbdVars
      BY <1>0, <2>4, ExitSwitchEffect DEF ExitDone
    <3> QED BY <1>0, <3>1, AsideEffects DEF KeyboardStep
  <2> QED BY <1>6, <2>1, <2>2, <2>3, <2>4 DEF Resume
<1> QED BY <1>1, <1>2, <1>3, <1>4, <1>5, <1>6 DEF Next

-----------------------------------------------------------------------------
(* What a read and a key do to the readers. *)

ReadQueue == sched.queue["keyboard"]

\* A key comes and nobody is woken.
Arrives ==
  /\ KeyboardIrq /\ ~Reading /\ sched' = sched /\ cont' = cont
  /\ ReadQueue # <<>> => ~ReaderIsDue(remaining_to_read', buff_from, buff_to')

\* A key comes and the first reader is woken, and runs.
Serves ==
  /\ KeyboardIrq /\ ~Reading /\ ReadQueue # <<>> /\ cont' = cont
  /\ current' = Head(ReadQueue) /\ ReadQueue' = Tail(ReadQueue)

\* A read waits behind the others.
Queues(size) ==
  /\ size \in ReadSizes /\ ~Reading /\ ~Reading' /\ ReadQueue # <<>> /\ current # Idle
  /\ ReadQueue' = Append(ReadQueue, current)
  /\ need' = [need EXCEPT ![current] = size] /\ GoesOn("read0")
  /\ UNCHANGED <<keyboard_buffer, buff_from, buff_to, next_key, next_read, remaining_to_read>>

\* A read takes the keys that are there, or as many as it wants.
Takes(size, count) ==
  /\ \/ Reading /\ size = need[current]
     \/ ~Reading /\ size \in ReadSizes /\ ReadQueue = <<>> /\ current # Idle
  /\ count = IF size < Buffered THEN size ELSE Buffered
  /\ buff_from' = (buff_from + count) % B
  /\ next_read' = (next_read + count) % Keys
  /\ need' = [need EXCEPT ![current] = size - count]
  /\ UNCHANGED <<keyboard_buffer, buff_to, next_key>>
  /\ ~Reading'

\* That is all it wants ...
Finishes(size) ==
  /\ Takes(size, size)
  /\ ReadQueue' = ReadQueue /\ GoesOn("user") /\ UNCHANGED remaining_to_read

\* ... or not yet.
AsksMore(size) ==
  /\ Takes(size, Buffered) /\ size > Buffered
  /\ ReadQueue' = <<current>> \o ReadQueue /\ GoesOn("read1")
  /\ remaining_to_read' = size - Buffered

ReaderStep ==
  \/ Aside
  \/ Arrives
  \/ Serves
  \/ \E size \in Nat : Queues(size) \/ Finishes(size) \/ AsksMore(size)

\* Who sleeps in a read leaves the processor to a task that is not in the middle of one.
LEMMA SleepsInRead ==
  ASSUME Core, Resumption, NEW is_first \in BOOLEAN, NEW c, Sleeps("keyboard", is_first, c)
  PROVE  ReadQueue' = list_insert(ReadQueue, current, is_first) /\ ~Reading' /\ GoesOn(c)
<1>0. /\ current \in Task /\ current = sched.current /\ cont \in [Task -> Continuation]
      /\ sched.queue \in [Queue -> Seq(Task)] /\ Sane(sched)
      /\ "ready" \in Queue /\ "keyboard" \in Queue /\ ~NotResumable(cont[current])
      /\ current' = sched'.current
  BY CurrentUnlinked, SaneFields, QueueNames DEF current, Sleeps
<1>1. /\ cont' = [cont EXCEPT ![current] = c] /\ sched'.current = NextTask(sched)
      /\ ReadQueue' = list_insert(ReadQueue, current, is_first)
  BY <1>0 DEF Sleeps, GoesOn, Blocks, ReadQueue
<1>2. NextTask(sched) # current
  <2>1. Running(sched) /\ sched.queue["ready"] \in Seq(Task)
    BY <1>0, CoreRuns
  <2>2. current # Idle
    BY DEF Sleeps
  <2> QED BY <1>0, <2>1, <2>2, FirstOfList DEF NextTask
<1>3. ~Reading'
  BY <1>0, <1>1, <1>2, ReadyDoNotRead DEF Reading
<1> QED BY <1>1, <1>3 DEF GoesOn

LEMMA TakesKeys ==
  ASSUME Inv, Resumption, NEW size \in Nat, TakeKeys(size), current # Idle,
         \/ Reading /\ size = need[current]
         \/ cont[current] = "user" /\ size \in ReadSizes /\ ReadQueue = <<>>,
         UNCHANGED <<keyboard_buffer, buff_to, next_key>>
  PROVE  Finishes(size) \/ AsksMore(size)
<1> DEFINE count == IF size < Buffered THEN size ELSE Buffered
           is_first == TRUE
<1>0. /\ Core /\ current \in Task /\ cont \in [Task -> Continuation] /\ Buffered \in Nat
      /\ current = sched.current /\ current' = sched'.current
      /\ ~NotResumable(cont[current]) /\ cont[current] # "sem"
  <2>1. Buffered \in Nat
    BY BufferedIs, KeyboardConstants DEF Inv
  <2> QED BY <2>1, CurrentUnlinked DEF Inv, current, NotResumable, Reading, ReadPoint
<1>1. /\ buff_from' = (buff_from + count) % B /\ next_read' = (next_read + count) % Keys
      /\ need' = [need EXCEPT ![current] = size - count]
      /\ \/ size > count /\ WaitForRest(size - count)
         \/ ~(size > count) /\ GoesOn("user") /\ remaining_to_read' = remaining_to_read /\ sched' = sched
  BY DEF TakeKeys, GoesOn
<1>2. ASSUME ~Reading' PROVE Takes(size, count)
  BY <1>0, <1>1, <1>2 DEF Takes, Reading, ReadPoint
<1>3. CASE size > count
  <2>1. count = Buffered /\ size > Buffered
    BY <1>0, <1>3
  <2> HIDE DEF count
  <2>2. remaining_to_read' = size - count /\ Sleeps("keyboard", is_first, "read1")
    BY <1>0, <1>1, <1>3, WaitForRestEffect DEF WaitForRest
  <2>3. is_first \in BOOLEAN
    OBVIOUS
  <2>4. \A s : list_insert(s, current, is_first) = <<current>> \o s
    BY DEF list_insert
  <2> HIDE DEF is_first
  <2>5. ReadQueue' = <<current>> \o ReadQueue /\ ~Reading' /\ GoesOn("read1")
    BY <1>0, <2>2, <2>3, <2>4, SleepsInRead
  <2> QED BY <1>2, <2>1, <2>2, <2>5 DEF AsksMore
<1>4. CASE ~(size > count)
  <2>1. count = size
    BY <1>0, <1>4
  <2> HIDE DEF count
  <2>2. GoesOn("user") /\ remaining_to_read' = remaining_to_read /\ sched' = sched
    BY <1>1, <1>4
  <2>3. ~Reading' /\ ReadQueue' = ReadQueue
    BY <1>0, <2>2 DEF Reading, ReadPoint, GoesOn, ReadQueue
  <2> QED BY <1>2, <2>1, <2>2, <2>3 DEF Finishes
<1> QED BY <1>3, <1>4

LEMMA ReaderSteps ==
  ASSUME Inv, Resumption, KeyboardStep
  PROVE  ReaderStep
<1>0. /\ Core /\ current \in Task /\ cont \in [Task -> Continuation] /\ KeyboardTypeOK
      /\ current = sched.current /\ current' = sched'.current
      /\ sched.queue \in [Queue -> Seq(Task)] /\ Sane(sched)
      /\ "ready" \in Queue /\ "keyboard" \in Queue
  BY CurrentUnlinked, SaneFields, QueueNames DEF Inv, current
<1>1. CASE KeyboardIrq /\ sched' = sched
  <2>1. ~Reading /\ cont' = cont
    BY <1>1 DEF KeyboardIrq, InterruptsEnabled, Reading, ReadPoint
  <2>2. ASSUME ReadQueue # <<>>, ReaderIsDue(remaining_to_read', buff_from, buff_to') PROVE Serves
    <3>1. sched' = WakeFirstReader(sched)
      BY <1>1, <2>2 DEF KeyboardIrq, ReadQueue, OnQueue
    <3>2. cont[current] # "boot"
      BY <1>0, <2>2, InitialLists DEF Core, Situation, ReadQueue
    <3>3. Running(sched)
      BY <1>0, <1>1, <3>2 DEF Core, Situation, KeyboardIrq, InterruptsEnabled
    <3>4. Preempts(sched, sched')
      BY <3>1, <3>3, <2>2, PreemptOrder DEF ReadQueue
    <3> QED BY <1>0, <1>1, <2>1, <2>2, <3>4 DEF Serves, Preempts, ReadQueue
  <2> QED BY <1>1, <2>1, <2>2 DEF Arrives, ReaderStep
<1>2. CASE KeyboardIrq /\ IsPreempted
  <2>1. ~Reading /\ cont' = cont /\ ReadQueue # <<>> /\ Preempts(sched, sched')
    BY <1>2 DEF IsPreempted, Reading, ReadPoint, ReadQueue
  <2>2. current' = Head(ReadQueue) /\ ReadQueue' = Tail(ReadQueue)
    BY <1>0, <2>1 DEF Preempts, ReadQueue
  <2> QED BY <1>2, <2>1, <2>2 DEF Serves, ReaderStep
<1>3. ASSUME NEW size \in ReadSizes, SysRead(size) PROVE ReaderStep
  <2>0. size \in Nat /\ cont[current] = "user" /\ current # Idle /\ ~Reading
    BY <1>3, ReadAssumption DEF SysRead, InSyscall, Reading, ReadPoint
  <2>1. CASE SomebodyReads
    <3> DEFINE is_first == FALSE
    <3>1. Sleeps("keyboard", is_first, "read0") /\ is_first \in BOOLEAN
      BY <1>0, <1>3, <2>1, SysReadEffect
    <3>2. \A s : list_insert(s, current, is_first) = Append(s, current)
      BY DEF list_insert
    <3> HIDE DEF is_first
    <3>3. ReadQueue' = Append(ReadQueue, current) /\ ~Reading' /\ GoesOn("read0")
      BY <1>0, <3>1, <3>2, SleepsInRead
    <3>4. /\ need' = [need EXCEPT ![current] = size]
          /\ UNCHANGED <<keyboard_buffer, buff_from, buff_to, next_key, next_read, remaining_to_read>>
      BY <1>3, <2>1 DEF SysRead
    <3>5. Queues(size)
      BY <2>0, <2>1, <3>3, <3>4 DEF Queues, SomebodyReads, ReadQueue, OnQueue
    <3> QED BY <2>0, <3>5 DEF ReaderStep
  <2>2. CASE ~SomebodyReads
    <3>1. TakeKeys(size) /\ ReadQueue = <<>> /\ UNCHANGED <<keyboard_buffer, buff_to, next_key>>
      BY <1>3, <2>2 DEF SysRead, SomebodyReads, ReadQueue, OnQueue
    <3> QED BY <2>0, <3>1, TakesKeys DEF ReaderStep
  <2> QED BY <2>1, <2>2
<1>4. CASE ReadResume
  <2>1. /\ Reading /\ TakeKeys(need[current]) /\ UNCHANGED <<keyboard_buffer, buff_to, next_key>>
        /\ need[current] \in Nat /\ current # Idle
    BY <1>0, <1>4 DEF ReadResume, KeyboardTypeOK, Reading, ReadPoint, Core, IdleInUser
  <2> QED BY <2>1, TakesKeys DEF ReaderStep
<1> QED BY <1>1, <1>2, <1>3, <1>4 DEF KeyboardStep, ReaderStep

-----------------------------------------------------------------------------
(* The keys in the buffer. *)

LEMMA OrderInit == ASSUME Init PROVE BufferInOrder
<1>1. /\ buff_from = 0 /\ buff_to = 0 /\ next_key = 0 /\ next_read = 0 /\ KeyboardTypeOK
  BY InitInv DEF Init, KeyboardInit, Inv
<1>2. Ordered(keyboard_buffer, 0, 0, 0, 0)
  BY DEF Ordered, Distance
<1> QED BY <1>1, <1>2, InOrderMeans

\* What a read takes are the oldest keys.
LEMMA TakesInOrder ==
  ASSUME KeyboardTypeOK, KeyboardTypeOK', BufferInOrder, NEW size \in Nat, NEW count, Takes(size, count)
  PROVE  /\ BufferInOrder' /\ count \in 0 .. Buffered /\ Buffered' = Buffered - count
         /\ \A i \in 0 .. Buffered - count - 1 :
              (buff_from' + i) % B = (buff_from + (count + i)) % B
<1>1. count \in 0 .. Buffered
  BY BufferedIs, KeyboardConstants DEF Takes
<1> QED BY <1>1, KeysTaken DEF Takes

LEMMA OrderStep ==
  ASSUME Inv, Inv', BufferInOrder, ReaderStep
  PROVE  BufferInOrder'
<1>0. KeyboardTypeOK /\ KeyboardTypeOK'
  BY DEF Inv
<1>1. ASSUME UNCHANGED <<keyboard_buffer, buff_from, buff_to, next_key, next_read>> PROVE BufferInOrder'
  BY <1>1 DEF BufferInOrder, Buffered
<1>2. CASE Aside
  BY <1>1, <1>2 DEF Aside, kbdVars
<1>3. CASE Arrives \/ Serves
  BY <1>0, <1>3, KeyAccepted DEF Arrives, Serves
<1>4. ASSUME NEW size \in Nat, Queues(size) PROVE BufferInOrder'
  BY <1>1, <1>4 DEF Queues
<1>5. ASSUME NEW size \in Nat, NEW count, Takes(size, count) PROVE BufferInOrder'
  BY <1>0, <1>5, TakesInOrder
<1> QED BY <1>2, <1>3, <1>4, <1>5 DEF ReaderStep, Finishes, AsksMore

-----------------------------------------------------------------------------
(* One read in progress at a time. *)

OneRead ==
  \A t \in Task : cont[t] = "read1" =>
    t = current \/ (~Reading /\ ReadQueue # <<>> /\ t = Head(ReadQueue))

LEMMA OneReadInit == ASSUME Init PROVE OneRead
BY DEF Init, SchedulerInit, OneRead

\* The first reader exists, waits in a read, and does not run.
LEMMA FirstReader ==
  ASSUME Core, Resumption
  PROVE  /\ ReadQueue \in Seq(Task)
         /\ ReadQueue # <<>> => /\ Head(ReadQueue) \in Task \ {current}
                                /\ cont[Head(ReadQueue)] \in ReadPoint
<1>1. ReadQueue \in Seq(Task) /\ "keyboard" \in Queue \ {"free"}
  BY CoreSane, SaneFields, QueueNames DEF ReadQueue
<1>2. ASSUME ReadQueue # <<>>
      PROVE  Head(ReadQueue) \in ToSet(ReadQueue) /\ Head(ReadQueue) \in Task
  BY <1>1, <1>2, MembersType
<1>3. \A t \in ToSet(ReadQueue) : t # current /\ cont[t] \in ReadPoint
  BY <1>1, CurrentUnlinked DEF Resumption, ListsResume, Resumes, ReadQueue, OnQueue, ReadPoint
<1> QED BY <1>1, <1>2, <1>3

LEMMA OneReadStep ==
  ASSUME Inv, Resumption, OneRead, ReaderStep
  PROVE  OneRead'
<1>0. /\ Core /\ current \in Task /\ cont \in [Task -> Continuation]
      /\ ReadQueue \in Seq(Task)
      /\ ReadQueue # <<>> => Head(ReadQueue) \in Task \ {current}
  BY CurrentUnlinked, FirstReader DEF Inv
<1>1. SUFFICES ASSUME NEW t \in Task, cont'[t] = "read1"
               PROVE  t = current' \/ (~Reading' /\ ReadQueue' # <<>> /\ t = Head(ReadQueue'))
  BY DEF OneRead
<1>2. CASE Aside
  <2>1. cont[t] = "read1" /\ ReadQueue' = ReadQueue
    BY <1>1, <1>2 DEF Aside, ReadPoint, ReadQueue
  <2>2. CASE current' = current /\ cont'[current] = cont[current]
    <3>1. Reading' <=> Reading
      BY <2>2 DEF Reading
    <3> QED BY <2>1, <2>2, <3>1 DEF OneRead
  <2>3. CASE ~Reading /\ ~Reading'
    <3>1. t # current
      BY <2>1, <2>3 DEF Reading, ReadPoint
    <3> QED BY <2>1, <2>3, <3>1 DEF OneRead
  <2> QED BY <1>2, <2>2, <2>3 DEF Aside
<1>3. CASE Arrives
  <2>1. cont[t] = "read1" /\ ReadQueue' = ReadQueue /\ current' = current /\ (Reading' <=> Reading)
    BY <1>1, <1>3 DEF Arrives, ReadQueue, current, Reading
  <2> QED BY <2>1 DEF OneRead
<1>4. CASE Serves
  <2>1. cont[t] = "read1" /\ t # current /\ current' = Head(ReadQueue)
    BY <1>1, <1>4 DEF Serves, Reading, ReadPoint
  <2> QED BY <2>1 DEF OneRead
<1>5. ASSUME NEW size \in Nat, Queues(size) PROVE t = Head(ReadQueue') /\ ReadQueue' # <<>> /\ ~Reading'
  <2>1. cont[t] = "read1" /\ t # current
    BY <1>0, <1>1, <1>5 DEF Queues, GoesOn
  <2>2. ReadQueue # <<>> /\ ReadQueue' = Append(ReadQueue, current) /\ ~Reading'
    BY <1>5 DEF Queues
  <2>3. Head(ReadQueue') = Head(ReadQueue) /\ ReadQueue' # <<>>
    BY <1>0, <2>2
  <2> QED BY <2>1, <2>2, <2>3 DEF OneRead
\* Whoever takes keys is the only one that can be in the middle of a read.
<1>6. ASSUME NEW size, NEW count, Takes(size, count) PROVE \A u \in Task \ {current} : cont[u] # "read1"
  BY <1>6 DEF Takes, OneRead
<1>7. ASSUME NEW size \in Nat, Finishes(size) PROVE FALSE
  BY <1>0, <1>1, <1>6, <1>7 DEF Finishes, GoesOn
<1>8. ASSUME NEW size \in Nat, AsksMore(size) PROVE ~Reading' /\ ReadQueue' # <<>> /\ t = Head(ReadQueue')
  <2>1. t = current
    BY <1>0, <1>1, <1>6, <1>8 DEF AsksMore, GoesOn
  <2>2. ReadQueue' = <<current>> \o ReadQueue /\ ~Reading'
    BY <1>8 DEF AsksMore, Takes
  <2> QED BY <1>0, <2>1, <2>2
<1> QED BY <1>2, <1>3, <1>4, <1>5, <1>7, <1>8 DEF ReaderStep

-----------------------------------------------------------------------------
(* The countdown. *)

\* A task in the middle of a read wants at least one key more, and the countdown is its own
\* while it runs and while it is the first of those that wait.
Countdown ==
  /\ \A t \in Task : cont[t] \in ReadPoint => need[t] > 0
  /\ cont[current] = "read1" => remaining_to_read = need[current] - Buffered
  /\ cont[current] = "read0" => remaining_to_read <= 0
  /\ ~Reading /\ ReadQueue # <<>> =>
       LET first == Head(ReadQueue)
       IN  /\ Buffered < B - 1
           /\ cont[first] = "read1" => remaining_to_read = need[first] - Buffered
                                       /\ remaining_to_read > 0
           /\ cont[first] = "read0" => remaining_to_read <= 0

LEMMA CountdownInit == ASSUME Init PROVE Countdown
<1>1. ReadQueue = <<>>
  BY InitialLists, QueueNames DEF Init, SchedulerInit, ReadQueue
<1>2. \A t \in Task : cont[t] \notin ReadPoint
  BY DEF Init, SchedulerInit, ReadPoint
<1>3. current \in Task
  BY CoreTask, InitInv DEF Inv
<1> QED BY <1>1, <1>2, <1>3 DEF Countdown, ReadPoint

LEMMA CountdownStep ==
  ASSUME 0 \notin ReadSizes, B > 1,
         Inv, Inv', Resumption, OneRead, Countdown, BufferInOrder, ReaderStep
  PROVE  Countdown'
<1>0. /\ Core /\ current \in Task /\ cont \in [Task -> Continuation] /\ need \in [Task -> Nat]
      /\ remaining_to_read \in Int /\ KeyboardTypeOK /\ KeyboardTypeOK'
      /\ ReadQueue \in Seq(Task) /\ B \in Nat /\ Buffered \in 0 .. B - 1
      /\ ReadQueue # <<>> => Head(ReadQueue) \in Task \ {current}
                             /\ cont[Head(ReadQueue)] \in ReadPoint
  <2>1. Core /\ KeyboardTypeOK /\ KeyboardTypeOK'
    BY DEF Inv
  <2>2. need \in [Task -> Nat] /\ remaining_to_read \in Int
    BY <2>1 DEF KeyboardTypeOK
  <2>3. current \in Task /\ cont \in [Task -> Continuation]
    BY <2>1, CurrentUnlinked
  <2>4. B \in Nat /\ Buffered \in 0 .. B - 1
    BY <2>1, BufferedIs, KeyboardConstants
  <2> QED BY <2>1, <2>2, <2>3, <2>4, FirstReader
<1>1. CASE Aside
  <2>1. /\ need' = need /\ remaining_to_read' = remaining_to_read /\ Buffered' = Buffered
        /\ ReadQueue' = ReadQueue
        /\ \A t \in Task : cont[t] \in ReadPoint \/ cont'[t] \in ReadPoint => cont'[t] = cont[t]
    BY <1>1 DEF Aside, kbdVars, Buffered, ReadQueue
  <2>2. \A t \in Task : cont'[t] \in ReadPoint => need'[t] > 0
    BY <2>1 DEF Countdown
  <2>3. ReadQueue # <<>> => cont'[Head(ReadQueue)] = cont[Head(ReadQueue)]
    BY <1>0, <2>1
  <2>4. CASE current' = current /\ cont'[current] = cont[current]
    <3>1. Reading' <=> Reading
      BY <2>4 DEF Reading
    <3> QED BY <2>1, <2>2, <2>3, <2>4, <3>1 DEF Countdown
  <2>5. CASE ~Reading /\ ~Reading'
    <3>1. cont'[current'] \notin ReadPoint
      BY <2>5 DEF Reading
    <3> QED BY <2>1, <2>2, <2>3, <2>5, <3>1 DEF Countdown, ReadPoint
  <2> QED BY <1>1, <2>4, <2>5 DEF Aside
\* A key that is accepted takes one from the countdown of the first reader.
<1>2. ASSUME Arrives \/ Serves
      PROVE  /\ need' = need /\ cont' = cont /\ Buffered' = Buffered + 1 /\ Buffered < B - 1 /\ ~Reading
             /\ IF ReadQueue = <<>> THEN remaining_to_read' = remaining_to_read
                ELSE remaining_to_read' = IF remaining_to_read < 0 THEN remaining_to_read
                                          ELSE remaining_to_read - 1
  <2>1. KeyboardIrq /\ cont' = cont /\ ~Reading
    BY <1>2 DEF Arrives, Serves
  <2> QED BY <1>0, <2>1, KeyAccepted DEF KeyboardIrq, OnQueue, ReadQueue, CountDown
<1>3. CASE Arrives
  <2>1. /\ ReadQueue' = ReadQueue /\ current' = current /\ ~Reading' /\ cont[current] \notin ReadPoint
        /\ ReadQueue # <<>> => remaining_to_read' > 0 /\ Buffered' # B - 1
    <3>1. ReadQueue # <<>> => ~ReaderIsDue(remaining_to_read', buff_from, buff_to') /\ buff_from' = buff_from
      BY <1>3 DEF Arrives, KeyboardIrq
    <3>2. ReadQueue # <<>> => Buffered' # B - 1 /\ ~(remaining_to_read' <= 0)
      BY <1>0, <3>1, BufferedIs DEF ReaderIsDue
    <3>3. remaining_to_read' \in Int
      BY <1>0 DEF KeyboardTypeOK
    <3>4. ReadQueue' = ReadQueue /\ current' = current /\ ~Reading' /\ cont[current] \notin ReadPoint
      BY <1>3 DEF Arrives, ReadQueue, Reading, current
    <3> QED BY <3>2, <3>3, <3>4
  <2>2. \A t \in Task : cont'[t] \in ReadPoint => need'[t] > 0
    BY <1>2, <1>3 DEF Countdown
  <2>3. CASE ReadQueue = <<>>
    BY <1>2, <1>3, <2>1, <2>2, <2>3 DEF Countdown, ReadPoint
  <2>4. CASE ReadQueue # <<>>
    <3> DEFINE first == Head(ReadQueue)
    <3>1. /\ cont[first] = "read1" => remaining_to_read = need[first] - Buffered /\ remaining_to_read > 0
          /\ cont[first] = "read0" => remaining_to_read <= 0
          /\ need[first] \in Nat
      BY <1>0, <1>2, <1>3, <2>4 DEF Countdown
    <3> HIDE DEF first
    <3>2. /\ Buffered' < B - 1
          /\ cont[first] = "read1" => remaining_to_read' = need[first] - Buffered' /\ remaining_to_read' > 0
          /\ cont[first] = "read0" => remaining_to_read' <= 0
      BY <1>0, <1>2, <1>3, <2>1, <2>4, <3>1
    <3> QED BY <1>2, <1>3, <2>1, <2>2, <3>2 DEF Countdown, ReadPoint, first
  <2> QED BY <2>3, <2>4
<1>4. CASE Serves
  <2> DEFINE first == Head(ReadQueue)
  <2>1. ReadQueue # <<>> /\ current' = first
    BY <1>4 DEF Serves
  <2>2. /\ cont[first] = "read1" => remaining_to_read = need[first] - Buffered /\ remaining_to_read > 0
        /\ cont[first] = "read0" => remaining_to_read <= 0
        /\ need[first] \in Nat /\ cont[first] \in ReadPoint
    BY <1>0, <1>2, <1>4, <2>1 DEF Countdown
  <2> HIDE DEF first
  <2>3. /\ cont[first] = "read1" => remaining_to_read' = need[first] - Buffered'
        /\ cont[first] = "read0" => remaining_to_read' <= 0
    BY <1>0, <1>2, <1>4, <2>1, <2>2
  <2>4. Reading'
    BY <1>2, <1>4, <2>1, <2>2 DEF Reading
  <2>5. \A t \in Task : cont'[t] \in ReadPoint => need'[t] > 0
    BY <1>2, <1>4 DEF Countdown
  <2> QED BY <1>2, <1>4, <2>1, <2>3, <2>4, <2>5 DEF Countdown
<1>5. ASSUME NEW size \in Nat, Queues(size) PROVE Countdown'
  <2> DEFINE first == Head(ReadQueue)
  <2>1. /\ size > 0 /\ ~Reading /\ ~Reading' /\ ReadQueue # <<>>
        /\ ReadQueue' = Append(ReadQueue, current)
        /\ need' = [need EXCEPT ![current] = size] /\ cont' = [cont EXCEPT ![current] = "read0"]
        /\ remaining_to_read' = remaining_to_read /\ Buffered' = Buffered
    BY <1>5 DEF Queues, GoesOn, Buffered
  <2>2. Head(ReadQueue') = first /\ first \in Task /\ first # current
    BY <1>0, <2>1
  <2>3. /\ Buffered < B - 1
        /\ cont[first] = "read1" => remaining_to_read = need[first] - Buffered /\ remaining_to_read > 0
        /\ cont[first] = "read0" => remaining_to_read <= 0
    BY <2>1 DEF Countdown
  <2> HIDE DEF first
  <2>4. cont'[first] = cont[first] /\ need'[first] = need[first]
    BY <1>0, <2>1, <2>2
  <2>5. \A t \in Task : cont'[t] \in ReadPoint => need'[t] > 0
    BY <1>0, <2>1 DEF Countdown
  <2>6. cont'[current'] \notin ReadPoint
    BY <2>1 DEF Reading
  <2> QED BY <2>1, <2>2, <2>3, <2>4, <2>5, <2>6 DEF Countdown, ReadPoint
\* Who takes keys wants some.
<1>6. ASSUME NEW size \in Nat, NEW count, Takes(size, count)
      PROVE  /\ size > 0 /\ count \in 0 .. Buffered /\ Buffered' = Buffered - count /\ ~Reading'
             /\ cont'[current'] \notin ReadPoint
             /\ need' = [need EXCEPT ![current] = size - count]
  <2>1. size > 0
    BY <1>0, <1>6 DEF Takes, Reading, Countdown
  <2>2. count \in 0 .. Buffered /\ Buffered' = Buffered - count
    BY <1>0, <1>6, TakesInOrder
  <2> QED BY <1>6, <2>1, <2>2 DEF Takes, Reading
<1>7. ASSUME NEW size \in Nat, Finishes(size) PROVE Countdown'
  <2>1. /\ size > 0 /\ size \in 0 .. Buffered /\ Buffered' = Buffered - size /\ ~Reading'
        /\ cont'[current'] \notin ReadPoint
        /\ need' = [need EXCEPT ![current] = size - size] /\ cont' = [cont EXCEPT ![current] = "user"]
        /\ ReadQueue' = ReadQueue /\ remaining_to_read' = remaining_to_read
    BY <1>6, <1>7 DEF Finishes, GoesOn
  <2>2. \A t \in Task : cont'[t] \in ReadPoint => need'[t] > 0
    BY <1>0, <2>1 DEF Countdown, ReadPoint
  <2>3. ASSUME ReadQueue # <<>>
        PROVE  remaining_to_read <= 0 /\ cont[Head(ReadQueue)] # "read1"
    <3>1. Reading /\ size = need[current]
      BY <1>7, <2>3 DEF Finishes, Takes
    <3>2. remaining_to_read <= 0
      BY <1>0, <2>1, <3>1 DEF Reading, ReadPoint, Countdown
    <3>3. cont[Head(ReadQueue)] # "read1"
      BY <1>0, <2>3, <3>1 DEF OneRead
    <3> QED BY <3>2, <3>3
  <2>4. Buffered' < B - 1
    BY <1>0, <2>1
  <2>5. ReadQueue # <<>> => cont'[Head(ReadQueue)] = cont[Head(ReadQueue)]
    BY <1>0, <2>1
  <2>6. CASE ReadQueue = <<>>
    BY <2>1, <2>2, <2>6 DEF Countdown, ReadPoint
  <2>7. CASE ReadQueue # <<>>
    <3> DEFINE first == Head(ReadQueue)
    <3>1. cont'[first] # "read1" /\ remaining_to_read' <= 0 /\ ReadQueue' # <<>> /\ Head(ReadQueue') = first
      BY <2>1, <2>3, <2>5, <2>7
    <3> HIDE DEF first
    <3> QED BY <2>1, <2>2, <2>4, <3>1 DEF Countdown, ReadPoint
  <2> QED BY <2>6, <2>7
<1>8. ASSUME NEW size \in Nat, AsksMore(size) PROVE Countdown'
  <2>1. /\ size > Buffered /\ Buffered' = Buffered - Buffered /\ ~Reading'
        /\ cont'[current'] \notin ReadPoint
        /\ need' = [need EXCEPT ![current] = size - Buffered] /\ cont' = [cont EXCEPT ![current] = "read1"]
        /\ ReadQueue' = <<current>> \o ReadQueue /\ remaining_to_read' = size - Buffered
    BY <1>6, <1>8 DEF AsksMore, GoesOn
  <2>2. Head(ReadQueue') = current /\ Buffered' = 0
    BY <1>0, <2>1
  <2>3. \A t \in Task : cont'[t] \in ReadPoint => need'[t] > 0
    BY <1>0, <2>1 DEF Countdown, ReadPoint
  <2>4. need'[current] = size - Buffered /\ cont'[current] = "read1"
    BY <1>0, <2>1
  <2>5. remaining_to_read' = need'[current] - Buffered' /\ remaining_to_read' > 0 /\ Buffered' < B - 1
    BY <1>0, <2>1, <2>2, <2>4
  <2> QED BY <2>1, <2>2, <2>3, <2>4, <2>5 DEF Countdown, ReadPoint
<1> QED BY <1>1, <1>3, <1>4, <1>5, <1>7, <1>8 DEF ReaderStep

-----------------------------------------------------------------------------
(* In every state. *)

KeyInv == BufferInOrder /\ OneRead

LEMMA ReaderStepTaken ==
  ASSUME Inv, Inv', ProcessInv, [Next]_vars
  PROVE  ReaderStep /\ Resumption
BY KeyboardSteps, ReaderSteps DEF ProcessInv

LEMMA KeyStep == Inv /\ Inv' /\ ProcessInv /\ KeyInv /\ [Next]_vars => KeyInv'
BY ReaderStepTaken, OrderStep, OneReadStep DEF KeyInv

\* Every run of the kernel keeps the order of the keys, and one read in progress at most.
THEOREM KeyboardInvariance == Spec => [](Inv /\ ProcessInv /\ KeyInv)
<1>1. Init => KeyInv
  BY OrderInit, OneReadInit DEF KeyInv
<1>2. (Inv /\ ProcessInv /\ KeyInv) /\ [Next]_vars => (Inv /\ ProcessInv /\ KeyInv)'
  BY NextInv, ProcessStep, KeyStep
<1> QED BY <1>1, <1>2, InitInv, ProcessInit, PTL DEF Spec

\* keyboard_routine and read_from_keyboard_buffer neither lose, repeat nor reorder a key that
\* the buffer accepted, for every size of the buffer.
THEOREM KeysStayInOrder == Spec => []BufferInOrder
<1>1. KeyInv => BufferInOrder
  BY DEF KeyInv
<1> QED BY <1>1, KeyboardInvariance, PTL

\* No two reads are in the middle at a time: who has a part of its keys runs, or is the first of
\* the keyboard queue, so that block_in_read never puts it behind somebody.
THEOREM ReadsDoNotMix == Spec => []OneReadInProgress
<1>1. KeyInv => OneReadInProgress
  BY DEF KeyInv, OneRead, OneReadInProgress, ReadQueue, OnQueue
<1> QED BY <1>1, KeyboardInvariance, PTL

\* The countdown of keyboard_routine is that of the reader it wakes, and the buffer has room for
\* the keys that reader waits for.  It takes a buffer of more than one slot, and that nobody
\* reads 0 bytes: such a read returns and leaves those behind it asleep (sys.c:205).
THEOREM CountdownIsRight ==
  ASSUME 0 \notin ReadSizes, KEYBOARD_BUFFER_SIZE > 1
  PROVE  Spec => []CountdownIsOfFirstReader
<1>0. B > 1
  BY DEF B
<1>1. Init => Countdown
  BY CountdownInit
<1>2. Inv /\ Inv' /\ ProcessInv /\ KeyInv /\ Countdown /\ [Next]_vars => Countdown'
  BY <1>0, ReaderStepTaken, CountdownStep DEF KeyInv
<1>3. ASSUME Inv, ProcessInv, Countdown PROVE CountdownIsOfFirstReader
  <2>1. SUFFICES ASSUME InterruptsEnabled, ReadQueue # <<>>
                 PROVE  LET first == Head(ReadQueue)
                        IN  /\ need[first] > 0
                            /\ ~is_buffer_full(buff_from, buff_to)
                            /\ cont[first] = "read1" => remaining_to_read = need[first] - Buffered
                                                        /\ remaining_to_read > 0
                            /\ cont[first] = "read0" => remaining_to_read <= 0
    BY DEF CountdownIsOfFirstReader, OnQueue, ReadQueue
  <2>2. /\ Head(ReadQueue) \in Task /\ cont[Head(ReadQueue)] \in ReadPoint
        /\ ~Reading
    BY <1>3, <2>1, FirstReader DEF Inv, ProcessInv, InterruptsEnabled, Reading, ReadPoint
  <2>3. is_buffer_full(buff_from, buff_to) <=> Buffered = B - 1
    BY <1>3, BufferedIs DEF Inv
  <2> QED BY <1>3, <2>1, <2>2, <2>3, KeyboardConstants DEF Countdown
<1> QED BY <1>1, <1>2, <1>3, KeyboardInvariance, PTL DEF Spec

-----------------------------------------------------------------------------
(* The keyboard implements the stream of keys of module KeyStream. *)

\* The reads in progress and the keys of the buffer, as module KeyStream has them.
Ask == [reader : Task, rest : Nat]

Waits(q, n) == [i \in DOMAIN q |-> [reader |-> q[i], rest |-> n[q[i]]]]

KeysFrom(buffer, from, n) == [i \in 1 .. n |-> buffer[(from + i - 1) % B]]

\* Sequences that begin with a given element.
LEMMA FirstAndRest ==
  ASSUME NEW S, NEW s \in Seq(S), NEW e \in S
  PROVE  /\ <<e>> \o s \in Seq(S) /\ Len(<<e>> \o s) = Len(s) + 1
         /\ (<<e>> \o s)[1] = e /\ \A i \in 1 .. Len(s) : (<<e>> \o s)[i + 1] = s[i]
         /\ Head(<<e>> \o s) = e /\ Tail(<<e>> \o s) = s /\ <<e>> \o s # <<>>
<1> DEFINE r == <<e>> \o s
<1>1. <<e>> \in Seq(S) /\ Len(<<e>>) = 1 /\ <<e>>[1] = e /\ Len(s) \in Nat
  BY LenProperties
<1>2. r \in Seq(S) /\ Len(r) = 1 + Len(s)
      /\ \A i \in 1 .. 1 + Len(s) : r[i] = IF i <= 1 THEN <<e>>[i] ELSE s[i - 1]
  BY <1>1, ConcatProperties
<1>3. r[1] = e /\ \A i \in 1 .. Len(s) : r[i + 1] = s[i]
  BY <1>1, <1>2
<1> HIDE DEF r
<1>4. r # <<>>
  BY <1>1, <1>2, EmptySeq
<1>5. Head(r) = e
  BY <1>2, <1>3, <1>4
<1>6. Tail(r) = s
  <2>1. /\ Tail(r) \in Seq(S) /\ Len(Tail(r)) = Len(r) - 1
        /\ \A i \in 1 .. Len(Tail(r)) : Tail(r)[i] = r[i + 1]
    BY <1>2, <1>4, HeadTailProperties
  <2> QED BY <1>1, <1>2, <1>3, <2>1, SeqEqual
<1> QED BY <1>1, <1>2, <1>3, <1>4, <1>5, <1>6 DEF r

LEMMA FirstThenTail ==
  ASSUME NEW S, NEW s \in Seq(S), s # <<>>
  PROVE  <<Head(s)>> \o Tail(s) = s
<1>1. Len(s) \in Nat /\ Head(s) \in S /\ Head(s) = s[1]
  BY LenProperties, HeadTailProperties
<1>2. /\ Tail(s) \in Seq(S) /\ Len(Tail(s)) = Len(s) - 1
      /\ \A i \in 1 .. Len(Tail(s)) : Tail(s)[i] = s[i + 1]
  BY HeadTailProperties
<1> DEFINE r == <<Head(s)>> \o Tail(s)
<1>3. r \in Seq(S) /\ Len(r) = Len(s) /\ r[1] = s[1] /\ \A i \in 1 .. Len(s) - 1 : r[i + 1] = s[i + 1]
  BY <1>1, <1>2, FirstAndRest
<1> HIDE DEF r
<1>4. \A i \in 1 .. Len(s) : r[i] = s[i]
  <2> SUFFICES ASSUME NEW i \in 1 .. Len(s), i # 1 PROVE r[i] = s[i]
    BY <1>3
  <2>1. i - 1 \in 1 .. Len(s) - 1 /\ (i - 1) + 1 = i
    BY <1>1
  <2> QED BY <1>3, <2>1
<1>5. r = s
  BY <1>3, <1>4, SeqEqual
<1> QED BY <1>5 DEF r

\* A function on 1 .. n is a sequence of n elements.
LEMMA AsSequence ==
  ASSUME NEW S, NEW n \in Nat, NEW f \in [1 .. n -> S]
  PROVE  f \in Seq(S) /\ Len(f) = n
<1>1. f \in Seq(S)
  <2>1. f \in UNION {[1 .. m -> S] : m \in Nat}
    OBVIOUS
  <2> QED BY <2>1, SeqDef
<1>2. Len(f) \in Nat /\ 1 .. Len(f) = 1 .. n
  BY <1>1, LenProperties
<1>3. /\ n \in 1 .. n \/ n = 0
      /\ Len(f) \in 1 .. Len(f) \/ Len(f) = 0
  BY <1>2
<1>4. (n \in 1 .. Len(f) \/ n = 0) /\ (Len(f) \in 1 .. n \/ Len(f) = 0)
  BY <1>2, <1>3
<1>5. n <= Len(f) /\ Len(f) <= n
  BY <1>2, <1>4
<1> QED BY <1>1, <1>2, <1>5

\* The reads of a queue.
LEMMA WaitsAre ==
  ASSUME NEW q \in Seq(Task), NEW n \in [Task -> Nat]
  PROVE  /\ Waits(q, n) \in Seq(Ask) /\ Len(Waits(q, n)) = Len(q) /\ DOMAIN Waits(q, n) = 1 .. Len(q)
         /\ \A i \in 1 .. Len(q) : q[i] \in Task /\ Waits(q, n)[i] = [reader |-> q[i], rest |-> n[q[i]]]
         /\ Waits(q, n) = <<>> <=> q = <<>>
<1>1. Len(q) \in Nat /\ DOMAIN q = 1 .. Len(q) /\ \A i \in 1 .. Len(q) : q[i] \in Task
  BY LenProperties, ElementOfSeq
<1>2. /\ \A i \in 1 .. Len(q) : Waits(q, n)[i] = [reader |-> q[i], rest |-> n[q[i]]]
      /\ Waits(q, n) \in [1 .. Len(q) -> Ask]
  BY <1>1 DEF Waits, Ask
<1>3. Waits(q, n) \in Seq(Ask) /\ Len(Waits(q, n)) = Len(q) /\ DOMAIN Waits(q, n) = 1 .. Len(q)
  BY <1>1, <1>2, AsSequence
<1>5. Waits(q, n) = <<>> <=> q = <<>>
  <2>1. (q = <<>> <=> Len(q) = 0) /\ (Waits(q, n) = <<>> <=> Len(Waits(q, n)) = 0)
    BY <1>3, EmptySeq
  <2> QED BY <1>3, <2>1
<1> QED BY <1>1, <1>2, <1>3, <1>5

\* One more, at either end; and the others do not mind what it needs.
OneMore(q, n, t, x, m) ==
  LET ask == [reader |-> t, rest |-> x]
  IN  /\ Waits(q, m) = Waits(q, n)
      /\ Waits(<<t>> \o q, m) = <<ask>> \o Waits(q, n)
      /\ Waits(Append(q, t), m) = Append(Waits(q, n), ask)

LEMMA WaitsLike ==
  ASSUME NEW q \in Seq(Task), NEW n \in [Task -> Nat], NEW t \in Task, NEW x \in Nat, t \notin ToSet(q),
         NEW m \in [Task -> Nat], m[t] = x, \A u \in Task : u # t => m[u] = n[u]
  PROVE  OneMore(q, n, t, x, m)
<1> DEFINE ask == [reader |-> t, rest |-> x]
<1>1. m \in [Task -> Nat] /\ m[t] = x /\ ask \in Ask /\ \A u \in Task : u # t => m[u] = n[u]
  BY DEF Ask
<1>2. \A i \in 1 .. Len(q) : q[i] # t
  BY LenProperties DEF ToSet
<1>3. Waits(q, m) = Waits(q, n)
  <2>1. /\ Waits(q, n) \in Seq(Ask) /\ Len(Waits(q, n)) = Len(q)
        /\ \A i \in 1 .. Len(q) : q[i] \in Task /\ Waits(q, n)[i] = [reader |-> q[i], rest |-> n[q[i]]]
    BY WaitsAre
  <2>2. /\ Waits(q, m) \in Seq(Ask) /\ Len(Waits(q, m)) = Len(q)
        /\ \A i \in 1 .. Len(q) : Waits(q, m)[i] = [reader |-> q[i], rest |-> m[q[i]]]
    BY <1>1, WaitsAre
  <2>3. ASSUME NEW i \in 1 .. Len(q) PROVE Waits(q, m)[i] = Waits(q, n)[i]
    <3>1. q[i] \in Task /\ m[q[i]] = n[q[i]]
      BY <1>1, <1>2, <2>1
    <3> QED BY <2>1, <2>2, <3>1
  <2> QED BY <2>1, <2>2, <2>3, SeqEqual
<1>4. Len(q) \in Nat
  BY LenProperties
<1>5. Waits(<<t>> \o q, m) = <<ask>> \o Waits(q, m)
  <2> DEFINE r == <<t>> \o q
             w == <<ask>> \o Waits(q, m)
  <2>1. /\ r \in Seq(Task) /\ Len(r) = Len(q) + 1
        /\ r[1] = t /\ \A i \in 1 .. Len(q) : r[i + 1] = q[i]
    BY FirstAndRest
  <2>2. /\ Waits(q, m) \in Seq(Ask) /\ Len(Waits(q, m)) = Len(q)
        /\ \A i \in 1 .. Len(q) : Waits(q, m)[i] = [reader |-> q[i], rest |-> m[q[i]]]
    BY <1>1, WaitsAre
  <2>3. /\ w \in Seq(Ask) /\ Len(w) = Len(q) + 1
        /\ w[1] = ask /\ \A i \in 1 .. Len(q) : w[i + 1] = Waits(q, m)[i]
    BY <1>1, <2>2, FirstAndRest
  <2> HIDE DEF r, w
  <2>4. /\ Waits(r, m) \in Seq(Ask) /\ Len(Waits(r, m)) = Len(q) + 1
        /\ \A i \in 1 .. Len(q) + 1 : Waits(r, m)[i] = [reader |-> r[i], rest |-> m[r[i]]]
    BY <1>1, <2>1, WaitsAre
  <2>5. ASSUME NEW i \in 1 .. Len(q) + 1 PROVE Waits(r, m)[i] = w[i]
    <3>1. CASE i = 1
      BY <1>1, <1>4, <2>1, <2>3, <2>4, <3>1
    <3>2. CASE i # 1
      <4>1. PICK j \in 1 .. Len(q) : i = j + 1
        <5>1. i - 1 \in 1 .. Len(q) /\ i = (i - 1) + 1
          BY <1>4, <3>2
        <5> QED BY <5>1
      <4>2. r[i] = q[j] /\ w[i] = Waits(q, m)[j]
        BY <2>1, <2>3, <4>1
      <4>3. Waits(q, m)[j] = [reader |-> q[j], rest |-> m[q[j]]]
        BY <2>2
      <4>4. Waits(r, m)[i] = [reader |-> r[i], rest |-> m[r[i]]]
        BY <2>4
      <4> QED BY <4>2, <4>3, <4>4
    <3> QED BY <3>1, <3>2
  <2>6. Waits(r, m) = w
    BY <2>3, <2>4, <2>5, SeqEqual
  <2> QED BY <2>6 DEF r, w
<1>6. Waits(Append(q, t), m) = Append(Waits(q, m), ask)
  <2> DEFINE r == Append(q, t)
             w == Append(Waits(q, m), ask)
  <2>1. /\ r \in Seq(Task) /\ Len(r) = Len(q) + 1
        /\ r[Len(q) + 1] = t /\ \A i \in 1 .. Len(q) : r[i] = q[i]
    BY AppendProperties
  <2>2. /\ Waits(q, m) \in Seq(Ask) /\ Len(Waits(q, m)) = Len(q)
        /\ \A i \in 1 .. Len(q) : Waits(q, m)[i] = [reader |-> q[i], rest |-> m[q[i]]]
    BY <1>1, WaitsAre
  <2>3. /\ w \in Seq(Ask) /\ Len(w) = Len(q) + 1
        /\ w[Len(q) + 1] = ask /\ \A i \in 1 .. Len(q) : w[i] = Waits(q, m)[i]
    BY <1>1, <2>2, AppendProperties
  <2> HIDE DEF r, w
  <2>4. /\ Waits(r, m) \in Seq(Ask) /\ Len(Waits(r, m)) = Len(q) + 1
        /\ \A i \in 1 .. Len(q) + 1 : Waits(r, m)[i] = [reader |-> r[i], rest |-> m[r[i]]]
    BY <1>1, <2>1, WaitsAre
  <2>5. ASSUME NEW i \in 1 .. Len(q) + 1 PROVE Waits(r, m)[i] = w[i]
    <3>1. CASE i = Len(q) + 1
      BY <1>1, <2>1, <2>3, <2>4, <3>1
    <3>2. CASE i \in 1 .. Len(q)
      <4>1. r[i] = q[i] /\ w[i] = Waits(q, m)[i]
        BY <2>1, <2>3, <3>2
      <4>2. Waits(q, m)[i] = [reader |-> q[i], rest |-> m[q[i]]]
        BY <2>2, <3>2
      <4>3. Waits(r, m)[i] = [reader |-> r[i], rest |-> m[r[i]]]
        BY <2>4
      <4> QED BY <4>1, <4>2, <4>3
    <3> QED BY <1>4, <3>1, <3>2
  <2>6. Waits(r, m) = w
    BY <2>3, <2>4, <2>5, SeqEqual
  <2> QED BY <2>6 DEF r, w
<1> QED BY <1>3, <1>5, <1>6 DEF OneMore

LEMMA WaitsWith ==
  ASSUME NEW q \in Seq(Task), NEW n \in [Task -> Nat], NEW t \in Task, NEW x \in Nat, t \notin ToSet(q),
         NEW m, m = [n EXCEPT ![t] = x]
  PROVE  OneMore(q, n, t, x, m)
<1>1. m \in [Task -> Nat] /\ m[t] = x /\ \A u \in Task : u # t => m[u] = n[u]
  OBVIOUS
<1> QED BY <1>1, WaitsLike

\* The keys of the buffer.
LEMMA KeysAre ==
  ASSUME NEW buffer \in [Slot -> 0 .. Keys - 1], NEW from \in Slot, NEW n \in Nat
  PROVE  /\ KeysFrom(buffer, from, n) \in Seq(0 .. Keys - 1) /\ Len(KeysFrom(buffer, from, n)) = n
         /\ \A i \in 1 .. n : KeysFrom(buffer, from, n)[i] = buffer[(from + (i - 1)) % B]
<1> DEFINE k == KeysFrom(buffer, from, n)
<1>1. ASSUME NEW i \in 1 .. n
      PROVE  k[i] = buffer[(from + (i - 1)) % B] /\ k[i] \in 0 .. Keys - 1
  <2>1. from \in Int /\ from + i - 1 = from + (i - 1) /\ from + (i - 1) \in Int
    BY DEF Slot
  <2>2. (from + (i - 1)) % B \in Slot
    BY <2>1, KeyboardConstants DEF Slot
  <2> QED BY <2>1, <2>2 DEF KeysFrom
<1>2. k \in [1 .. n -> 0 .. Keys - 1]
  BY <1>1 DEF KeysFrom
<1> HIDE DEF k
<1>3. k \in Seq(0 .. Keys - 1) /\ Len(k) = n
  BY <1>2, AsSequence
<1> QED BY <1>1, <1>3 DEF k

Asked == Waits(Readers, need)
Typed == KeysFrom(keyboard_buffer, buff_from, Buffered)

\* KeyStream's Give and its steps, between two values of its variables.
Gives(rs, k, w2, k2) ==
  LET first == Head(rs)
      count == IF first.rest < Len(k) THEN first.rest ELSE Len(k)
  IN  /\ k2 = SubSeq(k, count + 1, Len(k))
      /\ w2 = IF first.rest = count THEN Tail(rs)
              ELSE <<[first EXCEPT !.rest = @ - count]>> \o Tail(rs)

Reads(r, size, w, k, w2, k2) ==
  LET all == Append(w, [reader |-> r, rest |-> size])
  IN  /\ \A i \in DOMAIN w : w[i].reader # r
      /\ \/ w = <<>> /\ Gives(all, k, w2, k2)
         \/ w # <<>> /\ w2 = all /\ k2 = k

StreamStep(w, k, w2, k2) ==
  \/ w2 = w /\ k2 = k
  \/ \E r \in Task, size \in ReadSizes : Reads(r, size, w, k, w2, k2)
  \/ w # <<>> /\ Gives(w, k, w2, k2)
  \/ \E key \in 0 .. Keys - 1 : Len(k) < B - 1 /\ k2 = Append(k, key) /\ w2 = w

LEMMA StreamSteps ==
  StreamStep(Asked, Typed, Asked', Typed') => [Stream!Next]_(Stream!vars)
<1>1. ASSUME Asked' = Asked, Typed' = Typed PROVE UNCHANGED Stream!vars
  BY <1>1 DEF Stream!vars, Asked, Typed, Waits, KeysFrom
<1>2. ASSUME NEW r \in Task, NEW size \in ReadSizes, Reads(r, size, Asked, Typed, Asked', Typed')
      PROVE  Stream!Read(r, size)
  BY <1>2 DEF Reads, Gives, Stream!Read, Stream!Idles, Stream!Give, Asked, Typed, Waits, KeysFrom
<1>3. ASSUME Asked # <<>>, Gives(Asked, Typed, Asked', Typed') PROVE Stream!Serve
  BY <1>3 DEF Gives, Stream!Serve, Stream!Give, Asked, Typed, Waits, KeysFrom
<1>4. ASSUME NEW key, Len(Typed) < B - 1, Typed' = Append(Typed, key), Asked' = Asked
      PROVE  Stream!Type(key)
  BY <1>4 DEF Stream!Type, Asked, Typed, Waits, KeysFrom
<1> QED BY <1>1, <1>2, <1>3, <1>4 DEF StreamStep, Stream!Next

\* Who is in the middle of a read, and who waits behind.
LEMMA ReadersAre ==
  /\ ReadQueue \in Seq(Task) => Readers = IF Reading THEN <<current>> \o ReadQueue ELSE ReadQueue
  /\ ReadQueue' \in Seq(Task) => Readers' = IF Reading' THEN <<current'>> \o ReadQueue' ELSE ReadQueue'
BY ConcatEmptySeq DEF Readers, Reading, ReadPoint, ReadQueue, OnQueue

\* What the buffer accepts is the end of the stream.
LEMMA KeyIsTyped ==
  ASSUME KeyboardTypeOK, KeyboardTypeOK', BufferInOrder, KeyboardIrq
  PROVE  /\ Len(Typed) < B - 1 /\ next_key \in 0 .. Keys - 1
         /\ Typed' = Append(Typed, next_key)
<1>1. /\ keyboard_buffer \in [Slot -> 0 .. Keys - 1] /\ buff_from \in Slot /\ buff_to \in Slot
      /\ keyboard_buffer' \in [Slot -> 0 .. Keys - 1] /\ buff_from' \in Slot
      /\ next_key \in 0 .. Keys - 1 /\ B \in Nat /\ B > 0
      /\ Buffered \in Nat /\ Buffered < B - 1 /\ Buffered' = Buffered + 1
      /\ Buffered = Distance(buff_from, buff_to, B)
  BY BufferedIs, KeyAccepted, KeyboardConstants DEF KeyboardTypeOK
<1>2. keyboard_buffer' = [keyboard_buffer EXCEPT ![buff_to] = next_key] /\ buff_from' = buff_from
  BY DEF KeyboardIrq
<1>3. ASSUME NEW i \in 0 .. Buffered
      PROVE  /\ (buff_from + i) % B \in Slot
             /\ (buff_from + i) % B = buff_to <=> i = Buffered
  <2>1. (buff_from + i) % B = Wrap(buff_from + i, B)
    BY <1>1, SlotAfter
  <2> QED BY <1>1, <2>1 DEF Wrap, Distance, Slot
<1>4. /\ Typed \in Seq(0 .. Keys - 1) /\ Len(Typed) = Buffered
      /\ \A i \in 1 .. Buffered : Typed[i] = keyboard_buffer[(buff_from + (i - 1)) % B]
  BY <1>1, KeysAre DEF Typed
<1>5. /\ Typed' \in Seq(0 .. Keys - 1) /\ Len(Typed') = Buffered + 1
      /\ \A i \in 1 .. Buffered + 1 : Typed'[i] = keyboard_buffer'[(buff_from + (i - 1)) % B]
  <2>1. Typed' = KeysFrom(keyboard_buffer', buff_from', Buffered + 1)
    BY <1>1 DEF Typed
  <2>2. PICK buffer, n : buffer = keyboard_buffer' /\ n = Buffered + 1
    OBVIOUS
  <2>3. buffer \in [Slot -> 0 .. Keys - 1] /\ n \in Nat /\ Typed' = KeysFrom(buffer, buff_from, n)
    BY <1>1, <1>2, <2>1, <2>2
  <2>4. /\ Typed' \in Seq(0 .. Keys - 1) /\ Len(Typed') = n
        /\ \A i \in 1 .. n : Typed'[i] = buffer[(buff_from + (i - 1)) % B]
    BY <1>1, <2>3, KeysAre
  <2> QED BY <2>2, <2>4
<1> DEFINE k == Append(Typed, next_key)
<1>6. /\ k \in Seq(0 .. Keys - 1) /\ Len(k) = Buffered + 1 /\ k[Buffered + 1] = next_key
      /\ \A i \in 1 .. Buffered : k[i] = Typed[i]
  BY <1>1, <1>4, AppendProperties
<1> HIDE DEF k
<1>7. ASSUME NEW i \in 1 .. Buffered + 1 PROVE Typed'[i] = k[i]
  <2>1. i - 1 \in 0 .. Buffered
    BY <1>1
  <2>2. CASE i = Buffered + 1
    BY <1>1, <1>2, <1>3, <1>5, <1>6, <2>1, <2>2
  <2>3. CASE i \in 1 .. Buffered
    BY <1>1, <1>2, <1>3, <1>4, <1>5, <1>6, <2>1, <2>3
  <2> QED BY <1>1, <2>2, <2>3
<1>8. Typed' = k
  BY <1>5, <1>6, <1>7, SeqEqual
<1> QED BY <1>1, <1>4, <1>8 DEF k

\* What a read takes is the beginning of the stream.
LEMMA KeysAreTaken ==
  ASSUME KeyboardTypeOK, KeyboardTypeOK', BufferInOrder, NEW size \in Nat, NEW count, Takes(size, count)
  PROVE  /\ count \in 0 .. Buffered /\ Len(Typed) = Buffered
         /\ Typed' = SubSeq(Typed, count + 1, Len(Typed))
<1>1. /\ keyboard_buffer \in [Slot -> 0 .. Keys - 1] /\ buff_from \in Slot /\ buff_from' \in Slot
      /\ keyboard_buffer' = keyboard_buffer /\ Buffered \in Nat
  <2>1. Buffered \in Nat
    BY BufferedIs, KeyboardConstants
  <2>2. keyboard_buffer' = keyboard_buffer
    BY DEF Takes
  <2> QED BY <2>1, <2>2 DEF KeyboardTypeOK
<1>2. /\ count \in 0 .. Buffered /\ Buffered' = Buffered - count
      /\ \A i \in 0 .. Buffered - count - 1 : (buff_from' + i) % B = (buff_from + (count + i)) % B
  BY TakesInOrder
<1> DEFINE n == Buffered - count
<1>3. n \in Nat /\ n + count = Buffered
  BY <1>1, <1>2
<1>4. /\ Typed \in Seq(0 .. Keys - 1) /\ Len(Typed) = Buffered
      /\ \A i \in 1 .. Buffered : Typed[i] = keyboard_buffer[(buff_from + (i - 1)) % B]
  BY <1>1, KeysAre DEF Typed
<1>5. /\ Typed' \in Seq(0 .. Keys - 1) /\ Len(Typed') = n
      /\ \A i \in 1 .. n : Typed'[i] = keyboard_buffer[(buff_from' + (i - 1)) % B]
  <2>1. Typed' = KeysFrom(keyboard_buffer, buff_from', n)
    BY <1>1, <1>2 DEF Typed
  <2> HIDE DEF n
  <2> QED BY <1>1, <1>3, <2>1, KeysAre
<1> DEFINE k == SubSeq(Typed, count + 1, Buffered)
<1>6. /\ k \in Seq(0 .. Keys - 1) /\ Len(k) = n
      /\ \A i \in 1 .. n : k[i] = Typed[count + i]
  <2>1. count + 1 \in Int /\ Buffered \in Int /\ \A i \in count + 1 .. Buffered : Typed[i] \in 0 .. Keys - 1
    <3>1. count + 1 \in Int /\ Buffered \in Int /\ \A i \in count + 1 .. Buffered : i \in 1 .. Len(Typed)
      BY <1>1, <1>2, <1>4
    <3>2. \A i \in 1 .. Len(Typed) : Typed[i] \in 0 .. Keys - 1
      BY <1>4, ElementOfSeq
    <3> QED BY <3>1, <3>2
  <2>2. /\ k \in Seq(0 .. Keys - 1)
        /\ Len(k) = IF count + 1 <= Buffered THEN Buffered - (count + 1) + 1 ELSE 0
        /\ \A i \in 1 .. Buffered - (count + 1) + 1 : k[i] = Typed[count + 1 + i - 1]
    BY <2>1, SubSeqProperties
  <2> HIDE DEF k
  <2>3. Len(k) = n /\ n = Buffered - (count + 1) + 1
    BY <1>1, <1>2, <2>2
  <2>4. \A i \in 1 .. n : count + 1 + i - 1 = count + i
    BY <1>2, <1>3
  <2> QED BY <2>2, <2>3, <2>4
<1> HIDE DEF k
<1>7. ASSUME NEW i \in 1 .. n PROVE Typed'[i] = k[i]
  <2>1. i - 1 \in 0 .. Buffered - count - 1 /\ count + i \in 1 .. Buffered
        /\ count + (i - 1) = (count + i) - 1
    BY <1>2, <1>3
  <2>2. Typed'[i] = keyboard_buffer[(buff_from + (count + (i - 1))) % B]
    BY <1>2, <1>5, <2>1
  <2>3. k[i] = keyboard_buffer[(buff_from + ((count + i) - 1)) % B]
    BY <1>4, <1>6, <2>1
  <2> QED BY <2>1, <2>2, <2>3
<1> HIDE DEF n
<1>8. Typed' = k
  BY <1>5, <1>6, <1>7, SeqEqual
<1> QED BY <1>2, <1>4, <1>8 DEF k

\* A read that looks at the buffer is given keys as the first of those that wait: it waited
\* before, or is alone.
LEMMA TakesGive ==
  ASSUME KeyboardTypeOK, KeyboardTypeOK', BufferInOrder,
         current \in Task, ReadQueue \in Seq(Task), current \notin ToSet(ReadQueue), ReadQueue' \in Seq(Task),
         NEW size \in Nat, Finishes(size) \/ AsksMore(size)
  PROVE  LET first == [reader |-> current, rest |-> size]
         IN  Gives(<<first>> \o Waits(ReadQueue, need), Typed, Asked', Typed')
<1> DEFINE first == [reader |-> current, rest |-> size]
           rs == <<first>> \o Waits(ReadQueue, need)
           count == IF size < Buffered THEN size ELSE Buffered
<1>1. need \in [Task -> Nat] /\ Buffered \in Nat
  <2>1. Buffered \in Nat
    BY BufferedIs, KeyboardConstants
  <2> QED BY <2>1 DEF KeyboardTypeOK
<1>2. /\ Takes(size, count)
      /\ \/ count = size /\ ReadQueue' = ReadQueue
         \/ count # size /\ ReadQueue' = <<current>> \o ReadQueue
  BY <1>1 DEF Finishes, AsksMore, Takes
<1>3. /\ Waits(ReadQueue, need) \in Seq(Ask) /\ first \in Ask /\ first.rest = size
      /\ Head(rs) = first /\ Tail(rs) = Waits(ReadQueue, need)
  <2>1. Waits(ReadQueue, need) \in Seq(Ask) /\ first \in Ask
    BY <1>1, WaitsAre DEF Ask
  <2> HIDE DEF first
  <2>2. Head(rs) = first /\ Tail(rs) = Waits(ReadQueue, need)
    BY <2>1, FirstAndRest
  <2> QED BY <2>1, <2>2 DEF first
<1> HIDE DEF count
<1>4. count \in 0 .. Buffered /\ Len(Typed) = Buffered /\ Typed' = SubSeq(Typed, count + 1, Len(Typed))
  BY <1>2, KeysAreTaken
<1>5. count = IF first.rest < Len(Typed) THEN first.rest ELSE Len(Typed)
  BY <1>3, <1>4 DEF count
<1>6. size - count \in Nat
  BY <1>1 DEF count
<1>7. need' = [need EXCEPT ![current] = size - count] /\ Asked' = Waits(ReadQueue', need')
  <2>1. need' = [need EXCEPT ![current] = size - count] /\ ~Reading'
    BY <1>2 DEF Takes
  <2>2. Readers' = ReadQueue'
    BY <2>1, ReadersAre
  <2> QED BY <2>1, <2>2 DEF Asked
<1>8. Asked' = IF first.rest = count THEN Waits(ReadQueue, need)
               ELSE <<[reader |-> current, rest |-> size - count]>> \o Waits(ReadQueue, need)
  <2>1. PICK x : x = size - count  OBVIOUS
  <2>2. OneMore(ReadQueue, need, current, x, need')
    BY <1>1, <1>6, <1>7, <2>1, WaitsWith
  <2> QED BY <1>2, <1>3, <1>7, <2>1, <2>2 DEF OneMore
<1>9. [first EXCEPT !.rest = @ - count] = [reader |-> current, rest |-> size - count]
  OBVIOUS
<1> HIDE DEF first, rs
<1> QED BY <1>3, <1>4, <1>5, <1>8, <1>9 DEF Gives, first, rs

LEMMA StreamStepTaken ==
  ASSUME Inv, Inv', Resumption, BufferInOrder, ReaderStep
  PROVE  StreamStep(Asked, Typed, Asked', Typed')
<1>0. /\ Core /\ current \in Task /\ need \in [Task -> Nat]
      /\ KeyboardTypeOK /\ KeyboardTypeOK'
      /\ ReadQueue \in Seq(Task) /\ ReadQueue' \in Seq(Task) /\ current \notin ToSet(ReadQueue)
  <2>1. Core /\ KeyboardTypeOK /\ KeyboardTypeOK' /\ Core'
    BY DEF Inv
  <2>2. ReadQueue \in Seq(Task) /\ current \in Task
    BY <2>1, FirstReader, CurrentUnlinked
  <2>3. current \notin ToSet(ReadQueue)
    BY <2>1, CurrentUnlinked, QueueNames DEF ReadQueue, OnQueue
  <2>4. ReadQueue' \in Seq(Task)
    BY <2>1, QueueNames DEF Core, SchedulerTypeOK, ProcessTable, ReadQueue
  <2> QED BY <2>1, <2>2, <2>3, <2>4 DEF KeyboardTypeOK
<1>1. Waits(ReadQueue, need) \in Seq(Ask) /\ (Waits(ReadQueue, need) = <<>> <=> ReadQueue = <<>>)
  BY <1>0, WaitsAre
<1>2. CASE Aside
  <2>1. need' = need /\ Typed' = Typed /\ ReadQueue' = ReadQueue
    BY <1>2 DEF Aside, kbdVars, Typed, Buffered, ReadQueue
  <2>2. CASE current' = current /\ cont'[current] = cont[current]
    <3>1. Readers' = Readers
      <4>1. Reading' <=> Reading
        BY <2>2 DEF Reading
      <4>2. CASE Reading
        BY <1>0, <2>1, <2>2, <4>1, <4>2, ReadersAre
      <4>3. CASE ~Reading
        BY <1>0, <2>1, <4>1, <4>3, ReadersAre
      <4> QED BY <4>2, <4>3
    <3> QED BY <2>1, <3>1 DEF StreamStep, Asked
  <2>3. CASE ~Reading /\ ~Reading'
    <3>1. Readers' = Readers
      BY <1>0, <2>1, <2>3, ReadersAre
    <3> QED BY <2>1, <3>1 DEF StreamStep, Asked
  <2> QED BY <1>2, <2>2, <2>3 DEF Aside
\* A key goes into the buffer; who is woken remains the first.
<1>3. ASSUME Arrives \/ Serves PROVE StreamStep(Asked, Typed, Asked', Typed')
  <2>1. KeyboardIrq /\ cont' = cont /\ ~Reading /\ need' = need
    BY <1>3 DEF Arrives, Serves, KeyboardIrq
  <2>2. /\ Len(Typed) < B - 1 /\ next_key \in 0 .. Keys - 1
        /\ Typed' = Append(Typed, next_key)
    BY <1>0, <2>1, KeyIsTyped
  <2>3. Readers' = Readers
    <3>1. CASE Arrives
      <4>1. ReadQueue' = ReadQueue /\ ~Reading'
        BY <2>1, <3>1 DEF Arrives, ReadQueue, Reading, current
      <4> QED BY <1>0, <2>1, <4>1, ReadersAre
    <3>2. CASE Serves
      <4>1. ReadQueue # <<>> /\ current' = Head(ReadQueue) /\ ReadQueue' = Tail(ReadQueue)
        BY <3>2 DEF Serves
      <4>2. Reading'
        BY <1>0, <2>1, <4>1, FirstReader DEF Reading
      <4>3. <<current'>> \o ReadQueue' = ReadQueue
        BY <1>0, <4>1, FirstThenTail
      <4> QED BY <1>0, <2>1, <4>2, <4>3, ReadersAre
    <3> QED BY <1>3, <3>1, <3>2
  <2> QED BY <2>1, <2>2, <2>3 DEF StreamStep, Asked
\* A read waits behind the others.
<1>4. ASSUME NEW size \in Nat, Queues(size) PROVE StreamStep(Asked, Typed, Asked', Typed')
  <2> DEFINE ask == [reader |-> current, rest |-> size]
  <2>1. /\ size \in ReadSizes /\ Readers = ReadQueue /\ Readers' = Append(ReadQueue, current)
        /\ ReadQueue # <<>> /\ need' = [need EXCEPT ![current] = size] /\ Typed' = Typed
    BY <1>0, <1>4, ReadersAre DEF Queues, Typed, Buffered
  <2>2. Asked = Waits(ReadQueue, need) /\ Asked # <<>>
    BY <1>1, <2>1 DEF Asked
  <2>3. Asked' = Append(Asked, ask)
    <3>1. OneMore(ReadQueue, need, current, size, need')
      BY <1>0, <2>1, WaitsWith
    <3> QED BY <2>1, <2>2, <3>1 DEF Asked, OneMore
  <2>4. \A i \in DOMAIN Asked : Asked[i].reader # current
    <3>1. \A i \in DOMAIN ReadQueue : ReadQueue[i] # current
      BY <1>0 DEF ToSet
    <3> QED BY <2>2, <3>1 DEF Waits
  <2>5. Reads(current, size, Asked, Typed, Asked', Typed')
    BY <2>1, <2>2, <2>3, <2>4 DEF Reads
  <2> QED BY <1>0, <2>1, <2>5 DEF StreamStep
\* The first of the readers takes keys.
<1>5. ASSUME NEW size \in Nat, Finishes(size) \/ AsksMore(size)
      PROVE  StreamStep(Asked, Typed, Asked', Typed')
  <2> DEFINE ask == [reader |-> current, rest |-> size]
  <2>1. Gives(<<ask>> \o Waits(ReadQueue, need), Typed, Asked', Typed')
    BY <1>0, <1>5, TakesGive
  <2>2. \/ Reading /\ size = need[current]
        \/ ~Reading /\ size \in ReadSizes /\ ReadQueue = <<>>
    BY <1>5 DEF Finishes, AsksMore, Takes
  <2>3. CASE Reading /\ size = need[current]
    <3>1. Asked = <<ask>> \o Waits(ReadQueue, need)
      <4>1. Readers = <<current>> \o ReadQueue
        BY <1>0, <2>3, ReadersAre
      <4>2. [need EXCEPT ![current] = size] = need
        BY <1>0, <2>3
      <4>3. OneMore(ReadQueue, need, current, size, need)
        BY <1>0, <4>2, WaitsWith
      <4> QED BY <4>1, <4>3 DEF Asked, OneMore
    <3>2. Asked # <<>>
      BY <1>1, <3>1, FirstAndRest DEF Ask
    <3> HIDE DEF ask
    <3> QED BY <2>1, <3>1, <3>2 DEF StreamStep
  <2>4. CASE ~Reading /\ size \in ReadSizes /\ ReadQueue = <<>>
    <3>1. Asked = <<>> /\ Waits(ReadQueue, need) = <<>>
      BY <1>0, <1>1, <2>4, ReadersAre DEF Asked
    <3>2. <<ask>> \o Waits(ReadQueue, need) = Append(Asked, ask)
      BY <3>1
    <3>3. \A i \in DOMAIN Asked : Asked[i].reader # current
      BY <3>1
    <3>4. Reads(current, size, Asked, Typed, Asked', Typed')
      BY <2>1, <3>1, <3>2, <3>3 DEF Reads
    <3> QED BY <1>0, <2>4, <3>4 DEF StreamStep
  <2> QED BY <2>2, <2>3, <2>4
<1> QED BY <1>2, <1>3, <1>4, <1>5 DEF ReaderStep

\* sys_read_keyboard and keyboard_routine serve the readers in the order of their calls, each
\* with consecutive keys: whatever the interrupts, the size of the buffer and the sizes of the
\* reads, the buffer, the countdown and the queue of sleeping tasks are a stream of keys.
THEOREM StreamIsImplemented == Spec => StreamImplemented
<1>1. ASSUME Init PROVE Stream!Init
  <2>1. Buffered = 0
    <3>1. Buffered = Distance(buff_from, buff_to, B) /\ buff_from = 0 /\ buff_to = 0
      BY <1>1, InitInv, BufferedIs DEF Init, KeyboardInit, Inv
    <3> QED BY <3>1 DEF Distance
  <2>2. ~Reading /\ ReadQueue = <<>>
    <3>1. sched = InitialTable /\ \A t \in Task : cont[t] \notin ReadPoint
      BY <1>1 DEF Init, SchedulerInit, ReadPoint
    <3>2. current \in Task
      BY <1>1, InitInv, CoreTask DEF Inv
    <3> QED BY <3>1, <3>2, InitialLists, QueueNames DEF Reading, ReadQueue
  <2>3. ReadQueue \in Seq(Task)
    BY <2>2, EmptySeq
  <2>4. Readers = <<>>
    BY <2>2, <2>3, ReadersAre
  <2> QED BY <2>1, <2>4 DEF Stream!Init
<1>2. ASSUME Inv, Inv', ProcessInv, KeyInv, [Next]_vars PROVE [Stream!Next]_(Stream!vars)
  BY <1>2, ReaderStepTaken, StreamStepTaken, StreamSteps DEF KeyInv
<1> QED BY <1>1, <1>2, KeyboardInvariance, PTL DEF Spec, StreamImplemented
=============================================================================
