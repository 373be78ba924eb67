-------------------------- MODULE AccountingProofs --------------------------
(***************************************************************************)
(* The time of every process is accounted for, for every number of tasks,  *)
(* semaphores and keys.  What get_stats would report of a process if every *)
(* counter were brought up to date is a function of what the process does  *)
(* (Report); an event of update_stats moves the time since the last event  *)
(* into a counter and leaves that function alone (ChargeIs).  So it is     *)
(* enough that each run of the kernel reports the events between the       *)
(* states a task goes through, which follows from what the functions of    *)
(* sched.c do to the states (Switches).                                    *)
(***************************************************************************)
EXTENDS Accounting, KernelProofs

Stats     == Counter \cup {"elapsed_total_ticks"}
StatsType == [Process -> [Stats -> Int]]

\* The counters of a process that has done w since its last event, up to a time.
Report(s, t, w, time) ==
  [c \in Counter |-> s[t][c] + (IF c = w THEN time - s[t].elapsed_total_ticks ELSE 0)]

CountedTypeOK == now \in Int /\ st \in StatsType

-----------------------------------------------------------------------------
(* update_stats *)

\* An event moves the time since the last one to the counter of what the task did.
LEMMA ChargeIs ==
  ASSUME NEW s \in StatsType, NEW t \in Task, NEW k \in Counter, NEW time \in Int
  PROVE  LET r == charge(s, t, k, time)
         IN  /\ r \in StatsType
             /\ \A u \in Process \ {t} : r[u] = s[u]
             /\ t # Idle => \A w : Report(r, t, w, time) = Report(s, t, k, time)
<1> DEFINE e == "elapsed_total_ticks"
           r == charge(s, t, k, time)
           row == [s[t] EXCEPT ![k] = @ + (time - s[t][e]), ![e] = time]
<1>1. CASE t = Idle
  BY <1>1 DEF charge
<1>2. CASE t # Idle
  <2>1. t \in Process /\ s[t] \in [Stats -> Int]
    BY <1>2 DEF Process, StatsType
  <2>2. e \notin Counter /\ e \in Stats /\ k \in Stats /\ Counter \subseteq Stats
    BY DEF Counter, Stats
  <2>3. r = [s EXCEPT ![t] = row]
    <3>1. r = [s EXCEPT ![t][k] = @ + (time - s[t][e]), ![t][e] = time]
      BY <1>2 DEF charge
    <3> QED BY <2>1, <3>1 DEF StatsType
  <2>4. PICK old \in [Stats -> Int] : old = s[t]
    BY <2>1
  <2>5. /\ row \in [Stats -> Int] /\ row[e] = time
        /\ \A c \in Counter : row[c] = IF c = k THEN old[c] + (time - old[e]) ELSE old[c]
    BY <2>2, <2>4
  <2> HIDE DEF row
  <2>6. r \in StatsType /\ r[t] = row /\ \A u \in Process \ {t} : r[u] = s[u]
    BY <2>1, <2>3, <2>5 DEF StatsType
  <2>7. ASSUME NEW w PROVE Report(r, t, w, time) = Report(s, t, k, time)
    <3>1. ASSUME NEW c \in Counter
          PROVE  r[t][c] + (IF c = w THEN time - r[t][e] ELSE 0)
                   = s[t][c] + (IF c = k THEN time - s[t][e] ELSE 0)
      <4>1. row[c] \in Int /\ old[c] \in Int /\ old[e] \in Int
        BY <2>2, <2>5
      <4>2. r[t][c] + (IF c = w THEN time - r[t][e] ELSE 0) = row[c]
        <5>1. r[t][e] = time /\ r[t][c] = row[c]
          BY <2>5, <2>6
        <5> QED BY <4>1, <5>1
      <4> QED BY <2>4, <2>5, <4>1, <4>2
    <3> HIDE DEF r
    <3> QED BY <3>1 DEF Report
  <2> QED BY <1>2, <2>6, <2>7
<1> QED BY <1>1, <1>2

\* The counters of the events.
LEMMA Counters ==
  /\ {"user_ticks", "system_ticks", "blocked_ticks", "ready_ticks"} = Counter
  /\ CounterOf("USER_TO_SYS") = "user_ticks"
  /\ CounterOf("SYS_TO_USER") = "system_ticks"
  /\ CounterOf("SYS_TO_READY") = "system_ticks"
  /\ CounterOf("SYS_TO_BLOCKED") = "system_ticks"
  /\ CounterOf("READY_TO_SYS") = "ready_ticks"
  /\ CounterOf("BLOCKED_TO_READY") = "blocked_ticks"
BY DEF Counter, CounterOf

LEMMA EventIs ==
  ASSUME NEW s \in StatsType, NEW t \in Task, now' \in Int,
         NEW e \in {"USER_TO_SYS", "SYS_TO_USER", "SYS_TO_READY", "SYS_TO_BLOCKED",
                    "READY_TO_SYS", "BLOCKED_TO_READY"}
  PROVE  /\ event(s, t, e) \in StatsType
         /\ \A u \in Process \ {t} : event(s, t, e)[u] = s[u]
         /\ t # Idle => \A w : Report(event(s, t, e), t, w, now') = Report(s, t, CounterOf(e), now')
<1>1. CounterOf(e) \in Counter
  BY DEF Counter, CounterOf
<1>2. event(s, t, e) = charge(s, t, CounterOf(e), now')
  BY DEF event
<1> HIDE DEF event
<1> QED BY <1>1, <1>2, ChargeIs

\* A process whose row is the same has the same report.
LEMMA SameReport ==
  ASSUME NEW s, NEW r, NEW t, r[t] = s[t]
  PROVE  \A w, time : Report(r, t, w, time) = Report(s, t, w, time)
BY DEF Report

\* The way back to user mode, if it goes there.
LEMMA LeavingIs ==
  ASSUME NEW s \in StatsType, now' \in Int, sched'.current \in Task
  PROVE  /\ leaving(s) \in StatsType
         /\ \A t \in Process \ {sched'.current} : leaving(s)[t] = s[t]
         /\ \A t \in Process : t = sched'.current /\ sched'.state[t] = "ST_RUN" =>
              Report(leaving(s), t, Doing(t)', now') = Report(s, t, "system_ticks", now')
<1> DEFINE c == sched'.current
           r == event(s, c, "SYS_TO_USER")
<1>1. CASE InterruptsEnabled'
  <2>1. leaving(s) = r
    BY <1>1 DEF leaving
  <2>2. /\ r \in StatsType
        /\ \A u \in Process \ {c} : r[u] = s[u]
        /\ c # Idle => \A w : Report(r, c, w, now') = Report(s, c, "system_ticks", now')
    <3> DEFINE e == "SYS_TO_USER"
    <3>1. /\ r = event(s, c, e) /\ CounterOf(e) = "system_ticks"
          /\ e \in {"USER_TO_SYS", "SYS_TO_USER", "SYS_TO_READY", "SYS_TO_BLOCKED",
                    "READY_TO_SYS", "BLOCKED_TO_READY"}
      BY Counters
    <3> HIDE DEF e, r
    <3>2. /\ event(s, c, e) \in StatsType
          /\ \A u \in Process \ {c} : event(s, c, e)[u] = s[u]
          /\ c # Idle => \A w : Report(event(s, c, e), c, w, now') = Report(s, c, CounterOf(e), now')
      BY <3>1, EventIs
    <3> QED BY <3>1, <3>2
  <2> HIDE DEF c, r
  <2>3. \A t \in Process : t = c => Report(r, t, Doing(t)', now') = Report(s, t, "system_ticks", now')
    BY <2>2 DEF Process
  <2> QED BY <2>1, <2>2, <2>3 DEF c
<1>2. CASE ~InterruptsEnabled'
  <2>1. leaving(s) = s
    BY <1>2 DEF leaving
  <2>2. \A t \in Process : sched'.state[t] = "ST_RUN" => Doing(t)' = "system_ticks"
    BY <1>2 DEF Doing
  <2> QED BY <2>1, <2>2
<1> QED BY <1>1, <1>2

\* The task that was ready gets the processor.
LEMMA SwitchingIs ==
  ASSUME NEW s \in StatsType, now' \in Int, sched'.current \in Task
  PROVE  /\ switching(s) \in StatsType
         /\ \A t \in Process \ {sched'.current} : switching(s)[t] = s[t]
         /\ \A t \in Process : t = sched'.current /\ sched'.state[t] = "ST_RUN" =>
              Report(switching(s), t, Doing(t)', now') = Report(s, t, "ready_ticks", now')
<1> DEFINE c == sched'.current
           r == event(s, c, "READY_TO_SYS")
<1>1. /\ r \in StatsType
      /\ \A u \in Process \ {c} : r[u] = s[u]
      /\ c # Idle => \A w : Report(r, c, w, now') = Report(s, c, "ready_ticks", now')
  <2> DEFINE e == "READY_TO_SYS"
  <2>1. /\ r = event(s, c, e) /\ CounterOf(e) = "ready_ticks"
        /\ e \in {"USER_TO_SYS", "SYS_TO_USER", "SYS_TO_READY", "SYS_TO_BLOCKED",
                  "READY_TO_SYS", "BLOCKED_TO_READY"}
    BY Counters
  <2> HIDE DEF e, r
  <2>2. /\ event(s, c, e) \in StatsType
        /\ \A u \in Process \ {c} : event(s, c, e)[u] = s[u]
        /\ c # Idle => \A w : Report(event(s, c, e), c, w, now') = Report(s, c, CounterOf(e), now')
    BY <2>1, EventIs
  <2> QED BY <2>1, <2>2
<1>2. switching(s) = leaving(r)
  BY DEF switching
<1> HIDE DEF r
<1>3. /\ leaving(r) \in StatsType
      /\ \A t \in Process \ {c} : leaving(r)[t] = r[t]
      /\ \A t \in Process : t = c /\ sched'.state[t] = "ST_RUN" =>
           Report(leaving(r), t, Doing(t)', now') = Report(r, t, "system_ticks", now')
  BY <1>1, LeavingIs
<1> HIDE DEF c
<1>4. \A t \in Process : t = c => Report(r, t, "system_ticks", now') = Report(s, t, "ready_ticks", now')
  BY <1>1 DEF Process
<1> QED BY <1>1, <1>2, <1>3, <1>4 DEF c

\* The tasks that are woken.
Woken(t) == sched.state[t] = "ST_BLOCKED" /\ sched'.state[t] = "ST_READY"

LEMMA WakingIs ==
  ASSUME NEW s \in StatsType, now' \in Int
  PROVE  /\ waking(s) \in StatsType
         /\ \A t \in Process : ~Woken(t) => waking(s)[t] = s[t]
         /\ \A t \in Process : Woken(t) =>
              \A w : Report(waking(s), t, w, now') = Report(s, t, "blocked_ticks", now')
<1> DEFINE ev(t) == event(s, t, "BLOCKED_TO_READY")
           r == waking(s)
<1>1. r = [t \in Process |-> IF Woken(t) THEN ev(t)[t] ELSE s[t]]
  <2>1. \A t \in Process : t \in Task
    BY DEF Process
  <2> QED BY <2>1 DEF waking, Woken
<1>2. ASSUME NEW t \in Process
      PROVE  /\ ev(t) \in StatsType
             /\ \A w : Report(ev(t), t, w, now') = Report(s, t, "blocked_ticks", now')
  <2>1. t \in Task /\ t # Idle
    BY DEF Process
  <2> QED BY <2>1, EventIs, Counters
<1> HIDE DEF ev, r
<1>3. \A t \in Process : r[t] = IF Woken(t) THEN ev(t)[t] ELSE s[t]
  BY <1>1
<1>4. r \in StatsType
  <2>1. \A t \in Process : ev(t)[t] \in [Stats -> Int] /\ s[t] \in [Stats -> Int]
    BY <1>2 DEF StatsType
  <2> QED BY <1>1, <2>1 DEF StatsType
<1>5. ASSUME NEW t \in Process, Woken(t), NEW w
      PROVE  Report(r, t, w, now') = Report(s, t, "blocked_ticks", now')
  <2>1. r[t] = ev(t)[t]
    BY <1>3, <1>5
  <2>2. Report(r, t, w, now') = Report(ev(t), t, w, now')
    BY <2>1, SameReport
  <2> QED BY <1>2, <2>2
<1> QED BY <1>3, <1>4, <1>5 DEF r

-----------------------------------------------------------------------------
(* What a run of the kernel does to the states. *)

\* From p to r the processor goes from a task that is left in a state to one that is found
\* in a state, and no other task changes its own.
Switches(p, r, left, found) ==
  /\ \A t \in Task \ {p.current, r.current} : r.state[t] = p.state[t]
  /\ r.current \in Task /\ r.state[r.current] = "ST_RUN"
  /\ r.current # p.current /\ p.current # Idle => r.state[p.current] = left
  /\ r.current # p.current /\ r.current # Idle => p.state[r.current] = found

LEMMA States ==
  ASSUME NEW p, StatesMatch(p)
  PROVE  /\ \A t \in ToSet(p.queue["free"]) : p.state[t] = "ST_INVALID"
         /\ \A t \in ToSet(p.queue["ready"]) : p.state[t] = "ST_READY"
         /\ \A k \in {"keyboard"} \cup Sem : \A t \in ToSet(p.queue[k]) : p.state[t] = "ST_BLOCKED"
<1>1. StateOn("free") = "ST_INVALID" /\ StateOn("ready") = "ST_READY"
      /\ \A k \in {"keyboard"} \cup Sem : StateOn(k) = "ST_BLOCKED" /\ k \in Queue
  BY QueueNames DEF StateOn
<1>2. \A k \in Queue : \A t \in ToSet(p.queue[k]) : p.state[t] = StateOn(k)
  BY DEF StatesMatch
<1> QED BY <1>1, <1>2, QueueNames

\* sched_next_rr finds a ready task, or the idle one.
LEMMA Chosen ==
  ASSUME NEW p, Parked(p)
  PROVE  LET r == sched_next_rr(p)
         IN  /\ r.current = NextTask(p) /\ r.current \in Task
             /\ r.state = [p.state EXCEPT ![r.current] = "ST_RUN"]
             /\ r.current # Idle => p.state[r.current] = "ST_READY"
<1> DEFINE r == sched_next_rr(p)
           n == NextTask(p)
<1>1. /\ r.current = n /\ n \in Task /\ r.state = [p.state EXCEPT ![n] = "ST_RUN"]
      /\ IF p.queue["ready"] = <<>> THEN n = Idle ELSE n \in ToSet(p.queue["ready"])
  BY SchedNext DEF Parked
<1>2. \A t \in ToSet(p.queue["ready"]) : p.state[t] = "ST_READY"
  BY States DEF Parked
<1> QED BY <1>1, <1>2

\* The running task joins a list, and another one gets the processor.
LEMMA SwitchStates ==
  ASSUME NEW p, NEW m, Running(p), p.current # Idle, NEW dest \in Queue,
         Moves(p, m, p.current, dest)
  PROVE  Switches(p, sched_next_rr(m), StateOn(dest), "ST_READY")
<1> DEFINE r == sched_next_rr(m)
<1>1. Parked(m) /\ p.state \in [Task -> State] /\ p.current \in Task
  BY RunningParks, SaneFields DEF Running
<1>2. /\ r.current \in Task
      /\ r.state = [m.state EXCEPT ![r.current] = "ST_RUN"]
      /\ r.current # Idle => m.state[r.current] = "ST_READY"
  BY <1>1, Chosen
<1>3. m.state = [p.state EXCEPT ![p.current] = StateOn(dest)]
  BY DEF Moves
<1> HIDE DEF r
<1> QED BY <1>1, <1>2, <1>3 DEF Switches, r

\* Nobody joins a list, as when the idle task is preempted or a process has left for good.
LEMMA ParkedStates ==
  ASSUME NEW p, Parked(p), NEW left, p.current # Idle => p.state[p.current] = left
  PROVE  Switches(p, sched_next_rr(p), left, "ST_READY")
<1> DEFINE r == sched_next_rr(p)
<1>1. p.state \in [Task -> State] /\ p.current \in Task
  BY SaneFields DEF Parked
<1>2. /\ r.current \in Task
      /\ r.state = [p.state EXCEPT ![r.current] = "ST_RUN"]
      /\ r.current # Idle => p.state[r.current] = "ST_READY"
  BY Chosen
<1> HIDE DEF r
<1> QED BY <1>1, <1>2 DEF Switches, r

\* Ticks and quanta have no part in it.
LEMMA SwitchesLists ==
  ASSUME NEW p, NEW q, NEW r, NEW left, NEW found, Switches(q, r, left, found),
         q.state = p.state, q.current = p.current
  PROVE  Switches(p, r, left, found)
BY DEF Switches

\* No switch.
LEMMA StaysStates ==
  ASSUME NEW p, NEW r, Running(p), r.state = p.state, r.current = p.current, NEW left, NEW found
  PROVE  Switches(p, r, left, found)
BY SaneFields DEF Switches, Running

\* The clock interrupt.
LEMMA ClockStates ==
  ASSUME NEW p, Running(p)
  PROVE  Switches(p, execute_scheduling(p), "ST_READY", "ST_READY")
<1> DEFINE counted == [p EXCEPT !.current_ticks = @ + 1]
           e == "CURRENT_TICKS_UPDATED"
           q == update_stats(counted, counted.current, e)
           requeued == IF q.current # Idle
                       THEN update_process_state_rr(q, q.current, "ready") ELSE q
           w == update_stats(requeued, q.current, "SYS_TO_READY")
           n == sched_next_rr(w)
<1>1. /\ Sane(counted) /\ counted.current = p.current /\ p.current \in Task
      /\ counted.state = p.state /\ SameLists(p, counted)
  <2>1. p \in ProcessTable /\ Once(p.queue) /\ p.current_ticks + 1 \in Nat /\ p.current \in Task
    BY SaneFields DEF Running
  <2>2. counted \in ProcessTable /\ SameLists(p, counted)
    BY <2>1 DEF ProcessTable, SameLists
  <2> HIDE DEF counted
  <2> QED BY <2>1, <2>2 DEF Sane, SameLists
<1>2. execute_scheduling(p) = IF needs_sched_rr(q) THEN n ELSE q
  BY <1>1 DEF execute_scheduling, update_sched_data_rr
<1> HIDE DEF counted, e
<1>3. Running(q) /\ SameLists(p, q)
  <2>1. Sane(q) /\ SameLists(p, q)
    BY <1>1, UpdateStats DEF SameLists, SameFields
  <2> HIDE DEF q
  <2> QED BY <2>1, SameSituation
<1> HIDE DEF q
<1>4. Sane(requeued) => Sane(w) /\ SameLists(requeued, w)
  <2> HIDE DEF requeued
  <2>1. q.current \in Task
    BY <1>3, SaneFields DEF Running
  <2> QED BY <2>1, UpdateStats DEF SameLists, SameFields
<1>5. CASE ~needs_sched_rr(q)
  BY <1>2, <1>3, <1>5, StaysStates DEF SameLists
<1>6. CASE needs_sched_rr(q) /\ q.current = Idle
  <2>1. requeued = q /\ Parked(q)
    BY <1>3, <1>6, IdleParks
  <2>2. Parked(w) /\ SameLists(q, w)
    BY <1>4, <2>1, SameSituation DEF Parked
  <2> HIDE DEF w
  <2> DEFINE left == "ST_READY"
  <2>3. w.current # Idle => w.state[w.current] = left
    BY <1>6, <2>2 DEF SameLists
  <2> HIDE DEF left
  <2>4. Switches(w, n, left, "ST_READY")
    BY <2>2, <2>3, ParkedStates
  <2>5. w.state = p.state /\ w.current = p.current
    BY <1>3, <2>2 DEF SameLists
  <2> HIDE DEF n
  <2> QED BY <1>2, <1>6, <2>4, <2>5, SwitchesLists DEF left
<1>7. CASE needs_sched_rr(q) /\ q.current # Idle
  <2> DEFINE is_first == FALSE
             m == update_process_state(q, q.current, "ready", is_first)
  <2>1. requeued = m /\ is_first \in BOOLEAN
    BY <1>7 DEF update_process_state_rr
  <2> HIDE DEF is_first, requeued
  <2>2. Sane(q) /\ q.current \in Task /\ "ready" \in Queue
    BY <1>3, SaneFields, QueueNames DEF Running
  <2>3. Moves(q, m, q.current, "ready")
    BY <2>1, <2>2, MovesUpdate
  <2>4. Sane(w) /\ SameLists(m, w)
    BY <1>4, <2>1, <2>3 DEF Moves
  <2> HIDE DEF w, m
  <2>5. Moves(q, w, q.current, "ready")
    BY <2>3, <2>4 DEF Moves, SameLists
  <2>6. StateOn("ready") = "ST_READY"
    BY DEF StateOn
  <2>7. Switches(q, n, "ST_READY", "ST_READY")
    BY <1>3, <1>7, <2>2, <2>5, <2>6, SwitchStates
  <2> HIDE DEF n
  <2> QED BY <1>2, <1>3, <1>7, <2>7, SwitchesLists DEF SameLists
<1> QED BY <1>5, <1>6, <1>7

\* The keyboard interrupt wakes the first reader and gives it the processor.
LEMMA PreemptStates ==
  ASSUME NEW p, Running(p), p.queue["keyboard"] # <<>>
  PROVE  /\ Switches(p, WakeFirstReader(p), "ST_READY", "ST_BLOCKED")
         /\ WakeFirstReader(p).current = Head(p.queue["keyboard"])
         /\ Head(p.queue["keyboard"]) \in Task \ {Idle, p.current}
<1> DEFINE reader == Head(p.queue["keyboard"])
           behind == FALSE
           in_front == TRUE
           m == update_process_state(p, p.current, "ready", behind)
           preempted == IF p.current # Idle THEN update_stats(m, p.current, "SYS_TO_READY") ELSE p
           w == update_process_state(preempted, reader, "ready", in_front)
           n == sched_next_rr(w)
<1>1. behind \in BOOLEAN /\ in_front \in BOOLEAN /\ WakeFirstReader(p) = n
  BY DEF WakeFirstReader, add_process_to_scheduling, update_stats
<1>2. /\ Sane(p) /\ p.current \in Task /\ "ready" \in Queue /\ "keyboard" \in Queue
      /\ reader \in Task \ {Idle, p.current} /\ p.state \in [Task -> State]
  BY QueueNames, FirstOfList, SaneFields DEF Running
<1>3. n.current = reader
  BY <1>1, PreemptOrder DEF Preempts
<1>4. p.state[reader] = "ST_BLOCKED"
  <2>1. reader \in ToSet(p.queue["keyboard"])
    <3>1. p.queue["keyboard"] \in Seq(Task)
      BY <1>2, SaneFields
    <3> QED BY <3>1, MembersType
  <2> QED BY <2>1, States DEF Running
<1> HIDE DEF behind, in_front, reader
<1>5. /\ Sane(preempted) /\ Parked(preempted) /\ preempted.current = p.current
      /\ preempted.state = IF p.current # Idle THEN [p.state EXCEPT ![p.current] = "ST_READY"] ELSE p.state
  <2>1. CASE p.current = Idle
    BY <1>2, <2>1, IdleParks
  <2>2. CASE p.current # Idle
    <3>1. Moves(p, m, p.current, "ready")
      BY <1>1, <1>2, MovesUpdate
    <3> HIDE DEF m
    <3>2. Sane(preempted) /\ SameLists(m, preempted)
      BY <1>2, <2>2, <3>1, UpdateStats DEF Moves, SameLists, SameFields
    <3>3. Parked(m)
      BY <1>2, <2>2, <3>1, RunningParks
    <3> HIDE DEF preempted
    <3>4. Parked(preempted)
      BY <3>2, <3>3, SameSituation
    <3>5. StateOn("ready") = "ST_READY"
      BY DEF StateOn
    <3> QED BY <2>2, <3>1, <3>2, <3>4, <3>5 DEF Moves, SameLists
  <2> QED BY <2>1, <2>2
<1> HIDE DEF preempted
<1>6. Moves(preempted, w, reader, "ready") /\ Parked(w)
  <2>1. Moves(preempted, w, reader, "ready")
    BY <1>1, <1>2, <1>5, MovesUpdate
  <2> HIDE DEF w
  <2> QED BY <1>2, <1>5, <2>1, ParkedMoves
<1> HIDE DEF w
<1>7. n.state = [w.state EXCEPT ![reader] = "ST_RUN"]
  BY <1>3, <1>6, Chosen
<1>8. w.state = [preempted.state EXCEPT ![reader] = StateOn("ready")]
  BY <1>6 DEF Moves
<1> HIDE DEF n
<1>9. Switches(p, n, "ST_READY", "ST_BLOCKED")
  <2>1. \A t \in Task \ {p.current, reader} : n.state[t] = p.state[t]
    BY <1>2, <1>5, <1>7, <1>8
  <2>2. n.state[reader] = "ST_RUN"
    BY <1>2, <1>5, <1>7, <1>8
  <2>3. p.current # Idle => n.state[p.current] = "ST_READY"
    BY <1>2, <1>5, <1>7, <1>8
  <2> QED BY <1>2, <1>3, <1>4, <2>1, <2>2, <2>3 DEF Switches
<1> QED BY <1>1, <1>2, <1>3, <1>9 DEF reader

-----------------------------------------------------------------------------
(* When the events of a run of the kernel are the right ones. *)

\* What a task has done in this run, and is said to have done once it is over.
Did(t) == IF t = current THEN "system_ticks" ELSE Doing(t)

\* The events since base, from which the run starts, leave out nothing for t.
Fits(base, t) ==
  /\ Used(t) /\ Used(t)' => Report(st', t, Doing(t)', now') = Report(base, t, Did(t), now')
  /\ ~Used(t) /\ Used(t)' => Report(st', t, Doing(t)', now') = [c \in Counter |-> 0]

\* The running task is marked so, but in main() and in an exit.
LEMMA CurrentState ==
  ASSUME Core
  PROVE  /\ current \in Task /\ current = sched.current
         /\ IF cont[current] \in {"exit", "boot"} THEN sched.state[current] = "ST_INVALID"
            ELSE Running(sched) /\ sched.state[current] = "ST_RUN"
<1>1. StateMatchesQueue /\ RunningIsUnlinked
  BY CoreLists
<1>2. cont[current] \in {"exit", "boot"} => current \in ToSet(OnQueue("free"))
  BY <1>1 DEF RunningIsUnlinked
<1>3. cont[current] \notin {"exit", "boot"} => Running(sched)
  BY DEF Core, Situation
<1> QED BY <1>1, <1>2, <1>3, CoreTask DEF StateMatchesQueue, current

\* A process that does not run is ready or blocked.
LEMMA OthersWait ==
  ASSUME Core, cont[current] # "boot", NEW t \in Process, t # current
  PROVE  sched.state[t] \in {"ST_READY", "ST_BLOCKED", "ST_INVALID"}
<1>1. NoLostTask /\ StateMatchesQueue
  BY CoreLists
<1>2. t \in Task \ {Idle}
  BY DEF Process
<1>3. PICK k \in Queue : t \in ToSet(OnQueue(k))
  BY <1>1, <1>2 DEF NoLostTask, Linked
<1> QED BY <1>1, <1>3 DEF StateMatchesQueue, Queue

\* What such a process does depends on nothing else.
LEMMA SameDoing ==
  ASSUME NEW t, sched'.state[t] = sched.state[t], sched.state[t] \in {"ST_READY", "ST_BLOCKED"}
  PROVE  Doing(t)' = Doing(t)
BY DEF Doing

\* A run that leaves the states and the running task alone.
LEMMA StayFits ==
  ASSUME Core, now' \in Int, NEW b \in StatsType, st' = leaving(b),
         sched'.state = sched.state, sched'.current = sched.current,
         cont[current] \in {"exit", "boot"} => (InterruptsEnabled' <=> InterruptsEnabled),
         NEW t \in Process
  PROVE  Fits(b, t)
<1>1. current \in Task /\ current = sched.current
  BY CurrentState
<1>2. Used(t)' <=> Used(t)
  BY DEF Used
<1>3. SUFFICES ASSUME Used(t)
               PROVE  Report(st', t, Doing(t)', now') = Report(b, t, Did(t), now')
  BY <1>2 DEF Fits
<1>4. /\ \A u \in Process \ {current} : st'[u] = b[u]
      /\ \A u \in Process : u = current /\ sched'.state[u] = "ST_RUN" =>
           Report(st', u, Doing(u)', now') = Report(b, u, "system_ticks", now')
  BY <1>1, LeavingIs
<1>5. CASE t = current
  <2>1. sched'.state[t] = "ST_RUN"
    BY <1>3, <1>5, CurrentState DEF Used
  <2> QED BY <1>4, <1>5, <2>1 DEF Did
<1>6. CASE t # current
  <2>1. Doing(t)' = Doing(t)
    <3>1. CASE cont[current] = "boot"
      <4>1. InterruptsEnabled' <=> InterruptsEnabled
        BY <3>1
      <4> QED BY <4>1 DEF Doing
    <3>2. CASE cont[current] # "boot"
      <4>1. sched.state[t] \in {"ST_READY", "ST_BLOCKED"}
        BY <1>3, <1>6, <3>2, OthersWait DEF Used
      <4> QED BY <4>1, SameDoing
    <3> QED BY <3>1, <3>2
  <2>2. st'[t] = b[t]
    BY <1>4, <1>6
  <2> QED BY <1>6, <2>1, <2>2, SameReport DEF Did
<1> QED BY <1>5, <1>6

\* A run that wakes tasks, and nothing else.
LEMMA WakeFits ==
  ASSUME Core, now' \in Int, NEW b \in StatsType, NEW t \in Process,
         \/ st' = leaving(waking(b))
         \/ st' = waking(b) /\ cont[current] = "exit",
         cont[current] # "boot", sched'.current = sched.current,
         sched'.state[current] = sched.state[current],
         t # current => sched'.state[t] = sched.state[t] \/ Woken(t)
  PROVE  Fits(b, t)
<1>1. current \in Task /\ current = sched.current
  BY CurrentState
<1> DEFINE w == waking(b)
<1>2. /\ w \in StatsType
      /\ ~Woken(t) => w[t] = b[t]
      /\ Woken(t) => \A d : Report(w, t, d, now') = Report(b, t, "blocked_ticks", now')
  BY WakingIs
<1> HIDE DEF w
<1>3. t # current => st'[t] = w[t]
  BY <1>1, <1>2, LeavingIs DEF w
<1>4. Used(t) <=> Used(t)'
  BY DEF Used, Woken
<1>5. SUFFICES ASSUME Used(t)
               PROVE  Report(st', t, Doing(t)', now') = Report(b, t, Did(t), now')
  BY <1>4 DEF Fits
<1>6. CASE t = current
  <2>1. cont[current] \notin {"exit", "boot"} /\ sched.state[t] = "ST_RUN" /\ ~Woken(t)
    BY <1>5, <1>6, CurrentState DEF Used, Woken
  <2>2. st' = leaving(w) /\ sched'.state[t] = "ST_RUN"
    BY <1>6, <2>1 DEF w
  <2>3. Report(st', t, Doing(t)', now') = Report(w, t, "system_ticks", now')
    BY <1>1, <1>2, <1>6, <2>2, LeavingIs
  <2> QED BY <1>2, <1>6, <2>1, <2>3, SameReport DEF Did
<1>7. CASE t # current
  <2>1. Report(st', t, Doing(t)', now') = Report(w, t, Doing(t)', now')
    BY <1>3, <1>7, SameReport
  <2>2. CASE Woken(t)
    <3>1. Did(t) = "blocked_ticks"
      BY <1>7, <2>2 DEF Did, Doing, Woken
    <3> QED BY <1>2, <2>1, <2>2, <3>1
  <2>3. CASE ~Woken(t)
    <3>1. sched.state[t] \in {"ST_READY", "ST_BLOCKED"}
      BY <1>5, <1>7, OthersWait DEF Used
    <3>2. Doing(t)' = Doing(t)
      BY <1>7, <2>3, <3>1, SameDoing
    <3> QED BY <1>2, <1>7, <2>1, <2>3, <3>2, SameReport DEF Did
  <2> QED BY <2>2, <2>3
<1> QED BY <1>6, <1>7

\* A run that gives the processor to a ready task, if to another one than before.
LEMMA SwitchFits ==
  ASSUME Core, now' \in Int, NEW b \in StatsType, NEW t \in Process,
         NEW e \in {"SYS_TO_READY", "SYS_TO_BLOCKED"}, NEW left \in {"ST_READY", "ST_BLOCKED"},
         cont[current] \notin {"exit", "boot"},
         Switches(sched, sched', left, "ST_READY"),
         st' = IF sched'.current = current THEN leaving(b) ELSE switching(event(b, current, e))
  PROVE  Fits(b, t)
<1>1. /\ current \in Task /\ current = sched.current /\ sched.state[current] = "ST_RUN"
      /\ t \in Task /\ t # Idle
  BY CurrentState DEF Process
<1>2. /\ t # current /\ t # sched'.current => sched'.state[t] = sched.state[t]
      /\ sched'.current \in Task /\ sched'.state[sched'.current] = "ST_RUN"
      /\ sched'.current # current /\ t = current => sched'.state[current] = left
      /\ sched'.current # current /\ t = sched'.current => sched.state[t] = "ST_READY"
  BY <1>1 DEF Switches
<1>3. Used(t) <=> Used(t)'
  BY <1>1, <1>2 DEF Used
<1>4. SUFFICES ASSUME Used(t)
               PROVE  Report(st', t, Doing(t)', now') = Report(b, t, Did(t), now')
  BY <1>3 DEF Fits
<1>5. CASE sched'.current = current
  <2>1. /\ t # current => st'[t] = b[t]
        /\ t = current => Report(st', t, Doing(t)', now') = Report(b, t, "system_ticks", now')
    BY <1>2, <1>5, LeavingIs
  <2>2. CASE t = current
    BY <2>1, <2>2 DEF Did
  <2>3. CASE t # current
    <3>1. sched.state[t] \in {"ST_READY", "ST_BLOCKED"}
      BY <1>4, <2>3, OthersWait DEF Used
    <3>2. Doing(t)' = Doing(t)
      BY <1>2, <1>5, <2>3, <3>1, SameDoing
    <3> QED BY <2>1, <2>3, <3>2, SameReport DEF Did
  <2> QED BY <2>2, <2>3
<1>6. CASE sched'.current # current
  <2> DEFINE s == event(b, current, e)
  <2>1. /\ s \in StatsType
        /\ t # current => s[t] = b[t]
        /\ t = current => \A w : Report(s, t, w, now') = Report(b, t, "system_ticks", now')
    <3>2. /\ CounterOf(e) = "system_ticks"
          /\ e \in {"USER_TO_SYS", "SYS_TO_USER", "SYS_TO_READY", "SYS_TO_BLOCKED",
                    "READY_TO_SYS", "BLOCKED_TO_READY"}
      BY Counters
    <3>1. /\ event(b, current, e) \in StatsType
          /\ \A u \in Process \ {current} : event(b, current, e)[u] = b[u]
          /\ current # Idle => \A w : Report(event(b, current, e), current, w, now')
                                       = Report(b, current, CounterOf(e), now')
      BY <1>1, <3>2, EventIs
    <3>3. s = event(b, current, e)
      OBVIOUS
    <3> HIDE DEF s
    <3>4. s \in StatsType /\ (t # current => s[t] = b[t])
      BY <1>1, <3>1, <3>3
    <3>5. ASSUME t = current, NEW w PROVE Report(s, t, w, now') = Report(b, t, "system_ticks", now')
      BY <1>1, <3>1, <3>2, <3>3, <3>5
    <3> QED BY <3>4, <3>5
  <2> HIDE DEF s
  <2>2. /\ t # sched'.current => st'[t] = s[t]
        /\ t = sched'.current => Report(st', t, Doing(t)', now') = Report(s, t, "ready_ticks", now')
    BY <1>2, <1>6, <2>1, SwitchingIs DEF s
  <2>3. CASE t = current
    <3>1. Report(st', t, Doing(t)', now') = Report(s, t, Doing(t)', now')
      BY <1>6, <2>2, <2>3, SameReport
    <3> QED BY <2>1, <2>3, <3>1 DEF Did
  <2>4. CASE t = sched'.current
    <3>1. t # current /\ Did(t) = "ready_ticks"
      BY <1>2, <1>6, <2>4 DEF Did, Doing
    <3>2. Report(s, t, "ready_ticks", now') = Report(b, t, "ready_ticks", now')
      BY <2>1, <3>1, SameReport
    <3> QED BY <2>2, <2>4, <3>1, <3>2
  <2>5. CASE t # current /\ t # sched'.current
    <3>1. sched.state[t] \in {"ST_READY", "ST_BLOCKED"}
      BY <1>4, <2>5, OthersWait DEF Used
    <3>2. Doing(t)' = Doing(t)
      BY <1>2, <2>5, <3>1, SameDoing
    <3>3. st'[t] = b[t]
      BY <2>1, <2>2, <2>5
    <3> QED BY <2>5, <3>2, <3>3, SameReport DEF Did
  <2> QED BY <2>3, <2>4, <2>5
<1> QED BY <1>5, <1>6

-----------------------------------------------------------------------------
(* Each run of the kernel. *)

LEMMA EnabledRuns ==
  ASSUME Core, cont[current] \notin {"exit", "boot"}
  PROVE  Running(sched) /\ current = sched.current /\ current \in Task /\ Sane(sched)
BY CurrentState, CoreSane

LEMMA ClockFits ==
  ASSUME Core, now' \in Int, Entered \in StatsType, CountClock, NEW t \in Process
  PROVE  Fits(Entered, t)
<1> DEFINE e == "SYS_TO_READY"
           b == Entered
<1>1. /\ cont[current] \notin {"exit", "boot"}
      /\ sched' = execute_scheduling(sched)
      /\ st' = IF sched'.current = current THEN leaving(b) ELSE switching(event(b, current, e))
      /\ e \in {"SYS_TO_READY", "SYS_TO_BLOCKED"}
  <2>1. ClockTick
    BY DEF CountClock, Clock
  <2>2. cont[current] \notin {"exit", "boot"}
    BY <2>1, CurrentState DEF ClockTick
  <2> QED BY <2>1, <2>2 DEF ClockTick, CountClock
<1> HIDE DEF e, b
<1>2. Switches(sched, sched', "ST_READY", "ST_READY")
  BY <1>1, EnabledRuns, ClockStates
<1>3. b \in StatsType
  BY DEF b
<1>4. Fits(b, t)
  BY <1>1, <1>2, <1>3, SwitchFits
<1> QED BY <1>4 DEF b

\* The running task joins one of the lists of those that are blocked.
LEMMA BlockStates ==
  ASSUME Core, cont[current] \notin {"exit", "boot"}, current # Idle,
         NEW dest \in {"keyboard"} \cup Sem, NEW is_first \in BOOLEAN, NEW c,
         Block(dest, is_first, c)
  PROVE  Switches(sched, sched', "ST_BLOCKED", "ST_READY") /\ sched'.current # current
<1> DEFINE m == update_process_state(sched, current, dest, is_first)
<1>1. /\ Running(sched) /\ current = sched.current /\ current \in Task /\ Sane(sched)
      /\ sched.state \in [Task -> State]
  BY EnabledRuns, SaneFields
<1>2. dest \in Queue /\ StateOn(dest) = "ST_BLOCKED"
  BY QueueNames DEF StateOn
<1>3. Moves(sched, m, current, dest) /\ sched' = sched_next_rr(m)
  BY <1>1, <1>2, MovesUpdate DEF Block
<1> HIDE DEF m
<1>4. Switches(sched, sched', "ST_BLOCKED", "ST_READY")
  BY <1>1, <1>2, <1>3, SwitchStates
<1>5. Parked(m) /\ m.state[current] = "ST_BLOCKED"
  <2>1. Parked(m)
    BY <1>1, <1>2, <1>3, RunningParks
  <2> QED BY <1>1, <1>2, <1>3, <2>1 DEF Moves
<1>6. sched'.current # Idle => m.state[sched'.current] = "ST_READY"
  BY <1>3, <1>5, Chosen
<1> QED BY <1>4, <1>5, <1>6

LEMMA BlockFits ==
  ASSUME Core, now' \in Int, NEW b \in StatsType, NEW t \in Process,
         cont[current] \notin {"exit", "boot"}, current # Idle,
         NEW dest \in {"keyboard"} \cup Sem, NEW is_first \in BOOLEAN, NEW c,
         Block(dest, is_first, c), st' = goingOn(b)
  PROVE  Fits(b, t)
<1> DEFINE e == "SYS_TO_BLOCKED"
<1>1. /\ st' = IF sched'.current = current THEN leaving(b) ELSE switching(event(b, current, e))
      /\ e \in {"SYS_TO_READY", "SYS_TO_BLOCKED"}
  BY DEF goingOn
<1> HIDE DEF e
<1>2. Switches(sched, sched', "ST_BLOCKED", "ST_READY")
  BY BlockStates
<1> QED BY <1>1, <1>2, SwitchFits

\* A wait that blocks wakes nobody.
LEMMA WaitFits ==
  ASSUME Core, now' \in Int, NEW b \in StatsType, NEW t \in Process,
         cont[current] \notin {"exit", "boot"}, current # Idle,
         NEW dest \in Sem, NEW is_first \in BOOLEAN, NEW c,
         Block(dest, is_first, c), st' = goingOn(waking(b))
  PROVE  Fits(b, t)
<1> DEFINE w == waking(b)
<1>1. w \in StatsType /\ (~Woken(t) => w[t] = b[t])
  BY WakingIs
<1>2. ~Woken(t)
  <2>1. Switches(sched, sched', "ST_BLOCKED", "ST_READY")
    BY BlockStates
  <2>2. current = sched.current /\ sched.state[current] = "ST_RUN" /\ t \in Task
    BY CurrentState DEF Process
  <2> QED BY <2>1, <2>2 DEF Woken, Switches
<1> HIDE DEF w
<1>3. Fits(w, t)
  BY <1>1, BlockFits DEF w
<1> QED BY <1>1, <1>2, <1>3, SameReport DEF Fits

\* The keys are taken, and the reader goes on or waits for the rest.
LEMMA TakeFits ==
  ASSUME Core, now' \in Int, NEW b \in StatsType, NEW t \in Process,
         cont[current] \notin {"exit", "boot"}, current # Idle,
         NEW size, TakeKeys(size), st' = goingOn(b)
  PROVE  Fits(b, t)
<1>1. CASE sched' = sched
  <2>1. st' = leaving(b)
    BY <1>1 DEF goingOn, current
  <2> QED BY <1>1, <2>1, StayFits
<1>2. CASE Block("keyboard", TRUE, "read1")
  BY <1>2, BlockFits
<1>3. sched' = sched \/ Block("keyboard", TRUE, "read1")
  BY DEF TakeKeys, WaitForRest
<1> QED BY <1>1, <1>2, <1>3

\* The events of a key that wakes a reader, who was blocked and becomes ready before it runs.
LEMMA PreemptFits ==
  ASSUME Core, now' \in Int, NEW b \in StatsType, NEW t \in Process,
         Running(sched), OnQueue("keyboard") # <<>>, sched' = WakeFirstReader(sched),
         st' = switching(event(preempting(b), Head(OnQueue("keyboard")), "BLOCKED_TO_READY"))
  PROVE  Fits(b, t)
<1> DEFINE h == Head(OnQueue("keyboard"))
           s == preempting(b)
           r == event(s, h, "BLOCKED_TO_READY")
<1>1. /\ Switches(sched, sched', "ST_READY", "ST_BLOCKED")
      /\ sched'.current = h /\ h \in Task \ {Idle, current}
  BY PreemptStates DEF OnQueue, current
<1>2. /\ current \in Task /\ current = sched.current /\ sched.state[current] = "ST_RUN"
      /\ t \in Task /\ t # Idle
  BY CurrentState DEF Process, Running, current
<1>3. /\ s \in StatsType
      /\ t # current => s[t] = b[t]
      /\ t = current => \A w : Report(s, t, w, now') = Report(b, t, "system_ticks", now')
  <2> DEFINE e == "SYS_TO_READY"
  <2>1. /\ s = event(b, current, e) /\ CounterOf(e) = "system_ticks"
        /\ e \in {"USER_TO_SYS", "SYS_TO_USER", "SYS_TO_READY", "SYS_TO_BLOCKED",
                  "READY_TO_SYS", "BLOCKED_TO_READY"}
    BY Counters DEF preempting
  <2> HIDE DEF e, s
  <2>2. /\ event(b, current, e) \in StatsType
        /\ \A u \in Process \ {current} : event(b, current, e)[u] = b[u]
        /\ current # Idle => \A w : Report(event(b, current, e), current, w, now')
                                     = Report(b, current, CounterOf(e), now')
    BY <1>2, <2>1, EventIs
  <2>3. s \in StatsType /\ (t # current => s[t] = b[t])
    BY <2>1, <2>2
  <2>4. ASSUME t = current, NEW w PROVE Report(s, t, w, now') = Report(b, t, "system_ticks", now')
    BY <1>2, <2>1, <2>2, <2>4
  <2> QED BY <2>3, <2>4
<1> HIDE DEF s, h
<1>4. /\ r \in StatsType
      /\ t # h => r[t] = s[t]
      /\ t = h => \A w : Report(r, t, w, now') = Report(s, t, "blocked_ticks", now')
  <2> DEFINE e == "BLOCKED_TO_READY"
  <2>1. /\ r = event(s, h, e) /\ CounterOf(e) = "blocked_ticks"
        /\ e \in {"USER_TO_SYS", "SYS_TO_USER", "SYS_TO_READY", "SYS_TO_BLOCKED",
                  "READY_TO_SYS", "BLOCKED_TO_READY"}
    BY Counters
  <2> HIDE DEF e, r
  <2>2. /\ event(s, h, e) \in StatsType
        /\ \A u \in Process \ {h} : event(s, h, e)[u] = s[u]
        /\ h # Idle => \A w : Report(event(s, h, e), h, w, now') = Report(s, h, CounterOf(e), now')
    <3>1. h \in Task /\ s \in StatsType
      BY <1>1, <1>3
    <3> QED BY <2>1, <3>1, EventIs
  <2>3. r \in StatsType /\ (t # h => r[t] = s[t])
    BY <2>1, <2>2
  <2>4. ASSUME t = h, NEW w PROVE Report(r, t, w, now') = Report(s, t, "blocked_ticks", now')
    BY <1>1, <2>1, <2>2, <2>4
  <2> QED BY <2>3, <2>4
<1>5. st' = switching(r)
  BY DEF h, s
<1> HIDE DEF r
<1>6. /\ t # current /\ t # h => sched'.state[t] = sched.state[t]
      /\ sched'.current \in Task /\ sched'.state[h] = "ST_RUN"
      /\ t = current => sched'.state[current] = "ST_READY"
      /\ t = h => sched.state[t] = "ST_BLOCKED"
  BY <1>1, <1>2 DEF Switches
<1>7. /\ t # h => st'[t] = r[t]
      /\ t = h => Report(st', t, Doing(t)', now') = Report(r, t, "ready_ticks", now')
  BY <1>1, <1>4, <1>5, <1>6, SwitchingIs
<1>8. Used(t) <=> Used(t)'
  BY <1>1, <1>2, <1>6 DEF Used
<1>9. SUFFICES ASSUME Used(t)
               PROVE  Report(st', t, Doing(t)', now') = Report(b, t, Did(t), now')
  BY <1>8 DEF Fits
<1>10. CASE t = h
  <2>1. t # current /\ Did(t) = "blocked_ticks"
    BY <1>1, <1>6, <1>10 DEF Did, Doing
  <2>2. Report(r, t, "ready_ticks", now') = Report(s, t, "blocked_ticks", now')
    BY <1>4, <1>10
  <2>3. Report(s, t, "blocked_ticks", now') = Report(b, t, "blocked_ticks", now')
    BY <1>3, <2>1, SameReport
  <2> QED BY <1>7, <1>10, <2>1, <2>2, <2>3
<1>11. CASE t = current
  <2>1. Report(st', t, Doing(t)', now') = Report(s, t, Doing(t)', now')
    BY <1>1, <1>4, <1>7, <1>11, SameReport
  <2> QED BY <1>3, <1>11, <2>1 DEF Did
<1>12. CASE t # h /\ t # current
  <2>1. cont[current] # "boot"
    BY <1>2, CurrentState
  <2>2. sched.state[t] \in {"ST_READY", "ST_BLOCKED"}
    BY <1>9, <1>12, <2>1, OthersWait DEF Used
  <2>3. Doing(t)' = Doing(t) /\ st'[t] = b[t]
    BY <1>3, <1>4, <1>6, <1>7, <1>12, <2>2, SameDoing
  <2> QED BY <1>12, <2>3, SameReport DEF Did
<1> QED BY <1>10, <1>11, <1>12

LEMMA TypingFits ==
  ASSUME Core, now' \in Int, Entered \in StatsType, CountTyping, NEW t \in Process
  PROVE  Fits(Entered, t)
<1>1. InterruptsEnabled /\ cont' = cont
  BY DEF CountTyping, Typing, KeyboardIrq
<1>2. CASE sched' = sched
  <2>1. st' = leaving(Entered) /\ (InterruptsEnabled' <=> InterruptsEnabled)
    BY <1>1, <1>2 DEF CountTyping, InterruptsEnabled, current
  <2>2. sched'.state = sched.state /\ sched'.current = sched.current
    BY <1>2
  <2> DEFINE b == Entered
  <2>3. st' = leaving(b) /\ b \in StatsType
    BY <2>1
  <2> HIDE DEF b
  <2>4. Fits(b, t)
    BY <2>1, <2>2, <2>3, StayFits
  <2> QED BY <2>4 DEF b
<1>3. CASE sched' # sched
  <2>1. OnQueue("keyboard") # <<>> /\ sched' = WakeFirstReader(sched)
    BY <1>3 DEF CountTyping, Typing, KeyboardIrq
  <2>2. cont[current] # "boot"
    <3>1. cont[current] = "boot" => sched = InitialTable
      BY DEF Core, Situation
    <3> QED BY <2>1, <3>1, InitialLists, QueueNames DEF OnQueue
  <2>3. Running(sched)
    BY <1>1, <2>2, EnabledRuns DEF InterruptsEnabled
  <2> DEFINE b == Entered
  <2>4. st' = switching(event(preempting(b), Head(OnQueue("keyboard")), "BLOCKED_TO_READY"))
        /\ b \in StatsType
    BY <1>3 DEF CountTyping
  <2> HIDE DEF b
  <2>5. Fits(b, t)
    BY <2>1, <2>3, <2>4, PreemptFits
  <2> QED BY <2>5 DEF b
<1> QED BY <1>2, <1>3

\* What comes of the first free PCB.
LEMMA CreateFits ==
  ASSUME Core, now' \in Int, NEW b \in StatsType, NEW t \in Process,
         Create, st' = leaving(starting(b))
  PROVE  Fits(b, t)
<1> DEFINE f == FreeTask(sched)
           s == starting(b)
           row == [reset_stats EXCEPT !.elapsed_total_ticks = now']
<1>1. /\ Running(sched) /\ current = sched.current /\ current \in Task /\ Sane(sched)
      /\ sched.state[current] = "ST_RUN" /\ cont[current] \notin {"exit", "boot"}
      /\ sched.state \in [Task -> State] /\ current # Idle
  <2>1. cont[current] \notin {"exit", "boot"} /\ current # Idle
    BY DEF Create, Spawn, InSyscall
  <2> QED BY <2>1, EnabledRuns, CurrentState, SaneFields
<1>2. /\ sched'.state = [sched.state EXCEPT ![f] = "ST_READY"] /\ sched'.current = sched.current
      /\ f \in Task \ {Idle} /\ sched.state[f] = "ST_INVALID"
  <2>1. sched.queue["free"] # <<>> /\ sched' = spawn(sched)
    BY DEF Create, Spawn, OnQueue
  <2>2. Moves(sched, sched', f, "ready") /\ f \in ToSet(sched.queue["free"]) /\ f \in Task
    BY <1>1, <2>1, SpawnMoves
  <2>3. Idle \notin ToSet(sched.queue["free"]) /\ StatesMatch(sched)
    BY <1>1, QueueNames DEF Running, Unlinked
  <2>4. \A u \in ToSet(sched.queue["free"]) : sched.state[u] = "ST_INVALID"
    BY <2>3, States
  <2>5. StateOn("ready") = "ST_READY"
    BY DEF StateOn
  <2> HIDE DEF f
  <2> QED BY <2>2, <2>3, <2>4, <2>5 DEF Moves
<1> HIDE DEF f
<1>3. /\ s \in StatsType /\ (t # f => s[t] = b[t])
      /\ t = f => \A w : Report(s, t, w, now') = [c \in Counter |-> 0]
  <2>1. row \in [Stats -> Int] /\ row["elapsed_total_ticks"] = now'
        /\ \A c \in Counter : row[c] = 0
    BY DEF reset_stats, Stats, Counter
  <2>2. s = [b EXCEPT ![f] = row] /\ f \in Process
    BY <1>2 DEF starting, f, Process
  <2> HIDE DEF row, s
  <2>3. s \in StatsType /\ s[f] = row /\ (t # f => s[t] = b[t])
    BY <2>1, <2>2 DEF StatsType
  <2>4. ASSUME t = f, NEW w, NEW c \in Counter
        PROVE  s[t][c] + (IF c = w THEN now' - s[t].elapsed_total_ticks ELSE 0) = 0
    BY <2>1, <2>3, <2>4
  <2>5. ASSUME t = f, NEW w
        PROVE  Report(s, t, w, now') = [c \in Counter |-> 0]
    <3> DEFINE value(c) == s[t][c] + (IF c = w THEN now' - s[t].elapsed_total_ticks ELSE 0)
    <3>1. Report(s, t, w, now') = [c \in Counter |-> value(c)]
      BY DEF Report
    <3>2. \A c \in Counter : value(c) = 0
      BY <2>4, <2>5
    <3> HIDE DEF value
    <3> QED BY <3>1, <3>2
  <2> QED BY <2>3, <2>5
<1> HIDE DEF s
<1>4. /\ t # current => st'[t] = s[t]
      /\ t = current => Report(st', t, Doing(t)', now') = Report(s, t, "system_ticks", now')
  <2>1. t = current => sched'.state[t] = "ST_RUN"
    BY <1>1, <1>2
  <2>2. st' = leaving(s) /\ sched'.current \in Task
    BY <1>1, <1>2 DEF s
  <2> QED BY <1>1, <1>2, <1>3, <2>1, <2>2, LeavingIs
<1>5. CASE t = f
  <2>1. ~Used(t) /\ t # current
    BY <1>1, <1>2, <1>5 DEF Used
  <2>2. Report(st', t, Doing(t)', now') = Report(s, t, Doing(t)', now')
    BY <1>4, <2>1, SameReport
  <2> QED BY <1>3, <1>5, <2>1, <2>2 DEF Fits
<1>6. CASE t # f
  <2>1. sched'.state[t] = sched.state[t] /\ t \in Task
    BY <1>1, <1>2, <1>6 DEF Process
  <2>2. SUFFICES ASSUME Used(t)
                 PROVE  Report(st', t, Doing(t)', now') = Report(b, t, Did(t), now')
    BY <2>1 DEF Fits, Used
  <2>3. CASE t = current
    BY <1>3, <1>4, <1>6, <2>3, SameReport DEF Did
  <2>4. CASE t # current
    <3>1. sched.state[t] \in {"ST_READY", "ST_BLOCKED"}
      BY <1>1, <2>2, <2>4, OthersWait DEF Used
    <3>2. Doing(t)' = Doing(t) /\ st'[t] = b[t]
      BY <1>3, <1>4, <1>6, <2>1, <2>4, <3>1, SameDoing
    <3> QED BY <2>4, <3>2, SameReport DEF Did
  <2> QED BY <2>3, <2>4
<1> QED BY <1>5, <1>6

\* Who exits has no use for its counters any more.
LEMMA LeaveFits ==
  ASSUME Core, now' \in Int, NEW b \in StatsType, NEW t \in Process, Leave, st' = b
  PROVE  Fits(b, t)
<1>1. /\ Running(sched) /\ current = sched.current /\ current \in Task /\ Sane(sched)
      /\ cont[current] \notin {"exit", "boot"} /\ sched.state \in [Task -> State]
  <2>1. cont[current] \notin {"exit", "boot"}
    BY DEF Leave, SysExit, InSyscall
  <2> QED BY <2>1, EnabledRuns, SaneFields
<1>2. sched'.state = [sched.state EXCEPT ![current] = "ST_INVALID"]
  <2>1. sched' = update_process_state(sched, current, "free", FALSE)
    BY DEF Leave, SysExit, update_process_state_rr
  <2>2. Moves(sched, sched', current, "free")
    BY <1>1, <2>1, MovesUpdate, QueueNames
  <2>3. StateOn("free") = "ST_INVALID"
    BY DEF StateOn
  <2> QED BY <2>2, <2>3 DEF Moves
<1>3. CASE t = current
  <2>1. sched'.state[t] = "ST_INVALID"
    BY <1>1, <1>2, <1>3
  <2> QED BY <2>1 DEF Fits, Used
<1>4. CASE t # current
  <2>1. sched'.state[t] = sched.state[t]
    BY <1>1, <1>2, <1>4 DEF Process
  <2>2. SUFFICES ASSUME Used(t)
                 PROVE  Report(st', t, Doing(t)', now') = Report(b, t, Did(t), now')
    BY <2>1 DEF Fits, Used
  <2>3. sched.state[t] \in {"ST_READY", "ST_BLOCKED"}
    BY <1>1, <1>4, <2>2, OthersWait DEF Used
  <2> QED BY <1>4, <2>1, <2>3, SameDoing DEF Did
<1> QED BY <1>3, <1>4

LEMMA NiceFits ==
  ASSUME Core, now' \in Int, NEW b \in StatsType, NEW t \in Process,
         NEW q \in NiceQuanta, Nice(q), st' = leaving(b)
  PROVE  Fits(b, t)
<1>1. /\ Sane(sched) /\ current = sched.current /\ current \in Task
      /\ cont[current] \notin {"exit", "boot"}
      /\ sched \in ProcessTable /\ Once(sched.queue) /\ q \in Nat
  <2>1. cont[current] \notin {"exit", "boot"}
    BY DEF Nice, InSyscall
  <2> QED BY <2>1, EnabledRuns, SaneFields, NiceAssumption
<1> DEFINE m == [sched EXCEPT !.quantum[current] = q]
           e == "QUANTUM_UPDATED"
<1>2. Sane(m) /\ m.state = sched.state /\ m.current = sched.current
  <2>1. m \in ProcessTable /\ m.queue = sched.queue /\ m.state = sched.state
        /\ m.current = sched.current
    BY <1>1 DEF ProcessTable
  <2> QED BY <1>1, <2>1 DEF Sane
<1>3. sched' = update_stats(m, current, e)
  BY <1>1 DEF Nice, set_quantum
<1> HIDE DEF m, e
<1>4. sched'.state = sched.state /\ sched'.current = sched.current
  BY <1>1, <1>2, <1>3, UpdateStats DEF SameFields
<1> QED BY <1>1, <1>4, StayFits

LEMMA SemaphoreFits ==
  ASSUME Core, now' \in Int, NEW b \in StatsType, NEW t \in Process,
         SemaphoreCall, st' = goingOn(waking(b))
  PROVE  Fits(b, t)
<1>1. /\ Running(sched) /\ current = sched.current /\ current \in Task /\ Sane(sched)
      /\ cont[current] \notin {"exit", "boot"} /\ current # Idle
      /\ sched.state[current] = "ST_RUN" /\ sched \in ProcessTable
      /\ sched.state \in [Task -> State]
  <2>1. cont[current] \notin {"exit", "boot"} /\ current # Idle
    BY DEF SemaphoreCall, SemInit, SemWait, SemSignal, SemDestroy, InSyscall
  <2> QED BY <2>1, EnabledRuns, CurrentState, SaneFields
\* Calls after which the running task goes on.
<1>2. ASSUME sched'.current = current, sched'.state[current] = sched.state[current],
             t # current => sched'.state[t] = sched.state[t] \/ Woken(t)
      PROVE  Fits(b, t)
  <2>1. st' = leaving(waking(b))
    BY <1>2 DEF goingOn
  <2> QED BY <1>1, <1>2, <2>1, WakeFits
<1>3. CASE sched'.state = sched.state /\ sched'.current = sched.current
  BY <1>1, <1>2, <1>3
<1>4. ASSUME NEW s \in Sem, NEW value \in InitValues, SemInit(s, value)
      PROVE  Fits(b, t)
  <2>1. sched'.state = sched.state /\ sched'.current = sched.current
    BY <1>1, <1>4 DEF SemInit, ProcessTable
  <2> QED BY <1>3, <2>1
<1>5. ASSUME NEW s \in Sem, SemWait(s)
      PROVE  Fits(b, t)
  <2>1. CASE MustWait(s)
    BY <1>1, <1>5, <2>1, WaitFits DEF SemWait
  <2>2. CASE ~MustWait(s)
    BY <1>3, <1>5, <2>2 DEF SemWait
  <2> QED BY <2>1, <2>2
<1>6. ASSUME NEW s \in Sem, SemSignal(s)
      PROVE  Fits(b, t)
  <2>1. CASE OnQueue(s) = <<>>
    BY <1>3, <1>6, <2>1 DEF SemSignal
  <2>2. CASE OnQueue(s) # <<>>
    <3> DEFINE h == Head(sched.queue[s])
               is_first == FALSE
    <3>1. h \in Task \ {Idle, sched.current} /\ h \in ToSet(sched.queue[s])
      BY <1>1, <2>2, FirstOfList, QueueNames DEF OnQueue
    <3>2. sched.state[h] = "ST_BLOCKED"
      BY <1>1, <3>1, States DEF Running
    <3>3. /\ sched' = add_process_to_scheduling(sched, h, "BLOCKED_TO_READY", is_first)
          /\ is_first \in BOOLEAN
      BY <1>6, <2>2 DEF SemSignal, OnQueue
    <3> HIDE DEF h, is_first
    <3>4. Moves(sched, sched', h, "ready")
      BY <1>1, <3>1, <3>3, MovesAdd
    <3>5. StateOn("ready") = "ST_READY"
      BY DEF StateOn
    <3>6. /\ sched'.current = current /\ sched'.state[h] = "ST_READY"
          /\ \A u \in Task \ {h} : sched'.state[u] = sched.state[u]
      BY <1>1, <3>1, <3>4, <3>5 DEF Moves
    <3> QED BY <1>1, <1>2, <3>1, <3>2, <3>6 DEF Woken, Process
  <2> QED BY <2>1, <2>2
<1>7. ASSUME NEW s \in Sem, SemDestroy(s)
      PROVE  Fits(b, t)
  <2>1. sched' = WakeAll(sched, s)
    BY <1>7 DEF SemDestroy, DestroySemaphore
  <2>2. /\ sched'.current = sched.current
        /\ \A u \in Task : sched'.state[u] = IF u \in ToSet(sched.queue[s]) THEN StateOn("ready")
                                             ELSE sched.state[u]
    BY <1>1, <2>1, WakeAllLists
  <2>3. /\ \A u \in ToSet(sched.queue[s]) : sched.state[u] = "ST_BLOCKED"
        /\ StateOn("ready") = "ST_READY"
    BY <1>1, States DEF Running, StateOn
  <2> QED BY <1>1, <1>2, <2>2, <2>3 DEF Woken, Process
<1> QED BY <1>4, <1>5, <1>6, <1>7 DEF SemaphoreCall

LEMMA ReadFits ==
  ASSUME Core, now' \in Int, NEW b \in StatsType, NEW t \in Process,
         ReadCall \/ ReadResume, st' = goingOn(b)
  PROVE  Fits(b, t)
<1>1. CASE ReadCall
  <2>1. PICK size \in ReadSizes : SysRead(size)
    BY <1>1 DEF ReadCall
  <2>2. cont[current] \notin {"exit", "boot"} /\ current # Idle
    BY <2>1 DEF SysRead, InSyscall
  <2>3. CASE SomebodyReads
    BY <2>1, <2>2, <2>3, BlockFits DEF SysRead
  <2>4. CASE ~SomebodyReads
    BY <2>1, <2>2, <2>4, TakeFits DEF SysRead
  <2> QED BY <2>3, <2>4
<1>2. CASE ReadResume
  <2>1. cont[current] \in {"read0", "read1"} /\ TakeKeys(need[current])
    BY <1>2 DEF ReadResume
  <2>2. current # Idle
    BY <2>1 DEF Core, IdleInUser
  <2> QED BY <2>1, <2>2, TakeFits
<1> QED BY <1>1, <1>2

\* A step of sys_exit that wakes the waiters of a semaphore.
LEMMA ExitDestroyFits ==
  ASSUME Core, now' \in Int, NEW b \in StatsType, NEW t \in Process,
         SemaphoresTypeOK, ExitDestroySem, st' = waking(b)
  PROVE  Fits(b, t)
<1> DEFINE s == Head(owned[current])
<1>1. /\ cont[current] = "exit" /\ sched' = WakeAll(sched, s) /\ s \in Sem
  <2>1. owned[current] \in Seq(Sem) /\ owned[current] # <<>>
    BY CoreTask DEF SemaphoresTypeOK, ExitDestroySem
  <2> QED BY <2>1 DEF ExitDestroySem, DestroySemaphore
<1> HIDE DEF s
<1>2. /\ Parked(sched) /\ current = sched.current /\ current \in Task /\ Sane(sched)
      /\ sched.state[current] = "ST_INVALID"
  BY <1>1, CurrentState, CoreSane DEF Core, Situation
<1>3. /\ sched'.current = sched.current
      /\ \A u \in Task : sched'.state[u] = IF u \in ToSet(sched.queue[s]) THEN StateOn("ready")
                                           ELSE sched.state[u]
  BY <1>1, <1>2, WakeAllLists
<1>4. /\ \A u \in ToSet(sched.queue[s]) : sched.state[u] = "ST_BLOCKED"
      /\ StateOn("ready") = "ST_READY"
  BY <1>1, <1>2, States DEF Parked, StateOn
<1>5. /\ sched'.state[current] = sched.state[current]
      /\ t # current => sched'.state[t] = sched.state[t] \/ Woken(t)
  BY <1>2, <1>3, <1>4 DEF Woken, Process
<1> QED BY <1>1, <1>2, <1>3, <1>5, WakeFits

\* The end of sys_exit.
LEMMA ExitDoneFits ==
  ASSUME Core, now' \in Int, NEW b \in StatsType, NEW t \in Process,
         ExitDone, st' = switching(b)
  PROVE  Fits(b, t)
<1>1. /\ cont[current] = "exit" /\ sched' = sched_next_rr(sched)
      /\ Parked(sched) /\ current = sched.current /\ current \in Task
      /\ sched.state[current] = "ST_INVALID" /\ current # Idle
      /\ sched.state \in [Task -> State] /\ t \in Task /\ t # Idle
  <2>1. cont[current] = "exit" /\ sched' = sched_next_rr(sched)
    BY DEF ExitDone, ExitSwitch
  <2>2. Parked(sched) /\ current # Idle
    BY <2>1 DEF Core, Situation, IdleInUser
  <2> QED BY <2>1, <2>2, CurrentState, CoreSane, SaneFields DEF Process
<1>2. /\ sched'.current \in Task
      /\ sched'.state = [sched.state EXCEPT ![sched'.current] = "ST_RUN"]
      /\ sched'.current # Idle => sched.state[sched'.current] = "ST_READY"
  BY <1>1, Chosen
<1>3. /\ t # sched'.current => st'[t] = b[t] /\ sched'.state[t] = sched.state[t]
      /\ t = sched'.current =>
           /\ Report(st', t, Doing(t)', now') = Report(b, t, "ready_ticks", now')
           /\ sched'.state[t] = "ST_RUN" /\ sched.state[t] = "ST_READY" /\ t # current
  <2>1. t = sched'.current => sched'.state[t] = "ST_RUN"
    BY <1>1, <1>2
  <2>2. t # sched'.current => sched'.state[t] = sched.state[t]
    BY <1>1, <1>2
  <2> QED BY <1>1, <1>2, <2>1, <2>2, SwitchingIs
<1>4. CASE t = sched'.current
  <2>1. Did(t) = "ready_ticks" /\ Used(t)
    BY <1>3, <1>4 DEF Did, Doing, Used
  <2> QED BY <1>3, <1>4, <2>1 DEF Fits
<1>5. CASE t # sched'.current /\ t # current
  <2>1. SUFFICES ASSUME Used(t)
                 PROVE  Report(st', t, Doing(t)', now') = Report(b, t, Did(t), now')
    BY <1>3, <1>5 DEF Fits, Used
  <2>2. sched.state[t] \in {"ST_READY", "ST_BLOCKED"}
    BY <1>1, <1>5, <2>1, OthersWait DEF Used
  <2>3. Doing(t)' = Doing(t)
    BY <1>3, <1>5, <2>2, SameDoing
  <2> QED BY <1>3, <1>5, <2>3, SameReport DEF Did
<1>6. CASE t # sched'.current /\ t = current
  <2>1. ~Used(t) /\ ~Used(t)'
    BY <1>1, <1>3, <1>6 DEF Used
  <2> QED BY <2>1 DEF Fits
<1> QED BY <1>4, <1>5, <1>6

\* get_stats brings the counters of a task that waits up to date.
LEMMA GetStatsFits ==
  ASSUME Core, now' \in Int, Entered \in StatsType, NEW t \in Process, NEW u \in Process, GetStats(u)
  PROVE  Fits(Entered, t)
<1> DEFINE b == Entered
           k == RefreshedCounter(u)
           waits == sched.state[u] \in {"ST_READY", "ST_BLOCKED"}
           r == charge(b, u, k, now')
           s == IF waits THEN r ELSE b
<1>1. /\ cont[current] \notin {"exit", "boot"} /\ sched' = sched /\ cont' = cont
      /\ b \in StatsType /\ u \in Task /\ u # Idle /\ k \in Counter
      /\ st' = leaving(s)
  BY DEF GetStats, InSyscall, vars, schedVars, Process, RefreshedCounter, Counter
<1>2. sched.state[current] = "ST_RUN" /\ (waits => k = Did(u))
  BY <1>1, CurrentState DEF RefreshedCounter, Did, Doing
<1> HIDE DEF b, k
<1>3. /\ r \in StatsType
      /\ t # u => r[t] = b[t]
      /\ \A w : Report(r, u, w, now') = Report(b, u, k, now')
  BY <1>1, ChargeIs
<1> HIDE DEF r, waits
<1>4. s \in StatsType /\ Report(s, t, Did(t), now') = Report(b, t, Did(t), now')
  <2>1. CASE waits /\ t = u
    BY <1>2, <1>3, <2>1
  <2>2. CASE ~(waits /\ t = u)
    BY <1>1, <1>3, <2>2, SameReport
  <2> QED BY <1>1, <1>3, <2>1, <2>2
<1> HIDE DEF s
<1>5. Fits(s, t)
  <2>1. sched'.state = sched.state /\ sched'.current = sched.current
    BY <1>1
  <2> QED BY <1>1, <1>4, <2>1, StayFits
<1>6. Fits(b, t)
  BY <1>4, <1>5 DEF Fits
<1> QED BY <1>6 DEF b

\* A run that changes nothing the scheduler has.
LEMMA SameFits ==
  ASSUME Core, now' \in Int, NEW b \in StatsType, NEW t \in Process, st' = leaving(b), sched' = sched,
         cont[current] # "exit", cont[current] = "boot" => cont' = cont
  PROVE  Fits(b, t)
<1>1. sched'.state = sched.state /\ sched'.current = sched.current
  OBVIOUS
<1>2. cont[current] = "boot" => (InterruptsEnabled' <=> InterruptsEnabled)
  BY DEF InterruptsEnabled, current
<1> QED BY <1>1, <1>2, StayFits

\* Runs that start with an interrupt or a system call.
LEMMA EntryFits ==
  ASSUME Core, now' \in Int, Entered \in StatsType, NEW t \in Process,
         CountClock \/ CountTyping \/ CountSyscall \/ OtherEntry \/ \E u \in Process : GetStats(u)
  PROVE  Fits(Entered, t)
<1> DEFINE b == Entered
<1>1. CASE CountClock
  BY <1>1, ClockFits
<1>2. CASE CountTyping
  BY <1>2, TypingFits
<1>3. CASE CountSyscall
  <2>1. /\ b \in StatsType
        /\ \/ Create /\ st' = leaving(starting(b))
           \/ Leave /\ st' = b
           \/ \E q \in NiceQuanta : Nice(q) /\ st' = leaving(b)
           \/ SemaphoreCall /\ st' = goingOn(waking(b))
           \/ ReadCall /\ st' = goingOn(b)
    BY <1>3 DEF CountSyscall
  <2> HIDE DEF b
  <2>2. Fits(b, t)
    BY <2>1, CreateFits, LeaveFits, NiceFits, SemaphoreFits, ReadFits
  <2> QED BY <2>2 DEF b
<1>4. CASE OtherEntry
  <2>1. b \in StatsType /\ st' = leaving(b) /\ sched' = sched /\ cont' = cont /\ cont[current] # "exit"
    BY <1>4 DEF OtherEntry, vars, schedVars, InterruptsEnabled
  <2> HIDE DEF b
  <2>2. Fits(b, t)
    BY <2>1, SameFits
  <2> QED BY <2>2 DEF b
<1>5. CASE \E u \in Process : GetStats(u)
  BY <1>5, GetStatsFits
<1> QED BY <1>1, <1>2, <1>3, <1>4, <1>5

\* Runs that go on after a switch, or in the middle of an exit.
LEMMA ResumeFits ==
  ASSUME Core, SemaphoresTypeOK, now' \in Int, st \in StatsType, NEW t \in Process, CountResume
  PROVE  Fits(st, t)
<1> DEFINE b == st
<1>1. /\ b \in StatsType
      /\ \/ SemWaitReturn /\ st' = leaving(b)
         \/ ReadResume /\ st' = goingOn(b)
         \/ ExitDestroySem /\ st' = waking(b)
         \/ ExitDone /\ st' = switching(b)
  BY DEF CountResume
<1> HIDE DEF b
<1>2. SemWaitReturn => sched' = sched /\ cont[current] = "sem"
  BY DEF SemWaitReturn
<1>3. Fits(b, t)
  BY <1>1, <1>2, SameFits, ReadFits, ExitDestroyFits, ExitDoneFits
<1> QED BY <1>3 DEF b

-----------------------------------------------------------------------------
(* The counters keep their type. *)

LEMMA StatsTypes ==
  ASSUME NEW s \in StatsType, now' \in Int, sched'.current \in Task, current \in Task
  PROVE  /\ leaving(s) \in StatsType /\ switching(s) \in StatsType /\ waking(s) \in StatsType
         /\ goingOn(s) \in StatsType
         /\ \A t \in Task : event(s, t, "SYS_TO_READY") \in StatsType
                            /\ event(s, t, "BLOCKED_TO_READY") \in StatsType
<1>1. \A t \in Task : /\ event(s, t, "SYS_TO_READY") \in StatsType
                      /\ event(s, t, "SYS_TO_BLOCKED") \in StatsType
                      /\ event(s, t, "BLOCKED_TO_READY") \in StatsType
  BY EventIs
<1>2. leaving(s) \in StatsType /\ switching(s) \in StatsType /\ waking(s) \in StatsType
  BY LeavingIs, SwitchingIs, WakingIs
<1>3. goingOn(s) \in StatsType
  <2> DEFINE r == event(s, current, "SYS_TO_BLOCKED")
  <2>1. r \in StatsType
    BY <1>1
  <2>2. goingOn(s) = IF sched'.current = current THEN leaving(s) ELSE switching(r)
    BY DEF goingOn
  <2> HIDE DEF r
  <2> QED BY <1>2, <2>1, <2>2, SwitchingIs
<1> QED BY <1>1, <1>2, <1>3

LEMMA EnteredIs ==
  ASSUME CountedTypeOK, current \in Task
  PROVE  /\ Entered \in StatsType
         /\ \A t \in Process \ {current} : Entered[t] = st[t]
         /\ current # Idle => \A w : Report(Entered, current, w, now) = Report(st, current, "user_ticks", now)
<1> DEFINE k == CounterOf("USER_TO_SYS")
<1>1. k = "user_ticks" /\ k \in Counter
  BY Counters DEF Counter
<1>2. Entered = charge(st, current, k, now)
  BY DEF Entered
<1> HIDE DEF k
<1>3. /\ charge(st, current, k, now) \in StatsType
      /\ \A u \in Process \ {current} : charge(st, current, k, now)[u] = st[u]
      /\ current # Idle => \A w : Report(charge(st, current, k, now), current, w, now) = Report(st, current, k, now)
  BY <1>1, ChargeIs DEF CountedTypeOK
<1> QED BY <1>1, <1>2, <1>3

LEMMA CountedRuns ==
  ASSUME CountedNext \/ UNCHANGED <<vars, statVars>>
  PROVE  [Next]_vars
<1>1. CountClock => Clock
  BY DEF CountClock
<1>2. CountTyping => Typing
  BY DEF CountTyping
<1>3. CountSyscall => Syscall
  BY DEF CountSyscall, Syscall
<1>4. CountResume => Resume
  BY DEF CountResume, Resume
<1>5. OtherEntry \/ UserRuns \/ (\E t \in Process : GetStats(t)) => UNCHANGED vars
  BY DEF OtherEntry, UserRuns, GetStats
<1> QED BY <1>1, <1>2, <1>3, <1>4, <1>5 DEF CountedNext, Next

LEMMA CountedTypes ==
  ASSUME CountedTypeOK, Core, Core', SemaphoresTypeOK, CountedNext \/ UNCHANGED <<vars, statVars>>
  PROVE  CountedTypeOK'
<1> DEFINE b == Entered
<1>1. /\ current \in Task /\ sched'.current \in Task /\ Sane(sched)
      /\ now \in Int /\ now + 1 \in Int /\ st \in StatsType /\ b \in StatsType
  <2>1. current \in Task /\ sched'.current \in Task
    BY CoreTask, CoreSanePrime, SaneFields
  <2> QED BY <2>1, EnteredIs, CoreSane DEF CountedTypeOK
<1>2. now' \in Int
  BY <1>1 DEF CountedNext, statVars, CountClock, CountTyping, CountSyscall, CountResume,
              OtherEntry, UserRuns, GetStats, KernelRuns
<1>3. SUFFICES st' \in StatsType
  BY <1>2 DEF CountedTypeOK
<1> HIDE DEF b
<1>4. \A s \in StatsType :
        /\ leaving(s) \in StatsType /\ switching(s) \in StatsType /\ waking(s) \in StatsType
        /\ goingOn(s) \in StatsType
        /\ \A t \in Task : event(s, t, "SYS_TO_READY") \in StatsType
                           /\ event(s, t, "BLOCKED_TO_READY") \in StatsType
  BY <1>1, <1>2, StatsTypes
<1>5. CASE CountClock
  <2>1. st' = leaving(b) \/ st' = switching(event(b, current, "SYS_TO_READY"))
    BY <1>5 DEF CountClock, b
  <2> QED BY <1>1, <1>4, <2>1
<1>6. CASE CountTyping
  <2>1. \/ st' = leaving(b)
        \/ st' = switching(event(event(b, current, "SYS_TO_READY"), Head(OnQueue("keyboard")),
                                 "BLOCKED_TO_READY"))
           /\ OnQueue("keyboard") # <<>>
    BY <1>6 DEF CountTyping, Typing, KeyboardIrq, preempting, b
  <2>2. OnQueue("keyboard") # <<>> => Head(OnQueue("keyboard")) \in Task
    <3>1. OnQueue("keyboard") \in Seq(Task)
      BY <1>1, SaneFields, QueueNames DEF OnQueue
    <3> QED BY <3>1
  <2>3. event(b, current, "SYS_TO_READY") \in StatsType
    BY <1>1, <1>4
  <2> QED BY <1>1, <1>4, <2>1, <2>2, <2>3
<1>7. CASE CountSyscall
  <2>1. CASE Create /\ st' = leaving(starting(b))
    <3> DEFINE row == [reset_stats EXCEPT !.elapsed_total_ticks = now']
    <3>1. row \in [Stats -> Int]
      BY <1>2 DEF reset_stats, Stats, Counter
    <3>2. starting(b) = [b EXCEPT ![FreeTask(sched)] = row]
      BY DEF starting
    <3> HIDE DEF row
    <3>3. starting(b) \in StatsType
      BY <1>1, <3>1, <3>2 DEF StatsType
    <3> QED BY <1>4, <2>1, <3>3
  <2>2. CASE st' \in {b, leaving(b), goingOn(b), goingOn(waking(b))}
    <3>1. waking(b) \in StatsType
      BY <1>1, <1>4
    <3> QED BY <1>1, <1>4, <2>2, <3>1
  <2> QED BY <1>7, <2>1, <2>2 DEF CountSyscall, b
<1>8. CASE CountResume
  BY <1>1, <1>4, <1>8 DEF CountResume
<1>9. ASSUME NEW t \in Process, GetStats(t)
      PROVE  st' \in StatsType
  <2> DEFINE k == RefreshedCounter(t)
             r == charge(b, t, k, now')
  <2>1. k \in Counter /\ t \in Task
    BY DEF RefreshedCounter, Counter, Process
  <2>2. st' = leaving(r) \/ st' = leaving(b)
    BY <1>9 DEF GetStats, b
  <2> HIDE DEF k
  <2>3. r \in StatsType
    BY <1>1, <1>2, <2>1, ChargeIs
  <2> HIDE DEF r
  <2> QED BY <1>1, <1>4, <2>2, <2>3
<1>10. CASE OtherEntry
  <2>1. st' = leaving(b)
    BY <1>10 DEF OtherEntry, b
  <2> QED BY <1>1, <1>4, <2>1
<1>11. CASE UserRuns \/ UNCHANGED statVars
  BY <1>1, <1>11 DEF UserRuns, statVars
<1> QED BY <1>5, <1>6, <1>7, <1>8, <1>9, <1>10, <1>11 DEF CountedNext

-----------------------------------------------------------------------------
(* From the events to the time every process has spent. *)

\* What TicksGoWhereSpent says of a process.
Accounts(t) ==
  \A c \in Counter :
    LET did == IF t = current /\ ~UserRuns THEN "system_ticks" ELSE Doing(t)
    IN  /\ Used(t) /\ Used(t)' =>
             Spent(t, c)' = Spent(t, c) + (IF c = did THEN now' - now ELSE 0)
        /\ ~Used(t) /\ Used(t)' => Spent(t, c)' = 0

LEMMA SpentIs ==
  ASSUME NEW t
  PROVE  /\ \A c \in Counter : Spent(t, c) = Report(st, t, Doing(t), now)[c]
         /\ \A c \in Counter : Spent(t, c)' = Report(st', t, Doing(t)', now')[c]
BY DEF Spent, Report

\* The time that passes goes to what the process does.
Passes(s, t, w, time, later) ==
  \A c \in Counter :
    Report(s, t, w, later)[c] = Report(s, t, w, time)[c] + (IF c = w THEN later - time ELSE 0)

LEMMA LaterReport ==
  ASSUME NEW s \in StatsType, NEW t \in Process, NEW w, NEW time \in Int, NEW later \in Int
  PROVE  Passes(s, t, w, time, later)
<1> SUFFICES ASSUME NEW c \in Counter
             PROVE  Report(s, t, w, later)[c] = Report(s, t, w, time)[c] + (IF c = w THEN later - time ELSE 0)
  BY DEF Passes
<1>1. PICK row \in [Stats -> Int] : row = s[t]
  BY DEF StatsType
<1>2. row[c] \in Int /\ row["elapsed_total_ticks"] \in Int
  BY DEF Stats
<1> QED BY <1>1, <1>2 DEF Report

\* Enough is that the events since base fit, and that base says of the process what was so.
LEMMA FitsAccounts ==
  ASSUME NEW base \in StatsType, NEW t \in Process, now \in Int, now' \in Int, Fits(base, t), ~UserRuns,
         Used(t) => Report(base, t, Did(t), now) = Report(st, t, Doing(t), now)
  PROVE  Accounts(t)
<1> SUFFICES ASSUME NEW c \in Counter
             PROVE  /\ Used(t) /\ Used(t)' =>
                         Spent(t, c)' = Spent(t, c) + (IF c = Did(t) THEN now' - now ELSE 0)
                    /\ ~Used(t) /\ Used(t)' => Spent(t, c)' = 0
  BY DEF Accounts, Did
<1>1. Spent(t, c) = Report(st, t, Doing(t), now)[c] /\ Spent(t, c)' = Report(st', t, Doing(t)', now')[c]
  BY SpentIs
<1>2. Report(base, t, Did(t), now')[c] = Report(base, t, Did(t), now)[c] + (IF c = Did(t) THEN now' - now ELSE 0)
  <2> DEFINE d == Did(t)
             time == now
             later == now'
  <2>1. time \in Int /\ later \in Int
    OBVIOUS
  <2> HIDE DEF d, time, later
  <2>2. Passes(base, t, d, time, later)
    BY <2>1, LaterReport
  <2> QED BY <2>2 DEF d, time, later, Passes
<1>3. ASSUME Used(t), Used(t)'
      PROVE  Spent(t, c)' = Spent(t, c) + (IF c = Did(t) THEN now' - now ELSE 0)
  <2>1. Report(st', t, Doing(t)', now')[c] = Report(base, t, Did(t), now')[c]
    BY <1>3 DEF Fits
  <2>2. Report(base, t, Did(t), now)[c] = Report(st, t, Doing(t), now)[c]
    BY <1>3
  <2> QED BY <1>1, <1>2, <2>1, <2>2
<1>4. ASSUME ~Used(t), Used(t)'
      PROVE  Spent(t, c)' = 0
  BY <1>1, <1>4 DEF Fits
<1> QED BY <1>3, <1>4

LEMMA EntryAccounts ==
  ASSUME Core, CountedTypeOK, now' \in Int, ~UserRuns, NEW t \in Process,
         CountClock \/ CountTyping \/ CountSyscall \/ OtherEntry \/ \E u \in Process : GetStats(u)
  PROVE  Accounts(t)
<1>1. InterruptsEnabled
  <2>1. InSyscall => InterruptsEnabled
    BY DEF InSyscall, InterruptsEnabled
  <2> QED BY <2>1 DEF CountClock, Clock, ClockTick, CountTyping, Typing, KeyboardIrq, CountSyscall,
                      Create, Spawn, Leave, SysExit, Nice, SemaphoreCall, SemInit, SemWait, SemSignal,
                      SemDestroy, ReadCall, SysRead, OtherEntry, GetStats
<1>2. /\ Entered \in StatsType
      /\ \A u \in Process \ {current} : Entered[u] = st[u]
      /\ current # Idle => \A w : Report(Entered, current, w, now) = Report(st, current, "user_ticks", now)
  BY CoreTask, EnteredIs
<1> DEFINE b == Entered
<1>3. Fits(b, t) /\ b \in StatsType
  BY <1>2, EntryFits
<1>4. ASSUME Used(t)
      PROVE  Report(b, t, Did(t), now) = Report(st, t, Doing(t), now)
  <2>1. CASE t = current
    <3>1. sched.state[t] = "ST_RUN" /\ t # Idle
      BY <1>4, <2>1, CurrentState DEF Used, Process
    <3>2. Doing(t) = "user_ticks"
      BY <1>1, <3>1 DEF Doing
    <3>3. \A w : Report(b, t, w, now) = Report(st, t, "user_ticks", now)
      BY <1>2, <2>1, <3>1
    <3> QED BY <3>2, <3>3
  <2>2. CASE t # current
    BY <1>2, <2>2, SameReport DEF Did
  <2> QED BY <2>1, <2>2
<1> HIDE DEF b
<1> QED BY <1>3, <1>4, FitsAccounts DEF CountedTypeOK

LEMMA ResumeAccounts ==
  ASSUME Core, SemaphoresTypeOK, CountedTypeOK, now' \in Int, ~UserRuns, NEW t \in Process, CountResume
  PROVE  Accounts(t)
<1> DEFINE b == st
<1>1. Fits(b, t) /\ b \in StatsType
  BY ResumeFits DEF CountedTypeOK
<1>2. ~InterruptsEnabled
  BY DEF CountResume, SemWaitReturn, ReadResume, ExitDestroySem, ExitDone, ExitSwitch, InterruptsEnabled
<1>3. Used(t) => Did(t) = Doing(t)
  <2>1. t = current /\ Used(t) => sched.state[t] = "ST_RUN"
    BY CurrentState DEF Used
  <2>2. t = current /\ Used(t) => Doing(t) = "system_ticks"
    BY <1>2, <2>1 DEF Doing
  <2> QED BY <2>2 DEF Did
<1>4. Used(t) => Report(b, t, Did(t), now) = Report(st, t, Doing(t), now)
  BY <1>3
<1> HIDE DEF b
<1> QED BY <1>1, <1>4, FitsAccounts DEF CountedTypeOK

\* The end of main() takes no time here, and changes what nobody does.
LEMMA BootAccounts ==
  ASSUME Core, Resumption, CountedTypeOK, NEW t \in Process, ReturnGate, UNCHANGED statVars
  PROVE  Accounts(t)
<1>1. /\ cont[current] = "boot" /\ cont[Task1] = "user" /\ cont \in [Task -> Continuation]
      /\ sched \in ProcessTable /\ current \in Task /\ Task1 \in Task
      /\ cont' = [cont EXCEPT ![current] = "none"]
      /\ sched' = [sched EXCEPT !.current = Task1]
  BY CoreTask, CoreSane, SaneFields DEF ReturnGate, Resumption, Core, SchedulerTypeOK
<1>2. sched'.state = sched.state /\ sched'.current = Task1
  BY <1>1 DEF ProcessTable
<1>3. InterruptsEnabled /\ InterruptsEnabled'
  <2>1. cont'[Task1] = "user"
    BY <1>1
  <2> QED BY <1>1, <1>2, <2>1 DEF InterruptsEnabled, current
<1>4. Doing(t)' = Doing(t) /\ (Used(t)' <=> Used(t))
  BY <1>2, <1>3 DEF Doing, Used
<1> SUFFICES ASSUME NEW c \in Counter, NEW did
             PROVE  Used(t) => Spent(t, c)' = Spent(t, c) + (IF c = did THEN now' - now ELSE 0)
  BY <1>4 DEF Accounts
<1>5. Spent(t, c)' = Spent(t, c)
  BY <1>4 DEF Spent, statVars
<1>6. Spent(t, c) \in Int /\ now' = now /\ now \in Int
  <2>1. PICK row \in [Stats -> Int] : row = st[t]
    BY DEF CountedTypeOK, StatsType
  <2>2. row[c] \in Int /\ row["elapsed_total_ticks"] \in Int
    BY <2>1 DEF Stats
  <2> QED BY <2>1, <2>2 DEF Spent, CountedTypeOK, statVars
<1> QED BY <1>5, <1>6

\* In user mode the time goes on for everybody.
LEMMA UserAccounts ==
  ASSUME CountedTypeOK, NEW t \in Process, UserRuns
  PROVE  Accounts(t)
<1>1. /\ st' = st /\ sched' = sched /\ cont' = cont /\ now' = now + 1
      /\ now \in Int /\ now' \in Int
  BY DEF UserRuns, vars, schedVars, CountedTypeOK
<1>2. Doing(t)' = Doing(t) /\ (Used(t)' <=> Used(t))
  BY <1>1 DEF Doing, Used, InterruptsEnabled, current
<1> SUFFICES ASSUME NEW c \in Counter
             PROVE  Spent(t, c)' = Spent(t, c) + (IF c = Doing(t) THEN now' - now ELSE 0)
  BY <1>2 DEF Accounts
<1> DEFINE w == Doing(t)
           s == st
           time == now
           later == now'
<1>3. s \in StatsType /\ time \in Int /\ later \in Int
  BY <1>1 DEF CountedTypeOK
<1>4. Spent(t, c) = Report(s, t, w, time)[c] /\ Spent(t, c)' = Report(s, t, w, later)[c]
  BY <1>1, <1>2, SpentIs
<1> HIDE DEF w, s, time, later
<1>5. Passes(s, t, w, time, later)
  BY <1>3, LaterReport
<1>6. Report(s, t, w, later)[c] = Report(s, t, w, time)[c] + (IF c = w THEN later - time ELSE 0)
  BY <1>5 DEF Passes
<1> QED BY <1>4, <1>6 DEF w, time, later

-----------------------------------------------------------------------------

LEMMA CountedStep ==
  ASSUME Inv, ProcessInv, CountedTypeOK, now' \in Int, CountedNext, NEW t \in Process
  PROVE  Accounts(t)
<1>1. Core /\ SemaphoresTypeOK /\ Resumption
  BY DEF Inv, ProcessInv
<1>2. CASE UserRuns
  BY <1>2, UserAccounts
<1>3. CASE Boot /\ UNCHANGED statVars
  BY <1>1, <1>3, BootAccounts DEF Boot
<1>4. CASE ~UserRuns /\ CountResume
  BY <1>1, <1>4, ResumeAccounts
<1>5. CASE ~UserRuns /\ (CountClock \/ CountTyping \/ CountSyscall \/ OtherEntry \/ \E u \in Process : GetStats(u))
  BY <1>1, <1>5, EntryAccounts
<1> QED BY <1>2, <1>3, <1>4, <1>5 DEF CountedNext

LEMMA CountedInitTypes == AccountingInit => CountedTypeOK
BY DEF AccountingInit, CountedTypeOK, StatsType, Stats, reset_stats

\* Every tick is counted once and for what the process did, for any number of processes,
\* semaphores and keys and however long it goes on (stats.c:20).
THEOREM TimeIsAccounted == CountedSpec => TicksGoWhereSpent
<1>1. CountedInit => Inv /\ ProcessInv /\ CountedTypeOK
  BY InitInv, ProcessInit, CountedInitTypes DEF CountedInit
<1>2. Inv /\ ProcessInv /\ CountedTypeOK /\ [CountedNext]_<<vars, statVars>>
      => Inv' /\ ProcessInv' /\ CountedTypeOK'
  <2> SUFFICES ASSUME Inv, ProcessInv, CountedTypeOK, CountedNext \/ UNCHANGED <<vars, statVars>>
               PROVE  Inv' /\ ProcessInv' /\ CountedTypeOK'
    OBVIOUS
  <2>1. Inv' /\ ProcessInv'
    BY CountedRuns, NextInv, ProcessStep
  <2> QED BY <2>1, CountedTypes DEF Inv
<1>3. Inv /\ ProcessInv /\ CountedTypeOK /\ CountedTypeOK' /\ [CountedNext]_<<vars, statVars>>
      => [\A t \in Process : Accounts(t)]_<<vars, statVars>>
  <2> SUFFICES ASSUME Inv, ProcessInv, CountedTypeOK, CountedTypeOK', CountedNext, NEW t \in Process
               PROVE  Accounts(t)
    OBVIOUS
  <2> QED BY CountedStep DEF CountedTypeOK
<1>4. [\A t \in Process : Accounts(t)]_<<vars, statVars>>
      => [\A t \in Process : \A c \in Counter :
           LET did == IF t = current /\ ~UserRuns THEN "system_ticks" ELSE Doing(t)
           IN  /\ Used(t) /\ Used(t)' =>
                    Spent(t, c)' = Spent(t, c) + (IF c = did THEN now' - now ELSE 0)
               /\ ~Used(t) /\ Used(t)' => Spent(t, c)' = 0]_<<vars, statVars>>
  BY DEF Accounts
<1> QED BY <1>1, <1>2, <1>3, <1>4, PTL DEF CountedSpec, TicksGoWhereSpent
=============================================================================
