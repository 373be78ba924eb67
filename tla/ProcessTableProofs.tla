-------------------------- MODULE ProcessTableProofs --------------------------
(***************************************************************************)
(* What the functions of sched.c do to the lists of the process table, for *)
(* every number of tasks and semaphores.                                   *)
(***************************************************************************)
EXTENDS ProcessTable, SequenceTheorems, WellFoundedInduction, TLAPS

\* The form of LinkedOnce (module Scheduler) the proofs use.
Once(q) ==
  /\ \A k \in Queue : IsInjective(q[k])
  /\ \A k, l \in Queue : k # l => ToSet(q[k]) \cap ToSet(q[l]) = {}

-----------------------------------------------------------------------------
(* RemoveFirst. *)

\* A set of natural numbers that is not empty has the minimum CHOOSE picks.
LEMMA MinNat ==
  ASSUME NEW T, T \subseteq Nat, T # {}
  PROVE  Min(T) \in T
<1>1. PICK x \in T : \A y \in T : ~ (<<y, x>> \in OpToRel(<, Nat))
  BY NatLessThanWellFounded, WFMin
<1>2. \A y \in T : x <= y
  <2>1. SUFFICES ASSUME NEW y \in T, y < x PROVE FALSE
    OBVIOUS
  <2>2. <<y, x>> \in OpToRel(<, Nat)
    BY <2>1, Zenon DEF OpToRel
  <2> QED BY <1>1, <2>2
<1> QED BY <1>2 DEF Min

\* r is s without one occurrence of e, all others in order.
OneLess(r, s, e, S) ==
  \E i \in 1 .. Len(s) :
    /\ s[i] = e
    /\ r \in Seq(S)
    /\ Len(r) = Len(s) - 1
    /\ \A j \in 1 .. Len(s) - 1 : r[j] = IF j < i THEN s[j] ELSE s[j + 1]

LEMMA Successor ==
  ASSUME NEW m \in Nat, NEW n \in 1 .. m
  PROVE  n + 1 <= m \/ n = m
OBVIOUS

LEMMA RemoveFirstPresent ==
  ASSUME NEW S, NEW s \in Seq(S), NEW e, e \in ToSet(s)
  PROVE  OneLess(RemoveFirst(s, e), s, e, S)
<1>1. Len(s) \in Nat /\ DOMAIN s = 1 .. Len(s) /\ \A i \in 1 .. Len(s) : s[i] \in S
  BY LenProperties, ElementOfSeq
<1> DEFINE I == {i \in 1 .. Len(s) : s[i] = e}
           n == SelectInSeq(s, LAMBDA v : v = e)
           L == SubSeq(s, 1, n - 1)
           R == SubSeq(s, n + 1, Len(s))
<1>2. I # {} /\ I \subseteq Nat
  BY <1>1 DEF ToSet
<1>3. n \in 1 .. Len(s) /\ s[n] = e
  BY <1>2, MinNat DEF SelectInSeq
<1>4. RemoveFirst(s, e) = L \o R
  BY <1>2 DEF RemoveFirst, RemoveAt
<1> HIDE DEF n
<1>5. /\ L \in Seq(S) /\ Len(L) = n - 1
      /\ \A j \in 1 .. n - 1 : L[j] = s[j]
  <2>1. \A j \in 1 .. n - 1 : s[j] \in S
    BY <1>1, <1>3
  <2> QED BY <1>1, <1>3, <2>1, SubSeqProperties
<1>6. /\ R \in Seq(S) /\ Len(R) = Len(s) - n
      /\ \A j \in 1 .. Len(s) - n : R[j] = s[n + j]
  <2>1. \A j \in n + 1 .. Len(s) : s[j] \in S
    BY <1>1, <1>3
  <2>2. /\ R \in Seq(S)
        /\ Len(R) = IF n + 1 <= Len(s) THEN Len(s) - (n + 1) + 1 ELSE 0
        /\ \A j \in 1 .. Len(s) - (n + 1) + 1 : R[j] = s[(n + 1) + j - 1]
    BY <1>1, <1>3, <2>1, SubSeqProperties
  <2>3. Len(R) = Len(s) - n
    <3> HIDE DEF R
    <3>1. CASE n + 1 <= Len(s)
      BY <1>1, <1>3, <2>2, <3>1
    <3>2. CASE n = Len(s)
      BY <1>1, <1>3, <2>2, <3>2
    <3>3. n + 1 <= Len(s) \/ n = Len(s)
      BY <1>1, <1>3, Successor
    <3> QED BY <3>1, <3>2, <3>3
  <2>4. ASSUME NEW j \in 1 .. Len(s) - n PROVE R[j] = s[n + j]
    <3>1. j \in 1 .. Len(s) - (n + 1) + 1 /\ (n + 1) + j - 1 = n + j
      BY <1>1, <1>3
    <3> HIDE DEF R
    <3>2. R[j] = s[(n + 1) + j - 1]
      BY <2>2, <3>1
    <3> QED BY <3>1, <3>2
  <2> HIDE DEF R
  <2> QED BY <2>2, <2>3, <2>4
<1> HIDE DEF L, R
<1>7. /\ L \o R \in Seq(S) /\ Len(L \o R) = Len(s) - 1
      /\ \A j \in 1 .. Len(s) - 1 : (L \o R)[j] = IF j < n THEN L[j] ELSE R[j - (n - 1)]
  <2>1. /\ L \o R \in Seq(S)
        /\ Len(L \o R) = Len(L) + Len(R)
        /\ \A j \in 1 .. Len(L) + Len(R) : (L \o R)[j] = IF j <= Len(L) THEN L[j] ELSE R[j - Len(L)]
    BY <1>5, <1>6, ConcatProperties
  <2> QED BY <1>1, <1>3, <1>5, <1>6, <2>1
<1>8. \A j \in 1 .. Len(s) - 1 : (L \o R)[j] = IF j < n THEN s[j] ELSE s[j + 1]
  BY <1>1, <1>3, <1>5, <1>6, <1>7
<1> QED BY <1>3, <1>4, <1>7, <1>8 DEF OneLess

LEMMA RemoveFirstType ==
  ASSUME NEW S, NEW s \in Seq(S), NEW e
  PROVE  RemoveFirst(s, e) \in Seq(S)
<1>1. CASE e \in ToSet(s)
  BY <1>1, RemoveFirstPresent DEF OneLess
<1>2. CASE e \notin ToSet(s)
  <2>1. ~ \E i \in 1 .. Len(s) : s[i] = e
    BY <1>2, LenProperties DEF ToSet
  <2> QED BY <2>1 DEF RemoveFirst
<1> QED BY <1>1, <1>2

\* Where no element occurs twice, RemoveFirst takes exactly e away.
LEMMA RemoveFirstMembers ==
  ASSUME NEW S, NEW s \in Seq(S), NEW e, IsInjective(s)
  PROVE  /\ IsInjective(RemoveFirst(s, e))
         /\ ToSet(RemoveFirst(s, e)) = ToSet(s) \ {e}
<1>0. Len(s) \in Nat /\ DOMAIN s = 1 .. Len(s)
  BY LenProperties
<1>1. CASE e \notin ToSet(s)
  <2>1. ~ \E i \in 1 .. Len(s) : s[i] = e
    BY <1>0, <1>1 DEF ToSet
  <2> QED BY <1>1, <2>1 DEF RemoveFirst
<1>2. CASE e \in ToSet(s)
  <2> DEFINE r == RemoveFirst(s, e)
  <2>0. OneLess(r, s, e, S)
    BY <1>2, RemoveFirstPresent
  <2> HIDE DEF r
  <2>1. PICK i \in 1 .. Len(s) :
          /\ s[i] = e
          /\ r \in Seq(S)
          /\ Len(r) = Len(s) - 1
          /\ \A j \in 1 .. Len(s) - 1 : r[j] = IF j < i THEN s[j] ELSE s[j + 1]
    BY <2>0 DEF OneLess
  <2>2. DOMAIN r = 1 .. Len(s) - 1
    BY <1>0, <2>1, LenProperties
  <2>3. IsInjective(r)
    <3> DEFINE at(j) == IF j < i THEN j ELSE j + 1
    <3>1. \A j \in DOMAIN r : at(j) \in DOMAIN s /\ r[j] = s[at(j)]
      BY <1>0, <2>1, <2>2
    <3>2. \A j, k \in DOMAIN r : at(j) = at(k) => j = k
      BY <1>0, <2>2
    <3> HIDE DEF at
    <3> QED BY <3>1, <3>2 DEF IsInjective
  <2>4. ASSUME NEW x \in ToSet(r) PROVE x \in ToSet(s) \ {e}
    <3>1. PICK j \in 1 .. Len(s) - 1 : r[j] = x
      BY <2>2, <2>4 DEF ToSet
    <3>2. CASE j < i
      <4>1. x = s[j] /\ j \in DOMAIN s /\ j # i
        BY <1>0, <2>1, <3>1, <3>2
      <4> QED BY <1>0, <2>1, <4>1 DEF IsInjective, ToSet
    <3>3. CASE ~(j < i)
      <4>1. x = s[j + 1] /\ j + 1 \in DOMAIN s /\ j + 1 # i
        BY <1>0, <2>1, <3>1, <3>3
      <4> QED BY <1>0, <2>1, <4>1 DEF IsInjective, ToSet
    <3> QED BY <3>2, <3>3
  <2>5. ASSUME NEW x \in ToSet(s) \ {e} PROVE x \in ToSet(r)
    <3>1. PICK j \in 1 .. Len(s) : s[j] = x /\ j # i
      BY <1>0, <2>1, <2>5 DEF ToSet
    <3>2. CASE j < i
      <4>1. j \in DOMAIN r /\ r[j] = x
        BY <1>0, <2>1, <2>2, <3>1, <3>2
      <4> QED BY <4>1 DEF ToSet
    <3>3. CASE ~(j < i)
      <4>1. j - 1 \in DOMAIN r /\ r[j - 1] = x
        BY <1>0, <2>1, <2>2, <3>1, <3>3
      <4> QED BY <4>1 DEF ToSet
    <3> QED BY <3>2, <3>3
  <2>6. ToSet(r) = ToSet(s) \ {e}
    BY <2>4, <2>5
  <2> QED BY <2>3, <2>6 DEF r
<1> QED BY <1>1, <1>2

-----------------------------------------------------------------------------
(* Sequences: heads, and what list_insert and \o add. *)

LEMMA MembersType ==
  ASSUME NEW S, NEW s \in Seq(S)
  PROVE  /\ ToSet(s) \subseteq S
         /\ ToSet(s) = {} <=> s = <<>>
         /\ s # <<>> => Head(s) \in ToSet(s) /\ Head(s) \in S
<1>1. Len(s) \in Nat /\ DOMAIN s = 1 .. Len(s) /\ \A i \in 1 .. Len(s) : s[i] \in S
  BY LenProperties, ElementOfSeq
<1>2. s # <<>> => Len(s) >= 1 /\ Head(s) = s[1]
  BY <1>1, EmptySeq
<1>3. s = <<>> => Len(s) = 0
  BY EmptySeq
<1> QED BY <1>1, <1>2, <1>3 DEF ToSet

\* Two sequences without repetitions and without a common element, one after the other.
LEMMA ConcatMembers ==
  ASSUME NEW S, NEW s \in Seq(S), NEW t \in Seq(S)
  PROVE  /\ s \o t \in Seq(S)
         /\ ToSet(s \o t) = ToSet(s) \cup ToSet(t)
         /\ IsInjective(s) /\ IsInjective(t) /\ ToSet(s) \cap ToSet(t) = {} => IsInjective(s \o t)
<1> DEFINE c == s \o t
<1>1. /\ Len(s) \in Nat /\ DOMAIN s = 1 .. Len(s)
      /\ Len(t) \in Nat /\ DOMAIN t = 1 .. Len(t)
  BY LenProperties
<1>2. /\ c \in Seq(S) /\ Len(c) = Len(s) + Len(t)
      /\ \A i \in 1 .. Len(s) + Len(t) : c[i] = IF i <= Len(s) THEN s[i] ELSE t[i - Len(s)]
  BY ConcatProperties
<1>3. DOMAIN c = 1 .. Len(s) + Len(t)
  BY <1>2, LenProperties
<1> HIDE DEF c
<1>4. ASSUME NEW x \in ToSet(c) PROVE x \in ToSet(s) \cup ToSet(t)
  <2>1. PICK i \in 1 .. Len(s) + Len(t) : c[i] = x
    BY <1>3, <1>4 DEF ToSet
  <2>2. CASE i <= Len(s)
    <3>1. i \in DOMAIN s /\ x = s[i]
      BY <1>1, <1>2, <2>1, <2>2
    <3> QED BY <3>1 DEF ToSet
  <2>3. CASE ~(i <= Len(s))
    <3>1. i - Len(s) \in DOMAIN t /\ x = t[i - Len(s)]
      BY <1>1, <1>2, <2>1, <2>3
    <3> QED BY <3>1 DEF ToSet
  <2> QED BY <2>2, <2>3
<1>5. ASSUME NEW x \in ToSet(s) PROVE x \in ToSet(c)
  <2>1. PICK i \in 1 .. Len(s) : s[i] = x
    BY <1>1, <1>5 DEF ToSet
  <2>2. i \in DOMAIN c /\ c[i] = x
    BY <1>1, <1>2, <1>3, <2>1
  <2> QED BY <2>2 DEF ToSet
<1>6. ASSUME NEW x \in ToSet(t) PROVE x \in ToSet(c)
  <2>1. PICK i \in 1 .. Len(t) : t[i] = x
    BY <1>1, <1>6 DEF ToSet
  <2>2. Len(s) + i \in DOMAIN c /\ c[Len(s) + i] = x
    BY <1>1, <1>2, <1>3, <2>1
  <2> QED BY <2>2 DEF ToSet
<1>7. ASSUME IsInjective(s), IsInjective(t), ToSet(s) \cap ToSet(t) = {}
      PROVE  IsInjective(c)
  <2>1. SUFFICES ASSUME NEW i \in DOMAIN c, NEW j \in DOMAIN c, c[i] = c[j], i < j PROVE FALSE
    BY <1>1, <1>3 DEF IsInjective
  <2>2. CASE j <= Len(s)
    BY <1>1, <1>2, <1>3, <1>7, <2>1, <2>2 DEF IsInjective
  <2>3. CASE i > Len(s)
    <3>1. /\ i - Len(s) \in DOMAIN t /\ j - Len(s) \in DOMAIN t
          /\ t[i - Len(s)] = t[j - Len(s)] /\ i - Len(s) # j - Len(s)
      BY <1>1, <1>2, <1>3, <2>1, <2>3
    <3> QED BY <1>7, <3>1 DEF IsInjective
  <2>4. CASE i <= Len(s) /\ j > Len(s)
    <3>1. i \in DOMAIN s /\ j - Len(s) \in DOMAIN t /\ s[i] = t[j - Len(s)]
      BY <1>1, <1>2, <1>3, <2>1, <2>4
    <3> QED BY <1>7, <3>1 DEF ToSet
  <2> QED BY <1>1, <1>3, <2>1, <2>2, <2>3, <2>4
<1> QED BY <1>2, <1>4, <1>5, <1>6, <1>7 DEF c

LEMMA SingletonSeq ==
  ASSUME NEW S, NEW e \in S
  PROVE  <<e>> \in Seq(S) /\ ToSet(<<e>>) = {e} /\ IsInjective(<<e>>)
BY DEF ToSet, IsInjective

LEMMA InsertMembers ==
  ASSUME NEW S, NEW s \in Seq(S), NEW e \in S, NEW is_first \in BOOLEAN
  PROVE  /\ list_insert(s, e, is_first) \in Seq(S)
         /\ ToSet(list_insert(s, e, is_first)) = ToSet(s) \cup {e}
         /\ IsInjective(s) /\ e \notin ToSet(s) => IsInjective(list_insert(s, e, is_first))
<1>1. Append(s, e) = s \o <<e>>
  BY AppendIsConcat
<1>2. list_insert(s, e, is_first) = IF is_first THEN <<e>> \o s ELSE s \o <<e>>
  BY <1>1 DEF list_insert
<1> DEFINE one == <<e>>
<1>3. one \in Seq(S) /\ ToSet(one) = {e} /\ IsInjective(one)
  BY SingletonSeq
<1> HIDE DEF one
<1>4. /\ one \o s \in Seq(S) /\ ToSet(one \o s) = ToSet(one) \cup ToSet(s)
      /\ IsInjective(one) /\ IsInjective(s) /\ ToSet(one) \cap ToSet(s) = {}
           => IsInjective(one \o s)
  BY <1>3, ConcatMembers
<1>5. /\ s \o one \in Seq(S) /\ ToSet(s \o one) = ToSet(s) \cup ToSet(one)
      /\ IsInjective(s) /\ IsInjective(one) /\ ToSet(s) \cap ToSet(one) = {}
           => IsInjective(s \o one)
  BY <1>3, ConcatMembers
<1>6. list_insert(s, e, is_first) = IF is_first THEN one \o s ELSE s \o one
  BY <1>2 DEF one
<1> QED BY <1>3, <1>4, <1>5, <1>6

-----------------------------------------------------------------------------
(* The lists. *)

LEMMA QueueNames ==
  /\ "free" \in Queue /\ "ready" \in Queue /\ "keyboard" \in Queue /\ NULL \notin Queue
  /\ \A s \in Sem : s \in Queue /\ s # "free" /\ s # "ready" /\ s # "keyboard"
BY SemAssumption DEF Queue, NULL

\* list_del takes the task off every list and changes nothing else.
LEMMA ListDel ==
  ASSUME NEW q \in [Queue -> Seq(Task)], Once(q), NEW t \in Task
  PROVE  /\ list_del(q, t) \in [Queue -> Seq(Task)]
         /\ Once(list_del(q, t))
         /\ \A k \in Queue : ToSet(list_del(q, t)[k]) = ToSet(q[k]) \ {t}
<1>1. \A k \in Queue : q[k] \in Seq(Task) /\ IsInjective(q[k])
  BY DEF Once
<1>2. \A k \in Queue : /\ RemoveFirst(q[k], t) \in Seq(Task)
                       /\ IsInjective(RemoveFirst(q[k], t))
                       /\ ToSet(RemoveFirst(q[k], t)) = ToSet(q[k]) \ {t}
  BY <1>1, RemoveFirstType, RemoveFirstMembers
<1>3. \A k \in Queue : list_del(q, t)[k] = RemoveFirst(q[k], t)
  BY DEF list_del
<1>4. list_del(q, t) \in [Queue -> Seq(Task)]
  BY <1>2 DEF list_del
<1> QED BY <1>2, <1>3, <1>4 DEF Once

Unlinked(q, t) == \A k \in Queue : t \notin ToSet(q[k])

\* From q to r nothing happens but that t joins dest.
Joins(q, r, t, dest) ==
  /\ ToSet(r[dest]) = ToSet(q[dest]) \cup {t}
  /\ \A k \in Queue : k # dest => ToSet(r[k]) = ToSet(q[k])

ListsWith(q, t, dest, is_first) == [q EXCEPT ![dest] = list_insert(@, t, is_first)]

\* A task that is in no list can be added to one.
LEMMA ListInsert ==
  ASSUME NEW q \in [Queue -> Seq(Task)], Once(q), NEW t \in Task, NEW dest \in Queue,
         NEW is_first \in BOOLEAN,
         Unlinked(q, t)
  PROVE  LET r == ListsWith(q, t, dest, is_first)
         IN  /\ r \in [Queue -> Seq(Task)]
             /\ Once(r)
             /\ Joins(q, r, t, dest)
<1> DEFINE r == ListsWith(q, t, dest, is_first)
<1>1. /\ list_insert(q[dest], t, is_first) \in Seq(Task)
      /\ ToSet(list_insert(q[dest], t, is_first)) = ToSet(q[dest]) \cup {t}
      /\ IsInjective(list_insert(q[dest], t, is_first))
  BY InsertMembers DEF Once, Unlinked
<1>2. r \in [Queue -> Seq(Task)] /\ r[dest] = list_insert(q[dest], t, is_first)
      /\ \A k \in Queue : k # dest => r[k] = q[k]
  BY <1>1 DEF ListsWith
<1> HIDE DEF r
<1>3. /\ ToSet(r[dest]) = ToSet(q[dest]) \cup {t}
      /\ \A k \in Queue : k # dest => ToSet(r[k]) = ToSet(q[k])
  BY <1>1, <1>2
<1>4. \A k \in Queue : IsInjective(r[k])
  BY <1>1, <1>2 DEF Once
<1>5. \A k, l \in Queue : k # l => ToSet(r[k]) \cap ToSet(r[l]) = {}
  <2>1. SUFFICES ASSUME NEW k \in Queue, NEW l \in Queue, k # l,
                        NEW x \in ToSet(r[k]), x \in ToSet(r[l])
                 PROVE  FALSE
    OBVIOUS
  <2>2. CASE x = t
    BY <1>3, <2>1, <2>2 DEF Unlinked
  <2>3. CASE x # t
    <3>1. x \in ToSet(q[k]) /\ x \in ToSet(q[l])
      BY <1>3, <2>1, <2>3
    <3> QED BY <2>1, <3>1 DEF Once
  <2> QED BY <2>2, <2>3
<1>6. r \in [Queue -> Seq(Task)] /\ Once(r)
  BY <1>2, <1>4, <1>5 DEF Once
<1> QED BY <1>3, <1>6 DEF r, Joins

-----------------------------------------------------------------------------
(* The functions of sched.c. *)

Sane(p) == p \in ProcessTable /\ Once(p.queue)

\* The fields no function of this section but the one in question changes.
SameFields(p, r) ==
  r.current = p.current /\ r.PID = p.PID /\ r.last_PID = p.last_PID /\ r.quantum = p.quantum

LEMMA StateOnType == \A dest \in Queue \cup {NULL} : StateOn(dest) \in State
BY DEF StateOn, State

\* The task leaves every list and joins dest, if there is one; its state follows.
LEMMA UpdateProcessState ==
  ASSUME NEW p, Sane(p), NEW t \in Task, NEW dest \in Queue \cup {NULL}, NEW is_first \in BOOLEAN
  PROVE  LET r == update_process_state(p, t, dest, is_first)
         IN  /\ Sane(r)
             /\ SameFields(p, r)
             /\ r.state = [p.state EXCEPT ![t] = StateOn(dest)]
             /\ \A k \in Queue : ToSet(r.queue[k]) = (ToSet(p.queue[k]) \ {t})
                                                       \cup (IF k = dest THEN {t} ELSE {})
<1> DEFINE r == update_process_state(p, t, dest, is_first)
           unlinked == list_del(p.queue, t)
           linked == ListsWith(unlinked, t, dest, is_first)
<1>1. /\ p.queue \in [Queue -> Seq(Task)] /\ Once(p.queue)
      /\ p.state \in [Task -> State] /\ StateOn(dest) \in State
  BY StateOnType DEF Sane, ProcessTable
<1>4. r = [p EXCEPT !.state[t] = StateOn(dest),
                    !.queue = IF dest = NULL THEN unlinked ELSE linked]
  BY DEF update_process_state, relink, ListsWith
<1>2. /\ unlinked \in [Queue -> Seq(Task)] /\ Once(unlinked)
      /\ \A k \in Queue : ToSet(unlinked[k]) = ToSet(p.queue[k]) \ {t}
  BY <1>1, ListDel
<1> HIDE DEF unlinked, r
<1>3. ASSUME dest \in Queue
      PROVE  /\ linked \in [Queue -> Seq(Task)] /\ Once(linked)
             /\ \A k \in Queue : ToSet(linked[k]) = ToSet(unlinked[k]) \cup (IF k = dest THEN {t} ELSE {})
  <2>1. Unlinked(unlinked, t)
    BY <1>2 DEF Unlinked
  <2>2. /\ linked \in [Queue -> Seq(Task)]
        /\ Once(linked)
        /\ Joins(unlinked, linked, t, dest)
    BY <1>2, <1>3, <2>1, ListInsert
  <2> HIDE DEF linked
  <2> QED BY <2>2 DEF Joins
<1> HIDE DEF linked
<1>5. /\ r.queue = IF dest = NULL THEN unlinked ELSE linked
      /\ r.state = [p.state EXCEPT ![t] = StateOn(dest)]
      /\ SameFields(p, r)
  BY <1>4 DEF Sane, ProcessTable, SameFields
<1>6. /\ r.queue \in [Queue -> Seq(Task)] /\ Once(r.queue)
      /\ \A k \in Queue : ToSet(r.queue[k]) = (ToSet(p.queue[k]) \ {t})
                                                \cup (IF k = dest THEN {t} ELSE {})
  BY <1>2, <1>3, <1>5, QueueNames
<1>7. r \in ProcessTable
  BY <1>1, <1>4, <1>6 DEF Sane, ProcessTable
<1> QED BY <1>5, <1>6, <1>7 DEF Sane, r

\* update_stats touches the ticks that remain to the task and nothing else.
LEMMA UpdateStats ==
  ASSUME NEW p, Sane(p), NEW t \in Task, NEW e
  PROVE  LET r == update_stats(p, t, e)
         IN  /\ Sane(r)
             /\ SameFields(p, r)
             /\ r.state = p.state /\ r.queue = p.queue
<1>1. p \in ProcessTable /\ p.quantum[t] \in Nat /\ p.current_ticks \in Nat
  BY DEF Sane, ProcessTable
<1>2. \E n \in Nat : update_stats(p, t, e) = [p EXCEPT !.remaining[t] = n] \/ update_stats(p, t, e) = p
  BY <1>1 DEF update_stats
<1>3. \A n \in Nat : LET r == [p EXCEPT !.remaining[t] = n]
                     IN  r \in ProcessTable /\ SameFields(p, r) /\ r.state = p.state /\ r.queue = p.queue
  BY <1>1 DEF ProcessTable, SameFields
<1>4. CASE update_stats(p, t, e) = p
  BY <1>4 DEF Sane, SameFields
<1>5. CASE \E n \in Nat : update_stats(p, t, e) = [p EXCEPT !.remaining[t] = n]
  BY <1>3, <1>5 DEF Sane
<1> QED BY <1>2, <1>4, <1>5

\* The processor goes to the head of the ready queue, or to the idle task if that is empty.
LEMMA SchedNext ==
  ASSUME NEW p, Sane(p)
  PROVE  LET r == sched_next_rr(p)
             n == NextTask(p)
         IN  /\ Sane(r)
             /\ r.current = n /\ n \in Task
             /\ IF p.queue["ready"] = <<>> THEN n = Idle ELSE n \in ToSet(p.queue["ready"])
             /\ r.PID = p.PID /\ r.last_PID = p.last_PID
             /\ r.state = [p.state EXCEPT ![n] = "ST_RUN"]
             /\ \A k \in Queue : ToSet(r.queue[k]) = ToSet(p.queue[k]) \ {n}
<1> DEFINE n == NextTask(p)
           m == update_process_state(p, n, NULL, FALSE)
           r == sched_next_rr(p)
<1>1. /\ n \in Task
      /\ IF p.queue["ready"] = <<>> THEN n = Idle ELSE n \in ToSet(p.queue["ready"])
  <2>1. p.queue["ready"] \in Seq(Task) /\ Idle \in Task
    BY QueueNames, TasksAssumption DEF Sane, ProcessTable, Task, Idle
  <2> QED BY <2>1, MembersType DEF NextTask
<1>2. r = [m EXCEPT !.current = n, !.current_ticks = 0, !.remaining[n] = p.quantum[n]]
  BY DEF sched_next_rr, update_process_state_rr
<1> HIDE DEF n, r
<1>3. /\ Sane(m) /\ SameFields(p, m)
      /\ m.state = [p.state EXCEPT ![n] = StateOn(NULL)]
      /\ \A k \in Queue : ToSet(m.queue[k]) = (ToSet(p.queue[k]) \ {n})
                                                \cup (IF k = NULL THEN {n} ELSE {})
  <2> DEFINE is_first == FALSE
  <2>1. NULL \in Queue \cup {NULL} /\ is_first \in BOOLEAN
    OBVIOUS
  <2>2. m = update_process_state(p, n, NULL, is_first)
    OBVIOUS
  <2> HIDE DEF m, is_first
  <2> QED BY <1>1, <2>1, <2>2, UpdateProcessState
<1> HIDE DEF m
<1>4. /\ r \in ProcessTable /\ r.current = n
      /\ r.queue = m.queue /\ r.state = m.state /\ r.PID = m.PID /\ r.last_PID = m.last_PID
  BY <1>1, <1>2, <1>3 DEF Sane, ProcessTable
<1>5. StateOn(NULL) = "ST_RUN" /\ \A k \in Queue : k # NULL
  BY QueueNames DEF StateOn
<1>6. /\ Sane(r) /\ r.PID = p.PID /\ r.last_PID = p.last_PID
      /\ r.state = [p.state EXCEPT ![n] = "ST_RUN"]
      /\ \A k \in Queue : ToSet(r.queue[k]) = ToSet(p.queue[k]) \ {n}
  BY <1>3, <1>4, <1>5 DEF Sane, SameFields
<1> QED BY <1>1, <1>4, <1>6 DEF n, r

-----------------------------------------------------------------------------
(* The two situations a process table is in.  Parked: every task but the idle one is in   *)
(* a list, which is what sched_next_rr expects.  Running: every task but the idle and     *)
(* the running one is, which is how every handler finds the table.                        *)

StatesMatch(p) == \A k \in Queue : \A t \in ToSet(p.queue[k]) : p.state[t] = StateOn(k)

AllLinkedBut(p, exempt) == \A t \in Task \ exempt : \E k \in Queue : t \in ToSet(p.queue[k])

Parked(p) ==
  /\ Sane(p)
  /\ Unlinked(p.queue, Idle)
  /\ AllLinkedBut(p, {Idle})
  /\ StatesMatch(p)

Running(p) ==
  /\ Sane(p)
  /\ Unlinked(p.queue, Idle) /\ Unlinked(p.queue, p.current)
  /\ AllLinkedBut(p, {Idle, p.current})
  /\ StatesMatch(p)
  /\ p.state[p.current] = "ST_RUN"
  /\ p.current = Idle => p.queue["ready"] = <<>>

\* No list but those of dests has a member in r that it does not have in p.
GrowsOnly(p, r, dests) == \A k \in Queue \ dests : ToSet(r.queue[k]) \subseteq ToSet(p.queue[k])

LEMMA SaneFields ==
  ASSUME NEW p, Sane(p)
  PROVE  /\ p \in ProcessTable /\ Once(p.queue)
         /\ p.current \in Task /\ p.state \in [Task -> State] /\ p.quantum \in [Task -> Nat]
         /\ p.queue \in [Queue -> Seq(Task)] /\ p.current_ticks \in Nat
         /\ \A k \in Queue : p.queue[k] \in Seq(Task) /\ ToSet(p.queue[k]) \subseteq Task
         /\ Idle \in Task /\ Task1 \in Task
<1>1. p \in ProcessTable /\ Once(p.queue) /\ p.queue \in [Queue -> Seq(Task)]
  BY DEF Sane, ProcessTable
<1>2. \A k \in Queue : p.queue[k] \in Seq(Task)
  BY <1>1
<1>3. \A k \in Queue : ToSet(p.queue[k]) \subseteq Task
  BY <1>2, MembersType
<1>4. Idle \in Task /\ Task1 \in Task
  BY TasksAssumption DEF Task, Idle, Task1
<1> QED BY <1>1, <1>2, <1>3, <1>4 DEF ProcessTable

\* A list that does not grow stays empty.
LEMMA StaysEmpty ==
  ASSUME NEW p, NEW r, Sane(p), Sane(r), NEW dests, GrowsOnly(p, r, dests),
         NEW k \in Queue \ dests, p.queue[k] = <<>>
  PROVE  r.queue[k] = <<>>
<1>1. p.queue[k] \in Seq(Task) /\ r.queue[k] \in Seq(Task)
  BY SaneFields
<1>2. ToSet(p.queue[k]) = {}
  BY <1>1, MembersType
<1>3. ToSet(r.queue[k]) = {}
  BY <1>2 DEF GrowsOnly
<1> QED BY <1>1, <1>3, MembersType

\* Whoever sched_next_rr chooses, it leaves that task and no other outside the lists.
LEMMA SwitchRuns ==
  ASSUME NEW p, Parked(p)
  PROVE  /\ Running(sched_next_rr(p))
         /\ GrowsOnly(p, sched_next_rr(p), {})
         /\ sched_next_rr(p).current \in {Idle} \cup ToSet(p.queue["ready"])
<1> DEFINE r == sched_next_rr(p)
           n == NextTask(p)
<1>1. /\ Sane(r)
      /\ r.current = n /\ n \in Task
      /\ IF p.queue["ready"] = <<>> THEN n = Idle ELSE n \in ToSet(p.queue["ready"])
      /\ r.state = [p.state EXCEPT ![n] = "ST_RUN"]
      /\ \A k \in Queue : ToSet(r.queue[k]) = ToSet(p.queue[k]) \ {n}
  BY SchedNext DEF Parked
<1> HIDE DEF r, n
<1>2. Unlinked(r.queue, Idle) /\ Unlinked(r.queue, r.current) /\ GrowsOnly(p, r, {})
  BY <1>1 DEF Parked, Unlinked, GrowsOnly
<1>3. AllLinkedBut(r, {Idle, r.current})
  BY <1>1 DEF Parked, AllLinkedBut
<1>4. StatesMatch(r) /\ r.state[r.current] = "ST_RUN"
  <2>1. p.state \in [Task -> State]
    BY SaneFields DEF Parked
  <2>2. \A k \in Queue : ToSet(p.queue[k]) \subseteq Task
    BY SaneFields DEF Parked
  <2>3. \A k \in Queue : \A t \in ToSet(r.queue[k]) : t \in ToSet(p.queue[k]) /\ t # n /\ t \in Task
    BY <1>1, <2>2
  <2> QED BY <1>1, <2>1, <2>3 DEF Parked, StatesMatch
<1>5. r.current = Idle => r.queue["ready"] = <<>>
  <2>1. SUFFICES ASSUME n = Idle PROVE r.queue["ready"] = <<>>
    BY <1>1
  <2>2. p.queue["ready"] = <<>>
    BY <1>1, <2>1, QueueNames DEF Parked, Unlinked
  <2> QED BY <1>1, <1>2, <2>2, QueueNames, StaysEmpty DEF Parked
<1> QED BY <1>1, <1>2, <1>3, <1>4, <1>5, QueueNames DEF Running, r

\* From p to r the task t moves to dest, and nothing else moves or changes its state.
Moves(p, r, t, dest) ==
  /\ Sane(r)
  /\ r.current = p.current
  /\ r.state = [p.state EXCEPT ![t] = StateOn(dest)]
  /\ \A k \in Queue : ToSet(r.queue[k]) = (ToSet(p.queue[k]) \ {t})
                                            \cup (IF k = dest THEN {t} ELSE {})

LEMMA MovesUpdate ==
  ASSUME NEW p, Sane(p), NEW t \in Task, NEW dest \in Queue, NEW is_first \in BOOLEAN
  PROVE  Moves(p, update_process_state(p, t, dest, is_first), t, dest)
<1>1. dest \in Queue \cup {NULL}
  OBVIOUS
<1> DEFINE r == update_process_state(p, t, dest, is_first)
<1>2. /\ Sane(r) /\ SameFields(p, r)
      /\ r.state = [p.state EXCEPT ![t] = StateOn(dest)]
      /\ \A k \in Queue : ToSet(r.queue[k]) = (ToSet(p.queue[k]) \ {t})
                                                \cup (IF k = dest THEN {t} ELSE {})
  BY <1>1, UpdateProcessState
<1> HIDE DEF r
<1>3. Moves(p, r, t, dest)
  BY <1>2 DEF Moves, SameFields
<1> QED BY <1>3 DEF r

LEMMA MovesAdd ==
  ASSUME NEW p, Sane(p), NEW t \in Task, NEW e, NEW is_first \in BOOLEAN
  PROVE  Moves(p, add_process_to_scheduling(p, t, e, is_first), t, "ready")
<1> DEFINE m == update_process_state(p, t, "ready", is_first)
           r == update_stats(m, t, e)
<1>1. Moves(p, m, t, "ready")
  BY MovesUpdate, QueueNames
<1>2. Sane(m)
  BY <1>1 DEF Moves
<1> HIDE DEF m
<1>3. Sane(r) /\ SameFields(m, r) /\ r.state = m.state /\ r.queue = m.queue
  BY <1>2, UpdateStats
<1>4. add_process_to_scheduling(p, t, e, is_first) = r
  BY DEF add_process_to_scheduling, m
<1> HIDE DEF r
<1>5. Moves(p, r, t, "ready")
  BY <1>1, <1>3 DEF Moves, SameFields
<1> QED BY <1>4, <1>5

\* What every move has in common.
LEMMA MoveFacts ==
  ASSUME NEW p, NEW r, Sane(p), NEW t \in Task, NEW dest \in Queue, Moves(p, r, t, dest),
         StatesMatch(p)
  PROVE  /\ StatesMatch(r)
         /\ t \in ToSet(r.queue[dest])
         /\ \A u \in Task \ {t} : Unlinked(p.queue, u) => Unlinked(r.queue, u)
         /\ \A exempt : AllLinkedBut(p, exempt) => AllLinkedBut(r, exempt \ {t})
         /\ GrowsOnly(p, r, {dest})
<1>1. /\ p.state \in [Task -> State]
      /\ \A k \in Queue : ToSet(p.queue[k]) \subseteq Task
      /\ \A k \in Queue : ToSet(r.queue[k]) = (ToSet(p.queue[k]) \ {t})
                                                \cup (IF k = dest THEN {t} ELSE {})
      /\ r.state = [p.state EXCEPT ![t] = StateOn(dest)]
  BY SaneFields DEF Moves
<1>2. StatesMatch(r)
  <2>1. SUFFICES ASSUME NEW k \in Queue, NEW u \in ToSet(r.queue[k]) PROVE r.state[u] = StateOn(k)
    BY DEF StatesMatch
  <2>2. CASE u = t
    BY <1>1, <2>1, <2>2
  <2>3. CASE u # t
    <3>1. u \in ToSet(p.queue[k]) /\ u \in Task
      BY <1>1, <2>1, <2>3
    <3> QED BY <1>1, <2>3, <3>1 DEF StatesMatch
  <2> QED BY <2>2, <2>3
<1>3. t \in ToSet(r.queue[dest])
  BY <1>1
<1>4. ASSUME NEW u \in Task \ {t}, Unlinked(p.queue, u) PROVE Unlinked(r.queue, u)
  <2>1. \A k \in Queue : u \notin ToSet(p.queue[k])
    BY <1>4 DEF Unlinked
  <2> QED BY <1>1, <1>4, <2>1 DEF Unlinked
<1>5. ASSUME NEW exempt, AllLinkedBut(p, exempt) PROVE AllLinkedBut(r, exempt \ {t})
  <2>1. SUFFICES ASSUME NEW u \in Task \ (exempt \ {t})
                 PROVE  \E k \in Queue : u \in ToSet(r.queue[k])
    BY DEF AllLinkedBut
  <2>2. CASE u = t
    BY <1>3, <2>2
  <2>3. CASE u # t
    <3>1. PICK k \in Queue : u \in ToSet(p.queue[k])
      BY <1>5, <2>1, <2>3 DEF AllLinkedBut
    <3> QED BY <1>1, <2>3, <3>1
  <2> QED BY <2>2, <2>3
<1>6. GrowsOnly(p, r, {dest})
  BY <1>1 DEF GrowsOnly
<1> QED BY <1>2, <1>3, <1>4, <1>5, <1>6

\* The running task takes its place in a list: block_in_read, sys_sem_wait, sys_exit,
\* execute_scheduling, keyboard_routine.
LEMMA RunningParks ==
  ASSUME NEW p, NEW r, Running(p), p.current # Idle, NEW dest \in Queue,
         Moves(p, r, p.current, dest)
  PROVE  Parked(r) /\ GrowsOnly(p, r, {dest}) /\ p.current \in ToSet(r.queue[dest])
<1> DEFINE t == p.current
<1>1. Sane(p) /\ t \in Task /\ Idle \in Task \ {t} /\ Moves(p, r, t, dest) /\ StatesMatch(p)
  BY SaneFields DEF Running
<1> HIDE DEF t
<1>2. /\ StatesMatch(r) /\ t \in ToSet(r.queue[dest]) /\ GrowsOnly(p, r, {dest})
      /\ Unlinked(p.queue, Idle) => Unlinked(r.queue, Idle)
      /\ AllLinkedBut(p, {Idle, t}) => AllLinkedBut(r, {Idle, t} \ {t})
  BY <1>1, MoveFacts
<1>3. {Idle, t} \ {t} = {Idle}
  BY <1>1
<1> QED BY <1>1, <1>2, <1>3 DEF Running, Parked, Moves, t

\* A task is made ready while nobody runs.
LEMMA ParkedMoves ==
  ASSUME NEW p, NEW r, Parked(p), NEW t \in Task \ {Idle}, NEW dest \in Queue,
         Moves(p, r, t, dest)
  PROVE  Parked(r) /\ GrowsOnly(p, r, {dest})
<1>1. Sane(p) /\ Idle \in Task \ {t} /\ StatesMatch(p)
  BY SaneFields DEF Parked
<1>2. /\ StatesMatch(r) /\ GrowsOnly(p, r, {dest})
      /\ Unlinked(p.queue, Idle) => Unlinked(r.queue, Idle)
      /\ AllLinkedBut(p, {Idle}) => AllLinkedBut(r, {Idle} \ {t})
  BY <1>1, MoveFacts
<1>3. {Idle} \ {t} = {Idle}
  BY <1>1
<1> QED BY <1>1, <1>2, <1>3 DEF Parked, Moves

\* A task is made ready by the running one.
LEMMA RunningMoves ==
  ASSUME NEW p, NEW r, Running(p), p.current # Idle,
         NEW t \in Task \ {Idle, p.current}, NEW dest \in Queue, Moves(p, r, t, dest)
  PROVE  Running(r) /\ GrowsOnly(p, r, {dest})
<1> DEFINE c == p.current
<1>1. Sane(p) /\ Idle \in Task \ {t} /\ c \in Task \ {t} /\ StatesMatch(p)
  BY SaneFields DEF Running
<1>2. r.current = c /\ r.state[c] = p.state[c]
  <2>1. p.state \in [Task -> State]
    BY <1>1, SaneFields
  <2> QED BY <1>1, <2>1 DEF Moves
<1>3. p.state[c] = "ST_RUN" /\ c # Idle
  BY DEF Running
<1> HIDE DEF c
<1>4. /\ StatesMatch(r) /\ GrowsOnly(p, r, {dest})
      /\ Unlinked(p.queue, Idle) => Unlinked(r.queue, Idle)
      /\ Unlinked(p.queue, c) => Unlinked(r.queue, c)
      /\ AllLinkedBut(p, {Idle, c}) => AllLinkedBut(r, {Idle, c} \ {t})
  BY <1>1, MoveFacts
<1>5. {Idle, c} \ {t} = {Idle, c}
  BY <1>1
<1>6. Unlinked(p.queue, Idle) /\ Unlinked(p.queue, c) /\ AllLinkedBut(p, {Idle, c})
  BY DEF Running, c
<1> QED BY <1>2, <1>3, <1>4, <1>5, <1>6 DEF Running, Moves

LEMMA IdleParks ==
  ASSUME NEW p, Running(p), p.current = Idle
  PROVE  Parked(p)
<1>1. {Idle, p.current} = {Idle}
  OBVIOUS
<1> QED BY <1>1 DEF Running, Parked

\* Accounting and quanta have no part in it.
SameLists(p, r) == r.queue = p.queue /\ r.state = p.state /\ r.current = p.current

LEMMA SameSituation ==
  ASSUME NEW p, NEW r, Sane(r), SameLists(p, r)
  PROVE  /\ Running(p) => Running(r)
         /\ Parked(p) => Parked(r)
         /\ \A dests : GrowsOnly(p, r, dests)
BY DEF SameLists, Running, Parked, GrowsOnly, StatesMatch, AllLinkedBut, Unlinked

\* The clock interrupt: the running task keeps the processor, or is requeued and the
\* next one gets it.
LEMMA ExecuteScheduling ==
  ASSUME NEW p, Running(p)
  PROVE  Running(execute_scheduling(p)) /\ GrowsOnly(p, execute_scheduling(p), {"ready"})
<1> DEFINE counted == [p EXCEPT !.current_ticks = @ + 1]
           q == update_stats(counted, p.current, "CURRENT_TICKS_UPDATED")
           requeued == IF q.current # Idle
                       THEN update_process_state_rr(q, q.current, "ready") ELSE q
           w == update_stats(requeued, q.current, "SYS_TO_READY")
           n == sched_next_rr(w)
<1>1. Sane(counted) /\ SameLists(p, counted) /\ counted.current = p.current /\ p.current \in Task
  <2>1. p \in ProcessTable /\ Once(p.queue) /\ p.current_ticks + 1 \in Nat /\ p.current \in Task
    BY SaneFields DEF Running
  <2>2. counted \in ProcessTable /\ SameLists(p, counted)
    BY <2>1 DEF ProcessTable, SameLists
  <2> HIDE DEF counted
  <2> QED BY <2>1, <2>2 DEF Sane, SameLists
<1> HIDE DEF counted
<1>2. Running(q) /\ SameLists(p, q)
  <2>1. Sane(q) /\ SameLists(p, q)
    BY <1>1, UpdateStats DEF SameLists, SameFields
  <2> HIDE DEF q
  <2> QED BY <2>1, SameSituation
<1>3. execute_scheduling(p) = IF needs_sched_rr(q) THEN n ELSE q
  BY <1>1 DEF execute_scheduling, update_sched_data_rr, counted
<1> HIDE DEF q
<1>4. Parked(requeued) /\ GrowsOnly(q, requeued, {"ready"})
  <2>1. CASE q.current = Idle
    BY <1>2, <2>1, IdleParks DEF GrowsOnly
  <2>2. CASE q.current # Idle
    <3> DEFINE is_first == FALSE
               m == update_process_state(q, q.current, "ready", is_first)
    <3>1. requeued = m /\ is_first \in BOOLEAN
      BY <2>2 DEF update_process_state_rr
    <3> HIDE DEF is_first
    <3>2. Moves(q, m, q.current, "ready")
      BY <1>2, <3>1, MovesUpdate, SaneFields, QueueNames DEF Running
    <3> HIDE DEF m
    <3>3. Parked(m) /\ GrowsOnly(q, m, {"ready"})
      BY <1>2, <2>2, <3>2, RunningParks, QueueNames
    <3> QED BY <3>1, <3>3
  <2> QED BY <2>1, <2>2
<1> HIDE DEF requeued
<1>5. Parked(w) /\ SameLists(requeued, w)
  <2>1. Sane(requeued) /\ q.current \in Task
    BY <1>2, <1>4, SaneFields DEF Running, Parked
  <2>2. Sane(w) /\ SameLists(requeued, w)
    BY <2>1, UpdateStats DEF SameLists, SameFields
  <2> HIDE DEF w
  <2> QED BY <1>4, <2>2, SameSituation
<1> HIDE DEF w
<1>6. Running(n) /\ GrowsOnly(w, n, {})
  BY <1>5, SwitchRuns
<1> HIDE DEF n
<1>7. GrowsOnly(p, n, {"ready"}) /\ GrowsOnly(p, q, {"ready"})
  BY <1>2, <1>4, <1>5, <1>6 DEF GrowsOnly, SameLists
<1> QED BY <1>2, <1>3, <1>6, <1>7

LEMMA SetQuantum ==
  ASSUME NEW p, Running(p), NEW q \in Nat
  PROVE  LET r == set_quantum(p, p.current, q) IN Running(r) /\ GrowsOnly(p, r, {})
<1> DEFINE m == [p EXCEPT !.quantum[p.current] = q]
           r == update_stats(m, p.current, "QUANTUM_UPDATED")
<1>1. Sane(m) /\ SameLists(p, m) /\ p.current \in Task
  BY SaneFields DEF Running, Sane, ProcessTable, SameLists
<1> HIDE DEF m
<1>2. Sane(r) /\ SameLists(p, r)
  BY <1>1, UpdateStats DEF SameLists, SameFields
<1>3. set_quantum(p, p.current, q) = r
  BY DEF set_quantum, m
<1> HIDE DEF r
<1>4. Running(r) /\ GrowsOnly(p, r, {})
  BY <1>2, SameSituation
<1> QED BY <1>3, <1>4

\* The first free PCB becomes a ready task.
LEMMA SpawnMoves ==
  ASSUME NEW p, Sane(p), p.queue["free"] # <<>>
  PROVE  /\ Moves(p, spawn(p), FreeTask(p), "ready")
         /\ FreeTask(p) \in ToSet(p.queue["free"]) /\ FreeTask(p) \in Task
<1> DEFINE t == FreeTask(p)
           l == list_del(p.queue, t)
           allocated == allocate_process(p)
           child == [allocated EXCEPT !.quantum[t] = p.quantum[p.current]]
           r == add_process_to_scheduling(child, t, "FREE_TO_READY", FALSE)
<1>1. t \in ToSet(p.queue["free"]) /\ t \in Task
  BY SaneFields, MembersType, QueueNames DEF FreeTask
<1>2. l \in [Queue -> Seq(Task)] /\ Once(l)
      /\ \A k \in Queue : ToSet(l[k]) = ToSet(p.queue[k]) \ {t}
  BY <1>1, SaneFields, ListDel
<1>3. \E a \in ProcessTable : child = a /\ a.queue = l /\ a.state = p.state /\ a.current = p.current
  <2> HIDE DEF l
  <2>1. DEFAULT_QUANTUM \in Nat /\ p \in ProcessTable /\ p.quantum[p.current] \in Nat
    BY QuantumAssumption, SaneFields
  <2>2. allocate_process(p) = [p EXCEPT !.queue = l, !.PID[t] = p.last_PID, !.last_PID = p.last_PID + 1,
                                        !.quantum[t] = DEFAULT_QUANTUM, !.remaining[t] = 0]
    BY DEF allocate_process, l
  <2> HIDE DEF t
  <2>3. allocated \in ProcessTable /\ allocated.queue = l /\ allocated.state = p.state
        /\ allocated.current = p.current
    <3> DEFINE PID == [p.PID EXCEPT ![t] = p.last_PID]
               quantum == [p.quantum EXCEPT ![t] = DEFAULT_QUANTUM]
               remaining == [p.remaining EXCEPT ![t] = 0]
               last == p.last_PID + 1
    <3>1. /\ PID \in [Task -> Nat] /\ quantum \in [Task -> Nat] /\ remaining \in [Task -> Nat]
          /\ last \in Nat
      <4>1. /\ p.PID \in [Task -> Nat] /\ p.quantum \in [Task -> Nat] /\ p.remaining \in [Task -> Nat]
            /\ p.last_PID \in Nat
        BY <2>1 DEF ProcessTable
      <4> QED BY <1>1, <2>1, <4>1
    <3>2. allocated = [p EXCEPT !.queue = l, !.PID = PID, !.last_PID = last,
                                !.quantum = quantum, !.remaining = remaining]
      BY <2>1, <2>2 DEF ProcessTable
    <3> HIDE DEF PID, quantum, remaining, last, allocated
    <3> QED BY <1>2, <2>1, <3>1, <3>2 DEF ProcessTable
  <2> HIDE DEF allocated
  <2>4. child \in ProcessTable /\ child.queue = l /\ child.state = p.state /\ child.current = p.current
    BY <1>1, <2>1, <2>3 DEF ProcessTable
  <2> QED BY <2>4
<1> HIDE DEF l
<1>4. /\ Sane(child) /\ child.state = p.state /\ child.current = p.current
      /\ \A k \in Queue : ToSet(child.queue[k]) = ToSet(p.queue[k]) \ {t}
  BY <1>2, <1>3 DEF Sane
<1>5. spawn(p) = r
  BY DEF spawn
<1> HIDE DEF child, t
<1>6. Moves(child, r, t, "ready")
  <2> DEFINE is_first == FALSE
  <2>1. is_first \in BOOLEAN /\ r = add_process_to_scheduling(child, t, "FREE_TO_READY", is_first)
    OBVIOUS
  <2> HIDE DEF is_first, r
  <2> QED BY <1>1, <1>4, <2>1, MovesAdd
<1> HIDE DEF r
<1>7. Moves(p, r, t, "ready")
  <2>1. ASSUME NEW k \in Queue
        PROVE  ToSet(r.queue[k]) = (ToSet(p.queue[k]) \ {t}) \cup (IF k = "ready" THEN {t} ELSE {})
    <3>1. ToSet(r.queue[k]) = (ToSet(child.queue[k]) \ {t}) \cup (IF k = "ready" THEN {t} ELSE {})
      BY <1>6 DEF Moves
    <3> QED BY <1>4, <3>1
  <2> QED BY <1>4, <1>6, <2>1 DEF Moves
<1> QED BY <1>1, <1>5, <1>7 DEF t

-----------------------------------------------------------------------------
(* What becomes of the order of the lists.  A task that is in no list, or first in one, *)
(* leaves the order of the others alone.                                                *)

LEMMA RemoveFirstAbsent ==
  ASSUME NEW S, NEW s \in Seq(S), NEW e, e \notin ToSet(s)
  PROVE  RemoveFirst(s, e) = s
<1>1. ~ \E i \in 1 .. Len(s) : s[i] = e
  BY LenProperties DEF ToSet
<1> QED BY <1>1 DEF RemoveFirst

LEMMA RemoveFirstHead ==
  ASSUME NEW S, NEW s \in Seq(S), s # <<>>, IsInjective(s)
  PROVE  RemoveFirst(s, Head(s)) = Tail(s)
<1> DEFINE e == Head(s)
           r == RemoveFirst(s, e)
<1>1. /\ Len(s) \in Nat /\ Len(s) >= 1 /\ DOMAIN s = 1 .. Len(s)
      /\ e = s[1] /\ e \in ToSet(s)
  BY LenProperties, EmptySeq, MembersType
<1>2. OneLess(r, s, e, S)
  BY <1>1, RemoveFirstPresent
<1>3. /\ Tail(s) \in Seq(S) /\ Len(Tail(s)) = Len(s) - 1
      /\ \A i \in 1 .. Len(Tail(s)) : Tail(s)[i] = s[i + 1]
  BY HeadTailProperties
<1> HIDE DEF e, r
<1>4. PICK i \in 1 .. Len(s) :
        /\ s[i] = e
        /\ r \in Seq(S)
        /\ Len(r) = Len(s) - 1
        /\ \A j \in 1 .. Len(s) - 1 : r[j] = IF j < i THEN s[j] ELSE s[j + 1]
  BY <1>2 DEF OneLess
<1>5. i = 1
  BY <1>1, <1>4 DEF IsInjective
<1>6. \A j \in 1 .. Len(r) : r[j] = Tail(s)[j]
  BY <1>1, <1>3, <1>4, <1>5
<1>7. r = Tail(s)
  BY <1>3, <1>4, <1>6, SeqEqual
<1> QED BY <1>7 DEF r, e

LEMMA TailMembers ==
  ASSUME NEW S, NEW s \in Seq(S), s # <<>>
  PROVE  /\ Tail(s) \in Seq(S)
         /\ ToSet(Tail(s)) \subseteq ToSet(s)
         /\ ToSet(s) = {Head(s)} \cup ToSet(Tail(s))
         /\ IsInjective(s) => IsInjective(Tail(s)) /\ ToSet(Tail(s)) = ToSet(s) \ {Head(s)}
<1> DEFINE r == Tail(s)
<1>1. /\ Len(s) \in Nat /\ Len(s) >= 1 /\ DOMAIN s = 1 .. Len(s) /\ Head(s) = s[1]
  BY LenProperties, EmptySeq
<1>2. /\ r \in Seq(S) /\ Len(r) = Len(s) - 1 /\ DOMAIN r = 1 .. Len(s) - 1
      /\ \A i \in 1 .. Len(s) - 1 : r[i] = s[i + 1]
  BY HeadTailProperties, LenProperties
<1> HIDE DEF r
<1>3. ASSUME NEW x \in ToSet(r) PROVE x \in ToSet(s)
  <2>1. PICK i \in 1 .. Len(s) - 1 : r[i] = x
    BY <1>2, <1>3 DEF ToSet
  <2>2. i + 1 \in DOMAIN s /\ s[i + 1] = x
    BY <1>1, <1>2, <2>1
  <2> QED BY <2>2 DEF ToSet
<1>4. ASSUME NEW x \in ToSet(s), x # Head(s) PROVE x \in ToSet(r)
  <2>1. PICK i \in 1 .. Len(s) : s[i] = x
    BY <1>1, <1>4 DEF ToSet
  <2>2. i - 1 \in DOMAIN r /\ r[i - 1] = x
    BY <1>1, <1>2, <1>4, <2>1
  <2> QED BY <2>2 DEF ToSet
<1>5. Head(s) \in ToSet(s)
  BY MembersType
<1>6. ASSUME IsInjective(s) PROVE IsInjective(r) /\ Head(s) \notin ToSet(r)
  <2>1. IsInjective(r)
    <3>1. SUFFICES ASSUME NEW i \in DOMAIN r, NEW j \in DOMAIN r, r[i] = r[j] PROVE i = j
      BY DEF IsInjective
    <3>2. i + 1 \in DOMAIN s /\ j + 1 \in DOMAIN s /\ s[i + 1] = s[j + 1]
      BY <1>1, <1>2, <3>1
    <3>3. i + 1 = j + 1
      BY <1>6, <3>2 DEF IsInjective
    <3> QED BY <1>1, <1>2, <3>1, <3>3
  <2>2. ASSUME NEW i \in 1 .. Len(s) - 1, r[i] = Head(s) PROVE FALSE
    <3>1. i + 1 \in DOMAIN s /\ 1 \in DOMAIN s /\ s[i + 1] = s[1] /\ i + 1 # 1
      BY <1>1, <1>2, <2>2
    <3> QED BY <1>6, <3>1 DEF IsInjective
  <2> QED BY <1>2, <2>1, <2>2 DEF ToSet
<1>7. ToSet(s) = {Head(s)} \cup ToSet(r) /\ ToSet(r) \subseteq ToSet(s)
  BY <1>3, <1>4, <1>5
<1>8. IsInjective(s) => ToSet(r) = ToSet(s) \ {Head(s)}
  BY <1>6, <1>7
<1> QED BY <1>2, <1>6, <1>7, <1>8 DEF r

LEMMA ListDelAbsent ==
  ASSUME NEW q \in [Queue -> Seq(Task)], NEW t \in Task, Unlinked(q, t)
  PROVE  list_del(q, t) = q
<1>1. \A k \in Queue : RemoveFirst(q[k], t) = q[k]
  BY RemoveFirstAbsent DEF Unlinked
<1>2. list_del(q, t) = [k \in Queue |-> q[k]]
  BY <1>1 DEF list_del
<1> QED BY <1>2

LEMMA ListDelFirst ==
  ASSUME NEW q \in [Queue -> Seq(Task)], Once(q), NEW k \in Queue, q[k] # <<>>
  PROVE  list_del(q, Head(q[k])) = [q EXCEPT ![k] = Tail(q[k])]
<1> DEFINE t == Head(q[k])
<1>1. t \in ToSet(q[k]) /\ t \in Task
  BY MembersType
<1>2. RemoveFirst(q[k], t) = Tail(q[k])
  BY RemoveFirstHead DEF Once
<1>3. \A l \in Queue \ {k} : RemoveFirst(q[l], t) = q[l]
  BY <1>1, RemoveFirstAbsent DEF Once
<1> HIDE DEF t
<1>4. list_del(q, t) = [l \in Queue |-> IF l = k THEN Tail(q[k]) ELSE q[l]]
  BY <1>2, <1>3 DEF list_del
<1>5. [q EXCEPT ![k] = Tail(q[k])] = [l \in Queue |-> IF l = k THEN Tail(q[k]) ELSE q[l]]
  OBVIOUS
<1> QED BY <1>4, <1>5 DEF t

\* A table in which only lists and states changed.
SameTicks(p, r) == SameFields(p, r) /\ r.remaining = p.remaining /\ r.current_ticks = p.current_ticks

LEMMA UpdateFrame ==
  ASSUME NEW p, Sane(p), NEW t \in Task, NEW dest \in Queue, NEW is_first \in BOOLEAN
  PROVE  LET r == update_process_state(p, t, dest, is_first)
         IN  /\ SameTicks(p, r)
             /\ r.queue = ListsWith(list_del(p.queue, t), t, dest, is_first)
<1> DEFINE queue == ListsWith(list_del(p.queue, t), t, dest, is_first)
           r == update_process_state(p, t, dest, is_first)
<1>1. r = [p EXCEPT !.state[t] = StateOn(dest), !.queue = queue]
  BY QueueNames DEF update_process_state, relink, ListsWith
<1> HIDE DEF queue, r
<1>2. SameTicks(p, r) /\ r.queue = queue
  BY <1>1 DEF Sane, ProcessTable, SameTicks, SameFields
<1> QED BY <1>2 DEF queue, r

\* A task that is in no list joins one.
LEMMA UpdateOrder ==
  ASSUME NEW p, Sane(p), NEW t \in Task, NEW dest \in Queue, NEW is_first \in BOOLEAN,
         Unlinked(p.queue, t)
  PROVE  LET r == update_process_state(p, t, dest, is_first)
         IN  /\ SameTicks(p, r)
             /\ r.queue = [p.queue EXCEPT ![dest] = list_insert(p.queue[dest], t, is_first)]
<1>1. list_del(p.queue, t) = p.queue
  BY SaneFields, ListDelAbsent
<1> QED BY <1>1, UpdateFrame DEF ListsWith

\* The first task of a list joins another one.
LEMMA UpdateFirst ==
  ASSUME NEW p, Sane(p), NEW k \in Queue, p.queue[k] # <<>>, NEW dest \in Queue \ {k},
         NEW is_first \in BOOLEAN
  PROVE  LET t == Head(p.queue[k])
             r == update_process_state(p, t, dest, is_first)
         IN  /\ SameTicks(p, r)
             /\ r.queue = [p.queue EXCEPT ![k] = Tail(p.queue[k]),
                                          ![dest] = list_insert(p.queue[dest], t, is_first)]
<1> DEFINE t == Head(p.queue[k])
           r == update_process_state(p, t, dest, is_first)
           first == list_insert(p.queue[dest], t, is_first)
<1>1. p.queue \in [Queue -> Seq(Task)] /\ Once(p.queue) /\ t \in Task
  BY SaneFields, MembersType
<1>2. list_del(p.queue, t) = [p.queue EXCEPT ![k] = Tail(p.queue[k])]
  BY <1>1, ListDelFirst
<1>3. SameTicks(p, r) /\ r.queue = ListsWith(list_del(p.queue, t), t, dest, is_first)
  BY <1>1, UpdateFrame
<1> HIDE DEF t, r
<1>4. ListsWith([p.queue EXCEPT ![k] = Tail(p.queue[k])], t, dest, is_first)
        = [p.queue EXCEPT ![k] = Tail(p.queue[k]), ![dest] = list_insert(p.queue[dest], t, is_first)]
  BY <1>1 DEF ListsWith
<1> QED BY <1>2, <1>3, <1>4 DEF t, r

\* A list without its first task.
Others(s) == IF s = <<>> THEN <<>> ELSE Tail(s)

\* The running task starts its quantum.
Fresh(p) == p.current_ticks = 0 /\ p.remaining[p.current] = p.quantum[p.current]

\* No process is created, and none gets another quantum.
SameProcesses(p, r) == r.PID = p.PID /\ r.last_PID = p.last_PID /\ r.quantum = p.quantum

\* The processor is given to the first ready task, or to the idle task, and nothing else happens.
Dispatches(p, r) ==
  /\ r.current = NextTask(p)
  /\ r.queue = [p.queue EXCEPT !["ready"] = Others(p.queue["ready"])]
  /\ SameProcesses(p, r) /\ Fresh(r)

LEMMA Dispatch ==
  ASSUME NEW p, Parked(p)
  PROVE  Dispatches(p, sched_next_rr(p))
<1> DEFINE n == NextTask(p)
           unlinked == list_del(p.queue, n)
           r == sched_next_rr(p)
<1>1. /\ p \in ProcessTable /\ p.queue \in [Queue -> Seq(Task)] /\ Once(p.queue) /\ Idle \in Task
      /\ "ready" \in Queue /\ Unlinked(p.queue, Idle)
  BY SaneFields, QueueNames DEF Parked
<1>2. n \in Task
  BY SchedNext DEF Parked
<1>3. unlinked = [p.queue EXCEPT !["ready"] = Others(p.queue["ready"])]
  <2>1. CASE p.queue["ready"] = <<>>
    <3>1. n = Idle /\ unlinked = p.queue
      BY <1>1, <2>1, ListDelAbsent DEF NextTask
    <3> QED BY <1>1, <2>1, <3>1 DEF Others
  <2>2. CASE p.queue["ready"] # <<>>
    <3>1. n = Head(p.queue["ready"])
      BY <2>2 DEF NextTask
    <3> QED BY <1>1, <2>2, <3>1, ListDelFirst DEF Others
  <2> QED BY <2>1, <2>2
<1>4. r = [p EXCEPT !.state[n] = StateOn(NULL), !.queue = unlinked,
                    !.current = n, !.current_ticks = 0, !.remaining[n] = p.quantum[n]]
  BY <1>1 DEF sched_next_rr, update_process_state_rr, update_process_state, relink, ProcessTable
<1> HIDE DEF n, unlinked, r
<1>5. /\ r.current = n /\ r.queue = unlinked /\ r.current_ticks = 0
      /\ r.PID = p.PID /\ r.last_PID = p.last_PID /\ r.quantum = p.quantum
      /\ r.remaining = [p.remaining EXCEPT ![n] = p.quantum[n]]
  BY <1>1, <1>4 DEF ProcessTable
<1>6. p.remaining \in [Task -> Nat]
  BY <1>1 DEF ProcessTable
<1>7. Fresh(r)
  BY <1>2, <1>5, <1>6 DEF Fresh
<1> QED BY <1>3, <1>5, <1>7 DEF Dispatches, SameProcesses, n, r

\* The running task blocks on a list, and the next one gets the processor.
Blocks(p, r, dest, is_first) ==
  /\ r.current = NextTask(p)
  /\ r.queue = [p.queue EXCEPT ![dest] = list_insert(p.queue[dest], p.current, is_first),
                               !["ready"] = Others(p.queue["ready"])]
  /\ SameProcesses(p, r) /\ Fresh(r)

LEMMA BlockSwitch ==
  ASSUME NEW p, Running(p), p.current # Idle, NEW dest \in Queue \ {"ready"}, NEW is_first \in BOOLEAN
  PROVE  Blocks(p, sched_next_rr(update_process_state(p, p.current, dest, is_first)), dest, is_first)
<1> DEFINE m == update_process_state(p, p.current, dest, is_first)
           r == sched_next_rr(m)
<1>1. /\ Sane(p) /\ p.queue \in [Queue -> Seq(Task)] /\ p.current \in Task
      /\ Unlinked(p.queue, p.current) /\ "ready" \in Queue
  BY SaneFields, QueueNames DEF Running
<1>2. /\ SameTicks(p, m)
      /\ m.queue = [p.queue EXCEPT ![dest] = list_insert(p.queue[dest], p.current, is_first)]
  BY <1>1, UpdateOrder
<1>3. Moves(p, m, p.current, dest)
  BY <1>1, MovesUpdate
<1> HIDE DEF m
<1>4. Parked(m)
  BY <1>3, RunningParks
<1>5. /\ r.current = NextTask(m)
      /\ r.queue = [m.queue EXCEPT !["ready"] = Others(m.queue["ready"])]
      /\ r.PID = m.PID /\ r.last_PID = m.last_PID /\ r.quantum = m.quantum
      /\ Fresh(r)
  BY <1>4, Dispatch DEF Dispatches, SameProcesses
<1> HIDE DEF r
<1>6. m.queue["ready"] = p.queue["ready"] /\ NextTask(m) = NextTask(p)
  BY <1>1, <1>2 DEF NextTask
<1> QED BY <1>2, <1>5, <1>6 DEF Blocks, SameProcesses, SameTicks, SameFields, r, m

\* What update_stats computes for a task that was running.
Left(p) == IF p.quantum[p.current] >= p.current_ticks
           THEN p.quantum[p.current] - p.current_ticks ELSE 0

LEMMA UpdateStatsTicks ==
  ASSUME NEW p, Sane(p), NEW t \in Task, NEW e
  PROVE  LET r == update_stats(p, t, e)
         IN  /\ SameFields(p, r) /\ r.queue = p.queue /\ r.state = p.state
             /\ r.current_ticks = p.current_ticks
             /\ \A u \in Task \ {t} : r.remaining[u] = p.remaining[u]
             /\ e \in {"QUANTUM_UPDATED", "CURRENT_TICKS_UPDATED"} /\ t = p.current
                  => r.remaining[t] = Left(p)
<1> DEFINE r == update_stats(p, t, e)
           left == IF p.quantum[t] >= p.current_ticks THEN p.quantum[t] - p.current_ticks ELSE 0
<1>1. p \in ProcessTable /\ p.remaining \in [Task -> Nat] /\ p.quantum[t] \in Nat /\ p.current_ticks \in Nat
  BY DEF Sane, ProcessTable
<1>2. SameFields(p, r) /\ r.queue = p.queue /\ r.state = p.state
  BY UpdateStats
<1>3. \/ e \in {"QUANTUM_UPDATED", "CURRENT_TICKS_UPDATED"} /\ r = [p EXCEPT !.remaining[t] = left]
      \/ /\ e \notin {"QUANTUM_UPDATED", "CURRENT_TICKS_UPDATED"}
         /\ r = [p EXCEPT !.remaining[t] = p.quantum[t]] \/ r = p
  BY DEF update_stats
<1> HIDE DEF r, left
<1>4. /\ r.current_ticks = p.current_ticks
      /\ \/ e \in {"QUANTUM_UPDATED", "CURRENT_TICKS_UPDATED"} /\ r.remaining = [p.remaining EXCEPT ![t] = left]
         \/ /\ e \notin {"QUANTUM_UPDATED", "CURRENT_TICKS_UPDATED"}
            /\ r.remaining = [p.remaining EXCEPT ![t] = p.quantum[t]] \/ r.remaining = p.remaining
  <2>1. CASE r = [p EXCEPT !.remaining[t] = left] /\ e \in {"QUANTUM_UPDATED", "CURRENT_TICKS_UPDATED"}
    BY <1>1, <2>1 DEF ProcessTable
  <2>2. CASE r = [p EXCEPT !.remaining[t] = p.quantum[t]] /\ e \notin {"QUANTUM_UPDATED", "CURRENT_TICKS_UPDATED"}
    BY <1>1, <2>2 DEF ProcessTable
  <2> QED BY <1>3, <2>1, <2>2
<1>5. \A u \in Task \ {t} : r.remaining[u] = p.remaining[u]
  BY <1>1, <1>4
<1>6. e \in {"QUANTUM_UPDATED", "CURRENT_TICKS_UPDATED"} => r.remaining[t] = left
  BY <1>1, <1>4
<1> QED BY <1>2, <1>4, <1>5, <1>6 DEF r, left, Left

\* The running task gets another quantum.
Grants(p, r, q) ==
  /\ r.queue = p.queue /\ r.current = p.current /\ r.PID = p.PID /\ r.last_PID = p.last_PID
  /\ r.quantum = [p.quantum EXCEPT ![p.current] = q]
  /\ r.current_ticks = p.current_ticks /\ r.remaining[r.current] = Left(r)

LEMMA SetQuantumTicks ==
  ASSUME NEW p, Running(p), NEW q \in Nat
  PROVE  Grants(p, set_quantum(p, p.current, q), q)
<1> DEFINE m == [p EXCEPT !.quantum[p.current] = q]
           r == update_stats(m, p.current, "QUANTUM_UPDATED")
           e == "QUANTUM_UPDATED"
<1>1. /\ Sane(m) /\ m.queue = p.queue /\ m.current = p.current /\ m.PID = p.PID
      /\ m.last_PID = p.last_PID /\ m.current_ticks = p.current_ticks
      /\ m.quantum = [p.quantum EXCEPT ![p.current] = q] /\ p.current \in Task
  BY SaneFields DEF Running, Sane, ProcessTable
<1>2. set_quantum(p, p.current, q) = r
  BY DEF set_quantum
<1> HIDE DEF m
<1>3. r = update_stats(m, m.current, e) /\ e \in {"QUANTUM_UPDATED", "CURRENT_TICKS_UPDATED"}
  BY <1>1
<1> HIDE DEF r, e
<1>4. /\ SameFields(m, r) /\ r.queue = m.queue /\ r.current_ticks = m.current_ticks
      /\ r.remaining[m.current] = Left(m)
  BY <1>1, <1>3, UpdateStatsTicks
<1>5. Left(r) = Left(m)
  BY <1>4 DEF Left, SameFields
<1> QED BY <1>1, <1>2, <1>4, <1>5 DEF Grants, SameFields

\* After the clock interrupt: another tick for the running task, or a fresh quantum for the
\* next one, with the old one at the end of the ready queue.
Ticks(p, r) ==
  /\ r.queue = p.queue /\ r.current = p.current
  /\ \/ Fresh(r)
     \/ /\ r.current_ticks = p.current_ticks + 1
        /\ r.remaining[r.current] = Left(r) /\ Left(r) # 0

Rotates(p, r) ==
  LET all == Append(p.queue["ready"], p.current)
  IN  /\ p.current # Idle
      /\ r.queue = [p.queue EXCEPT !["ready"] = Tail(all)] /\ r.current = Head(all)
      /\ Fresh(r)

LEMMA ClockOrder ==
  ASSUME NEW p, Running(p)
  PROVE  LET r == execute_scheduling(p)
         IN  SameProcesses(p, r) /\ (Ticks(p, r) \/ Rotates(p, r))
<1> DEFINE counted == [p EXCEPT !.current_ticks = @ + 1]
           e == "CURRENT_TICKS_UPDATED"
           q == update_stats(counted, counted.current, e)
           requeued == IF q.current # Idle
                       THEN update_process_state_rr(q, q.current, "ready") ELSE q
           w == update_stats(requeued, q.current, "SYS_TO_READY")
           n == sched_next_rr(w)
<1>1. /\ Sane(counted) /\ counted.current = p.current /\ p.current \in Task
      /\ SameFields(p, counted) /\ counted.queue = p.queue /\ counted.state = p.state
      /\ counted.current_ticks = p.current_ticks + 1
  <2>1. p \in ProcessTable /\ Once(p.queue) /\ p.current_ticks + 1 \in Nat /\ p.current \in Task
    BY SaneFields DEF Running
  <2>2. counted \in ProcessTable /\ SameFields(p, counted) /\ counted.queue = p.queue
        /\ counted.state = p.state /\ counted.current_ticks = p.current_ticks + 1
    BY <2>1 DEF ProcessTable, SameFields
  <2> HIDE DEF counted
  <2> QED BY <2>1, <2>2 DEF Sane, SameFields
<1>2. execute_scheduling(p) = IF needs_sched_rr(q) THEN n ELSE q
  BY <1>1 DEF execute_scheduling, update_sched_data_rr
<1>3. e \in {"QUANTUM_UPDATED", "CURRENT_TICKS_UPDATED"}
  OBVIOUS
<1> HIDE DEF counted, e
<1>4. /\ SameFields(counted, q) /\ q.queue = counted.queue /\ q.state = counted.state
      /\ q.current_ticks = counted.current_ticks
      /\ q.remaining[counted.current] = Left(counted) /\ Sane(q)
  BY <1>1, <1>3, UpdateStatsTicks, UpdateStats
<1> HIDE DEF q
<1>5. /\ SameFields(p, q) /\ SameLists(p, q) /\ q.remaining[q.current] = Left(q)
      /\ q.current_ticks = p.current_ticks + 1 /\ Running(q)
  <2>1. Left(q) = Left(counted)
    BY <1>4 DEF Left, SameFields
  <2>2. SameLists(p, q)
    BY <1>1, <1>4 DEF SameLists, SameFields
  <2> QED BY <1>1, <1>4, <2>1, <2>2, SameSituation DEF SameFields
<1>6. CASE ~needs_sched_rr(q)
  <2>1. q.remaining[q.current] # 0
    BY <1>6 DEF needs_sched_rr
  <2>2. Ticks(p, q)
    BY <1>5, <2>1 DEF Ticks, SameLists
  <2> QED BY <1>2, <1>5, <1>6, <2>2 DEF SameFields, SameProcesses
<1>7. CASE needs_sched_rr(q) /\ q.current = Idle
  <2>1. requeued = q /\ Parked(q) /\ q.queue["ready"] = <<>>
    BY <1>5, <1>7, IdleParks DEF Running
  <2> HIDE DEF requeued
  <2>2. /\ SameFields(q, w) /\ w.queue = q.queue /\ w.state = q.state /\ Sane(w)
    BY <1>1, <1>5, <2>1, UpdateStats DEF Parked, SameLists
  <2> HIDE DEF w
  <2>3. Parked(w)
    BY <2>1, <2>2, SameSituation DEF SameLists, SameFields
  <2>4. /\ n.current = NextTask(w)
        /\ n.queue = [w.queue EXCEPT !["ready"] = Others(w.queue["ready"])]
        /\ n.PID = w.PID /\ n.last_PID = w.last_PID /\ n.quantum = w.quantum
        /\ Fresh(n)
    BY <2>3, Dispatch DEF Dispatches, SameProcesses
  <2> HIDE DEF n
  <2>5. n.queue = p.queue
    <3>1. w.queue \in [Queue -> Seq(Task)]
      BY <2>2, SaneFields
    <3>2. w.queue["ready"] = <<>> /\ Others(<<>>) = <<>>
      BY <2>1, <2>2 DEF Others
    <3>3. [w.queue EXCEPT !["ready"] = <<>>] = w.queue
      BY <3>1, <3>2
    <3> QED BY <1>5, <2>2, <2>4, <3>2, <3>3 DEF SameLists
  <2>6. Ticks(p, n)
    BY <1>5, <1>7, <2>1, <2>2, <2>4, <2>5 DEF Ticks, SameLists, NextTask
  <2> QED BY <1>2, <1>5, <1>7, <2>2, <2>4, <2>6 DEF SameFields, SameProcesses
<1>8. CASE needs_sched_rr(q) /\ q.current # Idle
  <2> DEFINE all == Append(p.queue["ready"], p.current)
             is_first == FALSE
             m == update_process_state(q, q.current, "ready", is_first)
  <2>1. requeued = m /\ is_first \in BOOLEAN
    BY <1>8 DEF update_process_state_rr
  <2>2. all = list_insert(q.queue["ready"], q.current, is_first)
    BY <1>5 DEF list_insert, SameLists
  <2> HIDE DEF requeued, is_first
  <2>3. /\ Sane(q) /\ q.current \in Task /\ Unlinked(q.queue, q.current) /\ "ready" \in Queue
        /\ q.queue \in [Queue -> Seq(Task)]
    BY <1>5, SaneFields, QueueNames DEF Running
  <2>4. /\ SameTicks(q, m)
        /\ m.queue = [q.queue EXCEPT !["ready"] = all]
    BY <2>1, <2>2, <2>3, UpdateOrder
  <2>5. Parked(m)
    BY <1>5, <1>8, <2>1, <2>3, MovesUpdate, RunningParks
  <2> HIDE DEF m, all
  <2>6. /\ SameFields(m, w) /\ w.queue = m.queue /\ w.state = m.state /\ Sane(w)
    BY <2>1, <2>3, <2>5, UpdateStats DEF Parked
  <2> HIDE DEF w
  <2>7. Parked(w)
    BY <2>5, <2>6, SameSituation DEF SameLists, SameFields
  <2>8. /\ n.current = NextTask(w)
        /\ n.queue = [w.queue EXCEPT !["ready"] = Others(w.queue["ready"])]
        /\ n.PID = w.PID /\ n.last_PID = w.last_PID /\ n.quantum = w.quantum
        /\ Fresh(n)
    BY <2>7, Dispatch DEF Dispatches, SameProcesses
  <2> HIDE DEF n
  <2>9. w.queue = [q.queue EXCEPT !["ready"] = all] /\ w.queue["ready"] = all /\ all # <<>>
    <3>1. all # <<>>
      BY <1>5, <2>3, AppendProperties DEF all, SameLists
    <3> QED BY <2>3, <2>4, <2>6, <3>1
  <2>10. /\ n.current = Head(all)
         /\ n.queue = [p.queue EXCEPT !["ready"] = Tail(all)]
    BY <1>5, <2>3, <2>8, <2>9 DEF NextTask, Others, SameLists
  <2>11. Rotates(p, n)
    BY <1>5, <1>8, <2>8, <2>10 DEF Rotates, SameLists, all
  <2> QED BY <1>2, <1>5, <1>8, <2>4, <2>6, <2>8, <2>11 DEF SameFields, SameTicks, SameProcesses
<1> QED BY <1>6, <1>7, <1>8

\* The first task of a list becomes ready.
Wakes(p, r, k) ==
  /\ SameTicks(p, r)
  /\ r.queue = [p.queue EXCEPT ![k] = Tail(p.queue[k]),
                               !["ready"] = Append(p.queue["ready"], Head(p.queue[k]))]

LEMMA WakeOrder ==
  ASSUME NEW p, Sane(p), NEW k \in Queue \ {"ready"}, p.queue[k] # <<>>
  PROVE  Wakes(p, add_process_to_scheduling(p, Head(p.queue[k]), "BLOCKED_TO_READY", FALSE), k)
<1> DEFINE t == Head(p.queue[k])
           is_first == FALSE
           r == update_process_state(p, t, "ready", is_first)
           first == list_insert(p.queue["ready"], t, is_first)
<1>1. add_process_to_scheduling(p, t, "BLOCKED_TO_READY", FALSE) = r
  BY DEF add_process_to_scheduling, update_stats
<1>2. "ready" \in Queue \ {k} /\ is_first \in BOOLEAN
  BY QueueNames
<1>3. Append(p.queue["ready"], t) = list_insert(p.queue["ready"], t, is_first)
  BY DEF list_insert
<1> HIDE DEF is_first
<1>4. /\ SameTicks(p, r)
      /\ r.queue = [p.queue EXCEPT ![k] = Tail(p.queue[k]), !["ready"] = first]
  BY <1>2, UpdateFirst
<1> QED BY <1>1, <1>3, <1>4 DEF Wakes

\* A new process: the first free PCB, with the next PID and the quantum of its creator.
Spawns(p, r) ==
  LET t == FreeTask(p)
  IN  /\ r.current = p.current /\ r.current_ticks = p.current_ticks
      /\ r.queue = [p.queue EXCEPT !["free"] = Tail(p.queue["free"]),
                                   !["ready"] = Append(p.queue["ready"], t)]
      /\ r.PID = [p.PID EXCEPT ![t] = p.last_PID] /\ r.last_PID = p.last_PID + 1
      /\ r.quantum = [p.quantum EXCEPT ![t] = p.quantum[p.current]]
      /\ r.remaining[p.current] = p.remaining[p.current]

LEMMA SpawnOrder ==
  ASSUME NEW p, Running(p), p.queue["free"] # <<>>
  PROVE  Spawns(p, spawn(p))
<1> DEFINE t == FreeTask(p)
           l == list_del(p.queue, t)
           allocated == allocate_process(p)
           child == [allocated EXCEPT !.quantum[t] = p.quantum[p.current]]
           is_first == FALSE
           m == update_process_state(child, t, "ready", is_first)
           r == update_stats(m, t, "FREE_TO_READY")
<1>1. /\ Sane(p) /\ t \in ToSet(p.queue["free"]) /\ t \in Task /\ p.current \in Task
      /\ p.current # t /\ "free" \in Queue /\ "ready" \in Queue /\ "free" # "ready"
      /\ p.queue \in [Queue -> Seq(Task)] /\ Once(p.queue) /\ p \in ProcessTable
  BY SaneFields, MembersType, QueueNames DEF FreeTask, Running, Unlinked
<1>2. l = [p.queue EXCEPT !["free"] = Tail(p.queue["free"])]
  BY <1>1, ListDelFirst DEF FreeTask
<1>3. /\ l \in [Queue -> Seq(Task)] /\ Once(l) /\ \A k \in Queue : ToSet(l[k]) = ToSet(p.queue[k]) \ {t}
  BY <1>1, ListDel
<1>4. spawn(p) = r /\ is_first \in BOOLEAN
  BY DEF spawn, add_process_to_scheduling
<1>5. allocated = [p EXCEPT !.queue = l, !.PID[t] = p.last_PID, !.last_PID = p.last_PID + 1,
                            !.quantum[t] = DEFAULT_QUANTUM, !.remaining[t] = 0]
  BY DEF allocate_process
<1> HIDE DEF l, t, allocated, is_first, r
<1>6. /\ child.queue = l /\ child.current = p.current /\ child.current_ticks = p.current_ticks
      /\ child.PID = [p.PID EXCEPT ![t] = p.last_PID] /\ child.last_PID = p.last_PID + 1
      /\ child.quantum = [p.quantum EXCEPT ![t] = p.quantum[p.current]]
      /\ child.remaining = [p.remaining EXCEPT ![t] = 0]
      /\ child \in ProcessTable
  <2> DEFINE PID == [p.PID EXCEPT ![t] = p.last_PID]
             quantum == [p.quantum EXCEPT ![t] = DEFAULT_QUANTUM]
             granted == [p.quantum EXCEPT ![t] = p.quantum[p.current]]
             remaining == [p.remaining EXCEPT ![t] = 0]
             last == p.last_PID + 1
  <2>1. /\ PID \in [Task -> Nat] /\ quantum \in [Task -> Nat] /\ remaining \in [Task -> Nat]
        /\ last \in Nat /\ granted \in [Task -> Nat]
        /\ [quantum EXCEPT ![t] = p.quantum[p.current]] = granted
    <3>1. /\ p.PID \in [Task -> Nat] /\ p.quantum \in [Task -> Nat] /\ p.remaining \in [Task -> Nat]
          /\ p.last_PID \in Nat /\ DEFAULT_QUANTUM \in Nat
      BY <1>1, QuantumAssumption DEF ProcessTable
    <3>2. /\ PID \in [Task -> Nat] /\ quantum \in [Task -> Nat] /\ remaining \in [Task -> Nat]
          /\ last \in Nat
      <4>1. t \in Task
        BY <1>1
      <4> QED BY <3>1, <4>1
    <3>3. p.quantum[p.current] \in Nat
      BY <1>1, <3>1
    <3>4. granted \in [Task -> Nat]
      BY <1>1, <3>1, <3>3
    <3>5. [quantum EXCEPT ![t] = p.quantum[p.current]] = granted
      BY <1>1, <3>1
    <3> QED BY <3>2, <3>4, <3>5
  <2>2. allocated = [p EXCEPT !.queue = l, !.PID = PID, !.last_PID = last,
                              !.quantum = quantum, !.remaining = remaining]
    BY <1>1, <1>5 DEF ProcessTable
  <2> HIDE DEF PID, quantum, remaining, last
  <2>3. /\ allocated.queue = l /\ allocated.current = p.current
        /\ allocated.current_ticks = p.current_ticks
        /\ allocated.PID = PID /\ allocated.last_PID = last
        /\ allocated.quantum = quantum /\ allocated.remaining = remaining
        /\ allocated \in ProcessTable
    BY <1>1, <1>3, <2>1, <2>2 DEF ProcessTable
  <2>4. child = [allocated EXCEPT !.quantum = granted]
    BY <2>1, <2>3 DEF ProcessTable
  <2> HIDE DEF granted, child
  <2>5. /\ child.queue = l /\ child.current = p.current /\ child.current_ticks = p.current_ticks
        /\ child.PID = PID /\ child.last_PID = last /\ child.quantum = granted
        /\ child.remaining = remaining /\ child \in ProcessTable
    BY <2>1, <2>3, <2>4 DEF ProcessTable
  <2> QED BY <2>5 DEF PID, last, granted, remaining
<1> HIDE DEF child
<1>7. Sane(child) /\ Unlinked(child.queue, t)
  BY <1>3, <1>6 DEF Sane, Unlinked
<1>8. /\ SameTicks(child, m)
      /\ m.queue = [child.queue EXCEPT !["ready"] = list_insert(child.queue["ready"], t, is_first)]
      /\ Sane(m)
  <2>1. /\ SameTicks(child, m)
        /\ m.queue = [child.queue EXCEPT !["ready"] = list_insert(child.queue["ready"], t, is_first)]
    BY <1>1, <1>4, <1>7, UpdateOrder
  <2>2. Moves(child, m, t, "ready")
    BY <1>1, <1>4, <1>7, MovesUpdate
  <2> QED BY <2>1, <2>2 DEF Moves
<1> HIDE DEF m
<1>9. /\ SameFields(m, r) /\ r.queue = m.queue /\ r.current_ticks = m.current_ticks
      /\ \A u \in Task \ {t} : r.remaining[u] = m.remaining[u]
  BY <1>1, <1>8, UpdateStatsTicks DEF r
<1>10. r.queue = [p.queue EXCEPT !["free"] = Tail(p.queue["free"]),
                                 !["ready"] = Append(p.queue["ready"], t)]
  <2>1. list_insert(p.queue["ready"], t, is_first) = Append(p.queue["ready"], t)
    BY DEF list_insert, is_first
  <2>2. r.queue = [l EXCEPT !["ready"] = list_insert(l["ready"], t, is_first)]
    BY <1>6, <1>8, <1>9
  <2>3. l["ready"] = p.queue["ready"]
    BY <1>1, <1>2
  <2> QED BY <1>2, <2>1, <2>2, <2>3
<1>11. r.remaining[p.current] = p.remaining[p.current]
  <2>1. r.remaining[p.current] = child.remaining[p.current]
    BY <1>1, <1>8, <1>9 DEF SameTicks
  <2> QED BY <1>1, <1>6, <2>1 DEF ProcessTable
<1>12. /\ r.current = p.current /\ r.current_ticks = p.current_ticks
       /\ r.PID = [p.PID EXCEPT ![t] = p.last_PID] /\ r.last_PID = p.last_PID + 1
       /\ r.quantum = [p.quantum EXCEPT ![t] = p.quantum[p.current]]
  BY <1>6, <1>8, <1>9 DEF SameFields, SameTicks
<1> QED BY <1>4, <1>10, <1>11, <1>12 DEF Spawns, t
=============================================================================
