----------------------------- MODULE ListsProofs -----------------------------
(***************************************************************************)
(* Proofs about Lists: whatever handlers move tasks in whatever order, and *)
(* wherever the loop of sys_sem_destroy stands, the pointers are those of  *)
(* lists.                                                                  *)
(*                                                                         *)
(* That neighbours point to each other is not inductive: the loop follows  *)
(* the pointers and could come to the head of another list, or round a     *)
(* ring without a head.  What excludes this are two witnesses the code has *)
(* no variables for: an owner for every entry, which the pointers do not   *)
(* leave, and a rank, which they increase until they come back to a head.  *)
(*                                                                         *)
(* With them, the chains of pointers are sequences of tasks that share     *)
(* none, list_del takes one entry out of one, __list_add puts one in, and  *)
(* the step of the loop finds the entry that is first after the wake up:   *)
(* so every step is one of TaskQueues.                                     *)
(***************************************************************************)
EXTENDS Lists, SequenceTheorems, FiniteSetTheorems, WellFoundedInduction, TLAPS

Links == [next : [Node -> Node \cup {NULL}], prev : [Node -> Node \cup {NULL}]]

\* Neighbours point to each other, as LinksAgree says, in any lists.
Agree(l) ==
  \A n \in Node :
    /\ l.next[n] # NULL <=> l.prev[n] # NULL
    /\ l.next[n] # NULL => l.prev[l.next[n]] = n /\ l.next[l.prev[n]] = n

\* The list each entry is in, if it is in one.
Owners(l, owner) ==
  /\ owner \in [Node -> Queue]
  /\ \A k \in Queue : owner[ListHead(k)] = k
  /\ \A n \in Node : l.next[n] # NULL => owner[l.next[n]] = owner[n]

\* Where in its list each entry is.
Ranks(l, rank) ==
  /\ rank \in [Node -> Int]
  /\ \A n \in Node : l.next[n] \in Anchors => rank[n] < rank[l.next[n]]

Shape(l, owner, rank) == l \in Links /\ Agree(l) /\ Owners(l, owner) /\ Ranks(l, rank)

\* The loop stands in the list it started in, and knows what follows.
InLoop(l, owner) ==
  waking # None =>
    /\ waking \in Sem /\ pos \in Node
    /\ l.next[pos] # NULL /\ owner[pos] = waking
    /\ aux = l.next[pos]

\* The inductive invariant.
ListsInv ==
  /\ \E owner, rank : Shape(links, owner, rank) /\ InLoop(links, owner)
  /\ links.next[ListHead("ready")] # NULL

-----------------------------------------------------------------------------

\* The nodes are pointers to different things, and NULL is none.
LEMMA NodesDiffer ==
  /\ NULL \notin Node
  /\ \A a \in Anchors : a \notin Heads /\ a \in Node
  /\ \A k \in Queue : ListHead(k) \in Heads /\ ListHead(k) \in Node /\ ListHead(k) \notin Anchors
  /\ \A t \in Task : Anchor(t) \in Anchors /\ Anchor(t)[2] = t
  /\ \A j, k \in Queue : ListHead(j) = ListHead(k) => j = k
PROOF
  <1>1. \A t : <<"NULL">> # <<"anchor", t>>  OBVIOUS
  <1>2. \A k : <<"NULL">> # <<"head", k>>  OBVIOUS
  <1>3. \A t, k : <<"anchor", t>> # <<"head", k>>  OBVIOUS
  <1>4. \A j, k : <<"head", j>> = <<"head", k>> => j = k  OBVIOUS
  <1> QED  BY <1>1, <1>2, <1>3, <1>4 DEF NULL, Node, Anchors, Heads, Anchor, ListHead

\* list_del takes an entry out, and leaves the others linked or not, as they were.
LEMMA Deleted ==
  ASSUME NEW l, NEW owner, NEW rank, Shape(l, owner, rank),
         NEW a \in Anchors, l.next[a] # NULL,
         NEW m, m = list_del(l, a)
  PROVE  /\ Shape(m, owner, rank)
         /\ m.next[a] = NULL /\ m.prev[a] = NULL
         /\ \A n \in Node : n # a => (m.next[n] # NULL <=> l.next[n] # NULL)
PROOF
  <1> DEFINE before == l.prev[a]
             after  == l.next[a]
  <1>1. l \in Links /\ Agree(l) /\ Owners(l, owner) /\ Ranks(l, rank)  BY DEF Shape
  <1>2. a \in Node  BY NodesDiffer
  <1>3. before \in Node /\ after \in Node  BY <1>1, <1>2 DEF Links, Agree
  <1>4. l.next[before] = a /\ l.prev[after] = a  BY <1>1, <1>2 DEF Agree
  <1>5. after # a
    <2>1. after = a => rank[a] < rank[a]  BY <1>1, <1>2 DEF Ranks
    <2> QED  BY <2>1, <1>1, <1>2 DEF Ranks
  <1>6. before # a  BY <1>4, <1>5
  <1>7. NULL \notin Node  BY NodesDiffer
  <1>8. /\ l.next \in [Node -> Node \cup {NULL}] /\ l.prev \in [Node -> Node \cup {NULL}]
        /\ l = [next |-> l.next, prev |-> l.prev]
    BY <1>1 DEF Links
  <1>9. /\ m.next = [l.next EXCEPT ![before] = after, ![a] = NULL]
        /\ m.prev = [l.prev EXCEPT ![after] = before, ![a] = NULL]
        /\ m = [next |-> m.next, prev |-> m.prev]
    BY DEF list_del
  <1> HIDE DEF before, after
  <1>10. /\ \A n \in Node : m.next[n] = IF n = a THEN NULL ELSE IF n = before THEN after ELSE l.next[n]
         /\ \A n \in Node : m.prev[n] = IF n = a THEN NULL ELSE IF n = after THEN before ELSE l.prev[n]
    BY <1>8, <1>9, <1>2, <1>3, <1>5, <1>6
  <1>11. m \in Links  BY <1>8, <1>9, <1>3, <1>2 DEF Links
  <1>12. /\ \A n \in Node : l.next[n] # NULL <=> l.prev[n] # NULL
         /\ \A n \in Node : l.next[n] # NULL => l.prev[l.next[n]] = n /\ l.next[l.prev[n]] = n
         /\ \A n \in Node : l.next[n] # NULL => l.next[n] \in Node /\ l.prev[n] \in Node
    BY <1>1, <1>8 DEF Agree
  <1>13. before = l.prev[a] /\ after = l.next[a]  BY DEF before, after
  <1>14. Agree(m)
    <2> SUFFICES ASSUME NEW n \in Node
                 PROVE  /\ m.next[n] # NULL <=> m.prev[n] # NULL
                        /\ m.next[n] # NULL => m.prev[m.next[n]] = n /\ m.next[m.prev[n]] = n
      BY DEF Agree
    <2>1. m.next[n] # NULL <=> m.prev[n] # NULL
      BY <1>10, <1>12, <1>3, <1>4, <1>7, <1>2
    <2>2. ASSUME m.next[n] # NULL  PROVE m.prev[m.next[n]] = n
      <3>1. n # a  BY <2>2, <1>10
      <3>2. CASE n = before  BY <3>1, <3>2, <1>10, <1>3, <1>5
      <3>3. CASE n # before
        <4>1. m.next[n] = l.next[n] /\ l.next[n] \in Node  BY <3>1, <3>3, <1>10, <2>2, <1>12
        <4>2. l.prev[l.next[n]] = n  BY <4>1, <2>2, <1>12
        <4>3. l.next[n] # a /\ l.next[n] # after  BY <4>2, <3>1, <3>3, <1>13, <1>4
        <4> QED  BY <4>1, <4>2, <4>3, <1>10
      <3> QED  BY <3>2, <3>3
    <2>3. ASSUME m.next[n] # NULL  PROVE m.next[m.prev[n]] = n
      <3>1. n # a  BY <2>3, <1>10
      <3>2. CASE n = after  BY <3>1, <3>2, <1>10, <1>3, <1>6
      <3>3. CASE n # after
        <4>1. m.prev[n] = l.prev[n]  BY <3>1, <3>3, <1>10
        <4>2. l.next[n] # NULL  BY <3>1, <1>10, <2>3, <1>4, <1>2, <1>7
        <4>3. l.prev[n] \in Node /\ l.next[l.prev[n]] = n  BY <4>2, <1>12
        <4>4. l.prev[n] # a /\ l.prev[n] # before  BY <4>3, <3>1, <3>3, <1>13, <1>4
        <4> QED  BY <4>1, <4>3, <4>4, <1>10
      <3> QED  BY <3>2, <3>3
    <2> QED  BY <2>1, <2>2, <2>3
  <1>15. Owners(m, owner)
    <2>1. owner[a] = owner[before] /\ owner[after] = owner[a]
      BY <1>1, <1>2, <1>3, <1>4, <1>7, <1>13 DEF Owners
    <2>2. \A n \in Node : l.next[n] # NULL => owner[l.next[n]] = owner[n]  BY <1>1 DEF Owners
    <2>3. \A n \in Node : m.next[n] # NULL => owner[m.next[n]] = owner[n]  BY <2>1, <2>2, <1>10
    <2> QED  BY <2>3, <1>1 DEF Owners
  <1>16. Ranks(m, rank)
    <2>1. \A n \in Node : l.next[n] \in Anchors => rank[n] < rank[l.next[n]]  BY <1>1 DEF Ranks
    <2>2. rank[before] < rank[a]  BY <2>1, <1>3, <1>4
    <2>3. after \in Anchors => rank[before] < rank[after]
      <3>1. after \in Anchors => rank[a] < rank[after]  BY <2>1, <1>2, <1>13
      <3>2. rank[before] \in Int /\ rank[a] \in Int /\ rank[after] \in Int  BY <1>1, <1>2, <1>3 DEF Ranks
      <3> QED  BY <2>2, <3>1, <3>2
    <2>4. NULL \notin Anchors  BY NodesDiffer
    <2>5. \A n \in Node : m.next[n] \in Anchors => rank[n] < rank[m.next[n]]
      BY <2>1, <2>3, <2>4, <1>10
    <2> QED  BY <2>5, <1>1 DEF Ranks
  <1>17. m.next[a] = NULL /\ m.prev[a] = NULL  BY <1>10, <1>2
  <1>18. \A n \in Node : n # a => (m.next[n] # NULL <=> l.next[n] # NULL)
    BY <1>10, <1>3, <1>4, <1>2, <1>7
  <1> QED  BY <1>11, <1>14, <1>15, <1>16, <1>17, <1>18 DEF Shape

\* __list_add puts an entry that is in no list between two neighbours.
LEMMA Inserted ==
  ASSUME NEW l, NEW owner, NEW rank, Shape(l, owner, rank),
         NEW a \in Anchors, l.next[a] = NULL, l.prev[a] = NULL,
         NEW k \in Queue,
         NEW before \in Node, NEW after \in Node,
         l.next[before] = after, l.prev[after] = before, owner[before] = k,
         before = ListHead(k) \/ after = ListHead(k),
         NEW m, m = list_add_between(l, a, before, after)
  PROVE  /\ \E r : Shape(m, [owner EXCEPT ![a] = k], r)
         /\ \A n \in Node : m.next[n] # NULL <=> n = a \/ l.next[n] # NULL
         /\ \A n \in Node : n # a /\ n # before => m.next[n] = l.next[n]
PROOF
  <1> DEFINE o == [owner EXCEPT ![a] = k]
             r == IF after = ListHead(k)
                  THEN [rank EXCEPT ![a] = rank[before] + 1]
                  ELSE [n \in Node |-> IF n = before THEN rank[before] - 2
                                       ELSE IF n = a THEN rank[before] - 1 ELSE rank[n]]
  <1>1. l \in Links /\ Agree(l) /\ Owners(l, owner) /\ Ranks(l, rank)  BY DEF Shape
  <1>2. a \in Node /\ NULL \notin Node /\ NULL \notin Anchors  BY NodesDiffer
  <1>3. /\ l.next \in [Node -> Node \cup {NULL}] /\ l.prev \in [Node -> Node \cup {NULL}]
        /\ l = [next |-> l.next, prev |-> l.prev]
    BY <1>1 DEF Links
  <1>4. /\ \A n \in Node : l.next[n] # NULL <=> l.prev[n] # NULL
        /\ \A n \in Node : l.next[n] # NULL => l.prev[l.next[n]] = n /\ l.next[l.prev[n]] = n
        /\ \A n \in Node : l.next[n] # NULL => l.next[n] \in Node /\ l.prev[n] \in Node
    BY <1>1, <1>3 DEF Agree
  <1>5. before # a /\ after # a  BY <1>2
  <1>6. \A n \in Node : l.next[n] # a /\ l.prev[n] # a
    <2> SUFFICES ASSUME NEW n \in Node  PROVE l.next[n] # a /\ l.prev[n] # a  OBVIOUS
    <2>1. l.next[n] = a => l.prev[a] = n  BY <1>2, <1>4
    <2>2. l.prev[n] = a => l.next[a] = n  BY <1>2, <1>4
    <2> QED  BY <2>1, <2>2, <1>2
  <1>7. /\ m.next = [l.next EXCEPT ![a] = after, ![before] = a]
        /\ m = [next |-> m.next, prev |-> m.prev]
    BY DEF list_add_between
  <1>8. m.prev = [l.prev EXCEPT ![after] = a, ![a] = before]  BY DEF list_add_between
  <1>9. /\ \A n \in Node : m.next[n] = IF n = a THEN after ELSE IF n = before THEN a ELSE l.next[n]
        /\ \A n \in Node : m.prev[n] = IF n = a THEN before ELSE IF n = after THEN a ELSE l.prev[n]
    BY <1>3, <1>7, <1>8, <1>2, <1>5
  <1>10. m \in Links  BY <1>3, <1>7, <1>8, <1>2 DEF Links
  <1>11. Agree(m)
    <2> SUFFICES ASSUME NEW n \in Node
                 PROVE  /\ m.next[n] # NULL <=> m.prev[n] # NULL
                        /\ m.next[n] # NULL => m.prev[m.next[n]] = n /\ m.next[m.prev[n]] = n
      BY DEF Agree
    <2>1. m.next[n] # NULL <=> m.prev[n] # NULL
      BY <1>9, <1>4, <1>2
    <2>2. ASSUME m.next[n] # NULL  PROVE m.prev[m.next[n]] = n
      <3>1. CASE n = a  BY <3>1, <1>9, <1>5, <1>2
      <3>2. CASE n = before  BY <3>2, <1>9, <1>5, <1>2
      <3>3. CASE n # a /\ n # before
        <4>1. m.next[n] = l.next[n] /\ l.next[n] \in Node  BY <3>3, <1>9, <2>2, <1>4
        <4>2. l.prev[l.next[n]] = n  BY <4>1, <2>2, <1>4
        <4>3. l.next[n] # a /\ l.next[n] # after  BY <4>2, <3>3, <1>6
        <4> QED  BY <4>1, <4>2, <4>3, <1>9
      <3> QED  BY <3>1, <3>2, <3>3
    <2>3. ASSUME m.next[n] # NULL  PROVE m.next[m.prev[n]] = n
      <3>1. CASE n = a  BY <3>1, <1>9, <1>5, <1>2
      <3>2. CASE n = after  BY <3>2, <1>9, <1>5, <1>2
      <3>3. CASE n # a /\ n # after
        <4>1. m.prev[n] = l.prev[n]  BY <3>3, <1>9
        <4>2. l.next[n] # NULL  BY <3>3, <1>9, <2>3, <1>2
        <4>3. l.prev[n] \in Node /\ l.next[l.prev[n]] = n  BY <4>2, <1>4
        <4>4. l.prev[n] # a /\ l.prev[n] # before  BY <4>3, <3>3, <1>6
        <4> QED  BY <4>1, <4>3, <4>4, <1>9
      <3> QED  BY <3>1, <3>2, <3>3
    <2> QED  BY <2>1, <2>2, <2>3
  <1>12. Owners(m, o)
    <2>1. /\ owner \in [Node -> Queue] /\ \A j \in Queue : owner[ListHead(j)] = j
          /\ \A n \in Node : l.next[n] # NULL => owner[l.next[n]] = owner[n]
      BY <1>1 DEF Owners
    <2>2. \A n \in Node : o[n] = IF n = a THEN k ELSE owner[n]  BY <2>1
    <2>3. \A j \in Queue : o[ListHead(j)] = j
      <3>1. \A j \in Queue : ListHead(j) \in Node /\ ListHead(j) # a  BY NodesDiffer
      <3> QED  BY <2>1, <2>2, <3>1
    <2>4. owner[after] = k  BY <2>1, <1>2
    <2>5. \A n \in Node : l.next[n] # NULL => o[l.next[n]] = o[n]
      BY <2>1, <2>2, <1>2, <1>4, <1>6
    <2>6. \A n \in Node : m.next[n] # NULL => o[m.next[n]] = o[n]
      BY <2>2, <2>4, <2>5, <1>2, <1>5, <1>9
    <2>7. o \in [Node -> Queue]  BY <2>1
    <2> QED  BY <2>3, <2>6, <2>7 DEF Owners
  <1>13. Ranks(m, r)
    <2>1. /\ rank \in [Node -> Int]
          /\ \A n \in Node : l.next[n] \in Anchors => rank[n] < rank[l.next[n]]
      BY <1>1 DEF Ranks
    <2>2. \A n \in Node : rank[n] \in Int  BY <2>1
    <2>3. \A j \in Queue : ListHead(j) \notin Anchors  BY NodesDiffer
    <2>4. CASE after = ListHead(k)
      <3>1. r = [rank EXCEPT ![a] = rank[before] + 1]  BY <2>4
      <3>2. \A n \in Node : r[n] = IF n = a THEN rank[before] + 1 ELSE rank[n]  BY <3>1, <2>1
      <3>3. r \in [Node -> Int]
        <4>1. rank[before] + 1 \in Int  BY <2>2
        <4>2. [rank EXCEPT ![a] = rank[before] + 1] \in [Node -> Int]  BY <4>1, <2>1
        <4> QED  BY <4>2, <3>1
      <3>4. ASSUME NEW n \in Node, m.next[n] \in Anchors  PROVE r[n] < r[m.next[n]]
        <4>1. CASE n = a  BY <4>1, <3>4, <1>9, <1>2, <2>3, <2>4
        <4>2. CASE n = before
          <5>1. m.next[n] = a /\ r[n] = rank[before] /\ r[a] = rank[before] + 1
            BY <4>2, <1>9, <1>5, <3>2, <1>2
          <5> QED  BY <5>1, <2>2
        <4>3. CASE n # a /\ n # before
          <5>1. m.next[n] = l.next[n] /\ l.next[n] # a  BY <4>3, <1>9, <1>6
          <5>2. l.next[n] \in Node  BY <5>1, <3>4, NodesDiffer
          <5> QED  BY <5>1, <5>2, <4>3, <3>2, <3>4, <2>1
        <4> QED  BY <4>1, <4>2, <4>3
      <3> QED  BY <3>3, <3>4 DEF Ranks
    <2>5. CASE after # ListHead(k)
      <3>1. before = ListHead(k)  BY <2>5
      <3>2. r = [n \in Node |-> IF n = before THEN rank[before] - 2
                                ELSE IF n = a THEN rank[before] - 1 ELSE rank[n]]
        BY <2>5
      <3>3. \A n \in Node : r[n] = IF n = before THEN rank[before] - 2
                                   ELSE IF n = a THEN rank[before] - 1 ELSE rank[n]
        BY <3>2
      <3>4. r \in [Node -> Int]  BY <3>2, <2>2
      <3>5. ASSUME NEW n \in Node, m.next[n] \in Anchors  PROVE r[n] < r[m.next[n]]
        <4>1. CASE n = a
          <5>1. m.next[n] = after /\ after # before /\ r[n] = rank[before] - 1 /\ r[after] = rank[after]
            BY <4>1, <1>9, <1>2, <1>5, <3>1, <3>3, <3>5, <2>3
          <5>2. rank[before] < rank[after]  BY <5>1, <3>5, <2>1
          <5> QED  BY <5>1, <5>2, <2>2
        <4>2. CASE n = before
          <5>1. m.next[n] = a /\ r[n] = rank[before] - 2 /\ r[a] = rank[before] - 1
            BY <4>2, <1>9, <1>5, <3>3, <1>2
          <5> QED  BY <5>1, <2>2
        <4>3. CASE n # a /\ n # before
          <5>1. m.next[n] = l.next[n] /\ l.next[n] # a  BY <4>3, <1>9, <1>6
          <5>2. l.next[n] \in Node /\ l.next[n] # before  BY <5>1, <3>5, <3>1, <2>3, NodesDiffer
          <5> QED  BY <5>1, <5>2, <4>3, <3>3, <3>5, <2>1
        <4> QED  BY <4>1, <4>2, <4>3
      <3> QED  BY <3>4, <3>5 DEF Ranks
    <2> QED  BY <2>4, <2>5
  <1> HIDE DEF o, r
  <1>14. \A n \in Node : m.next[n] # NULL <=> n = a \/ l.next[n] # NULL
    BY <1>9, <1>2, <1>5
  <1>15. \A n \in Node : n # a /\ n # before => m.next[n] = l.next[n]  BY <1>9
  <1>16. Shape(m, o, r)  BY <1>10, <1>11, <1>12, <1>13 DEF Shape
  <1>17. Shape(m, [owner EXCEPT ![a] = k], r)  BY <1>16 DEF o
  <1> QED  BY <1>14, <1>15, <1>17

\* update_process_state on the pointers: the task goes where it is sent, nobody else moves,
\* and whatever was linked stays so.
LEMMA Updated ==
  ASSUME NEW l, NEW owner, NEW rank, Shape(l, owner, rank),
         NEW t \in Task, NEW dest \in Queue \cup {None}, NEW is_first \in BOOLEAN,
         dest # None => dest \in Queue /\ l.next[ListHead(dest)] # NULL,
         NEW m, m = update_process_state(l, t, dest, is_first)
  PROVE  \E o, r : /\ Shape(m, o, r)
                   /\ \A n \in Node : n # Anchor(t) => o[n] = owner[n]
                   /\ \A n \in Node : n # Anchor(t) => (m.next[n] # NULL <=> l.next[n] # NULL)
PROOF
  <1> DEFINE a == Anchor(t)
             u == IF l.next[a] # NULL /\ l.prev[a] # NULL THEN list_del(l, a) ELSE l
  <1>1. a \in Anchors /\ a \in Node  BY NodesDiffer
  <1>2. l.next[a] # NULL <=> l.prev[a] # NULL  BY <1>1 DEF Shape, Agree
  <1>3. /\ Shape(u, owner, rank)
        /\ u.next[a] = NULL /\ u.prev[a] = NULL
        /\ \A n \in Node : n # a => (u.next[n] # NULL <=> l.next[n] # NULL)
    <2>1. CASE l.next[a] # NULL
      <3>1. u = list_del(l, a)  BY <2>1, <1>2
      <3> HIDE DEF u, a
      <3> QED  BY <3>1, <2>1, <1>1, Deleted
    <2>2. CASE l.next[a] = NULL  BY <2>2, <1>2
    <2> QED  BY <2>1, <2>2
  <1>4. CASE dest = None
    <2>1. m = u  BY <1>4 DEF update_process_state
    <2> QED  BY <2>1, <1>3
  <1>5. CASE dest # None
    <2>1. dest \in Queue /\ ListHead(dest) \in Node /\ ListHead(dest) # a
      BY <1>5, <1>1, NodesDiffer
    <2>2. u.next[ListHead(dest)] # NULL  BY <2>1, <1>3, <1>5
    <2> DEFINE h == ListHead(dest)
               before == IF is_first THEN h ELSE u.prev[h]
               after  == IF is_first THEN u.next[h] ELSE h
    <2>3. m = list_add_between(u, a, before, after)
      BY <1>5 DEF update_process_state, list_add, list_add_tail
    <2> HIDE DEF u, a
    <2>4. /\ u.next[h] \in Node /\ u.prev[h] \in Node
          /\ u.prev[u.next[h]] = h /\ u.next[u.prev[h]] = h
      BY <1>3, <2>1, <2>2 DEF Shape, Agree, Links
    <2>5. /\ before \in Node /\ after \in Node
          /\ u.next[before] = after /\ u.prev[after] = before
          /\ before = ListHead(dest) \/ after = ListHead(dest)
      BY <2>1, <2>4
    <2>6. owner[before] = dest
      <3>1. owner[h] = dest  BY <1>3, <2>1 DEF Shape, Owners
      <3>2. NULL \notin Node  BY NodesDiffer
      <3>3. owner[u.prev[h]] = owner[h]  BY <1>3, <2>1, <2>4, <3>2 DEF Shape, Owners
      <3> QED  BY <3>1, <3>3
    <2> HIDE DEF before, after, h
    <2>7. /\ \E r : Shape(m, [owner EXCEPT ![a] = dest], r)
          /\ \A n \in Node : m.next[n] # NULL <=> n = a \/ u.next[n] # NULL
      <3>1. u.next[a] = NULL /\ u.prev[a] = NULL /\ Shape(u, owner, rank)  BY <1>3
      <3> QED  BY <1>1, <2>1, <2>3, <2>5, <2>6, <3>1, Inserted
    <2>8. owner \in [Node -> Queue]  BY <1>3 DEF Shape, Owners
    <2>9. \A n \in Node : n # a => [owner EXCEPT ![a] = dest][n] = owner[n]  BY <2>8
    <2>10. \A n \in Node : n # a => (m.next[n] # NULL <=> l.next[n] # NULL)  BY <2>7, <1>3
    <2>11. PICK r : Shape(m, [owner EXCEPT ![a] = dest], r)  BY <2>7
    <2>12. /\ \A n \in Node : n # Anchor(t) => [owner EXCEPT ![a] = dest][n] = owner[n]
           /\ \A n \in Node : n # Anchor(t) => (m.next[n] # NULL <=> l.next[n] # NULL)
      BY <2>9, <2>10 DEF a
    <2> QED  BY <2>11, <2>12
  <1> QED  BY <1>4, <1>5

-----------------------------------------------------------------------------

\* At first the heads of three lists point to themselves, and nothing else points anywhere.
LEMMA InitShape == Init => ListsInv
PROOF
  <1> SUFFICES ASSUME Init  PROVE ListsInv  OBVIOUS
  <1> DEFINE heads == {ListHead(k) : k \in Queue \ Sem}
             self == [n \in Node |-> IF n \in heads THEN n ELSE NULL]
             l == [next |-> self, prev |-> self]
             owner == [n \in Node |-> IF n \in Heads THEN CHOOSE k \in Queue : ListHead(k) = n
                                                     ELSE "free"]
             rank == [n \in Node |-> 0]
  <1>1. links = l /\ waking = None  BY DEF Init
  <1>2. heads \subseteq Heads /\ heads \subseteq Node  BY DEF Heads, Node
  <1>3. \A n \in Node : self[n] = IF n \in heads THEN n ELSE NULL  OBVIOUS
  <1>4. self \in [Node -> Node \cup {NULL}]  OBVIOUS
  <1> HIDE DEF self
  <1>5. l \in Links  BY <1>4 DEF Links
  <1>6. NULL \notin Node /\ Anchors \cap Heads = {}  BY NodesDiffer
  <1>7. Agree(l)
    <2> SUFFICES ASSUME NEW n \in Node, self[n] # NULL  PROVE self[self[n]] = n
      BY DEF Agree
    <2> QED  BY <1>3
  <1>8. Owners(l, owner)
    <2>1. \A k \in Queue : ListHead(k) \in Heads /\ ListHead(k) \in Node  BY NodesDiffer
    <2>2. \A j, k \in Queue : ListHead(j) = ListHead(k) => j = k  BY NodesDiffer
    <2>3. \A k \in Queue : (CHOOSE j \in Queue : ListHead(j) = ListHead(k)) = k  BY <2>2
    <2>4. \A k \in Queue : owner[ListHead(k)] = k  BY <2>1, <2>3
    <2>5. owner \in [Node -> Queue]
      <3>1. \A n \in Heads : \E k \in Queue : ListHead(k) = n  BY DEF Heads
      <3>2. \A n \in Heads : (CHOOSE k \in Queue : ListHead(k) = n) \in Queue  BY <3>1
      <3>3. "free" \in Queue  BY DEF Queue
      <3> QED  BY <3>2, <3>3
    <2> HIDE DEF owner
    <2>6. \A n \in Node : self[n] # NULL => owner[self[n]] = owner[n]  BY <1>3
    <2> QED  BY <2>4, <2>5, <2>6 DEF Owners
  <1>9. Ranks(l, rank)
    <2>1. \A n \in Node : self[n] \notin Anchors  BY <1>2, <1>3, <1>6 DEF Node
    <2> QED  BY <2>1 DEF Ranks
  <1> HIDE DEF owner, rank, l
  <1>10. Shape(links, owner, rank)  BY <1>1, <1>5, <1>7, <1>8, <1>9 DEF Shape
  <1>11. InLoop(links, owner)  BY <1>1 DEF InLoop
  <1>12. links.next[ListHead("ready")] # NULL
    <2>1. "ready" \in Queue \ Sem  BY ListsAssumption DEF Queue
    <2>2. ListHead("ready") \in heads  BY <2>1
    <2> QED  BY <2>2, <1>1, <1>2, <1>3, <1>6 DEF l
  <1> QED  BY <1>10, <1>11, <1>12 DEF ListsInv

\* The loop of sys_sem_destroy comes from its list to the head of no other.
LEMMA InItsList ==
  ASSUME NEW l, NEW owner, NEW rank, Shape(l, owner, rank),
         NEW s \in Queue, NEW n \in Node, owner[n] = s, n # ListHead(s)
  PROVE  \E t \in Task : n = Anchor(t) /\ n[2] = t
PROOF
  <1>1. n \notin Heads
    <2>1. \A k \in Queue : owner[ListHead(k)] = k  BY DEF Shape, Owners
    <2> QED  BY <2>1 DEF Heads
  <1>2. n \in Anchors  BY <1>1 DEF Node
  <1>3. PICK t \in Task : n = Anchor(t)  BY <1>2 DEF Anchors
  <1>4. n[2] = t  BY <1>3, NodesDiffer
  <1> QED  BY <1>3, <1>4

\* No entry but a head is followed by itself.
LEMMA NotRound ==
  ASSUME NEW l, NEW owner, NEW rank, Shape(l, owner, rank), NEW a \in Anchors
  PROVE  l.next[a] # a
PROOF
  <1>1. a \in Node  BY NodesDiffer
  <1>2. rank[a] \in Int /\ (l.next[a] = a => rank[a] < rank[a])  BY <1>1 DEF Shape, Ranks
  <1> QED  BY <1>2

\* What a handler, or sys_sem_init, or a step of the loop does, leaves lists behind.
LEMMA StepShape == ListsInv /\ [Next]_vars => ListsInv'
PROOF
  <1> SUFFICES ASSUME ListsInv, [Next]_vars  PROVE ListsInv'  OBVIOUS
  <1>1. PICK owner, rank : Shape(links, owner, rank) /\ InLoop(links, owner)  BY DEF ListsInv
  <1>2. Sem \subseteq Queue /\ None \notin Sem /\ None \notin Queue
    BY ListsAssumption DEF Queue, None
  <1>3. /\ "ready" \in Queue /\ "ready" \notin Sem
        /\ links.next[ListHead("ready")] # NULL
    BY ListsAssumption DEF Queue, ListsInv
  <1> DEFINE ready == ListHead("ready")
  <1>a. ready \in Node /\ ready \notin Anchors  BY <1>3, NodesDiffer
  <1>b. \A t \in Task : Anchor(t) # ready /\ Anchor(t) \in Node  BY <1>a, NodesDiffer
  <1>4. ASSUME NEW t \in Task, NEW dest \in Queue \cup {None}, NEW is_first \in BOOLEAN,
               Move(t, dest, is_first)
        PROVE  ListsInv'
    <2>1. /\ dest # None => dest \in Queue /\ links.next[ListHead(dest)] # NULL
          /\ links' = update_process_state(links, t, dest, is_first)
          /\ waking' = None
      BY <1>4 DEF Move, Initialised, loopVars
    <2>2. PICK o, r : /\ Shape(links', o, r)
                      /\ \A n \in Node : n # Anchor(t) => (links'.next[n] # NULL <=> links.next[n] # NULL)
      BY <1>1, <2>1, Updated
    <2>3. InLoop(links, o)'  BY <2>1 DEF InLoop
    <2>4. links'.next[ready] # NULL  BY <2>2, <1>3, <1>a, <1>b
    <2> QED  BY <2>2, <2>3, <2>4 DEF ListsInv
  <1>5. ASSUME NEW s \in Sem, SemInit(s)  PROVE ListsInv'
    <2> DEFINE h == ListHead(s)
    <2>1. /\ waking' = None
          /\ links.next[h] # NULL => links.next[h] = h
          /\ links' = INIT_LIST_HEAD(links, h)
      BY <1>5 DEF SemInit, loopVars, Initialised, list_empty
    <2>2. h \in Node /\ h \notin Anchors /\ NULL \notin Node  BY <1>2, NodesDiffer
    <2> HIDE DEF h
    <2>3. /\ links.next \in [Node -> Node \cup {NULL}] /\ links.prev \in [Node -> Node \cup {NULL}]
          /\ \A n \in Node : links.next[n] # NULL <=> links.prev[n] # NULL
          /\ \A n \in Node : links.next[n] # NULL =>
               links.prev[links.next[n]] = n /\ links.next[links.prev[n]] = n
      BY <1>1 DEF Shape, Agree, Links
    <2>4. /\ links' = [next |-> [links.next EXCEPT ![h] = h], prev |-> [links.prev EXCEPT ![h] = h]]
          /\ links'.next = [links.next EXCEPT ![h] = h]
          /\ links'.prev = [links.prev EXCEPT ![h] = h]
      BY <2>1 DEF INIT_LIST_HEAD
    <2>5. /\ \A n \in Node : links'.next[n] = IF n = h THEN h ELSE links.next[n]
          /\ \A n \in Node : links'.prev[n] = IF n = h THEN h ELSE links.prev[n]
      BY <2>3, <2>4
    <2>6. \A n \in Node : n # h => links.next[n] # h /\ links.prev[n] # h
      <3> SUFFICES ASSUME NEW n \in Node, n # h  PROVE links.next[n] # h /\ links.prev[n] # h
        OBVIOUS
      <3>1. links.next[n] = h => links.prev[h] = n  BY <2>2, <2>3
      <3>2. links.prev[n] = h => links.next[h] = n  BY <2>2, <2>3
      <3>3. links.next[h] # NULL => links.prev[h] = h  BY <2>1, <2>2, <2>3
      <3>4. links.prev[h] # NULL => links.next[h] # NULL  BY <2>2, <2>3
      <3> QED  BY <3>1, <3>2, <3>3, <3>4, <2>1, <2>2
    <2>7. Agree(links')
      <3> SUFFICES ASSUME NEW n \in Node
                   PROVE  /\ links'.next[n] # NULL <=> links'.prev[n] # NULL
                          /\ links'.next[n] # NULL =>
                               links'.prev[links'.next[n]] = n /\ links'.next[links'.prev[n]] = n
        BY DEF Agree
      <3>1. CASE n = h  BY <3>1, <2>2, <2>5
      <3>2. CASE n # h
        <4>1. links'.next[n] = links.next[n] /\ links'.prev[n] = links.prev[n]  BY <3>2, <2>5
        <4>2. links.next[n] # NULL => links.next[n] \in Node /\ links.prev[n] \in Node  BY <2>3
        <4> QED  BY <4>1, <4>2, <3>2, <2>3, <2>5, <2>6
      <3> QED  BY <3>1, <3>2
    <2>8. Owners(links', owner)
      <3>1. /\ owner \in [Node -> Queue] /\ \A k \in Queue : owner[ListHead(k)] = k
            /\ \A n \in Node : links.next[n] # NULL => owner[links.next[n]] = owner[n]
        BY <1>1 DEF Shape, Owners
      <3>2. \A n \in Node : links'.next[n] # NULL => owner[links'.next[n]] = owner[n]
        BY <3>1, <2>5
      <3> QED  BY <3>1, <3>2 DEF Owners
    <2>9. Ranks(links', rank)
      <3>1. /\ rank \in [Node -> Int]
            /\ \A n \in Node : links.next[n] \in Anchors => rank[n] < rank[links.next[n]]
        BY <1>1 DEF Shape, Ranks
      <3>2. \A n \in Node : links'.next[n] \in Anchors => rank[n] < rank[links'.next[n]]
        BY <3>1, <2>2, <2>5
      <3> QED  BY <3>1, <3>2 DEF Ranks
    <2>10. links' \in Links  BY <2>2, <2>3, <2>4 DEF Links
    <2>11. Shape(links', owner, rank)  BY <2>7, <2>8, <2>9, <2>10 DEF Shape
    <2>12. InLoop(links, owner)'  BY <2>1 DEF InLoop
    <2>13. links'.next[ready] # NULL  BY <2>2, <2>5, <1>3, <1>a
    <2> QED  BY <2>11, <2>12, <2>13 DEF ListsInv
  <1>6. ASSUME NEW s \in Sem, DestroyBegins(s)  PROVE ListsInv'
    <2>1. /\ links' = links /\ waking' = s /\ links.next[ListHead(s)] # NULL
          /\ pos' = links.next[ListHead(s)] /\ aux' = links.next[pos']
      BY <1>6 DEF DestroyBegins, Initialised
    <2>2. ListHead(s) \in Node /\ NULL \notin Node  BY <1>2, NodesDiffer
    <2>3. pos' \in Node /\ links.prev[pos'] = ListHead(s)
      BY <1>1, <2>1, <2>2 DEF Shape, Agree, Links
    <2>4. links.next[pos'] # NULL
      <3>1. links.prev[pos'] # NULL  BY <2>2, <2>3
      <3> QED  BY <1>1, <2>3, <3>1 DEF Shape, Agree
    <2>5. owner[pos'] = s
      <3>1. owner[ListHead(s)] = s  BY <1>1, <1>2 DEF Shape, Owners
      <3>2. owner[links.next[ListHead(s)]] = owner[ListHead(s)]
        BY <1>1, <2>1, <2>2 DEF Shape, Owners
      <3> QED  BY <3>1, <3>2, <2>1
    <2>6. InLoop(links, owner)'  BY <2>1, <2>3, <2>4, <2>5 DEF InLoop
    <2>7. Shape(links', owner, rank)  BY <2>1, <1>1
    <2> QED  BY <2>1, <2>6, <2>7, <1>3 DEF ListsInv
  <1>7. ASSUME DestroyWakes  PROVE ListsInv'
    <2>1. /\ waking # None /\ pos # ListHead(waking) /\ waking' = waking
          /\ links' = update_process_state(links, pos[2], "ready", FALSE)
          /\ pos' = aux /\ aux' = links'.next[pos']
      BY <1>7 DEF DestroyWakes, Following
    <2>2. /\ waking \in Sem /\ pos \in Node
          /\ links.next[pos] # NULL /\ owner[pos] = waking /\ aux = links.next[pos]
      BY <1>1, <2>1 DEF InLoop
    <2>3. PICK t \in Task : pos = Anchor(t) /\ pos[2] = t
      BY <1>1, <1>2, <2>1, <2>2, InItsList
    <2>4. pos \in Anchors  BY <2>3, NodesDiffer
    <2>5. NULL \notin Node  BY NodesDiffer
    <2>6. aux \in Node /\ owner[aux] = waking
      BY <1>1, <2>2 DEF Shape, Owners, Links
    <2>7. aux # pos  BY <1>1, <2>2, <2>4, NotRound
    <2>8. links.next[aux] # NULL
      <3>1. links.prev[aux] = pos  BY <1>1, <2>2 DEF Shape, Agree
      <3>2. links.prev[aux] # NULL  BY <3>1, <2>2, <2>5
      <3> QED  BY <1>1, <2>6, <3>2 DEF Shape, Agree
    <2>9. PICK o, r :
            /\ Shape(links', o, r)
            /\ \A n \in Node : n # pos => o[n] = owner[n]
            /\ \A n \in Node : n # pos => (links'.next[n] # NULL <=> links.next[n] # NULL)
      <3> DEFINE is_first == FALSE
      <3>1. "ready" \in Queue \cup {None} /\ is_first \in BOOLEAN  BY <1>3
      <3>2. links' = update_process_state(links, t, "ready", is_first)  BY <2>1, <2>3
      <3> HIDE DEF is_first
      <3>3. Shape(links, owner, rank)  BY <1>1
      <3>4. \E o, r :
              /\ Shape(links', o, r)
              /\ \A n \in Node : n # Anchor(t) => o[n] = owner[n]
              /\ \A n \in Node : n # Anchor(t) => (links'.next[n] # NULL <=> links.next[n] # NULL)
        BY <1>3, <3>1, <3>2, <3>3, Updated
      <3>5. Anchor(t) = pos  BY <2>3
      <3> QED  BY <3>4, <3>5
    <2>10. links'.next[aux] # NULL /\ o[aux] = waking  BY <2>6, <2>7, <2>8, <2>9
    <2>11. InLoop(links, o)'  BY <2>1, <2>2, <2>6, <2>10 DEF InLoop
    <2>12. links'.next[ready] # NULL  BY <2>4, <2>9, <1>3, <1>a
    <2> QED  BY <2>9, <2>11, <2>12 DEF ListsInv
  <1>8. ASSUME DestroyEnds  PROVE ListsInv'
    <2>1. links' = links /\ waking' = None  BY <1>8 DEF DestroyEnds
    <2>2. InLoop(links, owner)'  BY <2>1 DEF InLoop
    <2> QED  BY <2>1, <2>2, <1>1, <1>3 DEF ListsInv
  <1>9. ASSUME UNCHANGED vars  PROVE ListsInv'
    <2>1. links' = links /\ waking' = waking /\ pos' = pos /\ aux' = aux
      BY <1>9 DEF vars, loopVars
    <2>2. InLoop(links, owner)'  BY <2>1, <1>1 DEF InLoop
    <2> QED  BY <2>1, <2>2, <1>1, <1>3 DEF ListsInv
  <1> QED  BY <1>4, <1>5, <1>6, <1>7, <1>8, <1>9 DEF Next

\* However tasks are moved between the lists, the pointers are those of lists that share no
\* entry and that lead back to their own head; and the loop of sys_sem_destroy stays in the
\* list it empties.
THEOREM ListsInvariance == Spec => []ListsInv
PROOF  BY InitShape, StepShape, PTL DEF Spec

\* LinksAgree: list_del, __list_add and INIT_LIST_HEAD leave no neighbour that does not point
\* back, and no entry that is linked one way only.
THEOREM ListsAreLinked == Spec => []LinksAgree
PROOF
  <1>1. ListsInv => LinksAgree  BY DEF ListsInv, Shape, Agree, LinksAgree
  <1> QED  BY <1>1, ListsInvariance, PTL

-----------------------------------------------------------------------------
(* The lists are sequences of tasks. *)

\* Where a list goes through its head, the tasks s and its head again.
At(k, s, i) == IF i \in 1 .. Len(s) THEN Anchor(s[i]) ELSE ListHead(k)

Chain(l, k, s) == \A i \in 0 .. Len(s) : l.next[At(k, s, i)] = At(k, s, i + 1)

\* No task twice, in one list or in two.
Distinct(q) ==
  \A k, o \in Queue : \A i \in 1 .. Len(q[k]), n \in 1 .. Len(q[o]) :
    q[k][i] = q[o][n] => k = o /\ i = n

\* A task that is linked is in one of the lists.
AllListed(l, q) ==
  \A t \in Task : l.next[Anchor(t)] # NULL => \E k \in Queue : \E i \in 1 .. Len(q[k]) : q[k][i] = t

\* A list goes through its tasks, or it is not initialised.
Listed(l, q, k) ==
  /\ l.next[ListHead(k)] = NULL => q[k] = <<>>
  /\ l.next[ListHead(k)] # NULL => Chain(l, k, q[k])

\* The lists of l are the sequences q.
Holds(l, q) ==
  /\ q \in [Queue -> Seq(Task)]
  /\ Distinct(q)
  /\ \A k \in Queue : Listed(l, q, k)
  /\ AllListed(l, q)

\* From q to r list k loses its entry j.
Without(q, r, k, j) ==
  /\ r \in [Queue -> Seq(Task)]
  /\ \A o \in Queue \ {k} : r[o] = q[o]
  /\ Len(r[k]) = Len(q[k]) - 1
  /\ \A i \in 1 .. Len(q[k]) - 1 : r[k][i] = IF i < j THEN q[k][i] ELSE q[k][i + 1]

LEMMA AtType ==
  ASSUME NEW q \in [Queue -> Seq(Task)], NEW k \in Queue
  PROVE  /\ q[k] \in Seq(Task) /\ Len(q[k]) \in Nat
         /\ \A i \in 1 .. Len(q[k]) : q[k][i] \in Task /\ At(k, q[k], i) = Anchor(q[k][i])
         /\ \A i : At(k, q[k], i) \in Node
         /\ At(k, q[k], 0) = ListHead(k) /\ At(k, q[k], Len(q[k]) + 1) = ListHead(k)
PROOF
  <1>1. q[k] \in Seq(Task) /\ Len(q[k]) \in Nat /\ \A i \in 1 .. Len(q[k]) : q[k][i] \in Task
    <2>1. q[k] \in Seq(Task)  OBVIOUS
    <2> QED  BY <2>1, LenProperties, ElementOfSeq
  <1>2. ListHead(k) \in Node /\ \A t \in Task : Anchor(t) \in Node  BY NodesDiffer
  <1>3. 0 \notin 1 .. Len(q[k]) /\ Len(q[k]) + 1 \notin 1 .. Len(q[k])  BY <1>1
  <1> QED  BY <1>1, <1>2, <1>3 DEF At

\* The places the lists go through are different.
LEMMA AtDiffer ==
  ASSUME NEW q \in [Queue -> Seq(Task)], Distinct(q),
         NEW k \in Queue, NEW o \in Queue, NEW i \in 0 .. Len(q[k]), NEW n \in 0 .. Len(q[o]),
         At(k, q[k], i) = At(o, q[o], n)
  PROVE  k = o /\ i = n
PROOF
  <1>1. /\ Len(q[k]) \in Nat /\ Len(q[o]) \in Nat
        /\ \A x \in 1 .. Len(q[k]) : q[k][x] \in Task
        /\ \A x \in 1 .. Len(q[o]) : q[o][x] \in Task
    BY AtType
  <1>2. /\ \A t \in Task : Anchor(t) \in Anchors /\ Anchor(t)[2] = t
        /\ ListHead(k) \notin Anchors /\ ListHead(o) \notin Anchors
        /\ ListHead(k) = ListHead(o) => k = o
    BY NodesDiffer
  <1>3. CASE i = 0
    <2>1. At(k, q[k], i) = ListHead(k)  BY <1>1, <1>3 DEF At
    <2>2. n \notin 1 .. Len(q[o])  BY <1>1, <1>2, <2>1 DEF At
    <2>3. n = 0  BY <1>1, <2>2
    <2>4. At(o, q[o], n) = ListHead(o)  BY <2>2 DEF At
    <2> QED  BY <1>2, <1>3, <2>1, <2>3, <2>4
  <1>4. CASE i \in 1 .. Len(q[k])
    <2>1. At(k, q[k], i) = Anchor(q[k][i]) /\ q[k][i] \in Task  BY <1>1, <1>4 DEF At
    <2>2. n \in 1 .. Len(q[o])  BY <1>2, <2>1 DEF At
    <2>3. Anchor(q[k][i]) = Anchor(q[o][n]) /\ q[o][n] \in Task  BY <1>1, <2>1, <2>2 DEF At
    <2>4. q[k][i] = q[o][n]  BY <1>2, <2>1, <2>3
    <2> QED  BY <1>4, <2>2, <2>4 DEF Distinct
  <1> QED  BY <1>1, <1>3, <1>4

OnlyAt(q, k, h) ==
  \A o \in Queue : \A i \in 0 .. Len(q[o]) : At(o, q[o], i) = At(k, q[k], h) => o = k /\ i = h

LEMMA AtOnly ==
  ASSUME NEW q \in [Queue -> Seq(Task)], Distinct(q), NEW k \in Queue, NEW h \in 0 .. Len(q[k])
  PROVE  OnlyAt(q, k, h)
PROOF  BY AtDiffer DEF OnlyAt

LEMMA AtWithout ==
  ASSUME NEW q \in [Queue -> Seq(Task)], NEW r, NEW k \in Queue, NEW j \in 1 .. Len(q[k]),
         Without(q, r, k, j)
  PROVE  /\ \A i \in 0 .. j - 1 : At(k, r[k], i) = At(k, q[k], i)
         /\ \A i \in j .. Len(q[k]) : At(k, r[k], i) = At(k, q[k], i + 1)
PROOF
  <1>1. /\ Len(q[k]) \in Nat /\ Len(r[k]) = Len(q[k]) - 1
        /\ \A i \in 1 .. Len(q[k]) - 1 : r[k][i] = IF i < j THEN q[k][i] ELSE q[k][i + 1]
    BY AtType DEF Without
  <1>2. ASSUME NEW i \in 0 .. j - 1  PROVE At(k, r[k], i) = At(k, q[k], i)
    <2>1. CASE i = 0  BY <1>1, <2>1 DEF At
    <2>2. CASE i # 0
      <3>1. i \in 1 .. Len(q[k]) - 1 /\ i < j /\ i \in 1 .. Len(q[k])  BY <1>1, <2>2
      <3>2. r[k][i] = q[k][i]  BY <1>1, <3>1
      <3> QED  BY <1>1, <3>1, <3>2 DEF At
    <2> QED  BY <2>1, <2>2
  <1>3. ASSUME NEW i \in j .. Len(q[k])  PROVE At(k, r[k], i) = At(k, q[k], i + 1)
    <2>1. CASE i = Len(q[k])  BY <1>1, <2>1 DEF At
    <2>2. CASE i # Len(q[k])
      <3>1. i \in 1 .. Len(q[k]) - 1 /\ ~(i < j) /\ i + 1 \in 1 .. Len(q[k])  BY <1>1, <2>2
      <3>2. r[k][i] = q[k][i + 1]  BY <1>1, <3>1
      <3> QED  BY <1>1, <3>1, <3>2 DEF At
    <2> QED  BY <2>1, <2>2
  <1> QED  BY <1>2, <1>3

\* Where an entry that stays was.
Was(k, j, o, i) == IF o = k /\ ~(i < j) THEN i + 1 ELSE i

OthersStay(q, r, k, j) ==
  \A o \in Queue : \A n \in 1 .. Len(q[o]) :
    ~(o = k /\ n = j) => \E i \in 1 .. Len(r[o]) : r[o][i] = q[o][n]

LEMMA Entries ==
  ASSUME NEW q \in [Queue -> Seq(Task)], NEW r, NEW k \in Queue, NEW j \in 1 .. Len(q[k]),
         Without(q, r, k, j)
  PROVE  /\ \A o \in Queue : \A i \in 1 .. Len(r[o]) :
              /\ Was(k, j, o, i) \in 1 .. Len(q[o]) /\ r[o][i] = q[o][Was(k, j, o, i)]
              /\ ~(o = k /\ Was(k, j, o, i) = j)
         /\ OthersStay(q, r, k, j)
PROOF
  <1>1. /\ Len(q[k]) \in Nat /\ Len(r[k]) = Len(q[k]) - 1
        /\ \A i \in 1 .. Len(q[k]) - 1 : r[k][i] = IF i < j THEN q[k][i] ELSE q[k][i + 1]
        /\ \A o \in Queue \ {k} : r[o] = q[o]
    BY AtType DEF Without
  <1>2. ASSUME NEW o \in Queue, NEW i \in 1 .. Len(r[o])
        PROVE  /\ Was(k, j, o, i) \in 1 .. Len(q[o]) /\ r[o][i] = q[o][Was(k, j, o, i)]
               /\ ~(o = k /\ Was(k, j, o, i) = j)
    <2>1. CASE o # k  BY <1>1, <2>1 DEF Was
    <2>2. CASE o = k
      <3>1. i \in 1 .. Len(q[k]) - 1  BY <1>1, <2>2
      <3>2. r[k][i] = IF i < j THEN q[k][i] ELSE q[k][i + 1]  BY <1>1, <3>1
      <3>3. CASE i < j  BY <1>1, <2>2, <3>1, <3>2, <3>3 DEF Was
      <3>4. CASE ~(i < j)  BY <1>1, <2>2, <3>1, <3>2, <3>4 DEF Was
      <3> QED  BY <3>3, <3>4
    <2> QED  BY <2>1, <2>2
  <1>3. ASSUME NEW o \in Queue, NEW n \in 1 .. Len(q[o]), ~(o = k /\ n = j)
        PROVE  \E i \in 1 .. Len(r[o]) : r[o][i] = q[o][n]
    <2>1. CASE o # k  BY <1>1, <2>1
    <2>2. CASE o = k /\ n < j
      <3>1. n \in 1 .. Len(q[k]) - 1  BY <1>1, <2>2
      <3>2. r[k][n] = q[k][n]  BY <1>1, <2>2, <3>1
      <3> QED  BY <1>1, <2>2, <3>1, <3>2
    <2>3. CASE o = k /\ n > j
      <3>1. n - 1 \in 1 .. Len(q[k]) - 1 /\ ~(n - 1 < j) /\ (n - 1) + 1 = n  BY <1>1, <2>3
      <3>2. r[k][n - 1] = q[k][n]  BY <1>1, <3>1
      <3> QED  BY <1>1, <2>3, <3>1, <3>2
    <2> QED  BY <1>1, <1>3, <2>1, <2>2, <2>3
  <1>4. OthersStay(q, r, k, j)  BY <1>3 DEF OthersStay
  <1> QED  BY <1>2, <1>4

LEMMA WithoutDistinct ==
  ASSUME NEW q \in [Queue -> Seq(Task)], NEW r, NEW k \in Queue, NEW j \in 1 .. Len(q[k]),
         Without(q, r, k, j), Distinct(q)
  PROVE  Distinct(r)
PROOF
  <1> SUFFICES ASSUME NEW o \in Queue, NEW p \in Queue, NEW i \in 1 .. Len(r[o]), NEW n \in 1 .. Len(r[p]),
                      r[o][i] = r[p][n]
               PROVE  o = p /\ i = n
    BY DEF Distinct
  <1> DEFINE a == Was(k, j, o, i)
             b == Was(k, j, p, n)
  <1>1. /\ a \in 1 .. Len(q[o]) /\ r[o][i] = q[o][a] /\ ~(o = k /\ a = j)
        /\ b \in 1 .. Len(q[p]) /\ r[p][n] = q[p][b] /\ ~(p = k /\ b = j)
    BY Entries
  <1>2. a = IF o = k /\ ~(i < j) THEN i + 1 ELSE i  BY DEF Was
  <1>3. b = IF p = k /\ ~(n < j) THEN n + 1 ELSE n  BY DEF Was
  <1> HIDE DEF a, b
  <1>4. q[o][a] = q[p][b]  BY <1>1
  <1>5. o = p /\ a = b  BY <1>1, <1>4 DEF Distinct
  <1>6. i \in Int /\ n \in Int /\ j \in Int  BY AtType DEF Without
  <1> QED  BY <1>2, <1>3, <1>5, <1>6

\* An entry that is in none of the other lists, and is not in this one either, is in one place.
LEMMA WithDistinct ==
  ASSUME NEW q \in [Queue -> Seq(Task)], NEW r, NEW k \in Queue, NEW j \in 1 .. Len(q[k]),
         Without(q, r, k, j), Distinct(r),
         \A o \in Queue : \A i \in 1 .. Len(r[o]) : r[o][i] # q[k][j]
  PROVE  Distinct(q)
PROOF
  <1> SUFFICES ASSUME NEW o \in Queue, NEW p \in Queue, NEW i \in 1 .. Len(q[o]), NEW n \in 1 .. Len(q[p]),
                      q[o][i] = q[p][n]
               PROVE  o = p /\ i = n
    BY DEF Distinct
  <1> DEFINE here(x, m) == x = k /\ m = j
             Now(x, m) == IF x = k /\ m > j THEN m - 1 ELSE m
  <1>1. /\ Len(q[k]) \in Nat /\ Len(r[k]) = Len(q[k]) - 1
        /\ \A m \in 1 .. Len(q[k]) - 1 : r[k][m] = IF m < j THEN q[k][m] ELSE q[k][m + 1]
        /\ \A x \in Queue \ {k} : r[x] = q[x] /\ Len(q[x]) \in Nat
    BY AtType DEF Without
  <1>2. ASSUME NEW x \in Queue, NEW m \in 1 .. Len(q[x]), ~here(x, m)
        PROVE  Now(x, m) \in 1 .. Len(r[x]) /\ r[x][Now(x, m)] = q[x][m]
    <2>1. CASE x # k  BY <1>1, <2>1
    <2>2. CASE x = k /\ m < j
      <3>1. m \in 1 .. Len(q[k]) - 1 /\ Now(x, m) = m  BY <1>1, <2>2
      <3> QED  BY <1>1, <2>2, <3>1
    <2>3. CASE x = k /\ m > j
      <3>1. m - 1 \in 1 .. Len(q[k]) - 1 /\ Now(x, m) = m - 1 /\ ~(m - 1 < j) /\ (m - 1) + 1 = m  BY <1>1, <2>3
      <3>2. r[k][m - 1] = q[k][m]  BY <1>1, <3>1
      <3> QED  BY <1>1, <2>3, <3>1, <3>2
    <2> QED  BY <1>1, <1>2, <2>1, <2>2, <2>3
  <1>3. ASSUME NEW x \in Queue, NEW m \in 1 .. Len(q[x]), ~here(x, m)  PROVE q[x][m] # q[k][j]
    <2>1. Now(x, m) \in 1 .. Len(r[x]) /\ r[x][Now(x, m)] = q[x][m]  BY <1>2, <1>3
    <2> HIDE DEF Now
    <2> QED  BY <2>1
  <1>4. CASE here(o, i)  BY <1>3, <1>4
  <1>5. CASE here(p, n)  BY <1>3, <1>5
  <1>6. CASE ~here(o, i) /\ ~here(p, n)
    <2>1. /\ Now(o, i) \in 1 .. Len(r[o]) /\ r[o][Now(o, i)] = q[o][i]
          /\ Now(p, n) \in 1 .. Len(r[p]) /\ r[p][Now(p, n)] = q[p][n]
      BY <1>2, <1>6
    <2> HIDE DEF Now
    <2>2. o = p /\ Now(o, i) = Now(p, n)  BY <2>1 DEF Distinct
    <2>3. i \in Int /\ n \in Int /\ j \in Int  BY AtType
    <2> QED  BY <1>6, <2>2, <2>3 DEF Now
  <1> QED  BY <1>4, <1>5, <1>6

\* Every place a list that is initialised goes through is followed by the next.
LEMMA Followed ==
  ASSUME NEW l, NEW q, Holds(l, q), NEW k \in Queue, l.next[ListHead(k)] # NULL \/ q[k] # <<>>,
         NEW i \in 0 .. Len(q[k])
  PROVE  l.next[At(k, q[k], i)] = At(k, q[k], i + 1)
PROOF  BY DEF Holds, Listed, Chain

\* list_del takes the task out of its sequence.
LEMMA DeleteHolds ==
  ASSUME NEW l \in Links, Agree(l), NEW q, Holds(l, q),
         NEW k \in Queue, NEW j \in 1 .. Len(q[k]), NEW r, Without(q, r, k, j),
         NEW m, m = list_del(l, Anchor(q[k][j])),
         NEW a, a = Anchor(q[k][j]), m.next[a] = NULL
  PROVE  Holds(m, r)
PROOF
  <1> DEFINE P(i) == At(k, q[k], i)
             before == P(j - 1)
             after  == P(j + 1)
  <1>1. /\ q \in [Queue -> Seq(Task)] /\ Distinct(q) /\ AllListed(l, q)
        /\ \A o \in Queue : Listed(l, q, o)
        /\ r \in [Queue -> Seq(Task)]
        /\ \A o \in Queue \ {k} : r[o] = q[o]
    BY DEF Holds, Without
  <1>2. /\ Len(q[k]) \in Nat /\ Len(r[k]) = Len(q[k]) - 1 /\ q[k] # <<>>
        /\ q[k][j] \in Task /\ P(j) = a /\ \A i : P(i) \in Node
    <2>1. Len(q[k]) \in Nat /\ q[k][j] \in Task /\ P(j) = a  BY <1>1, AtType
    <2>2. \A i : P(i) \in Node  BY <1>1, AtType
    <2>3. Len(r[k]) = Len(q[k]) - 1  BY DEF Without
    <2>4. q[k] # <<>>
      <3>1. Len(<<>>) = 0  OBVIOUS
      <3> QED  BY <2>1, <3>1
    <2> QED  BY <2>1, <2>2, <2>3, <2>4
  <1>3. \A i \in 0 .. Len(q[k]) : l.next[P(i)] = P(i + 1)  BY <1>2, Followed
  <1>4. j \in 0 .. Len(q[k]) /\ j - 1 \in 0 .. Len(q[k]) /\ (j - 1) + 1 = j  BY <1>2
  <1>5. l.next[before] = a /\ l.next[a] = after  BY <1>2, <1>3, <1>4
  <1>6. before \in Node /\ after \in Node /\ a \in Node /\ NULL \notin Node  BY <1>2, NodesDiffer
  <1>7. l.prev[a] = before  BY <1>5, <1>6 DEF Agree
  <1>8. before # a
    <2> DEFINE h == j - 1
    <2>1. h \in 0 .. Len(q[k]) /\ h # j  BY <1>2, <1>4
    <2> HIDE DEF h
    <2>a. OnlyAt(q, k, h)  BY <1>1, <2>1, AtOnly
    <2>2. P(h) # P(j)  BY <2>a, <2>1, <1>4 DEF OnlyAt
    <2> QED  BY <2>2, <1>2 DEF h
  <1>9. l.next \in [Node -> Node \cup {NULL}]  BY DEF Links
  <1> HIDE DEF before, after
  <1>10. \A n \in Node : m.next[n] = IF n = a THEN NULL ELSE IF n = before THEN after ELSE l.next[n]
    <2>1. m.next = [l.next EXCEPT ![before] = after, ![a] = NULL]  BY <1>5, <1>7 DEF list_del
    <2> QED  BY <2>1, <1>6, <1>8, <1>9
  <1>11. before = P(j - 1) /\ after = P(j + 1)  BY DEF before, after
  <1>12. ASSUME NEW o \in Queue, NEW i \in 0 .. Len(q[o]), At(o, q[o], i) = a \/ At(o, q[o], i) = before
         PROVE  o = k /\ i \in {j - 1, j}
    <2> DEFINE h == j - 1
    <2>1. h \in 0 .. Len(q[k])  BY <1>4
    <2>2. before = P(h)  BY <1>11
    <2> HIDE DEF h
    <2>a. OnlyAt(q, k, j)  BY <1>1, <1>4, AtOnly
    <2>b. OnlyAt(q, k, h)  BY <1>1, <2>1, AtOnly
    <2>3. At(o, q[o], i) = P(j) => o = k /\ i = j  BY <2>a DEF OnlyAt
    <2>4. At(o, q[o], i) = P(h) => o = k /\ i = h  BY <2>b DEF OnlyAt
    <2> QED  BY <2>2, <2>3, <2>4, <1>2, <1>12 DEF h
  <1>13. ASSUME NEW o \in Queue, o # k  PROVE Listed(m, r, o)
    <2>1. /\ q[o] = r[o] /\ Len(q[o]) \in Nat /\ At(o, q[o], 0) = ListHead(o)
          /\ \A i : At(o, q[o], i) \in Node
      BY <1>1, <1>13, AtType
    <2>2. \A i \in 0 .. Len(q[o]) : m.next[At(o, q[o], i)] = l.next[At(o, q[o], i)]
      BY <1>10, <1>12, <1>13, <2>1
    <2>3. m.next[ListHead(o)] = l.next[ListHead(o)]  BY <2>1, <2>2
    <2>4. Listed(l, q, o)  BY <1>1
    <2> QED  BY <2>1, <2>2, <2>3, <2>4 DEF Listed, Chain
  <1>14. Listed(m, r, k)
    <2>1. /\ \A i \in 0 .. j - 1 : At(k, r[k], i) = P(i)
          /\ \A i \in j .. Len(q[k]) : At(k, r[k], i) = P(i + 1)
      BY <1>1, AtWithout
    <2>2. ASSUME NEW i \in 0 .. Len(r[k])  PROVE m.next[At(k, r[k], i)] = At(k, r[k], i + 1)
      <3>1. CASE i < j - 1
        <4>1. i \in 0 .. j - 1 /\ i + 1 \in 0 .. j - 1 /\ i \in 0 .. Len(q[k]) /\ i \notin {j - 1, j}
          BY <1>2, <3>1
        <4>2. P(i) # a /\ P(i) # before  BY <4>1, <1>12
        <4> QED  BY <4>1, <4>2, <2>1, <1>2, <1>3, <1>10
      <3>2. CASE i = j - 1
        <4>1. i \in 0 .. j - 1 /\ i + 1 = j /\ j \in j .. Len(q[k])  BY <1>2, <3>2
        <4>2. At(k, r[k], i) = before /\ At(k, r[k], i + 1) = after  BY <4>1, <2>1, <1>11, <3>2
        <4> QED  BY <4>2, <1>6, <1>8, <1>10
      <3>3. CASE i >= j
        <4>1. /\ i \in j .. Len(q[k]) /\ i + 1 \in j .. Len(q[k]) /\ i + 1 \in 0 .. Len(q[k])
              /\ i + 1 \notin {j - 1, j}
          BY <1>2, <3>3
        <4>2. P(i + 1) # a /\ P(i + 1) # before  BY <4>1, <1>12
        <4> QED  BY <4>1, <4>2, <2>1, <1>2, <1>3, <1>10
      <3> QED  BY <3>1, <3>2, <3>3, <1>2
    <2>3. m.next[ListHead(k)] # NULL
      <3>1. 0 \in 0 .. Len(r[k]) /\ 0 + 1 = 1  BY <1>2
      <3>2. m.next[At(k, r[k], 0)] = At(k, r[k], 1)  BY <2>2, <3>1
      <3>3. At(k, r[k], 0) = ListHead(k) /\ At(k, r[k], 1) \in Node  BY <1>1, AtType
      <3> QED  BY <3>2, <3>3, <1>6
    <2> QED  BY <2>2, <2>3 DEF Listed, Chain
  <1>15. AllListed(m, r)
    <2> SUFFICES ASSUME NEW t \in Task, m.next[Anchor(t)] # NULL
                 PROVE  \E o \in Queue : \E i \in 1 .. Len(r[o]) : r[o][i] = t
      BY DEF AllListed
    <2>1. Anchor(t) \in Node /\ Anchor(t) # a  BY NodesDiffer
    <2>2. l.next[Anchor(t)] # NULL  BY <2>1, <1>5, <1>6, <1>10
    <2>a. PICK o \in Queue : \E n \in 1 .. Len(q[o]) : q[o][n] = t  BY <2>2, <1>1 DEF AllListed
    <2>3. PICK n \in 1 .. Len(q[o]) : q[o][n] = t  BY <2>a
    <2>4. ~(o = k /\ n = j)  BY <2>1, <2>3
    <2>5. OthersStay(q, r, k, j)  BY <1>1, Entries
    <2>6. \E i \in 1 .. Len(r[o]) : r[o][i] = q[o][n]  BY <2>4, <2>5 DEF OthersStay
    <2> QED  BY <2>3, <2>6
  <1>16. Distinct(r)  BY <1>1, WithoutDistinct
  <1> QED  BY <1>1, <1>13, <1>14, <1>15, <1>16 DEF Holds

\* __list_add puts a task that is in no list at its place in the sequence.
LEMMA InsertHolds ==
  ASSUME NEW l \in Links, NEW q, Holds(l, q),
         NEW k \in Queue, l.next[ListHead(k)] # NULL,
         NEW r, NEW j \in 1 .. Len(r[k]), Without(r, q, k, j), r \in [Queue -> Seq(Task)],
         NEW t \in Task, t = r[k][j], l.next[Anchor(t)] = NULL,
         NEW before, before = At(k, q[k], j - 1), NEW after, after = At(k, q[k], j),
         NEW m, m = list_add_between(l, Anchor(t), before, after)
  PROVE  Holds(m, r)
PROOF
  <1> DEFINE a == Anchor(t)
             P(i) == At(k, q[k], i)
  <1>1. /\ q \in [Queue -> Seq(Task)] /\ Distinct(q) /\ AllListed(l, q)
        /\ \A o \in Queue : Listed(l, q, o)
        /\ \A o \in Queue \ {k} : q[o] = r[o]
    BY DEF Holds, Without
  <1>2. /\ Len(q[k]) \in Nat /\ Len(r[k]) \in Nat /\ Len(q[k]) = Len(r[k]) - 1
        /\ \A i : P(i) \in Node
    BY <1>1, AtType DEF Without
  <1>3. \A i \in 0 .. Len(q[k]) : l.next[P(i)] = P(i + 1)  BY Followed
  <1>4. j - 1 \in 0 .. Len(q[k]) /\ (j - 1) + 1 = j  BY <1>2
  <1>5. before \in Node /\ after \in Node /\ a \in Node /\ NULL \notin Node  BY <1>2, NodesDiffer
  <1>6. l.next[before] = after  BY <1>3, <1>4
  <1>7. before # a  BY <1>5, <1>6
  <1>8. l.next \in [Node -> Node \cup {NULL}]  BY DEF Links
  <1>9. \A n \in Node : m.next[n] = IF n = a THEN after ELSE IF n = before THEN a ELSE l.next[n]
    <2>1. m.next = [l.next EXCEPT ![a] = after, ![before] = a]  BY DEF list_add_between
    <2> HIDE DEF a
    <2> QED  BY <2>1, <1>5, <1>7, <1>8
  <1>10. ASSUME NEW o \in Queue, NEW i \in 0 .. Len(q[o]), At(o, q[o], i) = before
         PROVE  o = k /\ i = j - 1
    <2> DEFINE h == j - 1
    <2>1. h \in 0 .. Len(q[k])  BY <1>4
    <2>2. before = At(k, q[k], h)  OBVIOUS
    <2> HIDE DEF h
    <2>a. OnlyAt(q, k, h)  BY <1>1, <2>1, AtOnly
    <2>3. At(o, q[o], i) = At(k, q[k], h) => o = k /\ i = h  BY <2>a DEF OnlyAt
    <2> QED  BY <2>2, <2>3, <1>10 DEF h
  <1>11. ASSUME NEW o \in Queue, NEW i \in 1 .. Len(q[o])  PROVE q[o][i] # t
    <2>1. /\ Len(q[o]) \in Nat /\ q[o] # <<>> /\ i \in 0 .. Len(q[o])
          /\ At(o, q[o], i) = Anchor(q[o][i]) /\ At(o, q[o], i + 1) \in Node
      <3>1. Len(q[o]) \in Nat /\ At(o, q[o], i) = Anchor(q[o][i])  BY <1>1, AtType
      <3>2. \A x : At(o, q[o], x) \in Node  BY <1>1, AtType
      <3>3. Len(<<>>) = 0  OBVIOUS
      <3> QED  BY <3>1, <3>2, <3>3
    <2>2. l.next[At(o, q[o], i)] = At(o, q[o], i + 1)  BY <2>1, Followed
    <2> QED  BY <2>1, <2>2, <1>5
  <1>12. ASSUME NEW o \in Queue, NEW i \in 0 .. Len(q[o])  PROVE At(o, q[o], i) # a
    <2>1. CASE i = 0
      <3>1. At(o, q[o], i) = ListHead(o)  BY <1>1, <2>1, AtType
      <3> QED  BY <3>1, NodesDiffer
    <2>2. CASE i \in 1 .. Len(q[o])
      <3>1. At(o, q[o], i) = Anchor(q[o][i]) /\ q[o][i] \in Task  BY <1>1, <2>2, AtType
      <3>2. Anchor(q[o][i])[2] = q[o][i] /\ Anchor(t)[2] = t  BY <3>1, NodesDiffer
      <3> QED  BY <3>1, <3>2, <2>2, <1>11
    <2>3. Len(q[o]) \in Nat  BY <1>1, AtType
    <2> QED  BY <2>1, <2>2, <2>3
  <1>13. ASSUME NEW o \in Queue, o # k  PROVE Listed(m, r, o)
    <2>1. /\ q[o] = r[o] /\ Len(q[o]) \in Nat /\ At(o, q[o], 0) = ListHead(o)
          /\ \A i : At(o, q[o], i) \in Node
      BY <1>1, <1>13, AtType
    <2>2. \A i \in 0 .. Len(q[o]) : m.next[At(o, q[o], i)] = l.next[At(o, q[o], i)]
      BY <1>9, <1>10, <1>12, <1>13, <2>1
    <2>3. m.next[ListHead(o)] = l.next[ListHead(o)]  BY <2>1, <2>2
    <2>4. Listed(l, q, o)  BY <1>1
    <2> QED  BY <2>1, <2>2, <2>3, <2>4 DEF Listed, Chain
  <1>14. Listed(m, r, k)
    <2>1. /\ \A i \in 0 .. j - 1 : P(i) = At(k, r[k], i)
          /\ \A i \in j .. Len(r[k]) : P(i) = At(k, r[k], i + 1)
      BY AtWithout
    <2>2. At(k, r[k], j) = a  BY DEF At
    <2>3. ASSUME NEW i \in 0 .. Len(r[k])  PROVE m.next[At(k, r[k], i)] = At(k, r[k], i + 1)
      <3>1. CASE i < j - 1
        <4>1. i \in 0 .. j - 1 /\ i + 1 \in 0 .. j - 1 /\ i \in 0 .. Len(q[k]) /\ i # j - 1
          BY <1>2, <3>1
        <4>2. P(i) # a /\ P(i) # before  BY <4>1, <1>10, <1>12
        <4> QED  BY <4>1, <4>2, <2>1, <1>2, <1>3, <1>9
      <3>2. CASE i = j - 1
        <4>1. i \in 0 .. j - 1 /\ i + 1 = j  BY <1>2, <3>2
        <4>2. At(k, r[k], i) = before /\ At(k, r[k], i + 1) = a  BY <4>1, <2>1, <2>2, <3>2
        <4> QED  BY <4>2, <1>5, <1>7, <1>9
      <3>3. CASE i = j
        <4>1. At(k, r[k], i) = a /\ At(k, r[k], i + 1) = after  BY <2>1, <2>2, <3>3
        <4> QED  BY <4>1, <1>5, <1>9
      <3>4. CASE i > j
        <4>1. /\ i \in j .. Len(r[k]) /\ i - 1 \in j .. Len(r[k]) /\ i - 1 \in 0 .. Len(q[k])
              /\ i - 1 # j - 1 /\ (i - 1) + 1 = i
          BY <1>2, <3>4
        <4>2. P(i - 1) # a /\ P(i - 1) # before  BY <4>1, <1>10, <1>12
        <4>3. P(i - 1) = At(k, r[k], i) /\ P(i) = At(k, r[k], i + 1)  BY <4>1, <2>1
        <4>4. l.next[P(i - 1)] = P(i)  BY <4>1, <1>3
        <4> QED  BY <4>2, <4>3, <4>4, <1>2, <1>9
      <3> QED  BY <3>1, <3>2, <3>3, <3>4, <1>2
    <2>4. m.next[ListHead(k)] # NULL
      <3>1. 0 \in 0 .. Len(r[k]) /\ 0 + 1 = 1  BY <1>2
      <3>2. m.next[At(k, r[k], 0)] = At(k, r[k], 1)  BY <2>3, <3>1
      <3>3. At(k, r[k], 0) = ListHead(k) /\ At(k, r[k], 1) \in Node  BY <1>1, AtType
      <3> QED  BY <3>2, <3>3, <1>5
    <2> QED  BY <2>3, <2>4 DEF Listed, Chain
  <1>15. AllListed(m, r)
    <2> SUFFICES ASSUME NEW x \in Task, m.next[Anchor(x)] # NULL
                 PROVE  \E o \in Queue : \E i \in 1 .. Len(r[o]) : r[o][i] = x
      BY DEF AllListed
    <2>1. CASE x = t  BY <2>1
    <2>2. CASE x # t
      <3>1. Anchor(x) \in Node /\ Anchor(x) # a  BY <2>2, NodesDiffer
      <3>2. CASE l.next[Anchor(x)] # NULL
        <4>a. PICK o \in Queue : \E n \in 1 .. Len(q[o]) : q[o][n] = x
          BY <3>2, <1>1 DEF AllListed
        <4>1. PICK n \in 1 .. Len(q[o]) : q[o][n] = x  BY <4>a
        <4>2. Was(k, j, o, n) \in 1 .. Len(r[o]) /\ q[o][n] = r[o][Was(k, j, o, n)]  BY Entries
        <4> QED  BY <4>1, <4>2
      <3>3. CASE l.next[Anchor(x)] = NULL
        <4>1. Anchor(x) = before /\ after # NULL  BY <3>1, <3>3, <1>5, <1>9
        <4> QED  BY <4>1, <3>3, <1>6
      <3> QED  BY <3>2, <3>3
    <2> QED  BY <2>1, <2>2
  <1>16. Distinct(r)
    <2>1. \A o \in Queue : \A i \in 1 .. Len(q[o]) : q[o][i] # r[k][j]  BY <1>11
    <2> QED  BY <2>1, <1>1, WithDistinct
  <1> QED  BY <1>13, <1>14, <1>15, <1>16 DEF Holds

-----------------------------------------------------------------------------
(* What ProcessTable says of the sequences. *)

P == INSTANCE ProcessTableProofs WITH DEFAULT_QUANTUM <- 1

LEMMA SameNames ==
  /\ P!Queue = Queue /\ P!Task = Task /\ Queues!Queue = Queue /\ Queues!Task = Task
  /\ Queues!NULL = None
  /\ P!TasksAssumption /\ P!QuantumAssumption /\ P!SemAssumption
PROOF
  BY ListsAssumption
  DEF P!Queue, P!Task, Queue, Task, Queues!Queue, Queues!Task, Queues!NULL, None,
      P!TasksAssumption, P!QuantumAssumption, P!SemAssumption

LEMMA SameRemoveFirst == \A s, e : P!RemoveFirst(s, e) = Queues!RemoveFirst(s, e)
PROOF
  BY DEF P!RemoveFirst, Queues!RemoveFirst, P!RemoveAt, Queues!RemoveAt,
         P!SelectInSeq, Queues!SelectInSeq, P!Min, Queues!Min

\* list_del of ProcessTable takes a task that is in a list out of it.
LEMMA UnlinkedPresent ==
  ASSUME NEW q \in [Queue -> Seq(Task)], Distinct(q),
         NEW k \in Queue, NEW i \in 1 .. Len(q[k]), NEW t, t = q[k][i]
  PROVE  Without(q, Queues!list_del(q, t), k, i)
PROOF
  <1> DEFINE r == Queues!list_del(q, t)
  <1>1. \A o \in Queue : q[o] \in Seq(Task) /\ DOMAIN q[o] = 1 .. Len(q[o]) /\ Len(q[o]) \in Nat
    BY LenProperties
  <1>2. \A o \in Queue : r[o] = Queues!RemoveFirst(q[o], t)  BY SameNames DEF Queues!list_del
  <1>3. DOMAIN r = Queue /\ r = [o \in Queue |-> r[o]]  BY SameNames DEF Queues!list_del
  <1> HIDE DEF r
  <1>4. ASSUME NEW o \in Queue \ {k}  PROVE r[o] = q[o]
    <2>1. ~ \E n \in 1 .. Len(q[o]) : q[o][n] = t  BY <1>4 DEF Distinct
    <2> QED  BY <2>1, <1>2 DEF Queues!RemoveFirst
  <1>5. P!OneLess(r[k], q[k], t, Task)
    <2>1. t \in P!ToSet(q[k])  BY <1>1 DEF P!ToSet
    <2>2. P!OneLess(P!RemoveFirst(q[k], t), q[k], t, Task)
      BY <1>1, <2>1, SameNames, P!RemoveFirstPresent
    <2>3. r[k] = P!RemoveFirst(q[k], t)  BY <1>2, SameRemoveFirst
    <2> QED  BY <2>2, <2>3
  <1>6. PICK n \in 1 .. Len(q[k]) :
          /\ q[k][n] = t /\ r[k] \in Seq(Task) /\ Len(r[k]) = Len(q[k]) - 1
          /\ \A j \in 1 .. Len(q[k]) - 1 : r[k][j] = IF j < n THEN q[k][j] ELSE q[k][j + 1]
    BY <1>5 DEF P!OneLess
  <1>7. n = i  BY <1>6 DEF Distinct
  <1>8. r \in [Queue -> Seq(Task)]
    <2>1. \A o \in Queue : r[o] \in Seq(Task)  BY <1>1, <1>4, <1>6
    <2> QED  BY <2>1, <1>3
  <1>9. Without(q, r, k, i)  BY <1>4, <1>6, <1>7, <1>8 DEF Without
  <1> QED  BY <1>9 DEF r

\* And leaves the lists as they are when it is in none.
LEMMA UnlinkedAbsent ==
  ASSUME NEW q \in [Queue -> Seq(Task)], NEW t,
         \A k \in Queue : \A i \in 1 .. Len(q[k]) : q[k][i] # t
  PROVE  Queues!list_del(q, t) = q
PROOF
  <1>1. \A k \in Queue : Queues!RemoveFirst(q[k], t) = q[k]  BY DEF Queues!RemoveFirst
  <1>2. q = [k \in Queue |-> q[k]]  OBVIOUS
  <1> QED  BY <1>1, <1>2, SameNames DEF Queues!list_del

PutIn(q, k, t, is_first) == [q EXCEPT ![k] = Queues!list_insert(@, t, is_first)]
PlaceOf(q, k, is_first)  == IF is_first THEN 1 ELSE Len(q[k]) + 1

IsPut(r, q, k, j, t) ==
  /\ r \in [Queue -> Seq(Task)] /\ Without(r, q, k, j)
  /\ j \in 1 .. Len(r[k]) /\ r[k][j] = t

\* list_insert of ProcessTable puts a task in front or behind.
LEMMA Linked ==
  ASSUME NEW q \in [Queue -> Seq(Task)], NEW k \in Queue, NEW t \in Task, NEW is_first \in BOOLEAN
  PROVE  IsPut(PutIn(q, k, t, is_first), q, k, PlaceOf(q, k, is_first), t)
PROOF
  <1> DEFINE r == PutIn(q, k, t, is_first)
             j == PlaceOf(q, k, is_first)
  <1>a. r = [q EXCEPT ![k] = Queues!list_insert(@, t, is_first)]  BY DEF PutIn
  <1>b. j = IF is_first THEN 1 ELSE Len(q[k]) + 1  BY DEF PlaceOf
  <1> HIDE DEF r, j
  <1>1. q[k] \in Seq(Task) /\ Len(q[k]) \in Nat  BY LenProperties
  <1>2. r[k] = Queues!list_insert(q[k], t, is_first) /\ \A o \in Queue \ {k} : r[o] = q[o]
    BY <1>a
  <1>3. /\ r[k] \in Seq(Task) /\ Len(r[k]) = Len(q[k]) + 1 /\ r[k][j] = t
        /\ \A i \in 1 .. Len(q[k]) : q[k][i] = IF i < j THEN r[k][i] ELSE r[k][i + 1]
    <2>1. CASE is_first
      <3> DEFINE one == <<t>>
                 s == q[k]
      <3>1. r[k] = one \o s /\ j = 1  BY <1>2, <1>b, <2>1 DEF Queues!list_insert
      <3>2. one \in Seq(Task) /\ Len(one) = 1 /\ one[1] = t  OBVIOUS
      <3>a. s \in Seq(Task)  BY <1>1
      <3> HIDE DEF one, s
      <3>b. /\ one \o s \in Seq(Task) /\ Len(one \o s) = Len(one) + Len(s)
            /\ \A i \in 1 .. Len(one) + Len(s) :
                 (one \o s)[i] = IF i <= Len(one) THEN one[i] ELSE s[i - Len(one)]
        BY <3>2, <3>a, ConcatProperties
      <3>c. /\ r[k] \in Seq(Task) /\ Len(r[k]) = 1 + Len(s)
            /\ \A i \in 1 .. 1 + Len(s) : r[k][i] = IF i <= 1 THEN one[i] ELSE s[i - 1]
        BY <3>1, <3>2, <3>b
      <3>3. /\ r[k] \in Seq(Task) /\ Len(r[k]) = 1 + Len(q[k])
            /\ \A i \in 1 .. 1 + Len(q[k]) : r[k][i] = IF i <= 1 THEN one[i] ELSE q[k][i - 1]
        BY <3>c DEF s
      <3>4. ASSUME NEW i \in 1 .. Len(q[k])  PROVE q[k][i] = r[k][i + 1]
        <4>1. i + 1 \in 1 .. 1 + Len(q[k]) /\ ~(i + 1 <= 1) /\ (i + 1) - 1 = i  BY <1>1
        <4> QED  BY <4>1, <3>3
      <3>5. r[k][1] = t
        <4>1. 1 \in 1 .. 1 + Len(q[k]) /\ 1 <= 1  BY <1>1
        <4> QED  BY <4>1, <3>2, <3>3
      <3>6. \A i \in 1 .. Len(q[k]) : ~(i < 1)  BY <1>1
      <3> QED  BY <1>1, <3>1, <3>3, <3>4, <3>5, <3>6
    <2>2. CASE ~is_first
      <3>1. r[k] = Append(q[k], t) /\ j = Len(q[k]) + 1
        BY <1>2, <1>b, <2>2 DEF Queues!list_insert
      <3> DEFINE s == q[k]
      <3>a. s \in Seq(Task)  BY <1>1
      <3> HIDE DEF s
      <3>b. /\ Append(s, t) \in Seq(Task) /\ Len(Append(s, t)) = Len(s) + 1
            /\ \A i \in 1 .. Len(s) : Append(s, t)[i] = s[i]
            /\ Append(s, t)[Len(s) + 1] = t
        BY <3>a, AppendProperties
      <3>2. /\ r[k] \in Seq(Task) /\ Len(r[k]) = Len(q[k]) + 1
            /\ \A i \in 1 .. Len(q[k]) : r[k][i] = q[k][i]
            /\ r[k][Len(q[k]) + 1] = t
        BY <3>1, <3>b DEF s
      <3>3. \A i \in 1 .. Len(q[k]) : i < Len(q[k]) + 1  BY <1>1
      <3> QED  BY <3>1, <3>2, <3>3
    <2> QED  BY <2>1, <2>2
  <1>4. j \in 1 .. Len(r[k])  BY <1>b, <1>1, <1>3
  <1>5. r \in [Queue -> Seq(Task)]  BY <1>a, <1>2, <1>3
  <1>6. Len(r[k]) - 1 = Len(q[k])  BY <1>1, <1>3
  <1>7. Without(r, q, k, j)  BY <1>1, <1>2, <1>3, <1>6 DEF Without
  <1>8. IsPut(r, q, k, j, t)  BY <1>3, <1>4, <1>5, <1>7 DEF IsPut
  <1> QED  BY <1>8 DEF r, j

\* An entry of list k is linked, and the places behind it point back.
LEMMA EntryLinked ==
  ASSUME NEW l \in Links, NEW q, Holds(l, q), NEW k \in Queue, NEW i \in 1 .. Len(q[k])
  PROVE  l.next[Anchor(q[k][i])] # NULL
PROOF
  <1>1. q \in [Queue -> Seq(Task)]  BY DEF Holds
  <1>2. Len(q[k]) \in Nat /\ At(k, q[k], i) = Anchor(q[k][i])  BY <1>1, AtType
  <1>3. \A n : At(k, q[k], n) \in Node  BY <1>1, AtType
  <1>4. q[k] # <<>>
    <2>1. Len(<<>>) = 0  OBVIOUS
    <2> QED  BY <2>1, <1>2
  <1>5. i \in 0 .. Len(q[k])  BY <1>2
  <1>6. l.next[At(k, q[k], i)] = At(k, q[k], i + 1)  BY <1>4, <1>5, Followed
  <1>7. At(k, q[k], i + 1) \in Node /\ NULL \notin Node  BY <1>3, NodesDiffer
  <1> QED  BY <1>2, <1>6, <1>7

\* update_process_state on the pointers does to the sequences what relink of ProcessTable says.
LEMMA Relinked ==
  ASSUME NEW l, NEW owner, NEW rank, Shape(l, owner, rank), NEW q, Holds(l, q),
         NEW t \in Task, NEW dest \in Queue \cup {None}, NEW is_first \in BOOLEAN,
         dest # None => l.next[ListHead(dest)] # NULL
  PROVE  Holds(update_process_state(l, t, dest, is_first), Queues!relink(q, t, dest, is_first))
PROOF
  <1> DEFINE a == Anchor(t)
             u == IF l.next[a] # NULL /\ l.prev[a] # NULL THEN list_del(l, a) ELSE l
             v == Queues!list_del(q, t)
  <1>1. a \in Anchors /\ a \in Node /\ l \in Links /\ Agree(l) /\ q \in [Queue -> Seq(Task)] /\ Distinct(q)
    BY NodesDiffer DEF Shape, Holds
  <1>2. l.next[a] # NULL <=> l.prev[a] # NULL  BY <1>1 DEF Agree
  <1>3. /\ Shape(u, owner, rank) /\ u.next[a] = NULL /\ Holds(u, v)
        /\ \A n \in Node : n # a => (u.next[n] # NULL <=> l.next[n] # NULL)
    <2>1. CASE l.next[a] # NULL
      <3>1. u = list_del(l, a)  BY <2>1, <1>2
      <3> DEFINE m == list_del(l, a)
      <3>2. m = list_del(l, Anchor(t))  OBVIOUS
      <3>a. PICK k \in Queue : \E i \in 1 .. Len(q[k]) : q[k][i] = t
        BY <2>1 DEF Holds, AllListed
      <3>3. PICK i \in 1 .. Len(q[k]) : q[k][i] = t  BY <3>a
      <3>4. Without(q, v, k, i)  BY <1>1, <3>3, UnlinkedPresent
      <3> HIDE DEF u, a, v
      <3>5. /\ Shape(m, owner, rank) /\ m.next[a] = NULL
            /\ \A n \in Node : n # a => (m.next[n] # NULL <=> l.next[n] # NULL)
        BY <1>1, <2>1, Deleted
      <3>6. m = list_del(l, Anchor(q[k][i])) /\ a = Anchor(q[k][i])  BY <3>2, <3>3 DEF a
      <3> HIDE DEF m
      <3>7. Holds(m, v)  BY <1>1, <3>4, <3>5, <3>6, DeleteHolds
      <3> QED  BY <3>1, <3>5, <3>7 DEF m
    <2>2. CASE l.next[a] = NULL
      <3>1. u = l  BY <2>2
      <3>2. \A k \in Queue : \A i \in 1 .. Len(q[k]) : q[k][i] # t
        BY <1>1, <2>2, EntryLinked
      <3>3. v = q  BY <1>1, <3>2, UnlinkedAbsent
      <3> QED  BY <2>2, <3>1, <3>3
    <2> QED  BY <2>1, <2>2
  <1>4. CASE dest = None
    <2>1. update_process_state(l, t, dest, is_first) = u  BY <1>4 DEF update_process_state
    <2>2. Queues!relink(q, t, dest, is_first) = v  BY <1>4, SameNames DEF Queues!relink
    <2> QED  BY <2>1, <2>2, <1>3
  <1>5. CASE dest # None
    <2>1. dest \in Queue /\ ListHead(dest) \in Node /\ ListHead(dest) # a
      BY <1>5, <1>1, NodesDiffer
    <2>2. u.next[ListHead(dest)] # NULL  BY <2>1, <1>3, <1>5
    <2> DEFINE h == ListHead(dest)
               before == IF is_first THEN h ELSE u.prev[h]
               after  == IF is_first THEN u.next[h] ELSE h
               m == list_add_between(u, a, before, after)
               r == [v EXCEPT ![dest] = Queues!list_insert(@, t, is_first)]
               j == IF is_first THEN 1 ELSE Len(v[dest]) + 1
    <2>3. update_process_state(l, t, dest, is_first) = m
      BY <1>5 DEF update_process_state, list_add, list_add_tail
    <2>4. Queues!relink(q, t, dest, is_first) = r  BY <1>5, SameNames DEF Queues!relink
    <2>a. u.next[Anchor(t)] = NULL  BY <1>3
    <2>b. m = list_add_between(u, Anchor(t), before, after)  OBVIOUS
    <2> HIDE DEF u, v, a
    <2>5. v \in [Queue -> Seq(Task)] /\ Len(v[dest]) \in Nat
      <3>1. v \in [Queue -> Seq(Task)]  BY <1>3 DEF Holds
      <3> QED  BY <3>1, <2>1, AtType
    <2>6. /\ r \in [Queue -> Seq(Task)] /\ Without(r, v, dest, j)
          /\ j \in 1 .. Len(r[dest]) /\ r[dest][j] = t
      <3> HIDE DEF r, j
      <3>1. r = PutIn(v, dest, t, is_first)  BY DEF r, PutIn
      <3>2. j = PlaceOf(v, dest, is_first)  BY DEF j, PlaceOf
      <3>3. v \in [Queue -> Seq(Task)] /\ dest \in Queue  BY <2>1, <2>5
      <3>4. IsPut(PutIn(v, dest, t, is_first), v, dest, PlaceOf(v, dest, is_first), t)  BY <3>3, Linked
      <3> QED  BY <3>1, <3>2, <3>4 DEF IsPut
    <2>7. u \in Links /\ Agree(u)  BY <1>3 DEF Shape
    <2>8. before = At(dest, v[dest], j - 1) /\ after = At(dest, v[dest], j)
      <3>1. At(dest, v[dest], 0) = h /\ At(dest, v[dest], Len(v[dest]) + 1) = h
        BY <2>1, <2>5, AtType
      <3>n. \A i : At(dest, v[dest], i) \in Node  BY <2>1, <2>5, AtType
      <3> DEFINE last == Len(v[dest])
      <3>2. last \in 0 .. Len(v[dest]) /\ 0 \in 0 .. Len(v[dest]) /\ 0 + 1 = 1  BY <2>5
      <3> HIDE DEF last
      <3>3. u.next[At(dest, v[dest], 0)] = At(dest, v[dest], 1)
        BY <1>3, <2>1, <2>2, <3>2, Followed
      <3>4. u.next[At(dest, v[dest], last)] = At(dest, v[dest], last + 1)
        BY <1>3, <2>1, <2>2, <3>2, Followed
      <3>5. u.next[At(dest, v[dest], last)] = h  BY <3>1, <3>4 DEF last
      <3>6. u.prev[h] = At(dest, v[dest], last)
        <4>1. h \in Node /\ NULL \notin Node  BY <2>1, NodesDiffer
        <4>2. At(dest, v[dest], last) \in Node  BY <3>n
        <4> HIDE DEF h
        <4> QED  BY <4>1, <4>2, <3>5, <2>7 DEF Agree
      <3>7. CASE is_first  BY <3>7, <3>1, <3>3
      <3>8. CASE ~is_first
        <4>1. j - 1 = last /\ j = Len(v[dest]) + 1  BY <3>8, <2>5 DEF last
        <4> QED  BY <4>1, <3>8, <3>1, <3>6
      <3> QED  BY <3>7, <3>8
    <2> HIDE DEF before, after, m, r, j
    <2>9. Holds(u, v) /\ u.next[ListHead(dest)] # NULL  BY <1>3, <2>2
    <2>10. Holds(m, r)  BY <2>1, <2>6, <2>7, <2>8, <2>9, <2>a, <2>b, InsertHolds
    <2> QED  BY <2>3, <2>4, <2>10
  <1> QED  BY <1>4, <1>5

-----------------------------------------------------------------------------
(* The tasks that following the pointers finds are those of the sequence. *)

\* What Tasks follows: the i-th place, and nothing where the pointers end.
Follow(l, k, node) ==
  node = [i \in 0 .. NR_TASKS |->
            IF i = 0 THEN ListHead(k)
            ELSE IF node[i - 1] = NULL THEN NULL ELSE l.next[node[i - 1]]]

\* How many of the places are entries.
Stops(node, n) ==
  /\ \A i \in 1 .. n : node[i] \in Anchors
  /\ n < NR_TASKS => node[n + 1] \notin Anchors

\* Tasks(k) of the lists l.
TasksIn(l, k) ==
  LET node[i \in 0 .. NR_TASKS] ==
        IF i = 0 THEN ListHead(k) ELSE IF node[i - 1] = NULL THEN NULL ELSE l.next[node[i - 1]]
      n == CHOOSE n \in 0 .. NR_TASKS :
             /\ \A i \in 1 .. n : node[i] \in Anchors
             /\ n < NR_TASKS => node[n + 1] \notin Anchors
  IN  [i \in 1 .. n |-> node[i][2]]

\* A list has no more entries than there are tasks.
LEMMA ListFits ==
  ASSUME NEW q \in [Queue -> Seq(Task)], Distinct(q), NEW k \in Queue
  PROVE  Len(q[k]) <= NR_TASKS
PROOF
  <1>1. /\ q[k] \in Seq(Task) /\ Len(q[k]) \in Nat
        /\ \A i \in 1 .. Len(q[k]) : q[k][i] \in Task
        /\ q[k] \in [1 .. Len(q[k]) -> Task]
    BY LenProperties, ElementOfSeq
  <1>2. NR_TASKS \in Nat  BY ListsAssumption
  <1>3. IsFiniteSet(Task) /\ Cardinality(Task) = NR_TASKS
    <2>1. IsFiniteSet(0 .. NR_TASKS - 1) /\ Cardinality(0 .. NR_TASKS - 1) = 
             IF 0 <= NR_TASKS - 1 THEN (NR_TASKS - 1) - 0 + 1 ELSE 0
      BY <1>2, FS_Interval
    <2> QED  BY <2>1, <1>2 DEF Task
  <1>4. IsFiniteSet(1 .. Len(q[k])) /\ Cardinality(1 .. Len(q[k])) = Len(q[k])
    <2>1. IsFiniteSet(1 .. Len(q[k])) /\ Cardinality(1 .. Len(q[k])) =
             IF 1 <= Len(q[k]) THEN Len(q[k]) - 1 + 1 ELSE 0
      BY <1>1, FS_Interval
    <2> QED  BY <2>1, <1>1
  <1>5. \A i, n \in 1 .. Len(q[k]) : q[k][i] = q[k][n] => i = n  BY DEF Distinct
  <1>6. q[k] \in Injection(1 .. Len(q[k]), Task)  BY <1>1, <1>5 DEF Injection, IsInjective
  <1>7. Cardinality(1 .. Len(q[k])) <= Cardinality(Task)  BY <1>3, <1>4, <1>6, FS_Injection
  <1> QED  BY <1>3, <1>4, <1>7

\* Induction up to a bound: the smallest number not in T has a predecessor that is.
LEMMA UpTo ==
  ASSUME NEW n \in Nat, NEW T, 0 \in T, \A i \in 1 .. n : i - 1 \in T => i \in T
  PROVE  \A i \in 0 .. n : i \in T
PROOF
  <1> SUFFICES ASSUME (0 .. n) \ T # {}  PROVE FALSE  OBVIOUS
  <1>1. PICK x \in (0 .. n) \ T : \A y \in (0 .. n) \ T : ~ (<<y, x>> \in OpToRel(<, Nat))
    <2>1. (0 .. n) \ T \subseteq Nat  OBVIOUS
    <2> QED  BY <2>1, NatLessThanWellFounded, WFMin
  <1>2. x \in 0 .. n /\ x \notin T  BY Zenon
  <1>3. x \in 1 .. n /\ x - 1 \in 0 .. n /\ x - 1 \in Nat /\ x \in Nat  BY <1>2
  <1>4. <<x - 1, x>> \in OpToRel(<, Nat)
    <2>1. x - 1 < x  BY <1>3
    <2> QED  BY <1>3, <2>1, Zenon DEF OpToRel
  <1>5. x - 1 \in T  BY <1>1, <1>3, <1>4
  <1> QED  BY <1>2, <1>3, <1>5

\* The pointers can be followed as far as there may be entries.
LEMMA FollowExists ==
  ASSUME NEW l \in Links, NEW k \in Queue
  PROVE  \E node : Follow(l, k, node)
PROOF
  <1> DEFINE S == Node \cup {NULL}
             step(x) == IF x = NULL THEN NULL ELSE l.next[x]
             Good(f, m) == f[0] = ListHead(k) /\ \A i \in 1 .. m : f[i] = step(f[i - 1])
             T == {m \in 0 .. NR_TASKS : \E f \in [0 .. NR_TASKS -> S] : Good(f, m)}
  <1>1. NR_TASKS \in Nat /\ ListHead(k) \in S  BY ListsAssumption, NodesDiffer
  <1>2. \A x \in S : step(x) \in S  BY DEF Links
  <1> HIDE DEF step, S
  <1>3. 0 \in T
    <2>1. [i \in 0 .. NR_TASKS |-> ListHead(k)] \in [0 .. NR_TASKS -> S]  BY <1>1
    <2>2. Good([i \in 0 .. NR_TASKS |-> ListHead(k)], 0)  BY <1>1
    <2>3. \E f \in [0 .. NR_TASKS -> S] : Good(f, 0)
      <3> HIDE DEF Good
      <3> QED  BY <2>1, <2>2
    <2> QED  BY <2>3, <1>1
  <1>4. ASSUME NEW m \in 1 .. NR_TASKS, m - 1 \in T  PROVE m \in T
    <2>1. PICK f \in [0 .. NR_TASKS -> S] : Good(f, m - 1)  BY <1>4
    <2>2. m - 1 \in 0 .. NR_TASKS /\ m \in 0 .. NR_TASKS  BY <1>1
    <2>3. f[m - 1] \in S  BY <2>2
    <2>4. step(f[m - 1]) \in S  BY <2>3, <1>2
    <2> DEFINE g == [f EXCEPT ![m] = step(f[m - 1])]
    <2>5. g \in [0 .. NR_TASKS -> S]  BY <2>4
    <2>6. \A i \in 0 .. NR_TASKS : g[i] = IF i = m THEN step(f[m - 1]) ELSE f[i]  OBVIOUS
    <2> HIDE DEF g
    <2>7. g[0] = ListHead(k)  BY <2>1, <2>6, <1>1
    <2>8. ASSUME NEW i \in 1 .. m  PROVE g[i] = step(g[i - 1])
      <3>1. i \in 0 .. NR_TASKS /\ i - 1 \in 0 .. NR_TASKS /\ i - 1 # m  BY <1>1
      <3>2. CASE i = m  BY <3>1, <3>2, <2>6
      <3>3. CASE i # m
        <4>1. i \in 1 .. m - 1  BY <3>3
        <4> QED  BY <3>1, <3>3, <4>1, <2>1, <2>6
      <3> QED  BY <3>2, <3>3
    <2> QED  BY <2>2, <2>5, <2>7, <2>8
  <1>5. NR_TASKS \in T
    <2> HIDE DEF T
    <2>1. \A m \in 1 .. NR_TASKS : m - 1 \in T => m \in T  BY <1>4
    <2>2. \A m \in 0 .. NR_TASKS : m \in T  BY <1>1, <1>3, <2>1, UpTo
    <2> QED  BY <2>2, <1>1
  <1>6. PICK f \in [0 .. NR_TASKS -> S] : Good(f, NR_TASKS)  BY <1>5
  <1>7. \A i \in 0 .. NR_TASKS : f[i] = IF i = 0 THEN ListHead(k)
                                      ELSE IF f[i - 1] = NULL THEN NULL ELSE l.next[f[i - 1]]
    BY <1>6, <1>1 DEF step
  <1>8. Follow(l, k, f)  BY <1>7 DEF Follow
  <1> QED  BY <1>8

\* Following the pointers goes through the list.
LEMMA FollowAt ==
  ASSUME NEW l \in Links, NEW q, Holds(l, q), NEW k \in Queue, NEW node, Follow(l, k, node),
         l.next[ListHead(k)] # NULL
  PROVE  \A i \in 0 .. Len(q[k]) + 1 : i <= NR_TASKS => node[i] = At(k, q[k], i)
PROOF
  <1> DEFINE T == {i \in 0 .. Len(q[k]) + 1 : i <= NR_TASKS => node[i] = At(k, q[k], i)}
  <1>1. q \in [Queue -> Seq(Task)] /\ NR_TASKS \in Nat /\ NULL \notin Node
    BY ListsAssumption, NodesDiffer DEF Holds
  <1>2. Len(q[k]) \in Nat /\ At(k, q[k], 0) = ListHead(k)  BY <1>1, AtType
  <1>3. \A i : At(k, q[k], i) \in Node  BY <1>1, AtType
  <1>4. \A i \in 0 .. NR_TASKS :
          node[i] = IF i = 0 THEN ListHead(k) ELSE IF node[i - 1] = NULL THEN NULL ELSE l.next[node[i - 1]]
    BY DEF Follow
  <1>5. 0 \in T  BY <1>1, <1>2, <1>4
  <1>6. ASSUME NEW i \in 1 .. Len(q[k]) + 1, i - 1 \in T  PROVE i \in T
    <2>1. SUFFICES ASSUME i <= NR_TASKS  PROVE node[i] = At(k, q[k], i)  BY <1>2
    <2> DEFINE h == i - 1
    <2>2. h \in 0 .. Len(q[k]) /\ i # 0 /\ i \in 0 .. NR_TASKS /\ h <= NR_TASKS /\ h + 1 = i
      BY <1>1, <1>2, <2>1
    <2>3. node[i - 1] = At(k, q[k], h)  BY <1>6, <2>2
    <2>4. node[i] = l.next[At(k, q[k], h)]  BY <1>1, <1>3, <1>4, <2>2, <2>3
    <2> HIDE DEF h
    <2>5. l.next[At(k, q[k], h)] = At(k, q[k], h + 1)  BY <2>2, Followed
    <2> QED  BY <2>2, <2>4, <2>5
  <1>7. \A i \in 0 .. Len(q[k]) + 1 : i \in T
    <2> HIDE DEF T
    <2>1. Len(q[k]) + 1 \in Nat  BY <1>2
    <2> QED  BY <1>5, <1>6, <2>1, UpTo
  <1> QED  BY <1>7

\* There is one number of entries.
LEMMA StopsOnce ==
  ASSUME NEW node, NEW m \in 0 .. NR_TASKS, Stops(node, m)
  PROVE  (CHOOSE n \in 0 .. NR_TASKS : Stops(node, n)) = m
PROOF
  <1>1. NR_TASKS \in Nat  BY ListsAssumption
  <1>2. ASSUME NEW n \in 0 .. NR_TASKS, NEW o \in 0 .. NR_TASKS, Stops(node, n), Stops(node, o), n < o
        PROVE  FALSE
    <2>1. n < NR_TASKS /\ n + 1 \in 1 .. o  BY <1>1, <1>2
    <2> QED  BY <2>1, <1>2 DEF Stops
  <1>3. ASSUME NEW n \in 0 .. NR_TASKS, Stops(node, n)  PROVE n = m
    <2>1. ~(n < m) /\ ~(m < n)  BY <1>2, <1>3
    <2> QED  BY <2>1, <1>1
  <1> QED  BY <1>3

LEMMA TasksAre ==
  ASSUME NEW l \in Links, NEW q, Holds(l, q), NEW k \in Queue
  PROVE  TasksIn(l, k) = q[k]
PROOF
  <1> DEFINE node == CHOOSE f : Follow(l, k, f)
             n == CHOOSE n \in 0 .. NR_TASKS : Stops(node, n)
  <1>1. TasksIn(l, k) = [i \in 1 .. n |-> node[i][2]]  BY DEF TasksIn, Follow, Stops
  <1>2. Follow(l, k, node)  BY FollowExists
  <1> HIDE DEF node
  <1>3. /\ NR_TASKS \in Nat /\ NR_TASKS >= 4 /\ NULL \notin Node /\ ListHead(k) \in Node
        /\ ListHead(k) \notin Anchors /\ NULL \notin Anchors
    BY ListsAssumption, NodesDiffer
  <1>4. /\ q \in [Queue -> Seq(Task)] /\ Distinct(q)
        /\ q[k] \in Seq(Task) /\ Len(q[k]) \in Nat /\ q[k] = [i \in 1 .. Len(q[k]) |-> q[k][i]]
    BY LenProperties DEF Holds
  <1>5. Len(q[k]) <= NR_TASKS  BY <1>4, ListFits
  <1>6. /\ \A i \in 1 .. Len(q[k]) : node[i] = Anchor(q[k][i])
        /\ Len(q[k]) < NR_TASKS => node[Len(q[k]) + 1] \notin Anchors
    <2>1. CASE l.next[ListHead(k)] # NULL
      <3>1. \A i \in 0 .. Len(q[k]) + 1 : i <= NR_TASKS => node[i] = At(k, q[k], i)
        BY <1>2, <2>1, FollowAt
      <3>2. ASSUME NEW i \in 1 .. Len(q[k])  PROVE node[i] = Anchor(q[k][i])
        <4>1. i \in 0 .. Len(q[k]) + 1 /\ i <= NR_TASKS  BY <1>3, <1>4, <1>5
        <4> QED  BY <4>1, <3>1 DEF At
      <3>3. ASSUME Len(q[k]) < NR_TASKS  PROVE node[Len(q[k]) + 1] \notin Anchors
        <4>1. /\ Len(q[k]) + 1 \in 0 .. Len(q[k]) + 1 /\ Len(q[k]) + 1 <= NR_TASKS
              /\ Len(q[k]) + 1 \notin 1 .. Len(q[k])
          BY <1>3, <1>4, <3>3
        <4>2. node[Len(q[k]) + 1] = At(k, q[k], Len(q[k]) + 1)  BY <4>1, <3>1
        <4>3. At(k, q[k], Len(q[k]) + 1) = ListHead(k)  BY <4>1 DEF At
        <4> QED  BY <4>2, <4>3, <1>3
      <3> QED  BY <3>2, <3>3
    <2>2. CASE l.next[ListHead(k)] = NULL
      <3>1. q[k] = <<>>  BY <2>2 DEF Holds, Listed
      <3>2. Len(q[k]) = 0  BY <3>1
      <3>3. \A i \in 0 .. NR_TASKS : node[i] =
              IF i = 0 THEN ListHead(k) ELSE IF node[i - 1] = NULL THEN NULL ELSE l.next[node[i - 1]]
        BY <1>2 DEF Follow
      <3>4. 0 \in 0 .. NR_TASKS /\ 1 \in 0 .. NR_TASKS /\ 1 - 1 = 0 /\ 1 # 0  BY <1>3
      <3>5. node[0] = ListHead(k)  BY <3>3, <3>4
      <3>6. node[1] = NULL  BY <3>3, <3>4, <3>5, <2>2
      <3> QED  BY <3>2, <3>6, <1>3
    <2> QED  BY <2>1, <2>2
  <1>7. \A i \in 1 .. Len(q[k]) : node[i] \in Anchors /\ node[i][2] = q[k][i]
    <2>1. \A i \in 1 .. Len(q[k]) : q[k][i] \in Task  BY <1>4, ElementOfSeq
    <2> QED  BY <2>1, <1>6, NodesDiffer
  <1>8. Len(q[k]) \in 0 .. NR_TASKS /\ Stops(node, Len(q[k]))  BY <1>3, <1>4, <1>5, <1>6, <1>7 DEF Stops
  <1>9. n = Len(q[k])  BY <1>8, StopsOnce
  <1> HIDE DEF n
  <1> QED  BY <1>1, <1>4, <1>7, <1>9

\* The sequences the lists l are.
Seqs(l) == [k \in Queue |-> TasksIn(l, k)]

LEMMA SeqsAre ==
  ASSUME NEW l \in Links, NEW q, Holds(l, q)
  PROVE  Seqs(l) = q
PROOF
  <1>1. q = [k \in Queue |-> q[k]]  BY DEF Holds
  <1>2. \A k \in Queue : TasksIn(l, k) = q[k]  BY TasksAre
  <1> QED  BY <1>1, <1>2 DEF Seqs

-----------------------------------------------------------------------------
(* Refinement. *)

\* The loop stands on the first entry of the list it empties, and knows the second.
AtFirst(l, w, p, x) ==
  w # None =>
    /\ w \in Sem /\ l.next[ListHead(w)] # NULL
    /\ p = l.next[ListHead(w)] /\ x = l.next[p]

\* The inductive invariant of the refinement.
SeqsInv == ListsInv /\ Holds(links, Seqs(links)) /\ AtFirst(links, waking, pos, aux)

\* The first entry of a list.
LEMMA FirstEntry ==
  ASSUME NEW l \in Links, NEW q, Holds(l, q), NEW k \in Queue, l.next[ListHead(k)] # NULL
  PROVE  /\ l.next[ListHead(k)] = ListHead(k) <=> q[k] = <<>>
         /\ q[k] # <<>> =>
              /\ Len(q[k]) >= 1 /\ Head(q[k]) = q[k][1] /\ q[k][1] \in Task
              /\ l.next[ListHead(k)] = Anchor(q[k][1])
              /\ l.next[Anchor(q[k][1])] = At(k, q[k], 2)
PROOF
  <1>1. q \in [Queue -> Seq(Task)] /\ q[k] \in Seq(Task)  BY DEF Holds
  <1>2. Len(q[k]) \in Nat /\ At(k, q[k], 0) = ListHead(k)  BY <1>1, AtType
  <1>3. 0 \in 0 .. Len(q[k]) /\ 0 + 1 = 1 /\ 1 + 1 = 2  BY <1>2
  <1>4. l.next[At(k, q[k], 0)] = At(k, q[k], 1)  BY <1>3, Followed
  <1>5. CASE q[k] = <<>>
    <2>1. 1 \notin 1 .. Len(q[k])  BY <1>5
    <2>2. At(k, q[k], 1) = ListHead(k)  BY <2>1 DEF At
    <2> QED  BY <2>2, <1>2, <1>4, <1>5
  <1>6. CASE q[k] # <<>>
    <2>1. Len(q[k]) # 0  BY <1>1, <1>6, EmptySeq
    <2>2. 1 \in 1 .. Len(q[k]) /\ 1 \in 0 .. Len(q[k]) /\ Len(q[k]) >= 1  BY <2>1, <1>2
    <2>3. At(k, q[k], 1) = Anchor(q[k][1]) /\ q[k][1] \in Task  BY <2>2, <1>1, AtType
    <2>4. l.next[At(k, q[k], 1)] = At(k, q[k], 2)  BY <2>2, <1>3, Followed
    <2>5. Anchor(q[k][1]) # ListHead(k)  BY <2>3, NodesDiffer
    <2>6. Head(q[k]) = q[k][1]  BY <1>1, <1>6
    <2> QED  BY <2>2, <2>3, <2>4, <2>5, <2>6, <1>2, <1>4, <1>6
  <1> QED  BY <1>5, <1>6

\* INIT_LIST_HEAD of a list nobody is in.
LEMMA InitHolds ==
  ASSUME NEW l \in Links, NEW q, Holds(l, q), NEW s \in Queue,
         l.next[ListHead(s)] # NULL => l.next[ListHead(s)] = ListHead(s),
         NEW m, m = INIT_LIST_HEAD(l, ListHead(s))
  PROVE  Holds(m, q)
PROOF
  <1> DEFINE h == ListHead(s)
  <1>1. /\ q \in [Queue -> Seq(Task)] /\ Distinct(q) /\ AllListed(l, q)
        /\ \A k \in Queue : Listed(l, q, k)
    BY DEF Holds
  <1>2. q[s] = <<>>
    <2>1. CASE l.next[ListHead(s)] = NULL  BY <2>1, <1>1 DEF Listed
    <2>2. CASE l.next[ListHead(s)] # NULL  BY <2>2, FirstEntry
    <2> QED  BY <2>1, <2>2
  <1>3. h \in Node /\ NULL \notin Node /\ \A t \in Task : Anchor(t) \in Node /\ Anchor(t) # h
    BY NodesDiffer
  <1>4. \A n \in Node : m.next[n] = IF n = h THEN h ELSE l.next[n]
    <2>1. m.next = [l.next EXCEPT ![h] = h] /\ l.next \in [Node -> Node \cup {NULL}]
      BY DEF INIT_LIST_HEAD, Links
    <2> QED  BY <2>1, <1>3
  <1>5. Listed(m, q, s)
    <2>1. Len(q[s]) = 0  BY <1>2
    <2>2. At(s, q[s], 0) = h /\ At(s, q[s], 0 + 1) = h  BY <2>1 DEF At
    <2>3. m.next[h] = h  BY <1>3, <1>4
    <2> QED  BY <1>2, <1>3, <2>1, <2>2, <2>3 DEF Listed, Chain
  <1>6. ASSUME NEW k \in Queue, k # s  PROVE Listed(m, q, k)
    <2>1. Len(q[k]) \in Nat /\ At(k, q[k], 0) = ListHead(k)  BY <1>1, AtType
    <2>2. \A i : At(k, q[k], i) \in Node  BY <1>1, AtType
    <2>3. \A i : At(k, q[k], i) # h
      <3>1. \A i \in 1 .. Len(q[k]) : q[k][i] \in Task  BY <1>1, AtType
      <3>2. ListHead(k) # h  BY <1>6, NodesDiffer
      <3> QED  BY <3>1, <3>2, <1>3 DEF At
    <2>4. \A i : m.next[At(k, q[k], i)] = l.next[At(k, q[k], i)]  BY <2>2, <2>3, <1>4
    <2>5. m.next[ListHead(k)] = l.next[ListHead(k)]  BY <2>1, <2>4
    <2>6. Listed(l, q, k)  BY <1>1
    <2> QED  BY <2>4, <2>5, <2>6 DEF Listed, Chain
  <1>7. AllListed(m, q)
    <2>1. \A t \in Task : m.next[Anchor(t)] = l.next[Anchor(t)]  BY <1>3, <1>4
    <2> QED  BY <2>1, <1>1 DEF AllListed
  <1> QED  BY <1>1, <1>5, <1>6, <1>7 DEF Holds

\* What the loop of sys_sem_destroy finds after it has woken the first: the second is first.
LEMMA LoopAdvances ==
  ASSUME NEW l, NEW owner, NEW rank, Shape(l, owner, rank), NEW q, Holds(l, q),
         NEW w \in Sem, l.next[ListHead(w)] # NULL, q[w] # <<>>, l.next[ListHead("ready")] # NULL,
         NEW t, t = Head(q[w]),
         NEW is_first \in BOOLEAN,
         NEW m, m = update_process_state(l, t, "ready", is_first),
         Holds(m, Queues!relink(q, t, "ready", is_first))
  PROVE  /\ m.next[ListHead(w)] # NULL
         /\ m.next[ListHead(w)] = l.next[l.next[ListHead(w)]]
PROOF
  <1> DEFINE v == Queues!list_del(q, t)
             r == Queues!relink(q, t, "ready", is_first)
             ready == "ready"
  <1>1. w \in Queue /\ w # "ready" /\ "ready" \in Queue /\ "ready" # None
    BY ListsAssumption DEF Queue, None
  <1>2. l \in Links /\ q \in [Queue -> Seq(Task)] /\ Distinct(q)  BY DEF Shape, Holds
  <1>3. /\ Len(q[w]) >= 1 /\ t = q[w][1] /\ t \in Task
        /\ l.next[ListHead(w)] = Anchor(t) /\ l.next[Anchor(t)] = At(w, q[w], 2)
    BY <1>1, <1>2, FirstEntry
  <1>4. ListHead(w) \in Node /\ ListHead(w) # Anchor(t)  BY <1>1, <1>3, NodesDiffer
  <1>5. m.next[ListHead(w)] # NULL
    <2>1. ready \in Queue \cup {None} /\ ready # None /\ l.next[ListHead(ready)] # NULL
      BY <1>1
    <2>2. m = update_process_state(l, t, ready, is_first)  OBVIOUS
    <2> HIDE DEF ready
    <2>3. \E o, x : /\ Shape(m, o, x)
                    /\ \A n \in Node : n # Anchor(t) => o[n] = owner[n]
                    /\ \A n \in Node : n # Anchor(t) => (m.next[n] # NULL <=> l.next[n] # NULL)
      BY <1>3, <2>1, <2>2, Updated
    <2> QED  BY <2>3, <1>4
  <1>6. Len(q[w]) \in Nat  BY <1>1, <1>2, AtType
  <1>7. 1 \in 1 .. Len(q[w])  BY <1>3, <1>6
  <1>8. Without(q, v, w, 1)  BY <1>1, <1>2, <1>3, <1>7, UnlinkedPresent
  <1>9. At(w, v[w], 1) = At(w, q[w], 2)
    <2> HIDE DEF v
    <2>1. \A i \in 1 .. Len(q[w]) : At(w, v[w], i) = At(w, q[w], i + 1)
      BY <1>1, <1>2, <1>7, <1>8, AtWithout
    <2> QED  BY <2>1, <1>7
  <1>10. r[w] = v[w]
    <2>1. r = [v EXCEPT !["ready"] = Queues!list_insert(@, t, is_first)]
      BY <1>1, SameNames DEF Queues!relink
    <2>2. v \in [Queue -> Seq(Task)]  BY <1>8 DEF Without
    <2> HIDE DEF r, v
    <2> QED  BY <2>1, <2>2, <1>1
  <1> HIDE DEF r, v
  <1>11. m.next[ListHead(w)] = At(w, r[w], 1)
    <2>1. Holds(m, r) /\ r \in [Queue -> Seq(Task)]  BY DEF r, Holds
    <2>2. Len(r[w]) \in Nat /\ At(w, r[w], 0) = ListHead(w)  BY <2>1, <1>1, AtType
    <2>3. 0 \in 0 .. Len(r[w]) /\ 0 + 1 = 1  BY <2>2
    <2>4. m.next[At(w, r[w], 0)] = At(w, r[w], 1)  BY <2>1, <2>3, <1>1, <1>5, Followed
    <2> QED  BY <2>2, <2>4
  <1> QED  BY <1>3, <1>5, <1>9, <1>10, <1>11

\* What Tasks finds, before and after a step.
LEMMA TasksAreIn == \A k : Tasks(k) = TasksIn(links, k) /\ Tasks(k)' = TasksIn(links', k)
PROOF  BY DEF Tasks, TasksIn

\* The state of TaskQueues.
Mapped == [k \in Queue |-> Tasks(k)]

LEMMA MappedIs == Mapped = Seqs(links) /\ Mapped' = Seqs(links')
PROOF  BY TasksAreIn DEF Mapped, Seqs

\* A step that leaves the lists q'.
LEMMA MappedStep ==
  ASSUME links \in Links, Holds(links, Seqs(links)), links' \in Links, NEW q, Holds(links', q)
  PROVE  Mapped = Seqs(links) /\ Mapped' = q /\ Holds(links', Seqs(links'))
PROOF
  <1>1. Seqs(links') = q  BY SeqsAre
  <1> QED  BY <1>1, MappedIs

LEMMA InitSeqs == Init => SeqsInv /\ Queues!Init
PROOF
  <1> SUFFICES ASSUME Init  PROVE SeqsInv /\ Queues!Init  OBVIOUS
  <1>1. ListsInv  BY InitShape
  <1> DEFINE heads == {ListHead(k) : k \in Queue \ Sem}
             q == [k \in Queue |-> <<>>]
  <1>2. \A n \in Node : links.next[n] = IF n \in heads THEN n ELSE NULL  BY DEF Init
  <1>3. waking = None  BY DEF Init
  <1>4. links \in Links  BY <1>1 DEF ListsInv, Shape
  <1>5. /\ \A k \in Queue : ListHead(k) \in Node
        /\ \A t \in Task : Anchor(t) \in Node /\ Anchor(t) \notin heads
    BY NodesDiffer
  <1>6. Holds(links, q)
    <2>1. q \in [Queue -> Seq(Task)]  OBVIOUS
    <2>2. \A k \in Queue : Len(q[k]) = 0 /\ q[k] = <<>>  OBVIOUS
    <2> HIDE DEF q
    <2>3. Distinct(q)  BY <2>2 DEF Distinct
    <2>4. AllListed(links, q)  BY <1>2, <1>5 DEF AllListed
    <2>5. ASSUME NEW k \in Queue  PROVE Listed(links, q, k)
      <3>1. At(k, q[k], 0) = ListHead(k) /\ At(k, q[k], 0 + 1) = ListHead(k)  BY <2>2 DEF At
      <3>2. links.next[ListHead(k)] # NULL => links.next[ListHead(k)] = ListHead(k)  BY <1>2, <1>5
      <3> QED  BY <2>2, <3>1, <3>2 DEF Listed, Chain
    <2> QED  BY <2>1, <2>3, <2>4, <2>5 DEF Holds
  <1>7. Seqs(links) = q /\ Mapped = q  BY <1>4, <1>6, SeqsAre, MappedIs
  <1>8. SeqsInv  BY <1>1, <1>3, <1>6, <1>7 DEF SeqsInv, AtFirst
  <1>9. Queues!Init  BY <1>3, <1>7, SameNames DEF Queues!Init, Mapped
  <1> QED  BY <1>8, <1>9

\* Every step is one of the sequences, or leaves them as they are.
LEMMA StepSeqs == SeqsInv /\ [Next]_vars => SeqsInv' /\ [Queues!Next]_(Queues!vars)
PROOF
  <1> SUFFICES ASSUME SeqsInv, [Next]_vars  PROVE SeqsInv' /\ [Queues!Next]_(Queues!vars)  OBVIOUS
  <1>1. ListsInv'  BY StepShape DEF SeqsInv
  <1>2. PICK owner, rank : Shape(links, owner, rank)  BY DEF SeqsInv, ListsInv
  <1>3. links \in Links /\ links' \in Links  BY <1>1, <1>2 DEF ListsInv, Shape
  <1> DEFINE q == Seqs(links)
  <1>4. Holds(links, q) /\ AtFirst(links, waking, pos, aux)  BY DEF SeqsInv
  <1>5. Mapped = q  BY MappedIs
  <1>6. Sem \subseteq Queue /\ None \notin Sem /\ None \notin Queue /\ "ready" \in Queue
    BY ListsAssumption DEF Queue, None
  <1>7. links.next[ListHead("ready")] # NULL  BY DEF SeqsInv, ListsInv
  <1> HIDE DEF q
  <1>8. ASSUME NEW r, Holds(links', r)  PROVE Mapped' = r /\ Holds(links', Seqs(links'))
    BY <1>3, <1>4, <1>8, MappedStep DEF q
  <1>9. ASSUME NEW t \in Task, NEW dest \in Queue \cup {None}, NEW is_first \in BOOLEAN,
               Move(t, dest, is_first)
        PROVE  SeqsInv' /\ Queues!Next
    <2> DEFINE r == Queues!relink(q, t, dest, is_first)
    <2>1. /\ waking = None /\ waking' = None
          /\ dest # None => links.next[ListHead(dest)] # NULL
          /\ links' = update_process_state(links, t, dest, is_first)
      BY <1>9 DEF Move, Initialised, loopVars
    <2>2. Holds(links', r)  BY <1>2, <1>4, <2>1, Relinked
    <2> HIDE DEF r
    <2>3. Mapped' = r /\ Holds(links', Seqs(links'))  BY <2>2, <1>8
    <2>4. AtFirst(links', waking', pos', aux')  BY <2>1 DEF AtFirst
    <2>5. SeqsInv'  BY <1>1, <2>3, <2>4 DEF SeqsInv
    <2>6. Queues!Move(t, dest, is_first)  BY <1>5, <2>1, <2>3, SameNames DEF Queues!Move, Mapped, r
    <2>7. t \in Queues!Task /\ dest \in Queues!Queue \cup {Queues!NULL}  BY SameNames
    <2> QED  BY <2>5, <2>6, <2>7 DEF Queues!Next
  <1>10. ASSUME NEW s \in Sem, SemInit(s)  PROVE SeqsInv' /\ UNCHANGED Queues!vars
    <2>1. /\ waking = None /\ waking' = None
          /\ links.next[ListHead(s)] # NULL => links.next[ListHead(s)] = ListHead(s)
          /\ links' = INIT_LIST_HEAD(links, ListHead(s))
      BY <1>10 DEF SemInit, loopVars, Initialised, list_empty
    <2>2. Holds(links', q)  BY <1>3, <1>4, <1>6, <2>1, InitHolds
    <2>3. Mapped' = q /\ Holds(links', Seqs(links'))  BY <2>2, <1>8
    <2>4. AtFirst(links', waking', pos', aux')  BY <2>1 DEF AtFirst
    <2>5. SeqsInv'  BY <1>1, <2>3, <2>4 DEF SeqsInv
    <2>6. UNCHANGED Queues!vars  BY <1>5, <2>1, <2>3 DEF Queues!vars, Mapped
    <2> QED  BY <2>5, <2>6
  <1>11. ASSUME NEW s \in Sem, DestroyBegins(s)  PROVE SeqsInv' /\ Queues!Next
    <2>1. /\ waking = None /\ waking' = s /\ links' = links
          /\ links.next[ListHead(s)] # NULL
          /\ pos' = links.next[ListHead(s)] /\ aux' = links.next[pos']
      BY <1>11 DEF DestroyBegins, Initialised
    <2>2. Mapped' = q /\ Holds(links', Seqs(links'))  BY <2>1, <1>4, <1>8
    <2>3. AtFirst(links', waking', pos', aux')  BY <2>1 DEF AtFirst
    <2>4. SeqsInv'  BY <1>1, <2>2, <2>3 DEF SeqsInv
    <2>5. Queues!Begin(s)  BY <1>5, <2>1, <2>2, SameNames DEF Queues!Begin, Mapped
    <2>6. s \in Queues!Queue  BY <1>6, SameNames
    <2> QED  BY <2>4, <2>5, <2>6 DEF Queues!Next
  <1>12. ASSUME DestroyWakes  PROVE SeqsInv' /\ Queues!Next
    <2> DEFINE is_first == FALSE
               t == Head(q[waking])
               r == Queues!relink(q, t, "ready", is_first)
    <2>1. /\ waking # None /\ pos # ListHead(waking) /\ waking' = waking
          /\ links' = update_process_state(links, pos[2], "ready", FALSE)
          /\ pos' = aux /\ aux' = links'.next[pos']
      BY <1>12 DEF DestroyWakes, Following
    <2>2. /\ waking \in Sem /\ waking \in Queue /\ links.next[ListHead(waking)] # NULL
          /\ pos = links.next[ListHead(waking)] /\ aux = links.next[pos]
      BY <2>1, <1>4, <1>6 DEF AtFirst
    <2>3. /\ q[waking] # <<>> /\ t \in Task /\ pos = Anchor(t)
      <3> DEFINE k == waking
      <3>1. k \in Queue /\ links.next[ListHead(k)] # NULL /\ links \in Links /\ Holds(links, q)
        BY <2>2, <1>3, <1>4
      <3> HIDE DEF k
      <3>2. /\ links.next[ListHead(k)] = ListHead(k) <=> q[k] = <<>>
            /\ q[k] # <<>> =>
                 /\ Len(q[k]) >= 1 /\ Head(q[k]) = q[k][1] /\ q[k][1] \in Task
                 /\ links.next[ListHead(k)] = Anchor(q[k][1])
                 /\ links.next[Anchor(q[k][1])] = At(k, q[k], 2)
        BY <3>1, FirstEntry
      <3> QED  BY <2>1, <2>2, <3>2 DEF k
    <2>4. links' = update_process_state(links, t, "ready", is_first)
      BY <2>1, <2>3, NodesDiffer
    <2>5. is_first \in BOOLEAN /\ "ready" \in Queue \cup {None}  BY <1>6
    <2> HIDE DEF is_first
    <2>6. Holds(links', r)
      <3> DEFINE x == t
                 dest == "ready"
      <3>1. x \in Task /\ dest \in Queue \cup {None} /\ (dest # None => links.next[ListHead(dest)] # NULL)
        BY <2>3, <2>5, <1>7
      <3> HIDE DEF x, dest, t
      <3>2. Holds(update_process_state(links, x, dest, is_first), Queues!relink(q, x, dest, is_first))
        BY <1>2, <1>4, <2>5, <3>1, Relinked
      <3> QED  BY <2>4, <3>2 DEF x, dest
    <2>7. links'.next[ListHead(waking)] # NULL /\ links'.next[ListHead(waking)] = aux
      <3> DEFINE w == waking
      <3>1. /\ w \in Sem /\ links.next[ListHead(w)] # NULL /\ q[w] # <<>> /\ t = Head(q[w])
            /\ Holds(links', Queues!relink(q, t, "ready", is_first))
        BY <2>2, <2>3, <2>6
      <3> HIDE DEF w, t
      <3>2. /\ links'.next[ListHead(w)] # NULL
            /\ links'.next[ListHead(w)] = links.next[links.next[ListHead(w)]]
        BY <1>2, <1>4, <1>7, <2>4, <2>5, <3>1, LoopAdvances
      <3> QED  BY <3>2, <2>2 DEF w
    <2> HIDE DEF r, t
    <2>8. Mapped' = r /\ Holds(links', Seqs(links'))  BY <2>6, <1>8
    <2>9. AtFirst(links', waking', pos', aux')  BY <2>1, <2>2, <2>7 DEF AtFirst
    <2>10. SeqsInv'  BY <1>1, <2>8, <2>9 DEF SeqsInv
    <2>11. Queues!Wake
      <3>1. Mapped' = Queues!relink(Mapped, Head(Mapped[waking]), "ready", FALSE)
        BY <2>8, <1>5 DEF r, t, is_first
      <3>2. Mapped[waking] # <<>> /\ waking # Queues!NULL  BY <1>5, <2>1, <2>3, SameNames
      <3> QED  BY <3>1, <3>2, <2>1 DEF Queues!Wake, Mapped
    <2> QED  BY <2>10, <2>11 DEF Queues!Next
  <1>13. ASSUME DestroyEnds  PROVE SeqsInv' /\ Queues!Next
    <2>1. /\ waking # None /\ pos = ListHead(waking) /\ waking' = None /\ links' = links
      BY <1>13 DEF DestroyEnds
    <2>2. /\ waking \in Queue /\ links.next[ListHead(waking)] # NULL
          /\ links.next[ListHead(waking)] = ListHead(waking)
      BY <2>1, <1>4, <1>6 DEF AtFirst
    <2>3. q[waking] = <<>>
      <3> DEFINE k == waking
      <3>1. k \in Queue /\ links.next[ListHead(k)] # NULL /\ links.next[ListHead(k)] = ListHead(k)
        BY <2>2
      <3> HIDE DEF k
      <3>2. q[k] = <<>>  BY <3>1, <1>3, <1>4, FirstEntry
      <3> QED  BY <3>2 DEF k
    <2>4. Mapped' = q /\ Holds(links', Seqs(links'))  BY <2>1, <1>4, <1>8
    <2>5. AtFirst(links', waking', pos', aux')  BY <2>1 DEF AtFirst
    <2>6. SeqsInv'  BY <1>1, <2>4, <2>5 DEF SeqsInv
    <2>7. Queues!End  BY <1>5, <2>1, <2>3, <2>4, SameNames DEF Queues!End, Mapped
    <2> QED  BY <2>6, <2>7 DEF Queues!Next
  <1>14. ASSUME UNCHANGED vars  PROVE SeqsInv' /\ UNCHANGED Queues!vars
    <2>1. links' = links /\ waking' = waking /\ pos' = pos /\ aux' = aux
      BY <1>14 DEF vars, loopVars
    <2>2. Mapped' = q /\ Holds(links', Seqs(links'))  BY <2>1, <1>4, <1>8
    <2>3. AtFirst(links', waking', pos', aux')  BY <2>1, <1>4 DEF AtFirst
    <2>4. SeqsInv'  BY <1>1, <2>2, <2>3 DEF SeqsInv
    <2>5. UNCHANGED Queues!vars  BY <1>5, <2>1, <2>2 DEF Queues!vars, Mapped
    <2> QED  BY <2>4, <2>5
  <1> QED  BY <1>9, <1>10, <1>11, <1>12, <1>13, <1>14 DEF Next

\* ListsAreSequences: what update_process_state and the loop of sys_sem_destroy do to the
\* pointers is what ProcessTable says they do to sequences of tasks.
THEOREM ListsImplementQueues == Spec => ListsAreSequences
PROOF
  <1>1. Spec => [](SeqsInv) /\ Queues!Spec  BY InitSeqs, StepSeqs, PTL DEF Spec, Queues!Spec
  <1> QED  BY <1>1 DEF ListsAreSequences
=============================================================================
