----------------------------- MODULE MemoryProofs -----------------------------
(***************************************************************************)
(* Proofs about Memory, for every number of tasks, pages and frames: the   *)
(* lists and the directories first, then the counts of the frames and who  *)
(* may write to them, for every number of tasks that a signed char can     *)
(* count.                                                                  *)
(***************************************************************************)
EXTENDS Memory, FiniteSetTheorems, SequenceTheorems, TLAPS

-----------------------------------------------------------------------------
(* Lists of directories. *)

\* The members of a list without repetitions are as many as it is long.
LEMMA DistinctMembers ==
  ASSUME NEW S, NEW s \in Seq(S), IsInjective(s)
  PROVE  Cardinality(ToSet(s)) = Len(s)
PROOF
  <1>1. Len(s) \in Nat /\ s \in [1 .. Len(s) -> S] /\ DOMAIN s = 1 .. Len(s)  BY LenProperties
  <1>2. IsFiniteSet(1 .. Len(s)) /\ Cardinality(1 .. Len(s)) = Len(s)  BY <1>1, FS_Interval
  <1>3. s \in Bijection(1 .. Len(s), ToSet(s))
    <2>1. s \in [1 .. Len(s) -> ToSet(s)]  BY <1>1 DEF ToSet
    <2>2. s \in Injection(1 .. Len(s), ToSet(s))  BY <1>1, <2>1 DEF Injection, IsInjective
    <2>3. s \in Surjection(1 .. Len(s), ToSet(s))  BY <1>1, <2>1 DEF Surjection, ToSet
    <2> QED  BY <2>2, <2>3 DEF Bijection
  <1>4. ExistsBijection(1 .. Len(s), ToSet(s))  BY <1>3 DEF ExistsBijection
  <1> QED  BY <1>2, <1>4, FS_Bijection

\* Popping a list without repetitions.
LEMMA Popped ==
  ASSUME NEW S, NEW s \in Seq(S), IsInjective(s), s # <<>>
  PROVE  /\ Head(s) \in S /\ Head(s) \in ToSet(s)
         /\ Tail(s) \in Seq(S) /\ IsInjective(Tail(s))
         /\ ToSet(Tail(s)) = ToSet(s) \ {Head(s)}
PROOF
  <1>1. Len(s) \in Nat \ {0} /\ DOMAIN s = 1 .. Len(s)  BY EmptySeq, LenProperties
  <1>2. /\ Head(s) \in S /\ Tail(s) \in Seq(S) /\ Len(Tail(s)) = Len(s) - 1
        /\ \A i \in 1 .. Len(Tail(s)) : Tail(s)[i] = s[i + 1]
    BY HeadTailProperties
  <1>3. DOMAIN Tail(s) = 1 .. Len(s) - 1  BY <1>2, LenProperties
  <1>4. Head(s) = s[1]  BY <1>1 DEF Head
  <1>5. IsInjective(Tail(s))  BY <1>1, <1>2, <1>3 DEF IsInjective
  <1>6. \A i \in 2 .. Len(s) : s[i] # s[1]  BY <1>1 DEF IsInjective
  <1>7. ToSet(Tail(s)) = {s[i] : i \in 2 .. Len(s)}
    <2>1. \A i \in 2 .. Len(s) : i - 1 \in 1 .. Len(s) - 1 /\ Tail(s)[i - 1] = s[i]
      BY <1>1, <1>2
    <2>2. \A i \in 1 .. Len(s) - 1 : i + 1 \in 2 .. Len(s) /\ Tail(s)[i] = s[i + 1]
      BY <1>1, <1>2
    <2>3. ToSet(Tail(s)) = {Tail(s)[i] : i \in 1 .. Len(s) - 1}  BY <1>3 DEF ToSet
    <2>4. ASSUME NEW x \in {s[i] : i \in 2 .. Len(s)}
          PROVE  x \in {Tail(s)[i] : i \in 1 .. Len(s) - 1}
      BY <2>1
    <2>5. ASSUME NEW x \in {Tail(s)[i] : i \in 1 .. Len(s) - 1}
          PROVE  x \in {s[i] : i \in 2 .. Len(s)}
      BY <2>2
    <2> QED  BY <2>3, <2>4, <2>5
  <1>8. ToSet(s) = {s[1]} \cup {s[i] : i \in 2 .. Len(s)}
    <2>1. 1 .. Len(s) = {1} \cup (2 .. Len(s))  BY <1>1
    <2> QED  BY <1>1, <2>1 DEF ToSet
  <1> QED  BY <1>2, <1>4, <1>5, <1>6, <1>7, <1>8

\* Pushing on a list an element it does not have.
LEMMA Pushed ==
  ASSUME NEW S, NEW s \in Seq(S), IsInjective(s), NEW e \in S, e \notin ToSet(s)
  PROVE  /\ <<e>> \o s \in Seq(S) /\ IsInjective(<<e>> \o s)
         /\ ToSet(<<e>> \o s) = ToSet(s) \cup {e}
PROOF
  <1> DEFINE r == <<e>> \o s
  <1>1. <<e>> \in Seq(S) /\ Len(<<e>>) = 1 /\ <<e>>[1] = e  OBVIOUS
  <1>2. Len(s) \in Nat /\ DOMAIN s = 1 .. Len(s)  BY LenProperties
  <1>3. /\ r \in Seq(S) /\ Len(r) = 1 + Len(s)
        /\ \A i \in 1 .. 1 + Len(s) : r[i] = IF i <= 1 THEN <<e>>[i] ELSE s[i - 1]
    BY <1>1, ConcatProperties
  <1> HIDE DEF r
  <1>4. DOMAIN r = 1 .. 1 + Len(s)  BY <1>3, LenProperties
  <1>5. r[1] = e /\ \A i \in 2 .. 1 + Len(s) : i - 1 \in 1 .. Len(s) /\ r[i] = s[i - 1]
    BY <1>1, <1>2, <1>3
  <1>6. \A i \in 1 .. Len(s) : i + 1 \in 2 .. 1 + Len(s) /\ r[i + 1] = s[i]
    BY <1>2, <1>5
  <1>7. \A i \in 1 .. Len(s) : s[i] # e  BY <1>2 DEF ToSet
  <1>8. IsInjective(r)
    <2> SUFFICES ASSUME NEW i \in 1 .. 1 + Len(s), NEW j \in 1 .. 1 + Len(s), r[i] = r[j]
                 PROVE  i = j
      BY <1>4 DEF IsInjective
    <2>1. CASE i = 1 /\ j = 1  BY <2>1
    <2>2. CASE i = 1 /\ j # 1
      <3>1. j \in 2 .. 1 + Len(s)  BY <2>2, <1>2
      <3> QED  BY <2>2, <3>1, <1>5, <1>7
    <2>3. CASE i # 1 /\ j = 1
      <3>1. i \in 2 .. 1 + Len(s)  BY <2>3, <1>2
      <3> QED  BY <2>3, <3>1, <1>5, <1>7
    <2>4. CASE i # 1 /\ j # 1
      <3>1. i \in 2 .. 1 + Len(s) /\ j \in 2 .. 1 + Len(s)  BY <2>4, <1>2
      <3>2. i - 1 = j - 1  BY <3>1, <1>2, <1>5 DEF IsInjective
      <3> QED  BY <3>2
    <2> QED  BY <2>1, <2>2, <2>3, <2>4
  <1>9. ToSet(r) = ToSet(s) \cup {e}
    <2>1. 1 .. 1 + Len(s) = {1} \cup (2 .. 1 + Len(s))  BY <1>2
    <2>2. ToSet(r) = {e} \cup {r[i] : i \in 2 .. 1 + Len(s)}  BY <1>4, <1>5, <2>1 DEF ToSet
    <2>3. {r[i] : i \in 2 .. 1 + Len(s)} = {s[i] : i \in 1 .. Len(s)}  BY <1>5, <1>6
    <2> QED  BY <2>2, <2>3, <1>2 DEF ToSet
  <1> QED  BY <1>3, <1>8, <1>9 DEF r

-----------------------------------------------------------------------------
(* Directories. *)

\* What holds of the directories, beyond what DirectoryCountsExact says: the idle task keeps
\* one for itself.
DirInv ==
  /\ dir \in [Task -> Dir \cup {NULL}]
  /\ dir_count \in [Dir -> 0 .. NR_TASKS]
  /\ free_dirs \in Seq(Dir) /\ IsInjective(free_dirs)
  /\ \A d \in Dir : dir_count[d] = Cardinality(UsersOf(d))
  /\ \A d \in Dir : dir_count[d] = 0 <=> d \in ToSet(free_dirs)
  /\ Alive(Idle) /\ \A t \in Task \ {Idle} : dir[t] # dir[Idle]

\* What a step does to the directories.
TakesDirectory == \E child \in Task : ~Alive(child) /\ allocate_DIR(child)

SharesDirectory ==
  /\ current # Idle /\ Alive(current)
  /\ \E thread \in Task : ~Alive(thread) /\ reuse_DIR(dir[current], thread)

GivesDirectoryBack ==
  /\ current # Idle /\ Alive(current)
  /\ dir' = [dir EXCEPT ![current] = NULL]
  /\ dir_count' = [dir_count EXCEPT ![dir[current]] = @ - 1]
  /\ free_dirs' = IF LastUser(dir[current]) THEN <<dir[current]>> \o free_dirs ELSE free_dirs

\* The directories a step leaves alone, or changes.
LEMMA DirSteps ==
  Next => UNCHANGED dirVars \/ TakesDirectory \/ SharesDirectory \/ GivesDirectoryBack
PROOF
  <1> SUFFICES ASSUME Next
               PROVE  UNCHANGED dirVars \/ TakesDirectory \/ SharesDirectory \/ GivesDirectoryBack
    OBVIOUS
  <1>1. UserAccess => UNCHANGED dirVars  BY DEF UserAccess, PageFault, Write
  <1>2. Exit => GivesDirectoryBack  BY DEF Exit, free_DIR, Running, GivesDirectoryBack
  <1>3. ASSUME NEW t \in Task, Fork(t)  PROVE TakesDirectory
    BY <1>3 DEF Fork, TakesDirectory
  <1>4. ASSUME NEW t \in Task, NEW p \in Page, NEW v \in Value, Clone(t, p, v)
        PROVE  SharesDirectory
    BY <1>4 DEF Clone, Running, SharesDirectory
  <1>5. ASSUME NEW increment \in Increments, Sbrk(increment)  PROVE UNCHANGED dirVars
    BY <1>5 DEF Sbrk
  <1>6. ASSUME NEW p \in SyscallPages, NEW v \in Value, NEW next \in Task,
               SyscallWrites(p, v, next)
        PROVE  UNCHANGED dirVars
    BY <1>6 DEF SyscallWrites
  <1>7. ASSUME NEW t \in Task, Switch(t)  PROVE UNCHANGED dirVars  BY <1>7 DEF Switch
  <1> QED  BY <1>1, <1>2, <1>3, <1>4, <1>5, <1>6, <1>7 DEF Next, SystemCall

\* The users of a directory are tasks: finitely many.
LEMMA UsersFinite ==
  ASSUME NEW f, NEW d
  PROVE  /\ IsFiniteSet({t \in Task : f[t] = d})
         /\ Cardinality({t \in Task : f[t] = d}) \in 0 .. NR_TASKS
PROOF
  <1>1. NR_TASKS \in Nat  BY MemoryAssumption
  <1>2. IsFiniteSet(Task) /\ Cardinality(Task) = NR_TASKS  BY <1>1, FS_Interval DEF Task
  <1>3. {t \in Task : f[t] = d} \in SUBSET Task  OBVIOUS
  <1> QED  BY <1>1, <1>2, <1>3, FS_Subset, FS_CardinalityType

\* At first the idle task and the first process have the two last directories.
LEMMA DirInit == Init => DirInv
PROOF
  <1> SUFFICES ASSUME Init  PROVE DirInv  OBVIOUS
  <1> DEFINE N == NR_TASKS
  <1>1. N \in Nat /\ N > 1  BY MemoryAssumption
  <1>2. Idle \in Task /\ Task1 \in Task /\ Idle # Task1  BY <1>1 DEF Task, Idle, Task1
  <1>3. \A t \in Task : dir[t] = IF t \in {Idle, Task1} THEN N - 1 - t ELSE NULL
    BY DEF Init, InitDirectories
  <1>4. dir[Idle] = N - 1 /\ dir[Task1] = N - 2  BY <1>1, <1>2, <1>3 DEF Idle, Task1
  <1>5. dir \in [Task -> Dir \cup {NULL}]
    <2>1. dir = [t \in Task |-> IF t \in {Idle, Task1} THEN N - 1 - t ELSE NULL]
      BY DEF Init, InitDirectories
    <2>2. \A t \in {Idle, Task1} : N - 1 - t \in Dir  BY <1>1 DEF Idle, Task1, Dir
    <2> QED  BY <2>1, <2>2
  <1>6. dir_count = [d \in Dir |-> IF d \in {N - 1, N - 2} THEN 1 ELSE 0]
    BY <1>4 DEF Init, InitDirectories
  <1>7. dir_count \in [Dir -> 0 .. N]  BY <1>1, <1>6
  <1>8. free_dirs = [i \in 1 .. N - 2 |-> N - 2 - i]  BY DEF Init, InitDirectories
  <1>9. free_dirs \in Seq(Dir) /\ IsInjective(free_dirs) /\ DOMAIN free_dirs = 1 .. N - 2
    <2>1. \A i \in 1 .. N - 2 : N - 2 - i \in Dir  BY <1>1 DEF Dir
    <2>2. N - 2 \in Nat  BY <1>1
    <2>3. free_dirs \in Seq(Dir)  BY <1>8, <2>1, <2>2
    <2>4. IsInjective(free_dirs)  BY <1>1, <1>8 DEF IsInjective
    <2> QED  BY <1>8, <2>3, <2>4
  <1>10. NULL \notin Dir  BY <1>1 DEF NULL, Dir
  <1>11. ASSUME NEW d \in Dir  PROVE dir_count[d] = Cardinality(UsersOf(d))
    <2>1. UsersOf(d) = IF d = N - 1 THEN {Idle} ELSE IF d = N - 2 THEN {Task1} ELSE {}
      BY <1>1, <1>2, <1>3, <1>4, <1>10 DEF UsersOf
    <2>2. Cardinality({Idle}) = 1 /\ Cardinality({Task1}) = 1 /\ Cardinality({}) = 0
      BY FS_Singleton, FS_EmptySet
    <2> QED  BY <2>1, <2>2, <1>1, <1>6
  <1>12. ASSUME NEW d \in Dir  PROVE dir_count[d] = 0 <=> d \in ToSet(free_dirs)
    <2>1. dir_count[d] = 0 <=> d \in 0 .. N - 3  BY <1>1, <1>6 DEF Dir
    <2>2. d \in 0 .. N - 3 => N - 2 - d \in 1 .. N - 2 /\ free_dirs[N - 2 - d] = d
      BY <1>1, <1>8
    <2>3. \A i \in 1 .. N - 2 : free_dirs[i] \in 0 .. N - 3  BY <1>1, <1>8
    <2> QED  BY <2>1, <2>2, <2>3, <1>9 DEF ToSet
  <1>13. Alive(Idle) /\ \A t \in Task \ {Idle} : dir[t] # dir[Idle]
    <2>1. N - 1 # NULL /\ N - 1 # N - 2  BY <1>1 DEF NULL
    <2> QED  BY <2>1, <1>3, <1>4, <1>1 DEF Alive
  <1> QED  BY <1>5, <1>7, <1>9, <1>11, <1>12, <1>13 DEF DirInv

\* allocate_DIR, reuse_DIR and free_DIR keep the counts and the list of free directories.
LEMMA DirStep ==
  DirInv /\ current \in Task /\ [Next]_vars => DirInv'
PROOF
  <1> SUFFICES ASSUME DirInv, current \in Task, [Next]_vars  PROVE DirInv'  OBVIOUS
  <1>1. /\ dir \in [Task -> Dir \cup {NULL}] /\ dir_count \in [Dir -> 0 .. NR_TASKS]
        /\ free_dirs \in Seq(Dir) /\ IsInjective(free_dirs)
        /\ \A d \in Dir : dir_count[d] = Cardinality(UsersOf(d))
        /\ \A d \in Dir : dir_count[d] = 0 <=> d \in ToSet(free_dirs)
        /\ Alive(Idle) /\ \A t \in Task \ {Idle} : dir[t] # dir[Idle]
    BY DEF DirInv
  <1>2. NR_TASKS \in Nat /\ NULL \notin Dir  BY MemoryAssumption DEF NULL, Dir
  <1>3. ASSUME NEW d \in Dir
        PROVE  IsFiniteSet(UsersOf(d)) /\ (dir_count[d] = 0 <=> UsersOf(d) = {})
    <2>1. IsFiniteSet(UsersOf(d))  BY UsersFinite DEF UsersOf
    <2>2. dir_count[d] = Cardinality(UsersOf(d))  BY <1>1
    <2> QED  BY <2>1, <2>2, FS_EmptySet
  <1>4. CASE UNCHANGED dirVars
    <2>1. dir' = dir /\ dir_count' = dir_count /\ free_dirs' = free_dirs  BY <1>4 DEF dirVars
    <2> QED  BY <2>1, <1>1 DEF DirInv, UsersOf, Alive
  <1>5. CASE TakesDirectory
    <2>1. PICK child \in Task : ~Alive(child) /\ allocate_DIR(child)  BY <1>5 DEF TakesDirectory
    <2>2. PICK c : c = Head(free_dirs)  OBVIOUS
    <2>3. /\ free_dirs # <<>> /\ dir[child] = NULL
          /\ dir' = [dir EXCEPT ![child] = c]
          /\ dir_count' = [dir_count EXCEPT ![c] = 1]
          /\ free_dirs' = Tail(free_dirs)
      BY <2>1, <2>2 DEF allocate_DIR, Alive
    <2>4. /\ c \in Dir /\ c \in ToSet(free_dirs)
          /\ free_dirs' \in Seq(Dir) /\ IsInjective(free_dirs')
          /\ ToSet(free_dirs') = ToSet(free_dirs) \ {c}
      BY <2>2, <2>3, <1>1, Popped
    <2>5. UsersOf(c) = {}  BY <2>4, <1>1, <1>3
    <2>6. \A t \in Task : dir'[t] = IF t = child THEN c ELSE dir[t]  BY <2>3, <1>1
    <2>7. \A d \in Dir : UsersOf(d)' = IF d = c THEN {child} ELSE UsersOf(d)
      BY <2>3, <2>5, <2>6, <1>2 DEF UsersOf
    <2>8. Cardinality({child}) = 1  BY FS_Singleton
    <2>9. \A d \in Dir : dir_count'[d] = Cardinality(UsersOf(d)')
      BY <2>3, <2>4, <2>7, <2>8, <1>1
    <2>10. \A d \in Dir : dir_count'[d] = 0 <=> d \in ToSet(free_dirs')
      BY <2>3, <2>4, <1>1
    <2>11. dir' \in [Task -> Dir \cup {NULL}] /\ dir_count' \in [Dir -> 0 .. NR_TASKS]
      <3>1. 1 \in 0 .. NR_TASKS  BY MemoryAssumption
      <3> QED  BY <2>3, <2>4, <3>1, <1>1
    <2>12. Alive(Idle)' /\ \A t \in Task \ {Idle} : dir'[t] # dir'[Idle]
      <3>1. Idle \in Task  BY MemoryAssumption DEF Idle, Task
      <3>2. child # Idle  BY <2>3, <1>1 DEF Alive
      <3>3. dir[Idle] # c  BY <2>5, <3>1 DEF UsersOf
      <3> QED  BY <3>1, <3>2, <3>3, <2>6, <1>1 DEF Alive
    <2> QED  BY <2>4, <2>9, <2>10, <2>11, <2>12 DEF DirInv
  <1>6. CASE SharesDirectory
    <2>1. PICK thread \in Task : ~Alive(thread) /\ reuse_DIR(dir[current], thread)
      BY <1>6 DEF SharesDirectory
    <2>2. PICK c : c = dir[current]  OBVIOUS
    <2>3. /\ current # Idle /\ c # NULL /\ dir[thread] = NULL
          /\ dir' = [dir EXCEPT ![thread] = c]
          /\ dir_count' = [dir_count EXCEPT ![c] = @ + 1]
          /\ free_dirs' = free_dirs
      BY <1>6, <2>1, <2>2 DEF SharesDirectory, reuse_DIR, Alive
    <2>4. c \in Dir /\ current \in UsersOf(c)  BY <2>2, <2>3, <1>1 DEF UsersOf
    <2>5. \A t \in Task : dir'[t] = IF t = thread THEN c ELSE dir[t]  BY <2>3, <1>1
    <2>6. \A d \in Dir : UsersOf(d)' = IF d = c THEN UsersOf(d) \cup {thread} ELSE UsersOf(d)
      BY <2>3, <2>5, <1>2 DEF UsersOf
    <2>7. thread \notin UsersOf(c)  BY <2>3, <2>4, <1>2 DEF UsersOf
    <2>8. Cardinality(UsersOf(c) \cup {thread}) = Cardinality(UsersOf(c)) + 1
      BY <2>4, <2>7, <1>3, FS_AddElement
    <2>9. \A d \in Dir : dir_count'[d] = Cardinality(UsersOf(d)')
      BY <2>3, <2>4, <2>6, <2>8, <1>1
    <2>10. dir_count[c] # 0  BY <2>4, <1>3
    <2>11. \A d \in Dir : dir_count'[d] = 0 <=> d \in ToSet(free_dirs')
      <3>1. dir_count[c] \in Nat  BY <2>4, <1>1
      <3>2. dir_count'[c] # 0  BY <2>3, <2>4, <3>1, <1>1
      <3> QED  BY <2>3, <2>4, <2>10, <3>2, <1>1
    <2>12. dir' \in [Task -> Dir \cup {NULL}] /\ dir_count' \in [Dir -> 0 .. NR_TASKS]
      <3>1. \A d \in Dir : dir_count'[d] \in 0 .. NR_TASKS
        <4> SUFFICES ASSUME NEW d \in Dir  PROVE dir_count'[d] \in 0 .. NR_TASKS  OBVIOUS
        <4>1. dir_count'[d] = Cardinality({t \in Task : dir'[t] = d})  BY <2>9 DEF UsersOf
        <4> QED  BY <4>1, UsersFinite
      <3>2. dir_count' = [d \in Dir |-> dir_count'[d]]  BY <2>3, <1>1
      <3> QED  BY <2>3, <2>4, <3>1, <3>2, <1>1
    <2>13. Alive(Idle)' /\ \A t \in Task \ {Idle} : dir'[t] # dir'[Idle]
      <3>1. Idle \in Task  BY MemoryAssumption DEF Idle, Task
      <3>2. thread # Idle /\ dir[Idle] # c  BY <2>2, <2>3, <1>1 DEF Alive
      <3> QED  BY <3>1, <3>2, <2>5, <1>1 DEF Alive
    <2> QED  BY <2>3, <2>9, <2>11, <2>12, <2>13, <1>1 DEF DirInv
  <1>7. CASE GivesDirectoryBack
    <2>1. PICK c : c = dir[current]  OBVIOUS
    <2>2. /\ current # Idle /\ c # NULL
          /\ dir' = [dir EXCEPT ![current] = NULL]
          /\ dir_count' = [dir_count EXCEPT ![c] = @ - 1]
          /\ free_dirs' = IF dir_count[c] = 1 THEN <<c>> \o free_dirs ELSE free_dirs
      BY <1>7, <2>1 DEF GivesDirectoryBack, LastUser, Alive
    <2>3. c \in Dir /\ current \in UsersOf(c)  BY <2>1, <2>2, <1>1 DEF UsersOf
    <2>4. \A t \in Task : dir'[t] = IF t = current THEN NULL ELSE dir[t]  BY <2>2, <1>1
    <2>5. \A d \in Dir : UsersOf(d)' = IF d = c THEN UsersOf(d) \ {current} ELSE UsersOf(d)
      BY <2>1, <2>4, <1>2 DEF UsersOf
    <2>6. Cardinality(UsersOf(c) \ {current}) = Cardinality(UsersOf(c)) - 1
      BY <2>3, <1>3, FS_RemoveElement
    <2>7. \A d \in Dir : dir_count'[d] = Cardinality(UsersOf(d)')
      BY <2>2, <2>3, <2>5, <2>6, <1>1
    <2>8. dir_count[c] \in 1 .. NR_TASKS
      <3>1. dir_count[c] # 0  BY <2>3, <1>3
      <3> QED  BY <3>1, <2>3, <1>1, <1>2
    <2>9. c \notin ToSet(free_dirs)  BY <2>3, <2>8, <1>1
    <2>10. \A d \in Dir : dir_count'[d] = IF d = c THEN dir_count[c] - 1 ELSE dir_count[d]
      BY <2>2, <1>1
    <2>11. dir' \in [Task -> Dir \cup {NULL}] /\ dir_count' \in [Dir -> 0 .. NR_TASKS]
      <3>1. dir_count[c] - 1 \in 0 .. NR_TASKS  BY <2>8, <1>2
      <3> QED  BY <2>2, <3>1, <1>1
    <2>12. Alive(Idle)' /\ \A t \in Task \ {Idle} : dir'[t] # dir'[Idle]
      <3>1. Idle \in Task  BY MemoryAssumption DEF Idle, Task
      <3> QED  BY <3>1, <2>2, <2>4, <1>1 DEF Alive
    <2>13. CASE dir_count[c] = 1
      <3>1. free_dirs' = <<c>> \o free_dirs  BY <2>2, <2>13
      <3>2. /\ free_dirs' \in Seq(Dir) /\ IsInjective(free_dirs')
            /\ ToSet(free_dirs') = ToSet(free_dirs) \cup {c}
        BY <3>1, <2>3, <2>9, <1>1, Pushed
      <3>3. \A d \in Dir : dir_count'[d] = 0 <=> d \in ToSet(free_dirs')
        BY <3>2, <2>10, <2>13, <1>1
      <3> QED  BY <3>2, <3>3, <2>7, <2>11, <2>12 DEF DirInv
    <2>14. CASE dir_count[c] # 1
      <3>1. free_dirs' = free_dirs  BY <2>2, <2>14
      <3>2. dir_count[c] - 1 # 0 /\ dir_count[c] # 0  BY <2>8, <2>14
      <3>3. \A d \in Dir : dir_count'[d] = 0 <=> d \in ToSet(free_dirs')
        BY <3>1, <3>2, <2>10, <1>1
      <3> QED  BY <3>1, <3>3, <2>7, <2>11, <2>12, <1>1 DEF DirInv
    <2> QED  BY <2>13, <2>14
  <1>8. CASE UNCHANGED vars
    <2>1. UNCHANGED dirVars  BY <1>8 DEF vars, dirVars
    <2> QED  BY <2>1, <1>4
  <1> QED  BY <1>4, <1>5, <1>6, <1>7, <1>8, DirSteps

-----------------------------------------------------------------------------
(* Frames. *)

\* In a finite set of numbers, of every place up to its size there is one with so many below.
LEMMA Places ==
  ASSUME NEW S, S \subseteq Int, IsFiniteSet(S), NEW i \in 0 .. Cardinality(S) - 1
  PROVE  \E f \in S : Cardinality({g \in S : g < f}) = i
PROOF
  <1> SUFFICES ASSUME \A f \in S : Cardinality({g \in S : g < f}) # i  PROVE FALSE  OBVIOUS
  <1> DEFINE n == Cardinality(S)
             below(f) == {g \in S : g < f}
             places == (0 .. n - 1) \ {i}
             place == [f \in S |-> Cardinality(below(f))]
  <1>1. n \in Nat  BY FS_CardinalityType
  <1>2. ASSUME NEW f \in S
        PROVE  IsFiniteSet(below(f)) /\ Cardinality(below(f)) \in 0 .. n - 1
    <2>1. below(f) \in SUBSET S /\ f \notin below(f)  OBVIOUS
    <2>2. /\ IsFiniteSet(below(f)) /\ Cardinality(below(f)) <= n
          /\ Cardinality(S) = Cardinality(below(f)) => S = below(f)
      BY <2>1, FS_Subset
    <2>3. Cardinality(below(f)) \in Nat  BY <2>2, FS_CardinalityType
    <2> QED  BY <2>1, <2>2, <2>3, <1>1
  <1>3. place \in [S -> places]  BY <1>2
  <1>4. IsFiniteSet(places) /\ Cardinality(places) = n - 1
    <2>1. IsFiniteSet(0 .. n - 1) /\ Cardinality(0 .. n - 1) = n
      <3>1. 0 \in Int /\ n - 1 \in Int  BY <1>1
      <3>2. n # 0  BY <1>1
      <3> QED  BY <3>1, <3>2, <1>1, FS_Interval
    <2> QED  BY <2>1, FS_RemoveElement
  <1>5. Cardinality(places) < Cardinality(S)  BY <1>1, <1>4
  <1>6. PICK f, h \in S : f # h /\ place[f] = place[h]
    <2> HIDE DEF place, places
    <2> QED  BY <1>3, <1>4, <1>5, FS_PigeonHole
  <1>7. ASSUME NEW x \in S, NEW y \in S, x < y  PROVE place[x] # place[y]
    <2>a. x \in Int /\ y \in Int /\ \A g \in S : g \in Int  OBVIOUS
    <2>b. \A g \in S : g < x => g < y  BY <2>a, <1>7
    <2>c. ~ (x < x)  BY <2>a
    <2>1. below(x) \in SUBSET below(y) /\ x \in below(y) /\ x \notin below(x)
      BY <2>b, <2>c, <1>7
    <2>2. IsFiniteSet(below(y))  BY <1>2
    <2>3. Cardinality(below(x)) = Cardinality(below(y)) => below(x) = below(y)
      BY <2>1, <2>2, FS_Subset
    <2> QED  BY <2>1, <2>3
  <1>8. f < h \/ h < f  BY <1>6
  <1> QED  BY <1>6, <1>7, <1>8

\* The calls of alloc_frame in a row return so many free frames, all different.
LEMMA NewFrames ==
  /\ IsFiniteSet(FreeFrames) /\ FreeFrames \subseteq Allocatable /\ Allocatable \subseteq Frame
  /\ Cardinality(FreeFrames) \in Nat
  /\ \A i \in 0 .. Cardinality(FreeFrames) - 1 : NewFrame(i) \in FreeFrames
  /\ \A i, j \in 0 .. Cardinality(FreeFrames) - 1 : NewFrame(i) = NewFrame(j) => i = j
  /\ FreeFrames # {} => NewFrame(0) \in FreeFrames
PROOF
  <1>1. FreeFrames \subseteq Allocatable /\ Allocatable \subseteq Frame
    BY DEF FreeFrames, Allocatable
  <1>2. IsFiniteSet(FreeFrames)
    <2>1. 0 \in Int /\ TOTAL_PAGES - 1 \in Int  BY MemoryAssumption
    <2>2. IsFiniteSet(Frame)  BY <2>1, FS_Interval DEF Frame
    <2> QED  BY <1>1, <2>2, FS_Subset
  <1>3. Cardinality(FreeFrames) \in Nat  BY <1>2, FS_CardinalityType
  <1>4. FreeFrames \subseteq Int  BY <1>1, MemoryAssumption DEF Frame
  <1> DEFINE below(f) == {g \in FreeFrames : g < f}
  <1>5. ASSUME NEW i \in 0 .. Cardinality(FreeFrames) - 1
        PROVE  NewFrame(i) \in FreeFrames /\ Cardinality(below(NewFrame(i))) = i
    <2>1. \E f \in FreeFrames : Cardinality({g \in FreeFrames : g < f}) = i
      BY <1>2, <1>4, Places
    <2> QED  BY <2>1 DEF NewFrame
  <1>6. FreeFrames # {} => 0 \in 0 .. Cardinality(FreeFrames) - 1
    <2>1. FreeFrames # {} => Cardinality(FreeFrames) # 0  BY <1>2, FS_EmptySet
    <2> QED  BY <2>1, <1>3
  <1>7. \A i, j \in 0 .. Cardinality(FreeFrames) - 1 : NewFrame(i) = NewFrame(j) => i = j
    <2> SUFFICES ASSUME NEW i \in 0 .. Cardinality(FreeFrames) - 1,
                        NEW j \in 0 .. Cardinality(FreeFrames) - 1, NewFrame(i) = NewFrame(j)
                 PROVE  i = j
      OBVIOUS
    <2>1. Cardinality(below(NewFrame(i))) = i /\ Cardinality(below(NewFrame(j))) = j  BY <1>5
    <2> HIDE DEF below
    <2> QED  BY <2>1
  <1> QED  BY <1>1, <1>2, <1>3, <1>5, <1>6, <1>7

\* The counts stay bytes, and what the functions leave in a page table is an entry.
LEMMA Entries ==
  /\ \A f \in Frame, w \in BOOLEAN : Mapped(f, w) \in Entry
  /\ Absent \in Entry
  /\ \A e \in Entry : ReadOnly(e) \in Entry /\ e.frame \in Frame
  /\ \A e \in Entry : ReadOnly(e).present = e.present /\ ReadOnly(e).rw = FALSE
                      /\ ReadOnly(e).frame = e.frame
PROOF
  <1>1. 0 \in Frame  BY MemoryAssumption DEF Frame
  <1> QED  BY <1>1 DEF Mapped, Absent, ReadOnly, Entry

LEMMA Counts ==
  \A count \in Byte : /\ CountAfterShare(count) \in Byte
                      /\ \A f \in Frame : CountAfterFree(f, count) \in Byte
PROOF  BY DEF Byte, CountAfterShare, CountAfterFree

\* Pages are disjoint parts of the address space.
LEMMA Pages ==
  /\ Code \subseteq Page \ {0} /\ Data \subseteq Page \ {0} /\ Code \cap Data = {}
  /\ PAG_LOG_INIT_HEAP \in Page \ (Code \cup Data \cup {0})
  /\ 0 \in Page /\ Code # {} /\ Data # {} /\ 1 \in Code
PROOF
  <1>1. /\ NUM_PAG_CODE \in Nat \ {0} /\ NUM_PAG_DATA \in Nat \ {0}
        /\ PAG_LOG_INIT_HEAP \in Nat /\ PAG_LOG_INIT_HEAP > NUM_PAG_CODE + NUM_PAG_DATA
    BY MemoryAssumption
  <1>2. /\ \A p : p \in Code => p \in Page /\ p # 0 /\ p \notin Data /\ p # PAG_LOG_INIT_HEAP
        /\ \A p : p \in Data => p \in Page /\ p # 0 /\ p # PAG_LOG_INIT_HEAP
    BY <1>1 DEF Page, Code, Data
  <1>3. PAG_LOG_INIT_HEAP \in Page /\ PAG_LOG_INIT_HEAP # 0 /\ 0 \in Page  BY <1>1 DEF Page
  <1>4. 1 \in Code /\ NUM_PAG_CODE + 1 \in Data  BY <1>1 DEF Code, Data
  <1> QED  BY <1>2, <1>3, <1>4

\* The tables after a fork: the father's pages are read-only, and the child has them, and the
\* code, and whatever else was in its table.
ForkedTables(src, c, shared) ==
  /\ \A d \in Dir : d # src /\ d # c => pagusr_table'[d] = pagusr_table[d]
  /\ \A p \in Page : pagusr_table'[src][p] = IF p \in shared THEN ReadOnly(pagusr_table[src][p])
                                                          ELSE pagusr_table[src][p]
  /\ \A p \in Page : pagusr_table'[c][p] =
       IF p \in shared THEN Mapped(pagusr_table[src][p].frame, FALSE)
       ELSE IF p \in Code THEN pagusr_table[src][p] ELSE pagusr_table[c][p]

LEMMA TablesAfterFork ==
  ASSUME MemoryTypeOK, DirInv, NEW child \in Task, Fork(child),
         NEW src, src = dir[current], NEW c, c = Head(free_dirs),
         NEW shared, shared = Data \cup HeapOf(current)
  PROVE  /\ src \in Dir /\ c \in Dir /\ UsersOf(c) = {} /\ src # c
         /\ pagusr_table' \in [Dir -> [Page -> Entry]]
         /\ ForkedTables(src, c, shared)
PROOF
  <1>1. /\ current \in Task /\ dir \in [Task -> Dir \cup {NULL}]
        /\ free_dirs \in Seq(Dir) /\ IsInjective(free_dirs)
        /\ \A d \in Dir : dir_count[d] = Cardinality(UsersOf(d))
        /\ \A d \in Dir : dir_count[d] = 0 <=> d \in ToSet(free_dirs)
        /\ pagusr_table \in [Dir -> [Page -> Entry]]
    BY DEF MemoryTypeOK, DirInv
  <1>2. /\ src # NULL /\ free_dirs # <<>>
        /\ pagusr_table' = share_cow_pages(
             [pagusr_table EXCEPT ![c] = [p \in Page |-> IF p \in Code THEN PT(current)[p] ELSE @[p]]],
             src, c, shared)
    BY DEF Fork, Running, Alive, allocate_DIR
  <1>3. src \in Dir  BY <1>1, <1>2
  <1>4. c \in Dir /\ c \in ToSet(free_dirs)  BY <1>1, <1>2, Popped
  <1>5. UsersOf(c) = {}
    <2>1. Cardinality(UsersOf(c)) = 0  BY <1>1, <1>4
    <2>2. IsFiniteSet(UsersOf(c))  BY UsersFinite DEF UsersOf
    <2> QED  BY <2>1, <2>2, FS_EmptySet
  <1>6. src # c  BY <1>1, <1>5 DEF UsersOf
  <1> DEFINE tables == [pagusr_table EXCEPT ![c] =
                          [p \in Page |-> IF p \in Code THEN pagusr_table[src][p] ELSE @[p]]]
             ofSource == [p \in Page |-> IF p \in shared THEN ReadOnly(tables[src][p]) ELSE tables[src][p]]
             ofChild == [p \in Page |-> IF p \in shared THEN ReadOnly(Mapped(tables[src][p].frame, TRUE))
                                                        ELSE tables[c][p]]
  <1>7. /\ tables \in [Dir -> [Page -> Entry]]
        /\ \A d \in Dir : d # c => tables[d] = pagusr_table[d]
        /\ \A p \in Page : tables[c][p] = IF p \in Code THEN pagusr_table[src][p] ELSE pagusr_table[c][p]
    <2>1. [p \in Page |-> IF p \in Code THEN pagusr_table[src][p] ELSE pagusr_table[c][p]]
            \in [Page -> Entry]
      BY <1>1, <1>3, <1>4
    <2>2. tables = [pagusr_table EXCEPT ![c] =
                      [p \in Page |-> IF p \in Code THEN pagusr_table[src][p] ELSE pagusr_table[c][p]]]
      OBVIOUS
    <2> HIDE DEF tables
    <2> QED  BY <2>1, <2>2, <1>1, <1>4
  <1>8. pagusr_table' = [tables EXCEPT ![src] = ofSource, ![c] = ofChild]
    BY <1>2, <1>3, <1>4, <1>6, <1>7 DEF share_cow_pages, PT
  <1> HIDE DEF tables
  <1>9. \A p \in Page : tables[src][p] = pagusr_table[src][p] /\ tables[src][p] \in Entry
    BY <1>1, <1>3, <1>6, <1>7
  <1>10. ofSource \in [Page -> Entry]  BY <1>9, Entries
  <1>11. ofChild \in [Page -> Entry]
    <2>1. \A p \in Page : tables[c][p] \in Entry  BY <1>4, <1>7
    <2>2. \A p \in Page : Mapped(tables[src][p].frame, TRUE) \in Entry  BY <1>9, Entries
    <2> QED  BY <2>1, <2>2, Entries
  <1>12. \A p \in Page : /\ ofSource[p] = IF p \in shared THEN ReadOnly(pagusr_table[src][p])
                                                          ELSE pagusr_table[src][p]
                         /\ ofChild[p] =
                              IF p \in shared THEN Mapped(pagusr_table[src][p].frame, FALSE)
                              ELSE IF p \in Code THEN pagusr_table[src][p] ELSE pagusr_table[c][p]
    <2>1. \A f \in Frame : ReadOnly(Mapped(f, TRUE)) = Mapped(f, FALSE)
      <3>1. \A d, e \in Entry :
              d.present = e.present /\ d.rw = e.rw /\ d.frame = e.frame => d = e
        BY DEF Entry
      <3>2. \A f \in Frame : Mapped(f, FALSE).present = TRUE /\ Mapped(f, FALSE).rw = FALSE
                               /\ Mapped(f, FALSE).frame = f /\ Mapped(f, TRUE).frame = f
                               /\ Mapped(f, TRUE).present = TRUE
        BY DEF Mapped
      <3>3. \A f \in Frame : Mapped(f, FALSE) \in Entry /\ Mapped(f, TRUE) \in Entry
        BY DEF Mapped, Entry
      <3>4. ASSUME NEW f \in Frame  PROVE ReadOnly(Mapped(f, TRUE)) = Mapped(f, FALSE)
        <4> DEFINE e == Mapped(f, TRUE)
        <4>1. e \in Entry /\ e.present = TRUE /\ e.frame = f  BY <3>2, <3>3
        <4>2. /\ ReadOnly(e) \in Entry /\ ReadOnly(e).present = e.present
              /\ ReadOnly(e).rw = FALSE /\ ReadOnly(e).frame = e.frame
          BY <4>1, Entries
        <4> HIDE DEF e
        <4> DEFINE r == ReadOnly(e)
                   m == Mapped(f, FALSE)
        <4>4. r.present = m.present  BY <3>2, <4>1, <4>2
        <4>5. r.rw = m.rw  BY <3>2, <4>2
        <4>6. r.frame = m.frame  BY <3>2, <4>1, <4>2
        <4>7. r \in Entry /\ m \in Entry  BY <3>3, <4>2
        <4> HIDE DEF r, m
        <4>8. r = m  BY <3>1, <4>4, <4>5, <4>6, <4>7
        <4>3. ReadOnly(e) = Mapped(f, FALSE)  BY <4>8 DEF r, m
        <4> QED  BY <4>3 DEF e
      <3> QED  BY <3>4
    <2> QED  BY <1>7, <1>9, <2>1, Entries
  <1> HIDE DEF ofSource, ofChild
  <1>13. /\ pagusr_table' \in [Dir -> [Page -> Entry]]
         /\ pagusr_table'[src] = ofSource /\ pagusr_table'[c] = ofChild
         /\ \A d \in Dir : d # src /\ d # c => pagusr_table'[d] = pagusr_table[d]
    BY <1>3, <1>4, <1>6, <1>7, <1>8, <1>10, <1>11
  <1> QED  BY <1>3, <1>4, <1>5, <1>6, <1>12, <1>13 DEF ForkedTables

-----------------------------------------------------------------------------
(* Types. *)

\* Where set_user_pages puts a page.
LEMMA FirstFrames ==
  /\ \A p \in Code \cup Data : FirstFrame(p) \in Allocatable
  /\ \A p, q \in Code \cup Data : FirstFrame(p) = FirstFrame(q) => p = q
PROOF
  <1>1. \A p \in Code \cup Data : p \in Nat /\ p >= 1 /\ p <= NUM_PAG_CODE + NUM_PAG_DATA
    BY MemoryAssumption DEF Code, Data
  <1>2. ASSUME NEW p \in Code \cup Data  PROVE FirstFrame(p) \in Allocatable
    <2>1. p \in Nat /\ p >= 1 /\ p <= NUM_PAG_CODE + NUM_PAG_DATA  BY <1>1
    <2>2. FirstFrame(p) \in Frame  BY <2>1, MemoryAssumption DEF FirstFrame, Frame
    <2>3. FirstFrame(p) >= NUM_PAG_KERNEL  BY <2>1, MemoryAssumption DEF FirstFrame
    <2>4. FirstFrame(p) - NUM_PAG_KERNEL = 2 * (p - 1)  BY <2>1, MemoryAssumption DEF FirstFrame
    <2>5. (2 * (p - 1)) % 2 = 0  BY <2>1
    <2> QED  BY <2>2, <2>3, <2>4, <2>5 DEF Allocatable
  <1>3. \A p, q \in Code \cup Data : FirstFrame(p) = FirstFrame(q) => p = q
    BY <1>1, MemoryAssumption DEF FirstFrame
  <1> QED  BY <1>2, <1>3

LEMMA TypeInit == Init => MemoryTypeOK
PROOF
  <1> SUFFICES ASSUME Init  PROVE MemoryTypeOK  OBVIOUS
  <1>1. DirInv  BY DirInit
  <1>2. /\ phys_mem \in [Frame -> {"USED_FRAME", "FREE_FRAME"}]
        /\ cow_count_mem \in [Frame -> Byte] /\ content \in [Frame -> Value]
    BY MemoryAssumption DEF Init, InitFrames, Byte
  <1>3. 0 \in Frame  BY MemoryAssumption DEF Frame
  <1>4. KernelPages \in [Page -> Entry]  BY <1>3 DEF KernelPages, Mapped, Absent, Entry
  <1>5. set_user_pages \in [Page -> Entry]
    <2>1. \A p \in Code \cup Data : FirstFrame(p) \in Frame  BY FirstFrames, NewFrames
    <2>2. \A p \in Page : p \in Code \cup Data => Mapped(FirstFrame(p), p \in Data) \in Entry
      BY <2>1 DEF Mapped, Entry
    <2>3. \A p \in Page : KernelPages[p] \in Entry  BY <1>4
    <2> QED  BY <2>2, <2>3 DEF set_user_pages
  <1>6. pagusr_table \in [Dir -> [Page -> Entry]]  BY <1>4, <1>5 DEF Init
  <1>7. /\ heap \in [Task -> Nat] /\ current = Task1 /\ cr3 = dir[Task1] /\ tlb = {}
    BY DEF Init
  <1>8. Task1 \in Task /\ dir[Task1] \in Dir
    <2>1. Task1 \in Task  BY MemoryAssumption DEF Task1, Task
    <2>2. dir[Task1] = NR_TASKS - 1 - Task1  BY <2>1 DEF Init, InitDirectories
    <2> QED  BY <2>1, <2>2, MemoryAssumption DEF Task1, Dir
  <1> QED  BY <1>1, <1>2, <1>6, <1>7, <1>8 DEF MemoryTypeOK, DirInv

\* The types DirInv says nothing of.
OtherTypes ==
  /\ phys_mem \in [Frame -> {"USED_FRAME", "FREE_FRAME"}] /\ cow_count_mem \in [Frame -> Byte]
  /\ content \in [Frame -> Value] /\ pagusr_table \in [Dir -> [Page -> Entry]]
  /\ heap \in [Task -> Nat] /\ current \in Task
  /\ cr3 \in Dir /\ tlb \in SUBSET (Page \X Entry)

\* free_frame, alloc_frame and the changes of one table keep the types.
LEMMA FrameTypes ==
  ASSUME OtherTypes, NEW S
  PROVE  /\ free_frames(S) \/ alloc_frames(S) \/ alloc_and_free_frames(S) =>
              /\ phys_mem' \in [Frame -> {"USED_FRAME", "FREE_FRAME"}]
              /\ cow_count_mem' \in [Frame -> Byte]
         /\ tlb \cup Outdated \in SUBSET (Page \X Entry)
PROOF
  <1>1. /\ phys_mem \in [Frame -> {"USED_FRAME", "FREE_FRAME"}] /\ cow_count_mem \in [Frame -> Byte]
        /\ \A f \in Frame : cow_count_mem[f] \in Byte
        /\ cr3 \in Dir /\ pagusr_table \in [Dir -> [Page -> Entry]]
        /\ tlb \in SUBSET (Page \X Entry)
    BY DEF OtherTypes
  <1>2. ASSUME free_frames(S)
        PROVE  /\ phys_mem' \in [Frame -> {"USED_FRAME", "FREE_FRAME"}]
               /\ cow_count_mem' \in [Frame -> Byte]
    <2>1. \A f \in Frame : CountAfterFree(f, cow_count_mem[f]) \in Byte  BY <1>1, Counts
    <2>2. \A f \in Frame : phys_mem[f] \in {"USED_FRAME", "FREE_FRAME"}  BY <1>1
    <2> QED  BY <1>1, <1>2, <2>1, <2>2 DEF free_frames
  <1>3. ASSUME alloc_frames(S)
        PROVE  /\ phys_mem' \in [Frame -> {"USED_FRAME", "FREE_FRAME"}]
               /\ cow_count_mem' \in [Frame -> Byte]
    BY <1>1, <1>3 DEF alloc_frames, Byte
  <1>4. ASSUME alloc_and_free_frames(S)
        PROVE  /\ phys_mem' \in [Frame -> {"USED_FRAME", "FREE_FRAME"}]
               /\ cow_count_mem' \in [Frame -> Byte]
    <2>1. 0 \in Byte  BY DEF Byte
    <2>2. \A f \in Frame : CountAfterFree(f, 0) \in Byte  BY <2>1, Counts
    <2> QED  BY <1>1, <1>4, <2>2 DEF alloc_and_free_frames
  <1>5. Outdated \in SUBSET (Page \X Entry)
    <2>1. \A p \in Page : pagusr_table[cr3][p] \in Entry  BY <1>1
    <2> QED  BY <2>1 DEF Outdated
  <1> QED  BY <1>1, <1>2, <1>3, <1>4, <1>5

\* A table some pages of which were changed.
LEMMA TableTypes ==
  ASSUME NEW tables \in [Dir -> [Page -> Entry]], NEW d \in Dir, NEW table \in [Page -> Entry]
  PROVE  [tables EXCEPT ![d] = table] \in [Dir -> [Page -> Entry]]
OBVIOUS

LEMMA ContentTypes ==
  ASSUME OtherTypes, NEW p, NEW v \in Value, KernelWrites(p, v)
  PROVE  content' \in [Frame -> Value]
PROOF
  <1>1. PICK e \in Translations(p) : content' = [content EXCEPT ![e.frame] = v]
    BY DEF KernelWrites
  <1> QED  BY <1>1 DEF OtherTypes

\* A heap has pages if and only if it has bytes.
LEMMA HeapSizes ==
  /\ \A bytes \in Nat : HeapPages(bytes) \in Nat
  /\ HeapPages(0) = 0
  /\ \A bytes \in Nat \ {0} : HeapPages(bytes) >= 1
PROOF
  <1>1. PAGE_SIZE \in Nat \ {0}  BY MemoryAssumption
  <1>2. \A bytes \in Nat : (bytes - 1 + PAGE_SIZE) \div PAGE_SIZE \in Nat  BY <1>1
  <1>3. (0 - 1 + PAGE_SIZE) \div PAGE_SIZE = 0  BY <1>1
  <1>4. \A bytes \in Nat \ {0} : (bytes - 1 + PAGE_SIZE) \div PAGE_SIZE >= 1  BY <1>1
  <1> QED  BY <1>2, <1>3, <1>4 DEF HeapPages

\* The pages a heap of a pages lacks to have b.
LEMMA HeapRanges ==
  ASSUME NEW a \in Nat, NEW b \in Nat
  PROVE  /\ b > a => /\ HeapRange(b) \ HeapRange(a)
                            = PAG_LOG_INIT_HEAP - b + 1 .. PAG_LOG_INIT_HEAP - a
                     /\ Cardinality(HeapRange(b) \ HeapRange(a)) = b - a
                     /\ \A p \in HeapRange(b) \ HeapRange(a) :
                          p \in Int /\ PAG_LOG_INIT_HEAP - a - p \in 0 .. b - a - 1
         /\ b <= a => HeapRange(b) \subseteq HeapRange(a)
PROOF
  <1>1. PAG_LOG_INIT_HEAP \in Nat  BY MemoryAssumption
  <1>2. b <= a => HeapRange(b) \subseteq HeapRange(a)  BY <1>1 DEF HeapRange
  <1>3. ASSUME b > a
        PROVE  /\ HeapRange(b) \ HeapRange(a) = PAG_LOG_INIT_HEAP - b + 1 .. PAG_LOG_INIT_HEAP - a
               /\ Cardinality(HeapRange(b) \ HeapRange(a)) = b - a
    <2>1. HeapRange(b) \ HeapRange(a) = PAG_LOG_INIT_HEAP - b + 1 .. PAG_LOG_INIT_HEAP - a
      BY <1>1, <1>3 DEF HeapRange
    <2>2. PICK lo \in Int, hi \in Int : /\ lo = PAG_LOG_INIT_HEAP - b + 1
                                       /\ hi = PAG_LOG_INIT_HEAP - a
      BY <1>1
    <2>3. Cardinality(lo .. hi) = IF lo > hi THEN 0 ELSE hi - lo + 1  BY FS_Interval
    <2>4. ~ (lo > hi) /\ hi - lo + 1 = b - a  BY <2>2, <1>1, <1>3
    <2>7. Cardinality(lo .. hi) = b - a  BY <2>3, <2>4
    <2>5. HeapRange(b) \ HeapRange(a) = lo .. hi  BY <2>1, <2>2
    <2>6. Cardinality(HeapRange(b) \ HeapRange(a)) = b - a
      <3> DEFINE S == HeapRange(b) \ HeapRange(a)
      <3>1. S = lo .. hi  BY <2>5
      <3> HIDE DEF S
      <3>2. Cardinality(S) = b - a  BY <3>1, <2>7
      <3> QED  BY <3>2 DEF S
    <2> QED  BY <2>1, <2>6
  <1>4. \A p \in PAG_LOG_INIT_HEAP - b + 1 .. PAG_LOG_INIT_HEAP - a :
          p \in Int /\ PAG_LOG_INIT_HEAP - a - p \in 0 .. b - a - 1
    BY <1>1
  <1> QED  BY <1>2, <1>3, <1>4

\* sbrk keeps the types.
LEMMA SbrkTypes ==
  ASSUME OtherTypes, DirInv, NEW increment \in Increments, Sbrk(increment)
  PROVE  OtherTypes'
PROOF
  <1>1. /\ phys_mem \in [Frame -> {"USED_FRAME", "FREE_FRAME"}] /\ cow_count_mem \in [Frame -> Byte]
        /\ content \in [Frame -> Value] /\ pagusr_table \in [Dir -> [Page -> Entry]]
        /\ heap \in [Task -> Nat] /\ current \in Task
        /\ cr3 \in Dir /\ tlb \in SUBSET (Page \X Entry)
        /\ dir \in [Task -> Dir \cup {NULL}]
    BY DEF OtherTypes, DirInv
  <1> DEFINE asked == heap[current] + increment
  <1>2. PICK size : size = IF asked < 0 THEN 0 ELSE asked  OBVIOUS
  <1>3. /\ \/ SbrkFails /\ UNCHANGED frameVars
           \/ HeapPages(size) > HeapPages(heap[current]) /\ Grow(size)
           \/ Shrink(size)
        /\ current' = current /\ dir[current] # NULL
    BY <1>2 DEF Sbrk, Running, Alive
  <1>4. size \in Nat
    <2>1. increment \in Int /\ heap[current] \in Nat  BY <1>1, MemoryAssumption
    <2> QED  BY <1>2, <2>1
  <1>5. dir[current] \in Dir  BY <1>1, <1>3
  <1>6. \A p \in Page : pagusr_table[dir[current]][p] \in Entry  BY <1>1, <1>5
  <1>7. CASE SbrkFails /\ UNCHANGED frameVars
    BY <1>7, <1>1, <1>3 DEF SbrkFails, frameVars, cpuVars, OtherTypes
  <1>8. CASE Shrink(size)
    <2> DEFINE less == HeapOf(current) \ HeapRange(HeapPages(size))
               table == [p \in Page |-> IF p \in less THEN Absent ELSE pagusr_table[dir[current]][p]]
    <2>1. /\ free_frames(FramesOf(current, less))
          /\ pagusr_table' = [pagusr_table EXCEPT ![dir[current]] = table]
          /\ heap' = [heap EXCEPT ![current] = size]
          /\ cr3' = dir[current] /\ tlb' = {} /\ content' = content
      BY <1>8 DEF Shrink, FlushAfterShrink, set_cr3
    <2>2. table \in [Page -> Entry]  BY <1>6, Entries
    <2> HIDE DEF table, less
    <2>3. pagusr_table' \in [Dir -> [Page -> Entry]]  BY <2>1, <2>2, <1>1, <1>5, TableTypes
    <2>4. /\ phys_mem' \in [Frame -> {"USED_FRAME", "FREE_FRAME"}]
          /\ cow_count_mem' \in [Frame -> Byte]
      BY <2>1, FrameTypes
    <2>5. heap' \in [Task -> Nat]  BY <2>1, <1>1, <1>4
    <2> QED  BY <2>1, <2>3, <2>4, <2>5, <1>1, <1>3, <1>5 DEF OtherTypes
  <1>9. CASE HeapPages(size) > HeapPages(heap[current]) /\ Grow(size)
    <2> DEFINE act  == HeapPages(heap[current])
               more == HeapRange(HeapPages(size)) \ HeapRange(act)
               n    == Cardinality(more)
               frameOf(p) == NewFrame(PAG_LOG_INIT_HEAP - act - p)
               table == [p \in Page |-> IF p \in more THEN Mapped(frameOf(p), TRUE)
                                                       ELSE pagusr_table[dir[current]][p]]
    <2>1. \/ SbrkFails /\ UNCHANGED frameVars
          \/ SbrkFails /\ alloc_and_free_frames(FreeFrames)
          \/ /\ Cardinality(FreeFrames) >= n
             /\ alloc_frames({frameOf(p) : p \in more})
             /\ pagusr_table' = [pagusr_table EXCEPT ![dir[current]] = table]
             /\ heap' = [heap EXCEPT ![current] = size]
             /\ content' = content /\ cr3' = cr3 /\ tlb' = tlb
      BY <1>9 DEF Grow, cpuVars
    <2>2. CASE SbrkFails /\ alloc_and_free_frames(FreeFrames)
      <3>1. /\ phys_mem' \in [Frame -> {"USED_FRAME", "FREE_FRAME"}]
            /\ cow_count_mem' \in [Frame -> Byte]
        BY <2>2, FrameTypes
      <3> QED  BY <3>1, <2>2, <1>1, <1>3 DEF SbrkFails, cpuVars, OtherTypes
    <2>3. CASE /\ Cardinality(FreeFrames) >= n
               /\ alloc_frames({frameOf(p) : p \in more})
               /\ pagusr_table' = [pagusr_table EXCEPT ![dir[current]] = table]
               /\ heap' = [heap EXCEPT ![current] = size]
               /\ content' = content /\ cr3' = cr3 /\ tlb' = tlb
      <3>1. act \in Nat /\ HeapPages(size) \in Nat /\ HeapPages(size) > act
        BY <1>1, <1>4, <1>9, HeapSizes
      <3>2. PICK b \in Nat : b = HeapPages(size) /\ b > act  BY <3>1
      <3>3. /\ n = b - act
            /\ \A p \in more : p \in Int /\ PAG_LOG_INIT_HEAP - act - p \in 0 .. b - act - 1
        <4> HIDE DEF act
        <4> QED  BY <3>1, <3>2, HeapRanges
      <3>4. Cardinality(FreeFrames) \in Nat /\ Cardinality(FreeFrames) >= n  BY <2>3, NewFrames
      <3>5. \A p \in more : PAG_LOG_INIT_HEAP - act - p \in 0 .. Cardinality(FreeFrames) - 1
        <4> HIDE DEF act, more, n
        <4> QED  BY <3>1, <3>2, <3>3, <3>4
      <3>6. \A p \in more : frameOf(p) \in Frame  BY <3>5, NewFrames
      <3> HIDE DEF act, n, more
      <3>7. \A p \in more : Mapped(frameOf(p), TRUE) \in Entry
        <4> HIDE DEF frameOf
        <4> QED  BY <3>6 DEF Mapped, Entry
      <3>8. table \in [Page -> Entry]  BY <3>7, <1>6
      <3> HIDE DEF table
      <3>9. pagusr_table' \in [Dir -> [Page -> Entry]]  BY <2>3, <3>8, <1>1, <1>5, TableTypes
      <3>10. /\ phys_mem' \in [Frame -> {"USED_FRAME", "FREE_FRAME"}]
             /\ cow_count_mem' \in [Frame -> Byte]
        BY <2>3, FrameTypes
      <3>11. heap' \in [Task -> Nat]  BY <2>3, <1>1, <1>4
      <3> QED  BY <2>3, <3>9, <3>10, <3>11, <1>1, <1>3 DEF OtherTypes
    <2> QED  BY <2>1, <2>2, <2>3, <1>7
  <1> QED  BY <1>3, <1>7, <1>8, <1>9

\* pf_rsi keeps the types.
LEMMA FaultTypes ==
  ASSUME OtherTypes, DirInv, NEW p \in Page, PageFault(p)
  PROVE  OtherTypes'
PROOF
  <1>1. /\ phys_mem \in [Frame -> {"USED_FRAME", "FREE_FRAME"}] /\ cow_count_mem \in [Frame -> Byte]
        /\ content \in [Frame -> Value] /\ pagusr_table \in [Dir -> [Page -> Entry]]
        /\ heap \in [Task -> Nat] /\ current \in Task
        /\ cr3 \in Dir /\ tlb \in SUBSET (Page \X Entry)
        /\ dir \in [Task -> Dir \cup {NULL}]
    BY DEF OtherTypes, DirInv
  <1>2. PICK f, count : f = PT(current)[p].frame /\ count = cow_count_mem[f]  OBVIOUS
  <1>3. /\ dir[current] # NULL
        /\ \/ Halt("WRONG ACCESS") /\ UNCHANGED cow_count_mem
           \/ MakeWritable(p, f)
           \/ count >= 2 /\ FreeFrames # {} /\ CopyPage(p, f)
           \/ /\ count >= 2 /\ cow_count_mem' = [cow_count_mem EXCEPT ![f] = count - 1]
              /\ Halt("NOT ENOUGH PHYSICAL MEMORY")
           \/ Halt("KERNEL PANIC") /\ UNCHANGED cow_count_mem
        /\ heap' = heap /\ current' = current
    BY <1>2 DEF PageFault, Running, Alive
  <1>4. dir[current] \in Dir  BY <1>1, <1>3
  <1>5. f \in Frame /\ count \in Byte
    <2>1. pagusr_table[dir[current]][p] \in Entry  BY <1>1, <1>4
    <2> QED  BY <2>1, <1>1, <1>2, Entries DEF PT
  <1>6. ASSUME NEW why, Halt(why), cow_count_mem' \in [Frame -> Byte]  PROVE OtherTypes'
    BY <1>1, <1>3, <1>6 DEF Halt, OtherTypes, cpuVars
  <1>7. \A g \in Frame, w \in BOOLEAN :
          [pagusr_table EXCEPT ![dir[current]][p] = Mapped(g, w)] \in [Dir -> [Page -> Entry]]
    BY <1>1, <1>4, Entries
  <1>8. \A g \in Frame : [pagusr_table EXCEPT ![dir[current]][p] = Mapped(g, TRUE)]
                           \in [Dir -> [Page -> Entry]]
    <2>1. PICK w \in BOOLEAN : w = TRUE  OBVIOUS
    <2> QED  BY <1>7, <2>1
  <1>9. CASE MakeWritable(p, f)
    <2>1. /\ cow_count_mem' = [cow_count_mem EXCEPT ![f] = 0]
          /\ pagusr_table' = [pagusr_table EXCEPT ![dir[current]][p] = Mapped(f, TRUE)]
          /\ tlb' = {c \in tlb : c[1] # p}
          /\ phys_mem' = phys_mem /\ content' = content /\ cr3' = cr3
      BY <1>9 DEF MakeWritable
    <2>2. cow_count_mem' \in [Frame -> Byte]
      <3>1. 0 \in Byte  BY DEF Byte
      <3> QED  BY <3>1, <2>1, <1>1
    <2>3. pagusr_table' \in [Dir -> [Page -> Entry]]  BY <2>1, <1>5, <1>8
    <2> QED  BY <2>1, <2>2, <2>3, <1>1, <1>3 DEF OtherTypes
  <1>10. CASE count >= 2 /\ FreeFrames # {} /\ CopyPage(p, f)
    <2>1. PICK new : new = NewFrame(0)  OBVIOUS
    <2>2. new \in Frame  BY <2>1, <1>10, NewFrames
    <2>3. /\ phys_mem' = [phys_mem EXCEPT ![new] = "USED_FRAME"]
          /\ cow_count_mem' = [cow_count_mem EXCEPT ![f] = cow_count_mem[f] - 1, ![new] = 0]
          /\ content' = [content EXCEPT ![new] = content[f]]
          /\ pagusr_table' = [pagusr_table EXCEPT ![dir[current]][p] = Mapped(new, TRUE)]
          /\ cr3' = dir[current] /\ tlb' = {}
      BY <2>1, <1>10 DEF CopyPage, CountAfterCopy, set_cr3
    <2>4. phys_mem' \in [Frame -> {"USED_FRAME", "FREE_FRAME"}]  BY <2>3, <1>1
    <2>5. cow_count_mem' \in [Frame -> Byte]
      <3>1. count - 1 \in Byte /\ 0 \in Byte  BY <1>5, <1>10 DEF Byte
      <3> QED  BY <3>1, <2>3, <1>1, <1>2
    <2>6. content' \in [Frame -> Value]  BY <2>3, <1>1, <1>5
    <2>7. pagusr_table' \in [Dir -> [Page -> Entry]]  BY <2>2, <2>3, <1>8
    <2> QED  BY <2>3, <2>4, <2>5, <2>6, <2>7, <1>1, <1>3, <1>4 DEF OtherTypes
  <1>11. count >= 2 => [cow_count_mem EXCEPT ![f] = count - 1] \in [Frame -> Byte]
    <2>1. count >= 2 => count - 1 \in Byte  BY <1>5 DEF Byte
    <2> QED  BY <2>1, <1>1
  <1> QED  BY <1>3, <1>1, <1>6, <1>9, <1>10, <1>11

\* sys_exit, as far as free_DIR, keeps the types.
LEMMA ExitTypes ==
  ASSUME OtherTypes, DirInv, Exit
  PROVE  OtherTypes'
PROOF
  <1>1. /\ phys_mem \in [Frame -> {"USED_FRAME", "FREE_FRAME"}] /\ cow_count_mem \in [Frame -> Byte]
        /\ content \in [Frame -> Value] /\ pagusr_table \in [Dir -> [Page -> Entry]]
        /\ heap \in [Task -> Nat] /\ current \in Task
        /\ cr3 \in Dir /\ tlb \in SUBSET (Page \X Entry)
        /\ dir \in [Task -> Dir \cup {NULL}]
    BY DEF OtherTypes, DirInv
  <1>2. /\ dir[current] # NULL
        /\ \/ free_user_pages(current)
           \/ UNCHANGED <<frameVars, pagusr_table>>
        /\ heap' = [heap EXCEPT ![current] = 0]
        /\ tlb' = tlb \cup Outdated /\ cr3' = cr3 /\ content' = content /\ current' = current
    BY DEF Exit, Running, Alive, free_DIR, NoFlush
  <1>3. dir[current] \in Dir  BY <1>1, <1>2
  <1>4. heap' \in [Task -> Nat] /\ tlb' \in SUBSET (Page \X Entry)
    <2>1. heap' \in [Task -> Nat]  BY <1>1, <1>2
    <2> QED  BY <2>1, <1>2, FrameTypes
  <1>5. CASE free_user_pages(current)
    <2> DEFINE cleared == Data \cup ({PAG_LOG_INIT_HEAP} \cap HeapOf(current))
               table == [p \in Page |-> IF p \in cleared THEN Absent ELSE pagusr_table[dir[current]][p]]
    <2>1. /\ free_frames(FramesOf(current, Data \cup HeapOf(current)))
          /\ pagusr_table' = [pagusr_table EXCEPT ![dir[current]] = table]
      BY <1>5 DEF free_user_pages
    <2>2. table \in [Page -> Entry]  BY <1>1, <1>3, Entries
    <2> HIDE DEF table
    <2>3. pagusr_table' \in [Dir -> [Page -> Entry]]  BY <2>1, <2>2, <1>1, <1>3, TableTypes
    <2>4. /\ phys_mem' \in [Frame -> {"USED_FRAME", "FREE_FRAME"}]
          /\ cow_count_mem' \in [Frame -> Byte]
      BY <2>1, FrameTypes
    <2> QED  BY <2>3, <2>4, <1>1, <1>2, <1>4 DEF OtherTypes
  <1>6. CASE UNCHANGED <<frameVars, pagusr_table>>
    BY <1>1, <1>2, <1>4, <1>6 DEF frameVars, OtherTypes
  <1> QED  BY <1>2, <1>5, <1>6

\* sys_fork keeps the types.
LEMMA ForkTypes ==
  ASSUME MemoryTypeOK, OtherTypes, DirInv, NEW child \in Task, Fork(child)
  PROVE  OtherTypes'
PROOF
  <1>1. /\ phys_mem \in [Frame -> {"USED_FRAME", "FREE_FRAME"}] /\ cow_count_mem \in [Frame -> Byte]
        /\ content \in [Frame -> Value] /\ heap \in [Task -> Nat] /\ current \in Task
    BY DEF OtherTypes
  <1>2. PICK frames : frames = FramesOf(current, Data \cup HeapOf(current))  OBVIOUS
  <1>3. /\ heap' = [heap EXCEPT ![child] = heap[current]]
        /\ cow_count_mem' = [f \in Frame |-> IF f \in frames THEN CountAfterShare(cow_count_mem[f])
                                                             ELSE cow_count_mem[f]]
        /\ cr3' = dir[current] /\ tlb' = {}
        /\ phys_mem' = phys_mem /\ content' = content /\ current' = current
    BY <1>2 DEF Fork, FlushAfterFork, set_cr3
  <1>4. dir[current] \in Dir /\ pagusr_table' \in [Dir -> [Page -> Entry]]  BY TablesAfterFork
  <1>5. cow_count_mem' \in [Frame -> Byte]
    <2>1. \A f \in Frame : cow_count_mem[f] \in Byte /\ CountAfterShare(cow_count_mem[f]) \in Byte
      BY <1>1, Counts
    <2> QED  BY <2>1, <1>3
  <1>6. heap' \in [Task -> Nat]  BY <1>1, <1>3
  <1> QED  BY <1>1, <1>3, <1>4, <1>5, <1>6 DEF OtherTypes

\* The processor takes one task's directory, or keeps the one it has.
LEMMA SwitchTypes ==
  ASSUME OtherTypes, DirInv, NEW next \in Task, Alive(next), SwitchTo(next)
  PROVE  current' \in Task /\ cr3' \in Dir /\ tlb' \in SUBSET (Page \X Entry)
BY DEF OtherTypes, DirInv, Alive, SwitchTo, set_cr3, cpuVars

LEMMA TypeStep == MemoryTypeOK /\ DirInv /\ [Next]_vars => MemoryTypeOK' /\ DirInv'
PROOF
  <1> SUFFICES ASSUME MemoryTypeOK, DirInv, [Next]_vars  PROVE MemoryTypeOK' /\ DirInv'  OBVIOUS
  <1>1. OtherTypes  BY DEF MemoryTypeOK, OtherTypes
  <1>2. DirInv'  BY <1>1, DirStep DEF OtherTypes
  <1>3. OtherTypes'
    <2>1. CASE UNCHANGED vars
      BY <2>1, <1>1 DEF vars, frameVars, dirVars, cpuVars, OtherTypes
    <2>2. CASE Exit  BY <2>2, <1>1, ExitTypes
    <2>3. ASSUME NEW t \in Task, Fork(t)  PROVE OtherTypes'  BY <2>3, <1>1, ForkTypes
    <2>4. ASSUME NEW t \in Task, NEW p \in Page, NEW v \in Value, Clone(t, p, v)  PROVE OtherTypes'
      <3>1. content' \in [Frame -> Value]
        <4>1. PICK q \in {p - 1, p} : KernelWrites(q, v)  BY <2>4 DEF Clone
        <4> QED  BY <4>1, <1>1, ContentTypes
      <3>2. /\ heap' = [heap EXCEPT ![t] = HeapOfThread]
            /\ phys_mem' = phys_mem /\ cow_count_mem' = cow_count_mem
            /\ pagusr_table' = pagusr_table /\ current' = current /\ cr3' = cr3 /\ tlb' = tlb
        BY <2>4 DEF Clone, frameVars, cpuVars
      <3>3. heap' \in [Task -> Nat]  BY <3>2, <1>1 DEF OtherTypes, HeapOfThread
      <3> QED  BY <3>1, <3>2, <3>3, <1>1 DEF OtherTypes
    <2>5. ASSUME NEW increment \in Increments, Sbrk(increment)  PROVE OtherTypes'
      BY <2>5, <1>1, SbrkTypes
    <2>6. ASSUME NEW p \in SyscallPages, NEW v \in Value, NEW next \in Task,
                 SyscallWrites(p, v, next)
          PROVE  OtherTypes'
      <3>1. KernelWrites(p, v) /\ Alive(next)  BY <2>6 DEF SyscallWrites
      <3>2. content' \in [Frame -> Value]  BY <3>1, <1>1, ContentTypes
      <3>3. /\ phys_mem' = phys_mem /\ cow_count_mem' = cow_count_mem
            /\ pagusr_table' = pagusr_table /\ heap' = heap
        BY <2>6 DEF SyscallWrites, frameVars
      <3>4. CASE current' = current /\ cr3' = cr3 /\ tlb' = tlb
        BY <3>2, <3>3, <3>4, <1>1 DEF OtherTypes
      <3>5. CASE SwitchTo(next)
        <4>1. current' \in Task /\ cr3' \in Dir /\ tlb' \in SUBSET (Page \X Entry)
          BY <3>1, <3>5, <1>1, SwitchTypes
        <4> QED  BY <4>1, <3>2, <3>3, <1>1 DEF OtherTypes
      <3> QED  BY <2>6, <3>4, <3>5 DEF SyscallWrites, cpuVars
    <2>7. ASSUME NEW t \in Task, Switch(t)  PROVE OtherTypes'
      <3>1. /\ Alive(t) /\ SwitchTo(t)
            /\ phys_mem' = phys_mem /\ cow_count_mem' = cow_count_mem
            /\ pagusr_table' = pagusr_table /\ heap' = heap /\ content' = content
        BY <2>7 DEF Switch, frameVars
      <3>2. current' \in Task /\ cr3' \in Dir /\ tlb' \in SUBSET (Page \X Entry)
        BY <3>1, <1>1, SwitchTypes
      <3> QED  BY <3>1, <3>2, <1>1 DEF OtherTypes
    <2>8. ASSUME NEW p \in Page, PageFault(p)  PROVE OtherTypes'  BY <2>8, <1>1, FaultTypes
    <2>9. ASSUME NEW p \in Page, NEW v \in Value, Write(p, v)  PROVE OtherTypes'
      <3>1. PICK e \in Translations(p) : content' = [content EXCEPT ![e.frame] = v]
        BY <2>9 DEF Write
      <3>2. /\ phys_mem' = phys_mem /\ cow_count_mem' = cow_count_mem
            /\ pagusr_table' = pagusr_table /\ heap' = heap
            /\ current' = current /\ cr3' = cr3 /\ tlb' = tlb
        BY <2>9 DEF Write, frameVars, cpuVars
      <3>3. content' \in [Frame -> Value]  BY <3>1, <1>1 DEF OtherTypes
      <3> QED  BY <3>2, <3>3, <1>1 DEF OtherTypes
    <2> QED
      BY <2>1, <2>2, <2>3, <2>4, <2>5, <2>6, <2>7, <2>8, <2>9 DEF Next, UserAccess, SystemCall
  <1>4. MemoryTypeOK'  BY <1>2, <1>3 DEF MemoryTypeOK, OtherTypes, DirInv
  <1> QED  BY <1>2, <1>4

-----------------------------------------------------------------------------
(* The TLB. *)

LEMMA CoherentInit == Init => TLBCoherent
PROOF  BY DEF Init, TLBCoherent

\* Whatever changes a table that is in use loads cr3 again, or takes the entry out of the TLB;
\* or it is an exit, after which no address space is used.
LEMMA CoherentStep ==
  MemoryTypeOK /\ DirInv /\ TLBCoherent /\ [Next]_vars => TLBCoherent'
PROOF
  <1> SUFFICES ASSUME MemoryTypeOK, DirInv, TLBCoherent, [Next]_vars, Alive(current)'
               PROVE  cr3' = dir'[current'] /\ tlb' = {}
    BY DEF TLBCoherent
  <1>1. current \in Task /\ dir \in [Task -> Dir \cup {NULL}]  BY DEF MemoryTypeOK
  <1>2. Alive(current) => cr3 = dir[current] /\ tlb = {}  BY DEF TLBCoherent
  <1>3. ASSUME NEW t, SwitchTo(t), Alive(t), dir' = dir  PROVE cr3' = dir'[current'] /\ tlb' = {}
    <2>1. current' = t /\ dir'[current'] = dir[t]  BY <1>3 DEF SwitchTo
    <2>2. CASE dir[current] # dir[t]  BY <2>1, <2>2, <1>3 DEF SwitchTo, set_cr3
    <2>3. CASE dir[current] = dir[t]
      BY <2>1, <2>3, <1>2, <1>3 DEF SwitchTo, cpuVars, Alive
    <2> QED  BY <2>2, <2>3
  <1>4. CASE UNCHANGED vars  BY <1>2, <1>4 DEF vars, dirVars, cpuVars, Alive
  <1>5. CASE Exit
    <2>1. dir' = [dir EXCEPT ![current] = NULL] /\ current' = current
      BY <1>5 DEF Exit, free_DIR
    <2> QED  BY <2>1, <1>1 DEF Alive
  <1>6. ASSUME NEW t \in Task, Fork(t)  PROVE cr3' = dir'[current'] /\ tlb' = {}
    <2>1. /\ dir' = [dir EXCEPT ![t] = Head(free_dirs)] /\ dir[t] = NULL /\ dir[current] # NULL
          /\ cr3' = dir[current] /\ tlb' = {} /\ current' = current
      BY <1>6 DEF Fork, FlushAfterFork, set_cr3, allocate_DIR, Running, Alive
    <2> QED  BY <2>1, <1>1
  <1>7. ASSUME NEW t \in Task, NEW p \in Page, NEW v \in Value, Clone(t, p, v)
        PROVE  cr3' = dir'[current'] /\ tlb' = {}
    <2>1. /\ dir' = [dir EXCEPT ![t] = dir[current]] /\ dir[t] = NULL /\ dir[current] # NULL
          /\ cr3' = cr3 /\ tlb' = tlb /\ current' = current
      BY <1>7 DEF Clone, reuse_DIR, Running, Alive, cpuVars
    <2> QED  BY <2>1, <1>1, <1>2 DEF Alive
  <1>8. ASSUME NEW increment \in Increments, Sbrk(increment)
        PROVE  cr3' = dir'[current'] /\ tlb' = {}
    <2>1. dir' = dir /\ current' = current /\ Alive(current)
      BY <1>8 DEF Sbrk, dirVars, Running
    <2>2. UNCHANGED cpuVars \/ set_cr3(dir[current])
      BY <1>8 DEF Sbrk, Grow, Shrink, SbrkFails, FlushAfterShrink, cpuVars
    <2> QED  BY <2>1, <2>2, <1>2 DEF cpuVars, set_cr3
  <1>9. ASSUME NEW p \in SyscallPages, NEW v \in Value, NEW next \in Task,
               SyscallWrites(p, v, next)
        PROVE  cr3' = dir'[current'] /\ tlb' = {}
    <2>1. /\ dir' = dir /\ Alive(next) /\ Alive(current)
          /\ IF next = current THEN UNCHANGED <<current, cpuVars>> ELSE SwitchTo(next)
      BY <1>9 DEF SyscallWrites, dirVars, Running
    <2>2. CASE next = current  BY <2>1, <2>2, <1>2 DEF cpuVars
    <2>3. CASE next # current  BY <2>1, <2>3, <1>3
    <2> QED  BY <2>2, <2>3
  <1>10. ASSUME NEW t \in Task, Switch(t)  PROVE cr3' = dir'[current'] /\ tlb' = {}
    BY <1>10, <1>3 DEF Switch, dirVars
  <1>11. ASSUME NEW p \in Page, PageFault(p)  PROVE cr3' = dir'[current'] /\ tlb' = {}
    <2>1. dir' = dir /\ current' = current /\ Alive(current)
      BY <1>11 DEF PageFault, dirVars, Running
    <2>2. \/ UNCHANGED cpuVars
          \/ tlb' = {c \in tlb : c[1] # p} /\ cr3' = cr3
          \/ set_cr3(dir[current])
      BY <1>11 DEF PageFault, Halt, MakeWritable, CopyPage
    <2> QED  BY <2>1, <2>2, <1>2 DEF cpuVars, set_cr3
  <1>12. ASSUME NEW p \in Page, NEW v \in Value, Write(p, v)
         PROVE  cr3' = dir'[current'] /\ tlb' = {}
    BY <1>2, <1>12 DEF Write, dirVars, cpuVars, Running
  <1> QED
    BY <1>4, <1>5, <1>6, <1>7, <1>8, <1>9, <1>10, <1>11, <1>12 DEF Next, UserAccess, SystemCall

-----------------------------------------------------------------------------

\* What holds for all programs: the types, the counts of directories, and the TLB.
MemoryInv == MemoryTypeOK /\ DirInv /\ TLBCoherent

\* Every system call, page fault and switch keeps them.
THEOREM MemoryInvariance == Spec => []MemoryInv
PROOF
  <1>1. Init => MemoryInv  BY TypeInit, DirInit, CoherentInit DEF MemoryInv
  <1>2. MemoryInv /\ [Next]_vars => MemoryInv'  BY TypeStep, CoherentStep DEF MemoryInv
  <1> QED  BY <1>1, <1>2, PTL DEF Spec

\* MemoryTypeOK: the counts stay bytes and the tables tables, whatever the programs do.
THEOREM MemoryTypeCorrect == Spec => []MemoryTypeOK
PROOF
  <1>1. MemoryInv => MemoryTypeOK  BY DEF MemoryInv
  <1> QED  BY <1>1, MemoryInvariance, PTL

\* DirectoryCountsExact: allocate_DIR, reuse_DIR and free_DIR lose no directory and give none
\* back that is in use.
THEOREM DirectoriesAreCounted == Spec => []DirectoryCountsExact
PROOF
  <1>1. MemoryInv => DirectoryCountsExact
    BY DistinctMembers DEF MemoryInv, DirInv, DirectoryCountsExact
  <1> QED  BY <1>1, MemoryInvariance, PTL

\* TLBCoherent: a task runs in its own directory, and finds nothing old in the TLB.
THEOREM NoStaleTranslation == Spec => []TLBCoherent
PROOF
  <1>1. MemoryInv => TLBCoherent  BY DEF MemoryInv
  <1> QED  BY <1>1, MemoryInvariance, PTL

-----------------------------------------------------------------------------
(* Address spaces. *)

\* A frame that pages other than the code may have.
Usable == Allocatable \ CodeFrames

\* A table a process with so many bytes of heap can run with.
Fine(table, bytes) ==
  /\ HeapPages(bytes) <= PAG_LOG_INIT_HEAP - (NUM_PAG_CODE + NUM_PAG_DATA)
  /\ \A p \in Data \cup HeapRange(HeapPages(bytes)) : table[p].present /\ table[p].frame \in Usable
  /\ \A p \in Code : table[p] = Mapped(FirstFrame(p), FALSE)

\* The frames of the kernel and of the code are never shared and never freed.
FixedFrames ==
  \A f \in CodeFrames \cup {0} : phys_mem[f] = "USED_FRAME" /\ cow_count_mem[f] = 0

TablesFine ==
  /\ \A d \in Dir : pagusr_table[d][0].present
  /\ \A d \in Dir, p \in Page : ~pagusr_table[d][p].present => pagusr_table[d][p].frame = 0
  /\ \A t \in Task \ {Idle} : Alive(t) => Fine(pagusr_table[dir[t]], heap[t])

SpaceInv == FixedFrames /\ TablesFine /\ OneHeapPerProcess

\* The pages of a process that has such a table.
LEMMA FinePages ==
  ASSUME NEW n \in Nat, n <= PAG_LOG_INIT_HEAP - (NUM_PAG_CODE + NUM_PAG_DATA)
  PROVE  /\ HeapRange(n) \subseteq Page
         /\ HeapRange(n) \cap (Code \cup Data \cup {0}) = {}
PROOF
  <1>1. /\ NUM_PAG_CODE \in Nat \ {0} /\ NUM_PAG_DATA \in Nat \ {0} /\ PAG_LOG_INIT_HEAP \in Nat
    BY MemoryAssumption
  <1>2. \A p \in HeapRange(n) : p \in Int /\ p > NUM_PAG_CODE + NUM_PAG_DATA /\ p <= PAG_LOG_INIT_HEAP
    BY <1>1 DEF HeapRange
  <1>3. \A p \in Code \cup Data \cup {0} : p <= NUM_PAG_CODE + NUM_PAG_DATA
    BY <1>1 DEF Code, Data
  <1>4. HeapRange(n) \subseteq Page  BY <1>1, <1>2 DEF Page
  <1>5. \A p \in HeapRange(n) : p \notin Code \cup Data \cup {0}
    <2> SUFFICES ASSUME NEW p \in HeapRange(n), p \in Code \cup Data \cup {0}  PROVE FALSE  OBVIOUS
    <2>1. p \in Int /\ p > NUM_PAG_CODE + NUM_PAG_DATA /\ p <= NUM_PAG_CODE + NUM_PAG_DATA
      BY <1>2, <1>3
    <2> QED  BY <2>1, <1>1
  <1> QED  BY <1>4, <1>5

\* Frames that are free, and frames that owned pages have, are not the kernel's or the code's.
LEMMA UsableFrames ==
  /\ Usable \subseteq Frame /\ Usable \cap (CodeFrames \cup {0}) = {}
  /\ CodeFrames \cup {0} \subseteq Frame
  /\ \A p \in Code : FirstFrame(p) \in CodeFrames
  /\ \A p \in Data : FirstFrame(p) \in Usable
  /\ NUM_PAG_KERNEL \in CodeFrames
PROOF
  <1>1. Usable \subseteq Frame  BY NewFrames DEF Usable
  <1>2. 0 \notin Usable /\ 0 \in Frame  BY MemoryAssumption DEF Usable, Allocatable, Frame
  <1>3. CodeFrames = {FirstFrame(p) : p \in Code}  BY DEF CodeFrames, FirstFrame
  <1>4. CodeFrames \subseteq Frame  BY <1>3, FirstFrames, NewFrames
  <1>5. \A p \in Data : FirstFrame(p) \in Usable  BY <1>3, FirstFrames, Pages DEF Usable
  <1>6. FirstFrame(1) = NUM_PAG_KERNEL  BY MemoryAssumption DEF FirstFrame
  <1>7. NUM_PAG_KERNEL \in CodeFrames  BY <1>3, <1>6, Pages
  <1> QED  BY <1>1, <1>2, <1>3, <1>4, <1>5, <1>7 DEF Usable

LEMMA FreeIsUsable ==
  FixedFrames => FreeFrames \subseteq Usable
PROOF  BY NewFrames DEF FixedFrames, FreeFrames, Usable

\* What the functions do to the frames leaves the kernel's and the code's alone, if they are
\* called for others.
LEMMA FixedStay ==
  ASSUME OtherTypes, FixedFrames, NEW S \in SUBSET Usable
  PROVE  free_frames(S) \/ alloc_frames(S) \/ alloc_and_free_frames(S) => FixedFrames'
PROOF
  <1>1. \A f \in CodeFrames \cup {0} : f \in Frame /\ f \notin S  BY UsableFrames
  <1>2. CASE free_frames(S)  BY <1>1, <1>2 DEF free_frames, FixedFrames
  <1>3. CASE alloc_frames(S)  BY <1>1, <1>3 DEF alloc_frames, FixedFrames
  <1>4. CASE alloc_and_free_frames(S)  BY <1>1, <1>4 DEF alloc_and_free_frames, FixedFrames
  <1> QED  BY <1>2, <1>3, <1>4

\* The pages of a process are its data and a heap beyond the code and the data.
LEMMA LivePages ==
  ASSUME MemoryTypeOK, DirInv, SpaceInv, NEW t \in Task \ {Idle}, Alive(t)
  PROVE  /\ dir[t] \in Dir /\ heap[t] \in Nat /\ HeapPages(heap[t]) \in Nat
         /\ HeapPages(heap[t]) <= PAG_LOG_INIT_HEAP - (NUM_PAG_CODE + NUM_PAG_DATA)
         /\ Data \cup HeapOf(t) \subseteq Page \ (Code \cup {0})
         /\ \A p \in Data \cup HeapOf(t) : /\ pagusr_table[dir[t]][p].present
                                           /\ pagusr_table[dir[t]][p].frame \in Usable
         /\ \A p \in Code : pagusr_table[dir[t]][p] = Mapped(FirstFrame(p), FALSE)
         /\ FramesOf(t, Data \cup HeapOf(t)) \subseteq Usable
         /\ Data \cup HeapOf(t) \subseteq Owned(dir[t])
PROOF
  <1>1. dir[t] \in Dir /\ heap[t] \in Nat  BY DEF MemoryTypeOK, Alive
  <1>2. HeapPages(heap[t]) \in Nat  BY <1>1, HeapSizes
  <1>3. Fine(pagusr_table[dir[t]], heap[t])  BY DEF SpaceInv, TablesFine
  <1>4. HeapPages(heap[t]) <= PAG_LOG_INIT_HEAP - (NUM_PAG_CODE + NUM_PAG_DATA)  BY <1>3 DEF Fine
  <1>5. HeapOf(t) \subseteq Page /\ HeapOf(t) \cap (Code \cup Data \cup {0}) = {}
    BY <1>2, <1>4, FinePages DEF HeapOf
  <1>6. Data \cup HeapOf(t) \subseteq Page \ (Code \cup {0})  BY <1>5, Pages
  <1>7. /\ \A p \in Data \cup HeapOf(t) : /\ pagusr_table[dir[t]][p].present
                                          /\ pagusr_table[dir[t]][p].frame \in Usable
        /\ \A p \in Code : pagusr_table[dir[t]][p] = Mapped(FirstFrame(p), FALSE)
    BY <1>3 DEF Fine, HeapOf
  <1>8. FramesOf(t, Data \cup HeapOf(t)) \subseteq Usable  BY <1>7 DEF FramesOf, PT
  <1>9. Data \cup HeapOf(t) \subseteq Owned(dir[t])
    <2>1. t \in UsersOf(dir[t])  BY DEF UsersOf
    <2>2. ~ UsersOf(dir[t]) \subseteq {Idle}  BY <2>1
    <2> QED  BY <2>1, <2>2 DEF Owned
  <1> QED  BY <1>1, <1>2, <1>4, <1>6, <1>7, <1>8, <1>9

\* A page a directory's tasks were given is one that some task of it was given.
LEMMA OwnedPages ==
  ASSUME MemoryTypeOK, DirInv, NEW d \in Dir, NEW p \in Owned(d)
  PROVE  \E t \in Task \ {Idle} : Alive(t) /\ dir[t] = d /\ p \in Data \cup HeapOf(t)
PROOF
  <1>1. PICK u \in UsersOf(d) : u # Idle  BY DEF Owned
  <1>2. u \in Task \ {Idle} /\ dir[u] = d  BY <1>1 DEF UsersOf
  <1>3. NULL \notin Dir  BY MemoryAssumption DEF NULL, Dir
  <1>4. \A t \in UsersOf(d) : t \in Task \ {Idle} /\ Alive(t) /\ dir[t] = d
    BY <1>2, <1>3 DEF UsersOf, DirInv, Alive
  <1>5. p \in Data \/ \E t \in UsersOf(d) : p \in HeapOf(t)  BY DEF Owned
  <1> QED  BY <1>1, <1>4, <1>5

LEMMA SpaceInit == Init => SpaceInv
PROOF
  <1> SUFFICES ASSUME Init  PROVE SpaceInv  OBVIOUS
  <1>1. DirInv /\ MemoryTypeOK  BY DirInit, TypeInit
  <1>2. FixedFrames
    <2>1. CodeFrames = {FirstFrame(p) : p \in Code}  BY DEF CodeFrames, FirstFrame
    <2>2. 0 \in 0 .. NUM_PAG_KERNEL - 1  BY MemoryAssumption
    <2> QED  BY <2>1, <2>2, UsableFrames DEF FixedFrames, Init, InitFrames
  <1>3. /\ \A d \in Dir : pagusr_table[d] = IF d = dir[Task1] THEN set_user_pages ELSE KernelPages
        /\ \A t \in Task : heap[t] = 0
    BY DEF Init
  <1>4. /\ \A p \in Page : KernelPages[p] = IF p = 0 THEN Mapped(0, TRUE) ELSE Absent
        /\ \A p \in Page : set_user_pages[p] =
             IF p \in Code \cup Data THEN Mapped(FirstFrame(p), p \in Data) ELSE KernelPages[p]
    BY DEF KernelPages, set_user_pages
  <1>5. /\ \A f, w : Mapped(f, w).present /\ Mapped(f, w).frame = f
        /\ ~Absent.present /\ Absent.frame = 0
    BY DEF Mapped, Absent
  <1>6. \A d \in Dir : pagusr_table[d][0].present
    <2>1. KernelPages[0].present  BY <1>4, Pages DEF Mapped
    <2>2. set_user_pages[0].present  BY <1>4, <2>1, Pages
    <2> QED  BY <1>3, <2>1, <2>2
  <1>7. \A d \in Dir, p \in Page : ~pagusr_table[d][p].present => pagusr_table[d][p].frame = 0
    <2>1. \A p \in Page : ~KernelPages[p].present => KernelPages[p].frame = 0
      BY <1>4 DEF Mapped, Absent
    <2>2. ASSUME NEW p \in Page  PROVE ~set_user_pages[p].present => set_user_pages[p].frame = 0
      <3>1. CASE p \in Code \cup Data
        <4>1. set_user_pages[p].present  BY <3>1, <1>4, <1>5
        <4> QED  BY <4>1
      <3>2. CASE p \notin Code \cup Data  BY <3>2, <1>4, <2>1
      <3> QED  BY <3>1, <3>2
    <2> QED  BY <1>3, <2>1, <2>2
  <1>8. ASSUME NEW t \in Task \ {Idle}, Alive(t)  PROVE Fine(pagusr_table[dir[t]], heap[t])
    <2>1. t = Task1  BY <1>8 DEF Init, InitDirectories, Alive
    <2>2. dir[Task1] \in Dir  BY <1>1, <2>1, <1>8 DEF DirInv, Alive
    <2>3. pagusr_table[dir[t]] = set_user_pages /\ heap[t] = 0  BY <1>3, <2>1, <2>2
    <2>4. HeapRange(0) = {}  BY MemoryAssumption DEF HeapRange
    <2>5. \A p \in Data : set_user_pages[p].present /\ set_user_pages[p].frame \in Usable
      BY <1>4, <1>5, Pages, UsableFrames
    <2>6. ASSUME NEW p \in Code  PROVE set_user_pages[p] = Mapped(FirstFrame(p), FALSE)
      <3>1. p \notin Data /\ p \in Page  BY Pages
      <3>2. (p \in Data) = FALSE  BY <3>1
      <3> QED  BY <1>4, <3>1, <3>2
    <2>7. 0 <= PAG_LOG_INIT_HEAP - (NUM_PAG_CODE + NUM_PAG_DATA)  BY MemoryAssumption
    <2> QED  BY <2>3, <2>4, <2>5, <2>6, <2>7, HeapSizes DEF Fine
  <1>9. OneHeapPerProcess  BY <1>3 DEF OneHeapPerProcess
  <1> QED  BY <1>2, <1>6, <1>7, <1>8, <1>9 DEF SpaceInv, TablesFine

\* A table in which one page has got another frame, or the same one to write to.
LEMMA Remapped ==
  ASSUME NEW table \in [Page -> Entry], NEW bytes \in Nat, Fine(table, bytes),
         NEW p \in Page \ Code, NEW g \in Usable
  PROVE  Fine([table EXCEPT ![p] = Mapped(g, TRUE)], bytes)
PROOF
  <1> DEFINE e == Mapped(g, TRUE)
  <1>1. e.present /\ e.frame = g  BY DEF Mapped
  <1> HIDE DEF e
  <1>2. HeapPages(bytes) \in Nat  BY HeapSizes
  <1>3. Data \cup HeapRange(HeapPages(bytes)) \cup Code \subseteq Page
    BY <1>2, FinePages, Pages DEF Fine
  <1>4. \A q \in Page : [table EXCEPT ![p] = e][q] = IF q = p THEN e ELSE table[q]  OBVIOUS
  <1>5. Fine([table EXCEPT ![p] = e], bytes)  BY <1>1, <1>3, <1>4 DEF Fine
  <1> QED  BY <1>5 DEF e

\* What pf_rsi does: it stops the machine, or it makes a page the process was given writable,
\* in its frame or in a copy of it.
LEMMA FaultEffects ==
  ASSUME MemoryTypeOK, DirInv, SpaceInv, NEW p \in Page, PageFault(p),
         NEW d, d = dir[current], NEW f, f = pagusr_table[d][p].frame
  PROVE  /\ current \in Task \ {Idle} /\ Alive(current) /\ d \in Dir /\ f \in Frame
         /\ cow_count_mem[f] \in Byte /\ halted = "no"
         /\ UNCHANGED <<dirVars, heap, current>>
         /\ \/ /\ halted' # "no" /\ UNCHANGED <<phys_mem, content, pagusr_table, cpuVars>>
               /\ \/ UNCHANGED cow_count_mem
                  \/ /\ f \in Usable /\ cow_count_mem[f] >= 2
                     /\ cow_count_mem' = [cow_count_mem EXCEPT ![f] = cow_count_mem[f] - 1]
            \/ /\ p \in Owned(d) /\ p \notin Code \cup {0} /\ f \in Usable
               /\ cow_count_mem[f] = 1 /\ MakeWritable(p, f)
            \/ /\ p \in Owned(d) /\ p \notin Code \cup {0} /\ f \in Usable
               /\ cow_count_mem[f] >= 2 /\ FreeFrames # {} /\ CopyPage(p, f)
PROOF
  <1>1. /\ pagusr_table \in [Dir -> [Page -> Entry]] /\ cow_count_mem \in [Frame -> Byte]
        /\ dir \in [Task -> Dir \cup {NULL}] /\ current \in Task
    BY DEF MemoryTypeOK
  <1>2. current # Idle /\ Alive(current) /\ halted = "no"  BY DEF PageFault, Running
  <1>3. d \in Dir  BY <1>1, <1>2 DEF Alive
  <1>4. f \in Frame /\ cow_count_mem[f] \in Byte  BY <1>1, <1>3, Entries
  <1>5. f = PT(current)[p].frame  BY DEF PT
  <1>6. p \notin Owned(d) => cow_count_mem[f] = 0
    <2>1. p \in Owned(d) \/ p \in Code \/ ~pagusr_table[d][p].present
      BY DEF PageFault, Touchable, OwnPages, PT
    <2>2. p \in Code => f = FirstFrame(p) /\ FirstFrame(p) \in CodeFrames
      <3>1. p \in Code => pagusr_table[d][p] = Mapped(FirstFrame(p), FALSE)
        BY <1>1, <1>2, LivePages
      <3>2. Mapped(FirstFrame(p), FALSE).frame = FirstFrame(p)  BY DEF Mapped
      <3> QED  BY <3>1, <3>2, UsableFrames
    <2>3. ~pagusr_table[d][p].present => f = 0  BY <1>3 DEF SpaceInv, TablesFine
    <2> QED  BY <2>1, <2>2, <2>3 DEF SpaceInv, FixedFrames
  <1>7. p \in Owned(d) => p \notin Code \cup {0} /\ f \in Usable
    <2> SUFFICES ASSUME p \in Owned(d)  PROVE p \notin Code \cup {0} /\ f \in Usable  OBVIOUS
    <2>1. PICK t \in Task \ {Idle} : Alive(t) /\ dir[t] = d /\ p \in Data \cup HeapOf(t)
      BY <1>3, OwnedPages
    <2> QED  BY <2>1, LivePages
  <1>8. UNCHANGED <<dirVars, heap, current>>  BY DEF PageFault
  <1>9. \A why : why # "no" /\ Halt(why) =>
          halted' # "no" /\ UNCHANGED <<phys_mem, content, pagusr_table, cpuVars>>
    BY DEF Halt
  <1>10. PICK count : count = cow_count_mem[f]  OBVIOUS
  <1>18. count \in Byte  BY <1>4, <1>10
  <1>19. count >= 2 => count # 0  BY <1>18 DEF Byte
  <1>11. \/ Halt("WRONG ACCESS") /\ UNCHANGED cow_count_mem
         \/ count = 1 /\ MakeWritable(p, f)
         \/ count >= 2 /\ FreeFrames # {} /\ CopyPage(p, f)
         \/ /\ count >= 2 /\ cow_count_mem' = [cow_count_mem EXCEPT ![f] = count - 1]
            /\ Halt("NOT ENOUGH PHYSICAL MEMORY")
         \/ Halt("KERNEL PANIC") /\ UNCHANGED cow_count_mem
    BY <1>5, <1>10 DEF PageFault
  <1>12. count # 0 => p \in Owned(d) /\ p \notin Code \cup {0} /\ f \in Usable
    BY <1>6, <1>7, <1>10
  <1>13. CASE Halt("WRONG ACCESS") /\ UNCHANGED cow_count_mem
    BY <1>1, <1>2, <1>3, <1>4, <1>8, <1>9, <1>13
  <1>14. CASE count = 1 /\ MakeWritable(p, f)
    BY <1>1, <1>2, <1>3, <1>4, <1>8, <1>10, <1>12, <1>14
  <1>15. CASE count >= 2 /\ FreeFrames # {} /\ CopyPage(p, f)
    <2>1. count # 0  BY <1>15, <1>19
    <2> QED  BY <2>1, <1>1, <1>2, <1>3, <1>4, <1>8, <1>10, <1>12, <1>15
  <1>16. CASE /\ count >= 2 /\ cow_count_mem' = [cow_count_mem EXCEPT ![f] = count - 1]
              /\ Halt("NOT ENOUGH PHYSICAL MEMORY")
    <2>1. count # 0  BY <1>16, <1>19
    <2> QED  BY <2>1, <1>1, <1>2, <1>3, <1>4, <1>8, <1>9, <1>10, <1>12, <1>16
  <1>17. CASE Halt("KERNEL PANIC") /\ UNCHANGED cow_count_mem
    BY <1>1, <1>2, <1>3, <1>4, <1>8, <1>9, <1>17
  <1> QED  BY <1>11, <1>13, <1>14, <1>15, <1>16, <1>17

\* A page has got the frame g, in a directory in use.
LEMMA SpaceRemapped ==
  ASSUME MemoryTypeOK, DirInv, SpaceInv, NEW d \in Dir, NEW p \in Page \ (Code \cup {0}),
         NEW g \in Usable,
         pagusr_table' = [pagusr_table EXCEPT ![d][p] = Mapped(g, TRUE)],
         UNCHANGED <<dir, heap>>, FixedFrames'
  PROVE  SpaceInv'
PROOF
  <1>1. /\ pagusr_table \in [Dir -> [Page -> Entry]] /\ heap \in [Task -> Nat]
        /\ dir \in [Task -> Dir \cup {NULL}]
    BY DEF MemoryTypeOK
  <1> DEFINE table == [pagusr_table[d] EXCEPT ![p] = Mapped(g, TRUE)]
  <1>2. pagusr_table' = [pagusr_table EXCEPT ![d] = table]  BY <1>1
  <1> HIDE DEF table
  <1>3. \A c \in Dir : pagusr_table'[c] = IF c = d THEN table ELSE pagusr_table[c]  BY <1>1, <1>2
  <1>4. \A q \in Page : table[q] = IF q = p THEN Mapped(g, TRUE) ELSE pagusr_table[d][q]
    BY <1>1 DEF table
  <1>5. Mapped(g, TRUE).present  BY DEF Mapped
  <1>a. /\ \A c \in Dir : pagusr_table[c][0].present
        /\ \A c \in Dir, q \in Page : ~pagusr_table[c][q].present => pagusr_table[c][q].frame = 0
    BY DEF SpaceInv, TablesFine
  <1>6. ASSUME NEW c \in Dir  PROVE pagusr_table'[c][0].present
    <2>1. table[0] = pagusr_table[d][0]  BY <1>4, Pages
    <2> QED  BY <2>1, <1>3, <1>a
  <1>7. ASSUME NEW c \in Dir, NEW q \in Page
        PROVE  ~pagusr_table'[c][q].present => pagusr_table'[c][q].frame = 0
    <2>1. CASE c = d /\ q = p
      <3>1. pagusr_table'[c][q] = Mapped(g, TRUE)  BY <2>1, <1>3, <1>4
      <3> QED  BY <3>1, <1>5
    <2>2. CASE c = d /\ q # p
      <3>1. pagusr_table'[c][q] = pagusr_table[c][q]  BY <2>2, <1>3, <1>4
      <3> QED  BY <3>1, <1>a
    <2>3. CASE c # d  BY <2>3, <1>3, <1>a
    <2> QED  BY <2>1, <2>2, <2>3
  <1>8. ASSUME NEW t \in Task \ {Idle}, Alive(t)'  PROVE Fine(pagusr_table'[dir'[t]], heap'[t])
    <2>1. /\ Alive(t) /\ dir[t] \in Dir /\ dir'[t] = dir[t] /\ heap'[t] = heap[t]
          /\ heap[t] \in Nat
      BY <1>1, <1>8 DEF Alive
    <2>2. Fine(pagusr_table[dir[t]], heap[t])  BY <2>1 DEF SpaceInv, TablesFine
    <2>3. CASE dir[t] = d
      <3>1. pagusr_table[d] \in [Page -> Entry]  BY <1>1
      <3>2. Fine(table, heap[t])  BY <2>1, <2>2, <2>3, <3>1, Remapped DEF table
      <3> QED  BY <2>1, <2>3, <3>2, <1>3
    <2>4. CASE dir[t] # d  BY <2>1, <2>2, <2>4, <1>3
    <2> QED  BY <2>3, <2>4
  <1>9. OneHeapPerProcess'  BY DEF SpaceInv, OneHeapPerProcess, Alive
  <1>10. TablesFine'  BY <1>6, <1>7, <1>8 DEF TablesFine
  <1> QED  BY <1>9, <1>10 DEF SpaceInv

LEMMA SpaceFault ==
  ASSUME MemoryTypeOK, DirInv, SpaceInv, NEW p \in Page, PageFault(p)
  PROVE  SpaceInv'
PROOF
  <1>1. PICK d, f : d = dir[current] /\ f = pagusr_table[d][p].frame  OBVIOUS
  <1>2. /\ current \in Task \ {Idle} /\ Alive(current) /\ d \in Dir /\ f \in Frame
        /\ cow_count_mem[f] \in Byte
        /\ UNCHANGED <<dirVars, heap, current>>
        /\ \/ /\ halted' # "no" /\ UNCHANGED <<phys_mem, content, pagusr_table, cpuVars>>
              /\ \/ UNCHANGED cow_count_mem
                 \/ /\ f \in Usable /\ cow_count_mem[f] >= 2
                    /\ cow_count_mem' = [cow_count_mem EXCEPT ![f] = cow_count_mem[f] - 1]
           \/ /\ p \in Owned(d) /\ p \notin Code \cup {0} /\ f \in Usable
              /\ cow_count_mem[f] = 1 /\ MakeWritable(p, f)
           \/ /\ p \in Owned(d) /\ p \notin Code \cup {0} /\ f \in Usable
              /\ cow_count_mem[f] >= 2 /\ FreeFrames # {} /\ CopyPage(p, f)
    BY <1>1, FaultEffects
  <1>3. /\ phys_mem \in [Frame -> {"USED_FRAME", "FREE_FRAME"}] /\ cow_count_mem \in [Frame -> Byte]
        /\ FixedFrames /\ CodeFrames \cup {0} \subseteq Frame
        /\ \A g \in Usable : g \notin CodeFrames \cup {0}
    BY UsableFrames DEF MemoryTypeOK, SpaceInv
  <1>4. dir' = dir /\ heap' = heap  BY <1>2 DEF dirVars
  <1>5. CASE /\ halted' # "no" /\ UNCHANGED <<phys_mem, content, pagusr_table, cpuVars>>
             /\ \/ UNCHANGED cow_count_mem
                \/ /\ f \in Usable /\ cow_count_mem[f] >= 2
                   /\ cow_count_mem' = [cow_count_mem EXCEPT ![f] = cow_count_mem[f] - 1]
    <2>1. \A g \in CodeFrames \cup {0} : cow_count_mem'[g] = cow_count_mem[g]
      BY <1>3, <1>5
    <2>2. FixedFrames'  BY <2>1, <1>3, <1>5 DEF FixedFrames
    <2> QED  BY <2>2, <1>4, <1>5 DEF SpaceInv, TablesFine, OneHeapPerProcess, Alive
  <1>6. CASE /\ p \in Owned(d) /\ p \notin Code \cup {0} /\ f \in Usable
             /\ cow_count_mem[f] = 1 /\ MakeWritable(p, f)
    <2>1. /\ cow_count_mem' = [cow_count_mem EXCEPT ![f] = 0] /\ phys_mem' = phys_mem
          /\ pagusr_table' = [pagusr_table EXCEPT ![d][p] = Mapped(f, TRUE)]
      BY <1>1, <1>6 DEF MakeWritable
    <2>2. FixedFrames'  BY <2>1, <1>3, <1>6 DEF FixedFrames
    <2> QED  BY <2>1, <2>2, <1>2, <1>4, <1>6, SpaceRemapped
  <1>7. CASE /\ p \in Owned(d) /\ p \notin Code \cup {0} /\ f \in Usable
             /\ cow_count_mem[f] >= 2 /\ FreeFrames # {} /\ CopyPage(p, f)
    <2>1. PICK new : new = NewFrame(0)  OBVIOUS
    <2>2. new \in Usable  BY <2>1, <1>3, <1>7, NewFrames, FreeIsUsable
    <2>3. /\ phys_mem' = [phys_mem EXCEPT ![new] = "USED_FRAME"]
          /\ cow_count_mem' = [cow_count_mem EXCEPT ![f] = cow_count_mem[f] - 1, ![new] = 0]
          /\ pagusr_table' = [pagusr_table EXCEPT ![d][p] = Mapped(new, TRUE)]
      BY <2>1, <1>1, <1>7 DEF CopyPage, CountAfterCopy
    <2>4. FixedFrames'  BY <2>2, <2>3, <1>3, <1>7 DEF FixedFrames
    <2> QED  BY <2>2, <2>3, <2>4, <1>2, <1>4, <1>7, SpaceRemapped
  <1> QED  BY <1>2, <1>5, <1>6, <1>7

\* The child of a fork has a fine table because its father has one; nobody else's changes
\* but for the father's pages becoming read-only.
LEMMA SpaceFork ==
  ASSUME MemoryTypeOK, DirInv, SpaceInv, NEW child \in Task, Fork(child)
  PROVE  SpaceInv'
PROOF
  <1>1. PICK src, c, shared : /\ src = dir[current] /\ c = Head(free_dirs)
                              /\ shared = Data \cup HeapOf(current)
    OBVIOUS
  <1>2. /\ current \in Task \ {Idle} /\ Alive(current) /\ ~Alive(child)
        /\ dir' = [dir EXCEPT ![child] = c]
        /\ heap' = [heap EXCEPT ![child] = heap[current]]
        /\ phys_mem' = phys_mem
        /\ \A f \in Frame : f \notin FramesOf(current, shared) => cow_count_mem'[f] = cow_count_mem[f]
    BY <1>1 DEF Fork, Running, allocate_DIR, MemoryTypeOK
  <1>b. src \in Dir /\ c \in Dir /\ UsersOf(c) = {} /\ src # c /\ ForkedTables(src, c, shared)
    BY <1>1, TablesAfterFork
  <1>3. /\ src \in Dir /\ c \in Dir /\ UsersOf(c) = {} /\ src # c
        /\ \A d \in Dir : d # src /\ d # c => pagusr_table'[d] = pagusr_table[d]
        /\ \A p \in Page : pagusr_table'[src][p] = IF p \in shared THEN ReadOnly(pagusr_table[src][p])
                                                                ELSE pagusr_table[src][p]
        /\ \A p \in Page : pagusr_table'[c][p] =
             IF p \in shared THEN Mapped(pagusr_table[src][p].frame, FALSE)
             ELSE IF p \in Code THEN pagusr_table[src][p] ELSE pagusr_table[c][p]
    BY <1>b DEF ForkedTables
  <1>4. /\ pagusr_table \in [Dir -> [Page -> Entry]] /\ heap \in [Task -> Nat]
        /\ dir \in [Task -> Dir \cup {NULL}] /\ NULL \notin Dir
    BY MemoryAssumption DEF MemoryTypeOK, NULL, Dir
  <1>5. /\ heap[current] \in Nat
        /\ HeapPages(heap[current]) <= PAG_LOG_INIT_HEAP - (NUM_PAG_CODE + NUM_PAG_DATA)
        /\ shared \subseteq Page \ (Code \cup {0})
        /\ shared = Data \cup HeapRange(HeapPages(heap[current]))
        /\ \A p \in shared : pagusr_table[src][p].present /\ pagusr_table[src][p].frame \in Usable
        /\ \A p \in Code : pagusr_table[src][p] = Mapped(FirstFrame(p), FALSE)
        /\ FramesOf(current, shared) \subseteq Usable
    BY <1>1, <1>2, LivePages DEF HeapOf
  <1>6. FixedFrames'
    <2>1. \A f \in CodeFrames \cup {0} : f \in Frame /\ f \notin Usable  BY UsableFrames
    <2> QED  BY <2>1, <1>2, <1>5 DEF SpaceInv, FixedFrames
  <1>7. \A d \in Dir : pagusr_table[d][0].present  BY DEF SpaceInv, TablesFine
  <1>8. /\ 0 \in Page /\ 0 \notin Code /\ Code \subseteq Page
        /\ \A p \in Code : p \notin shared
    BY <1>5, Pages
  <1>9. \A d \in Dir : pagusr_table'[d][0].present
    BY <1>3, <1>5, <1>7, <1>8
  <1>10. \A f : Mapped(f, FALSE).present /\ Mapped(f, FALSE).frame = f  BY DEF Mapped
  <1>11. \A p \in Page : /\ ReadOnly(pagusr_table[src][p]).present = pagusr_table[src][p].present
                         /\ ReadOnly(pagusr_table[src][p]).frame = pagusr_table[src][p].frame
    BY <1>3, <1>4, Entries
  <1>12. \A d \in Dir, p \in Page : ~pagusr_table[d][p].present => pagusr_table[d][p].frame = 0
    BY DEF SpaceInv, TablesFine
  <1>13. ASSUME NEW d \in Dir, NEW p \in Page
         PROVE  ~pagusr_table'[d][p].present => pagusr_table'[d][p].frame = 0
    <2>1. CASE d = src
      <3>1. CASE p \in shared
        <4>1. pagusr_table'[d][p] = ReadOnly(pagusr_table[src][p])  BY <2>1, <3>1, <1>3
        <4>2. ReadOnly(pagusr_table[src][p]).present  BY <3>1, <1>5, <1>11
        <4> QED  BY <4>1, <4>2
      <3>2. CASE p \notin shared  BY <2>1, <3>2, <1>3, <1>12
      <3> QED  BY <3>1, <3>2
    <2>2. CASE d = c
      <3>1. CASE p \in shared  BY <2>2, <3>1, <1>3, <1>10
      <3>2. CASE p \notin shared
        <4>1. pagusr_table'[d][p] = pagusr_table[src][p] \/ pagusr_table'[d][p] = pagusr_table[c][p]
          BY <2>2, <3>2, <1>3
        <4> QED  BY <4>1, <1>3, <1>12
      <3> QED  BY <3>1, <3>2
    <2>3. CASE d # src /\ d # c  BY <2>3, <1>3, <1>12
    <2> QED  BY <2>1, <2>2, <2>3
  <1>14. ASSUME NEW t \in Task \ {Idle}, Alive(t)'  PROVE Fine(pagusr_table'[dir'[t]], heap'[t])
    <2>1. CASE t = child
      <3>1. dir'[t] = c /\ heap'[t] = heap[current]  BY <2>1, <1>2, <1>4
      <3>2. \A p \in shared : pagusr_table'[c][p].present /\ pagusr_table'[c][p].frame \in Usable
        <4> SUFFICES ASSUME NEW p \in shared
                     PROVE  /\ pagusr_table'[c][p].present
                            /\ pagusr_table'[c][p].frame \in Usable
          OBVIOUS
        <4>1. pagusr_table'[c][p] = Mapped(pagusr_table[src][p].frame, FALSE)  BY <1>3, <1>5
        <4> QED  BY <4>1, <1>5, <1>10
      <3>3. \A p \in Code : pagusr_table'[c][p] = Mapped(FirstFrame(p), FALSE)
        BY <1>3, <1>5, <1>8
      <3> QED  BY <3>1, <3>2, <3>3, <1>5 DEF Fine
    <2>2. CASE t # child
      <3>1. /\ Alive(t) /\ dir'[t] = dir[t] /\ heap'[t] = heap[t] /\ dir[t] \in Dir
            /\ dir[t] # c
        BY <2>2, <1>2, <1>3, <1>4, <1>14 DEF Alive, UsersOf
      <3>2. Fine(pagusr_table[dir[t]], heap[t])  BY <3>1 DEF SpaceInv, TablesFine
      <3>3. CASE dir[t] = src
        <4>1. /\ Data \cup HeapRange(HeapPages(heap[t])) \subseteq Page
              /\ Code \subseteq Page
          BY <3>1, LivePages, Pages DEF HeapOf
        <4>2. \A p \in Page : /\ pagusr_table'[src][p].present = pagusr_table[src][p].present
                              /\ pagusr_table'[src][p].frame = pagusr_table[src][p].frame
          BY <1>3, <1>11
        <4>3. \A p \in Code : pagusr_table'[src][p] = pagusr_table[src][p]  BY <1>3, <1>8
        <4> QED  BY <3>1, <3>2, <3>3, <4>1, <4>2, <4>3 DEF Fine
      <3>4. CASE dir[t] # src  BY <3>1, <3>2, <3>4, <1>3
      <3> QED  BY <3>3, <3>4
    <2> QED  BY <2>1, <2>2
  <1>15. OneHeapPerProcess'
    <2> SUFFICES ASSUME NEW t \in Task, NEW u \in Task, t # u, dir'[t] # NULL, dir'[t] = dir'[u]
                 PROVE  heap'[t] = 0 \/ heap'[u] = 0
      BY DEF OneHeapPerProcess, Alive
    <2>1. /\ \A v \in Task : dir[v] # c
          /\ \A v \in Task : dir'[v] = IF v = child THEN c ELSE dir[v]
          /\ \A v \in Task : v # child => heap'[v] = heap[v]
      BY <1>2, <1>3, <1>4 DEF UsersOf
    <2>2. t # child /\ u # child /\ dir[t] # NULL /\ dir[t] = dir[u]  BY <2>1
    <2> QED  BY <2>1, <2>2 DEF SpaceInv, OneHeapPerProcess, Alive
  <1> QED  BY <1>6, <1>9, <1>13, <1>14, <1>15 DEF SpaceInv, TablesFine

\* What sys_exit does: nothing to the frames and tables while the directory has other users,
\* or it gives the frames of the last user back, and clears entries of its pages only.
ClearedTables(d, cleared) ==
  /\ \A c \in Dir : c # d => pagusr_table'[c] = pagusr_table[c]
  /\ \A p \in Page : pagusr_table'[d][p] = IF p \in cleared THEN Absent ELSE pagusr_table[d][p]

LEMMA ExitEffects ==
  ASSUME MemoryTypeOK, DirInv, Exit, NEW d, d = dir[current]
  PROVE  /\ current \in Task \ {Idle} /\ Alive(current) /\ d \in Dir /\ halted = "no"
         /\ dir' = [dir EXCEPT ![current] = NULL] /\ heap' = [heap EXCEPT ![current] = 0]
         /\ content' = content /\ current' = current /\ halted' = halted
         /\ \/ UsersOf(d) # {current} /\ UNCHANGED <<frameVars, pagusr_table>>
            \/ /\ UsersOf(d) = {current}
               /\ free_frames(FramesOf(current, Data \cup HeapOf(current)))
               /\ ClearedTables(d, Data \cup ({PAG_LOG_INIT_HEAP} \cap HeapOf(current)))
PROOF
  <1>1. /\ pagusr_table \in [Dir -> [Page -> Entry]] /\ dir \in [Task -> Dir \cup {NULL}]
        /\ current \in Task /\ \A c \in Dir : dir_count[c] = Cardinality(UsersOf(c))
    BY DEF MemoryTypeOK, DirInv
  <1>2. current # Idle /\ Alive(current) /\ halted = "no"  BY DEF Exit, Running
  <1>3. d \in Dir  BY <1>1, <1>2 DEF Alive
  <1>4. /\ dir' = [dir EXCEPT ![current] = NULL] /\ heap' = [heap EXCEPT ![current] = 0]
        /\ content' = content /\ current' = current /\ halted' = halted
    BY DEF Exit, free_DIR
  <1>5. LastUser(d) <=> UsersOf(d) = {current}
    <2>1. current \in UsersOf(d)  BY <1>1 DEF UsersOf
    <2>2. IsFiniteSet(UsersOf(d))  BY UsersFinite DEF UsersOf
    <2>3. Cardinality(UsersOf(d)) = 1 <=> \E x : UsersOf(d) = {x}  BY <2>2, FS_Singleton
    <2> QED  BY <2>1, <2>3, <1>1, <1>3 DEF LastUser
  <1>6. CASE LastUser(d)
    <2> DEFINE cleared == Data \cup ({PAG_LOG_INIT_HEAP} \cap HeapOf(current))
               table == [p \in Page |-> IF p \in cleared THEN Absent ELSE pagusr_table[d][p]]
    <2>1. /\ free_frames(FramesOf(current, Data \cup HeapOf(current)))
          /\ pagusr_table' = [pagusr_table EXCEPT ![d] = table]
      BY <1>6 DEF Exit, free_DIR, free_user_pages
    <2>2. \A p \in Page : table[p] = IF p \in cleared THEN Absent ELSE pagusr_table[d][p]
      OBVIOUS
    <2> HIDE DEF table, cleared
    <2>3. /\ pagusr_table'[d] = table
          /\ \A c \in Dir : c # d => pagusr_table'[c] = pagusr_table[c]
      BY <2>1, <1>1, <1>3
    <2>4. ClearedTables(d, cleared)  BY <2>2, <2>3 DEF ClearedTables
    <2> QED  BY <2>1, <2>4, <1>1, <1>2, <1>3, <1>4, <1>5, <1>6 DEF cleared
  <1>7. CASE ~LastUser(d)
    <2>1. UNCHANGED <<frameVars, pagusr_table>>  BY <1>7 DEF Exit, free_DIR
    <2> QED  BY <2>1, <1>1, <1>2, <1>3, <1>4, <1>5, <1>7
  <1> QED  BY <1>6, <1>7

\* What sys_sbrk does: it fails, or takes free frames for the pages the heap lacks, each
\* another one, or gives the frames of the last pages back.
SbrkFailed ==
  /\ UNCHANGED <<content, pagusr_table, heap, cpuVars>>
  /\ UNCHANGED frameVars \/ alloc_and_free_frames(FreeFrames)

Grown(d, size, more, news) ==
  /\ more = HeapRange(HeapPages(size)) \ HeapOf(current)
  /\ HeapPages(size) > HeapPages(heap[current])
  /\ HeapPages(size) <= PAG_LOG_INIT_HEAP - (NUM_PAG_CODE + NUM_PAG_DATA)
  /\ IsFree(more) /\ more # {}
  /\ news \in [more -> FreeFrames] /\ \A p, q \in more : news[p] = news[q] => p = q
  /\ alloc_frames({news[p] : p \in more})
  /\ \A c \in Dir : c # d => pagusr_table'[c] = pagusr_table[c]
  /\ \A p \in Page : pagusr_table'[d][p] = IF p \in more THEN Mapped(news[p], TRUE)
                                                         ELSE pagusr_table[d][p]
  /\ heap' = [heap EXCEPT ![current] = size]
  /\ UNCHANGED <<content, cpuVars>>

Shrunk(d, size, less) ==
  /\ HeapPages(size) <= HeapPages(heap[current])
  /\ less = HeapOf(current) \ HeapRange(HeapPages(size))
  /\ free_frames(FramesOf(current, less))
  /\ ClearedTables(d, less)
  /\ heap' = [heap EXCEPT ![current] = size]
  /\ cr3' = d /\ tlb' = {} /\ content' = content

LEMMA SbrkEffects ==
  ASSUME MemoryTypeOK, DirInv, SpaceInv, NEW increment \in Increments, Sbrk(increment),
         NEW d, d = dir[current]
  PROVE  /\ current \in Task \ {Idle} /\ Alive(current) /\ d \in Dir
         /\ UNCHANGED <<dirVars, current, halted>>
         /\ \/ SbrkFailed
            \/ \E size \in Nat : \E more, news : Grown(d, size, more, news)
            \/ \E size \in Nat : \E less : Shrunk(d, size, less)
PROOF
  <1>1. /\ pagusr_table \in [Dir -> [Page -> Entry]] /\ dir \in [Task -> Dir \cup {NULL}]
        /\ current \in Task /\ heap \in [Task -> Nat]
    BY DEF MemoryTypeOK
  <1>2. current # Idle /\ Alive(current) /\ UNCHANGED <<dirVars, current, halted>>
    BY DEF Sbrk, Running
  <1>3. d \in Dir /\ heap[current] \in Nat  BY <1>1, <1>2 DEF Alive
  <1>4. /\ HeapPages(heap[current]) \in Nat
        /\ HeapPages(heap[current]) <= PAG_LOG_INIT_HEAP - (NUM_PAG_CODE + NUM_PAG_DATA)
        /\ \A p \in Data : pagusr_table[d][p].present
    BY <1>1, <1>2, LivePages
  <1> DEFINE asked == heap[current] + increment
  <1>5. PICK size : size = IF asked < 0 THEN 0 ELSE asked  OBVIOUS
  <1>6. size \in Nat
    <2>1. increment \in Int  BY MemoryAssumption
    <2> QED  BY <2>1, <1>3, <1>5
  <1>7. \/ SbrkFails /\ UNCHANGED frameVars
        \/ HeapPages(size) > HeapPages(heap[current]) /\ Grow(size)
        \/ HeapPages(size) <= HeapPages(heap[current]) /\ Shrink(size)
    BY <1>5 DEF Sbrk
  <1> HIDE DEF asked
  <1>8. CASE SbrkFails /\ UNCHANGED frameVars
    BY <1>1, <1>2, <1>3, <1>8 DEF SbrkFails, SbrkFailed
  <1>9. CASE HeapPages(size) <= HeapPages(heap[current]) /\ Shrink(size)
    <2>1. PICK less : less = HeapOf(current) \ HeapRange(HeapPages(size))  OBVIOUS
    <2> DEFINE table == [p \in Page |-> IF p \in less THEN Absent ELSE pagusr_table[d][p]]
    <2>2. /\ free_frames(FramesOf(current, less))
          /\ pagusr_table' = [pagusr_table EXCEPT ![d] = table]
          /\ heap' = [heap EXCEPT ![current] = size]
          /\ cr3' = d /\ tlb' = {} /\ content' = content
      BY <2>1, <1>9 DEF Shrink, FlushAfterShrink, set_cr3
    <2>3. \A p \in Page : table[p] = IF p \in less THEN Absent ELSE pagusr_table[d][p]  OBVIOUS
    <2> HIDE DEF table
    <2>4. /\ pagusr_table'[d] = table
          /\ \A c \in Dir : c # d => pagusr_table'[c] = pagusr_table[c]
      BY <2>2, <1>1, <1>3
    <2>5. ClearedTables(d, less)  BY <2>3, <2>4 DEF ClearedTables
    <2>6. Shrunk(d, size, less)  BY <2>1, <2>2, <2>5, <1>9 DEF Shrunk
    <2> QED  BY <2>6, <1>1, <1>2, <1>3, <1>6
  <1>10. CASE HeapPages(size) > HeapPages(heap[current]) /\ Grow(size)
    <2>1. PICK a, b \in Nat : a = HeapPages(heap[current]) /\ b = HeapPages(size)
      BY <1>4, <1>6, HeapSizes
    <2>2. PICK more : more = HeapRange(b) \ HeapRange(a)  OBVIOUS
    <2> DEFINE frameOf(p) == NewFrame(PAG_LOG_INIT_HEAP - a - p)
               table == [p \in Page |-> IF p \in more THEN Mapped(frameOf(p), TRUE)
                                                       ELSE pagusr_table[d][p]]
    <2>3. \/ SbrkFails /\ UNCHANGED frameVars
          \/ SbrkFails /\ alloc_and_free_frames(FreeFrames)
          \/ /\ IsFree(more) /\ Cardinality(FreeFrames) >= Cardinality(more)
             /\ alloc_frames({frameOf(p) : p \in more})
             /\ pagusr_table' = [pagusr_table EXCEPT ![d] = table]
             /\ heap' = [heap EXCEPT ![current] = size]
             /\ UNCHANGED <<content, cpuVars>>
      BY <2>1, <2>2, <1>10 DEF Grow
    <2>4. CASE SbrkFails /\ alloc_and_free_frames(FreeFrames)
      BY <1>1, <1>2, <1>3, <2>4 DEF SbrkFails, SbrkFailed
    <2>5. CASE /\ IsFree(more) /\ Cardinality(FreeFrames) >= Cardinality(more)
               /\ alloc_frames({frameOf(p) : p \in more})
               /\ pagusr_table' = [pagusr_table EXCEPT ![d] = table]
               /\ heap' = [heap EXCEPT ![current] = size]
               /\ UNCHANGED <<content, cpuVars>>
      <3>1. b > a  BY <2>1, <1>10
      <3>2. /\ more = PAG_LOG_INIT_HEAP - b + 1 .. PAG_LOG_INIT_HEAP - a
            /\ Cardinality(more) = b - a
            /\ \A p \in more : p \in Int /\ PAG_LOG_INIT_HEAP - a - p \in 0 .. b - a - 1
        BY <2>2, <3>1, HeapRanges
      <3>3. b <= PAG_LOG_INIT_HEAP - (NUM_PAG_CODE + NUM_PAG_DATA)
        <4> SUFFICES ASSUME b > PAG_LOG_INIT_HEAP - (NUM_PAG_CODE + NUM_PAG_DATA)  PROVE FALSE
          BY MemoryAssumption
        <4>1. NUM_PAG_CODE + NUM_PAG_DATA \in Data  BY MemoryAssumption DEF Data
        <4>2. NUM_PAG_CODE + NUM_PAG_DATA \in more
          <5>1. a <= PAG_LOG_INIT_HEAP - (NUM_PAG_CODE + NUM_PAG_DATA)  BY <2>1, <1>4
          <5> QED  BY <5>1, <3>2, MemoryAssumption
        <4>3. ~pagusr_table[d][NUM_PAG_CODE + NUM_PAG_DATA].present
          BY <4>2, <2>5 DEF IsFree, PT
        <4> QED  BY <4>1, <4>3, <1>4
      <3>4. PICK n \in Nat : n = Cardinality(FreeFrames)  BY NewFrames
      <3>5. \A p \in more : PAG_LOG_INIT_HEAP - a - p \in 0 .. n - 1
        <4>1. n >= b - a  BY <3>2, <3>4, <2>5
        <4> QED  BY <4>1, <3>2
      <3>6. /\ \A i \in 0 .. n - 1 : NewFrame(i) \in FreeFrames
            /\ \A i, j \in 0 .. n - 1 : NewFrame(i) = NewFrame(j) => i = j
        BY <3>4, NewFrames
      <3> DEFINE news == [p \in more |-> frameOf(p)]
      <3>7. \A p \in more : news[p] = frameOf(p) /\ frameOf(p) \in FreeFrames
        BY <3>5, <3>6
      <3>8. \A p, q \in more : frameOf(p) = frameOf(q) => p = q
        <4> SUFFICES ASSUME NEW p \in more, NEW q \in more, frameOf(p) = frameOf(q)  PROVE p = q
          OBVIOUS
        <4>1. PAG_LOG_INIT_HEAP - a - p = PAG_LOG_INIT_HEAP - a - q  BY <3>5, <3>6
        <4> QED  BY <4>1, <3>2, MemoryAssumption
      <3>9. {news[p] : p \in more} = {frameOf(p) : p \in more}  BY <3>7
      <3>10. more # {}
        <4>1. PAG_LOG_INIT_HEAP \in Nat /\ a \in Int /\ b \in Int /\ b > a
          BY <3>1, <2>1, MemoryAssumption
        <4>2. PAG_LOG_INIT_HEAP - a \in PAG_LOG_INIT_HEAP - b + 1 .. PAG_LOG_INIT_HEAP - a
          BY <4>1
        <4> QED  BY <4>2, <3>2
      <3>11. \A p \in Page : table[p] = IF p \in more THEN Mapped(news[p], TRUE)
                                                      ELSE pagusr_table[d][p]
        BY <3>7
      <3>12. news \in [more -> FreeFrames]  BY <3>7
      <3>13. \A p, q \in more : news[p] = news[q] => p = q  BY <3>7, <3>8
      <3> HIDE DEF table, news, frameOf
      <3>14. /\ pagusr_table'[d] = table
             /\ \A c \in Dir : c # d => pagusr_table'[c] = pagusr_table[c]
        BY <2>5, <1>1, <1>3
      <3>15. more = HeapRange(HeapPages(size)) \ HeapOf(current)  BY <2>1, <2>2 DEF HeapOf
      <3>16. alloc_frames({news[p] : p \in more})  BY <2>5, <3>9
      <3>17. Grown(d, size, more, news)
        BY <3>1, <3>3, <3>10, <3>11, <3>12, <3>13, <3>14, <3>15, <3>16, <2>1, <2>5 DEF Grown
      <3> QED  BY <3>17, <1>1, <1>2, <1>3, <1>6
    <2> QED  BY <2>3, <2>4, <2>5, <1>8
  <1> QED  BY <1>7, <1>8, <1>9, <1>10

\* An absent entry has the frame 0.
LEMMA AbsentEntry == ~Absent.present /\ Absent.frame = 0
PROOF  BY DEF Absent

\* A directory of which some pages other than the kernel's were cleared.
LEMMA SpaceCleared ==
  ASSUME MemoryTypeOK, SpaceInv, NEW d \in Dir, NEW cleared, 0 \notin cleared,
         ClearedTables(d, cleared)
  PROVE  /\ \A c \in Dir : pagusr_table'[c][0].present
         /\ \A c \in Dir, p \in Page : ~pagusr_table'[c][p].present => pagusr_table'[c][p].frame = 0
PROOF
  <1>1. /\ \A c \in Dir : pagusr_table[c][0].present
        /\ \A c \in Dir, p \in Page : ~pagusr_table[c][p].present => pagusr_table[c][p].frame = 0
    BY DEF SpaceInv, TablesFine
  <1>2. /\ \A c \in Dir : c # d => pagusr_table'[c] = pagusr_table[c]
        /\ \A p \in Page : pagusr_table'[d][p] = IF p \in cleared THEN Absent ELSE pagusr_table[d][p]
    BY DEF ClearedTables
  <1>3. \A c \in Dir : pagusr_table'[c][0].present
    <2>1. pagusr_table'[d][0] = pagusr_table[d][0]  BY <1>2, Pages
    <2> QED  BY <2>1, <1>1, <1>2
  <1>4. ASSUME NEW c \in Dir, NEW p \in Page
        PROVE  ~pagusr_table'[c][p].present => pagusr_table'[c][p].frame = 0
    <2>1. CASE c = d /\ p \in cleared  BY <2>1, <1>2, AbsentEntry
    <2>2. CASE c = d /\ p \notin cleared
      <3>1. pagusr_table'[c][p] = pagusr_table[c][p]  BY <2>2, <1>2
      <3> QED  BY <3>1, <1>1
    <2>3. CASE c # d  BY <2>3, <1>1, <1>2
    <2> QED  BY <2>1, <2>2, <2>3
  <1> QED  BY <1>3, <1>4

\* The last user of a directory takes only its own pages with it.
LEMMA SpaceExit ==
  ASSUME MemoryTypeOK, DirInv, SpaceInv, Exit
  PROVE  SpaceInv'
PROOF
  <1>1. PICK d : d = dir[current]  OBVIOUS
  <1>2. PICK S, cleared : /\ S = FramesOf(current, Data \cup HeapOf(current))
                          /\ cleared = Data \cup ({PAG_LOG_INIT_HEAP} \cap HeapOf(current))
    OBVIOUS
  <1>3. /\ current \in Task \ {Idle} /\ Alive(current) /\ d \in Dir
        /\ dir' = [dir EXCEPT ![current] = NULL] /\ heap' = [heap EXCEPT ![current] = 0]
        /\ \/ UsersOf(d) # {current} /\ UNCHANGED <<frameVars, pagusr_table>>
           \/ UsersOf(d) = {current} /\ free_frames(S) /\ ClearedTables(d, cleared)
    BY <1>1, <1>2, ExitEffects
  <1>4. S \subseteq Usable /\ 0 \notin cleared  BY <1>2, <1>3, LivePages
  <1>5. dir \in [Task -> Dir \cup {NULL}] /\ heap \in [Task -> Nat]  BY DEF MemoryTypeOK
  <1>6. FixedFrames'
    <2>1. FixedFrames /\ OtherTypes  BY DEF SpaceInv, MemoryTypeOK, OtherTypes
    <2>2. CASE UNCHANGED frameVars  BY <2>1, <2>2 DEF FixedFrames, frameVars
    <2>3. CASE free_frames(S)  BY <2>1, <2>3, <1>4, FixedStay
    <2> QED  BY <2>2, <2>3, <1>3
  <1>7. /\ \A c \in Dir : pagusr_table'[c][0].present
        /\ \A c \in Dir, p \in Page : ~pagusr_table'[c][p].present => pagusr_table'[c][p].frame = 0
    <2>1. CASE UNCHANGED pagusr_table  BY <2>1 DEF SpaceInv, TablesFine
    <2>2. CASE ClearedTables(d, cleared)  BY <2>2, <1>3, <1>4, SpaceCleared
    <2> QED  BY <2>1, <2>2, <1>3
  <1>8. ASSUME NEW t \in Task, dir'[t] # NULL
        PROVE  t # current /\ dir'[t] = dir[t] /\ heap'[t] = heap[t] /\ dir[t] \in Dir
    BY <1>3, <1>5, <1>8
  <1>9. ASSUME NEW t \in Task \ {Idle}, Alive(t)'  PROVE Fine(pagusr_table'[dir'[t]], heap'[t])
    <2>1. /\ t # current /\ dir'[t] = dir[t] /\ heap'[t] = heap[t] /\ dir[t] \in Dir
          /\ dir[t] # NULL
      BY <1>8, <1>9 DEF Alive
    <2>2. Fine(pagusr_table[dir[t]], heap[t])  BY <2>1 DEF SpaceInv, TablesFine, Alive
    <2>3. pagusr_table'[dir[t]] = pagusr_table[dir[t]]
      <3>1. CASE dir[t] = d
        <4>1. t \in UsersOf(d)  BY <3>1 DEF UsersOf
        <4> QED  BY <4>1, <2>1, <1>3
      <3>2. CASE dir[t] # d  BY <3>2, <2>1, <1>3 DEF ClearedTables
      <3> QED  BY <3>1, <3>2
    <2> QED  BY <2>1, <2>2, <2>3
  <1>10. OneHeapPerProcess'
    <2> SUFFICES ASSUME NEW t \in Task, NEW u \in Task, t # u, dir'[t] # NULL, dir'[t] = dir'[u]
                 PROVE  heap'[t] = 0 \/ heap'[u] = 0
      BY DEF OneHeapPerProcess, Alive
    <2>1. /\ dir'[t] = dir[t] /\ heap'[t] = heap[t]
          /\ dir'[u] = dir[u] /\ heap'[u] = heap[u] /\ dir[t] # NULL
      BY <1>8
    <2> QED  BY <2>1 DEF SpaceInv, OneHeapPerProcess, Alive
  <1>11. TablesFine'  BY <1>7, <1>9 DEF TablesFine
  <1> QED  BY <1>6, <1>10, <1>11 DEF SpaceInv

\* A thread runs with the table of its creator, and has no heap.
LEMMA SpaceClone ==
  ASSUME MemoryTypeOK, DirInv, SpaceInv, NEW t \in Task, NEW p, NEW v, Clone(t, p, v)
  PROVE  SpaceInv'
PROOF
  <1>1. /\ dir \in [Task -> Dir \cup {NULL}] /\ heap \in [Task -> Nat] /\ current \in Task
    BY DEF MemoryTypeOK
  <1>2. /\ current # Idle /\ Alive(current) /\ ~Alive(t)
        /\ dir' = [dir EXCEPT ![t] = dir[current]] /\ heap' = [heap EXCEPT ![t] = 0]
        /\ UNCHANGED <<frameVars, pagusr_table>>
    BY DEF Clone, Running, reuse_DIR, HeapOfThread
  <1>3. FixedFrames'  BY <1>2 DEF SpaceInv, FixedFrames, frameVars
  <1>4. ASSUME NEW u \in Task \ {Idle}, Alive(u)'  PROVE Fine(pagusr_table'[dir'[u]], heap'[u])
    <2>1. CASE u = t
      <3>1. Fine(pagusr_table[dir[current]], heap[current])
        BY <1>1, <1>2 DEF SpaceInv, TablesFine
      <3>2. HeapRange(0) = {} /\ HeapPages(0) = 0  BY HeapSizes, MemoryAssumption DEF HeapRange
      <3>3. 0 <= PAG_LOG_INIT_HEAP - (NUM_PAG_CODE + NUM_PAG_DATA)  BY MemoryAssumption
      <3>4. Fine(pagusr_table[dir[current]], 0)  BY <3>1, <3>2, <3>3 DEF Fine
      <3> QED  BY <3>4, <2>1, <1>1, <1>2
    <2>2. CASE u # t
      <3>1. dir'[u] = dir[u] /\ heap'[u] = heap[u] /\ Alive(u)  BY <2>2, <1>1, <1>2, <1>4 DEF Alive
      <3> QED  BY <3>1, <1>2 DEF SpaceInv, TablesFine
    <2> QED  BY <2>1, <2>2
  <1>5. TablesFine'  BY <1>2, <1>4 DEF SpaceInv, TablesFine
  <1>6. OneHeapPerProcess'
    <2> SUFFICES ASSUME NEW u \in Task, NEW w \in Task, u # w, dir'[u] # NULL, dir'[u] = dir'[w]
                 PROVE  heap'[u] = 0 \/ heap'[w] = 0
      BY DEF OneHeapPerProcess, Alive
    <2>1. CASE u = t \/ w = t  BY <2>1, <1>1, <1>2
    <2>2. CASE u # t /\ w # t
      <3>1. /\ dir'[u] = dir[u] /\ heap'[u] = heap[u] /\ dir'[w] = dir[w] /\ heap'[w] = heap[w]
        BY <2>2, <1>1, <1>2
      <3> QED  BY <3>1 DEF SpaceInv, OneHeapPerProcess, Alive
    <2> QED  BY <2>1, <2>2
  <1> QED  BY <1>3, <1>5, <1>6 DEF SpaceInv

\* A heap with bytes has the first of the heap's pages, one without has none.
LEMMA FirstHeapPage ==
  /\ \A bytes \in Nat \ {0} : PAG_LOG_INIT_HEAP \in HeapRange(HeapPages(bytes))
  /\ HeapRange(HeapPages(0)) = {}
PROOF
  <1>1. PAG_LOG_INIT_HEAP \in Nat  BY MemoryAssumption
  <1>2. \A n \in Nat : n >= 1 => PAG_LOG_INIT_HEAP \in HeapRange(n)  BY <1>1 DEF HeapRange
  <1>3. HeapRange(0) = {}  BY <1>1 DEF HeapRange
  <1> QED  BY <1>2, <1>3, HeapSizes

\* Of the other threads of a process nobody has a heap when one grows its own, because the
\* pages it takes were not mapped; nobody has one when one shrinks a heap that it has.
LEMMA SpaceGrown ==
  ASSUME MemoryTypeOK, DirInv, SpaceInv, current \in Task \ {Idle}, Alive(current),
         NEW d \in Dir, d = dir[current], UNCHANGED <<dir, current>>,
         NEW size \in Nat, NEW more, NEW news, Grown(d, size, more, news)
  PROVE  SpaceInv' /\ \A u \in Task : u # current /\ dir[u] = d => heap[u] = 0
PROOF
  <1>1. /\ dir \in [Task -> Dir \cup {NULL}] /\ heap \in [Task -> Nat]  BY DEF MemoryTypeOK
  <1>2. /\ more = HeapRange(HeapPages(size)) \ HeapOf(current)
        /\ HeapPages(size) > HeapPages(heap[current])
        /\ HeapPages(size) <= PAG_LOG_INIT_HEAP - (NUM_PAG_CODE + NUM_PAG_DATA)
        /\ \A p \in more : ~pagusr_table[d][p].present
        /\ news \in [more -> FreeFrames]
        /\ alloc_frames({news[p] : p \in more})
        /\ \A c \in Dir : c # d => pagusr_table'[c] = pagusr_table[c]
        /\ \A p \in Page : pagusr_table'[d][p] = IF p \in more THEN Mapped(news[p], TRUE)
                                                               ELSE pagusr_table[d][p]
        /\ heap' = [heap EXCEPT ![current] = size]
    BY DEF Grown, IsFree, PT
  <1>3. \A p \in more : news[p] \in FreeFrames /\ news[p] \in Usable
    BY <1>2, FreeIsUsable DEF SpaceInv
  <1>4. FixedFrames'
    <2>1. FixedFrames /\ OtherTypes  BY DEF SpaceInv, MemoryTypeOK, OtherTypes
    <2>2. {news[p] : p \in more} \in SUBSET Usable  BY <1>3
    <2> QED  BY <2>1, <2>2, <1>2, FixedStay
  <1>5. /\ HeapRange(HeapPages(size)) \subseteq Page
        /\ HeapRange(HeapPages(size)) \cap (Code \cup Data \cup {0}) = {}
    BY <1>2, HeapSizes, FinePages
  <1>6. \A f : Mapped(f, TRUE).present /\ Mapped(f, TRUE).frame = f  BY DEF Mapped
  <1>7. /\ \A c \in Dir : pagusr_table[c][0].present
        /\ \A c \in Dir, p \in Page : ~pagusr_table[c][p].present => pagusr_table[c][p].frame = 0
    BY DEF SpaceInv, TablesFine
  <1>8. \A c \in Dir : pagusr_table'[c][0].present
    <2>1. pagusr_table'[d][0] = pagusr_table[d][0]  BY <1>2, <1>5, Pages
    <2> QED  BY <2>1, <1>2, <1>7
  <1>9. ASSUME NEW c \in Dir, NEW p \in Page
        PROVE  ~pagusr_table'[c][p].present => pagusr_table'[c][p].frame = 0
    <2>1. CASE c = d /\ p \in more
      <3>1. pagusr_table'[c][p] = Mapped(news[p], TRUE)  BY <2>1, <1>2
      <3> QED  BY <3>1, <1>6
    <2>2. CASE c = d /\ p \notin more
      <3>1. pagusr_table'[c][p] = pagusr_table[c][p]  BY <2>2, <1>2
      <3> QED  BY <3>1, <1>7
    <2>3. CASE c # d  BY <2>3, <1>2, <1>7
    <2> QED  BY <2>1, <2>2, <2>3
  <1>10. ASSUME NEW t \in Task \ {Idle}, Alive(t)'  PROVE Fine(pagusr_table'[dir'[t]], heap'[t])
    <2>1. dir'[t] = dir[t] /\ dir[t] \in Dir /\ Alive(t)  BY <1>1, <1>10 DEF Alive
    <2>2. Fine(pagusr_table[dir[t]], heap[t])  BY <2>1 DEF SpaceInv, TablesFine
    <2>3. CASE dir[t] # d
      <3>1. heap'[t] = heap[t]  BY <2>3, <1>1, <1>2
      <3> QED  BY <3>1, <2>1, <2>2, <2>3, <1>2
    <2>4. CASE dir[t] = d
      <3>1. /\ Data \cup HeapOf(t) \subseteq Page
            /\ \A p \in Data \cup HeapOf(t) : /\ pagusr_table[d][p].present
                                              /\ pagusr_table[d][p].frame \in Usable
            /\ \A p \in Code : pagusr_table[d][p] = Mapped(FirstFrame(p), FALSE)
        BY <2>1, <2>4, LivePages
      <3>2. \A p \in Data \cup HeapOf(t) : pagusr_table'[d][p] = pagusr_table[d][p]
        BY <3>1, <1>2
      <3>3. \A p \in Code : pagusr_table'[d][p] = Mapped(FirstFrame(p), FALSE)
        BY <3>1, <1>2, <1>5, Pages
      <3>4. CASE t # current
        <4>1. heap'[t] = heap[t]  BY <3>4, <1>1, <1>2
        <4> QED  BY <4>1, <3>1, <3>2, <3>3, <2>1, <2>2, <2>4 DEF Fine, HeapOf
      <3>5. CASE t = current
        <4>1. heap'[t] = size  BY <3>5, <1>1, <1>2
        <4>2. ASSUME NEW p \in Data \cup HeapRange(HeapPages(size))
              PROVE  pagusr_table'[d][p].present /\ pagusr_table'[d][p].frame \in Usable
          <5>1. CASE p \in Data \cup HeapOf(t)  BY <5>1, <3>1, <3>2
          <5>2. CASE p \notin Data \cup HeapOf(t)
            <6>1. p \in more /\ p \in Page  BY <5>2, <3>5, <1>2, <1>5
            <6>2. pagusr_table'[d][p] = Mapped(news[p], TRUE)  BY <6>1, <1>2
            <6> QED  BY <6>1, <6>2, <1>3, <1>6
          <5> QED  BY <5>1, <5>2
        <4> QED  BY <4>1, <4>2, <3>3, <1>2, <2>1, <2>4 DEF Fine
      <3> QED  BY <3>4, <3>5
    <2> QED  BY <2>3, <2>4
  <1>11. ASSUME NEW u \in Task, u # current, dir[u] = d  PROVE heap[u] = 0
    <2> SUFFICES ASSUME heap[u] # 0  PROVE FALSE  OBVIOUS
    <2>1. heap[u] \in Nat \ {0} /\ size \in Nat \ {0}
      <3>1. HeapPages(heap[current]) >= 0 /\ HeapPages(size) # 0
        <4>1. HeapPages(heap[current]) \in Nat /\ HeapPages(size) \in Nat  BY <1>1, HeapSizes
        <4> QED  BY <4>1, <1>2
      <3> QED  BY <3>1, <1>1, HeapSizes
    <2>2. u \in Task \ {Idle} /\ Alive(u)  BY <1>11 DEF DirInv, Alive
    <2>3. PAG_LOG_INIT_HEAP \in HeapOf(u) /\ PAG_LOG_INIT_HEAP \in HeapRange(HeapPages(size))
      BY <2>1, FirstHeapPage DEF HeapOf
    <2>4. pagusr_table[d][PAG_LOG_INIT_HEAP].present  BY <2>2, <2>3, <1>11, LivePages
    <2>5. heap[current] = 0  BY <1>11 DEF SpaceInv, OneHeapPerProcess
    <2>6. HeapOf(current) = {}  BY <2>5, FirstHeapPage DEF HeapOf
    <2> QED  BY <2>3, <2>4, <2>6, <1>2
  <1>12. OneHeapPerProcess'
    <2> SUFFICES ASSUME NEW t \in Task, NEW u \in Task, t # u, dir[t] # NULL, dir[t] = dir[u]
                 PROVE  heap'[t] = 0 \/ heap'[u] = 0
      BY DEF OneHeapPerProcess, Alive
    <2>1. CASE t = current
      <3>1. heap'[u] = heap[u] /\ heap[u] = 0  BY <2>1, <1>1, <1>2, <1>11
      <3> QED  BY <3>1
    <2>2. CASE u = current
      <3>1. heap'[t] = heap[t] /\ heap[t] = 0  BY <2>2, <1>1, <1>2, <1>11
      <3> QED  BY <3>1
    <2>3. CASE t # current /\ u # current
      <3>1. heap'[t] = heap[t] /\ heap'[u] = heap[u]  BY <2>3, <1>1, <1>2
      <3> QED  BY <3>1 DEF SpaceInv, OneHeapPerProcess, Alive
    <2> QED  BY <2>1, <2>2, <2>3
  <1>13. TablesFine'  BY <1>8, <1>9, <1>10 DEF TablesFine
  <1> QED  BY <1>4, <1>11, <1>12, <1>13 DEF SpaceInv

LEMMA SpaceShrunk ==
  ASSUME MemoryTypeOK, DirInv, SpaceInv, current \in Task \ {Idle}, Alive(current),
         NEW d \in Dir, d = dir[current], UNCHANGED <<dir, current>>,
         NEW size \in Nat, NEW less, Shrunk(d, size, less)
  PROVE  SpaceInv'
PROOF
  <1>1. /\ dir \in [Task -> Dir \cup {NULL}] /\ heap \in [Task -> Nat]  BY DEF MemoryTypeOK
  <1>2. /\ HeapPages(size) <= HeapPages(heap[current])
        /\ less = HeapOf(current) \ HeapRange(HeapPages(size))
        /\ free_frames(FramesOf(current, less))
        /\ ClearedTables(d, less)
        /\ heap' = [heap EXCEPT ![current] = size]
    BY DEF Shrunk
  <1>3. /\ HeapPages(heap[current]) \in Nat /\ HeapPages(size) \in Nat /\ heap[current] \in Nat
        /\ HeapPages(heap[current]) <= PAG_LOG_INIT_HEAP - (NUM_PAG_CODE + NUM_PAG_DATA)
        /\ FramesOf(current, Data \cup HeapOf(current)) \subseteq Usable
    BY <1>1, LivePages, HeapSizes
  <1>4. HeapOf(current) \subseteq Page /\ HeapOf(current) \cap (Code \cup Data \cup {0}) = {}
    BY <1>3, FinePages DEF HeapOf
  <1>5. FramesOf(current, less) \subseteq Usable  BY <1>2, <1>3 DEF FramesOf
  <1>6. FixedFrames'
    <2>1. FixedFrames /\ OtherTypes  BY DEF SpaceInv, MemoryTypeOK, OtherTypes
    <2> QED  BY <2>1, <1>2, <1>5, FixedStay
  <1>7. /\ \A c \in Dir : pagusr_table'[c][0].present
        /\ \A c \in Dir, p \in Page : ~pagusr_table'[c][p].present => pagusr_table'[c][p].frame = 0
    <2>1. 0 \notin less  BY <1>2, <1>4
    <2> QED  BY <2>1, <1>2, SpaceCleared
  <1>8. HeapRange(HeapPages(size)) \subseteq HeapOf(current)
    BY <1>2, <1>3, HeapRanges DEF HeapOf
  <1>9. heap[current] = 0 => size = 0 /\ less = {}
    <2> SUFFICES ASSUME heap[current] = 0  PROVE size = 0 /\ less = {}  OBVIOUS
    <2>1. HeapPages(size) = 0  BY <1>2, <1>3, HeapSizes
    <2>2. size = 0
      <3>1. ~(HeapPages(size) >= 1)  BY <2>1
      <3> QED  BY <3>1, HeapSizes
    <2>3. HeapOf(current) = {}  BY FirstHeapPage DEF HeapOf
    <2> QED  BY <2>2, <2>3, <1>2
  <1>10. ASSUME NEW t \in Task \ {Idle}, Alive(t)'  PROVE Fine(pagusr_table'[dir'[t]], heap'[t])
    <2>1. dir'[t] = dir[t] /\ dir[t] \in Dir /\ Alive(t)  BY <1>1, <1>10 DEF Alive
    <2>2. Fine(pagusr_table[dir[t]], heap[t])  BY <2>1 DEF SpaceInv, TablesFine
    <2>3. CASE dir[t] # d
      <3>1. heap'[t] = heap[t]  BY <2>3, <1>1, <1>2
      <3>2. pagusr_table'[dir[t]] = pagusr_table[dir[t]]  BY <2>1, <2>3, <1>2 DEF ClearedTables
      <3> QED  BY <3>1, <3>2, <2>1, <2>2
    <2>4. CASE dir[t] = d
      <3>1. /\ Data \cup HeapOf(t) \subseteq Page
            /\ \A p \in Data \cup HeapOf(t) : /\ pagusr_table[d][p].present
                                              /\ pagusr_table[d][p].frame \in Usable
            /\ \A p \in Code : pagusr_table[d][p] = Mapped(FirstFrame(p), FALSE)
        BY <2>1, <2>4, LivePages
      <3>2. \A p \in Page : p \notin less => pagusr_table'[d][p] = pagusr_table[d][p]
        BY <1>2 DEF ClearedTables
      <3>3. \A p \in Code : pagusr_table'[d][p] = Mapped(FirstFrame(p), FALSE)
        BY <3>1, <3>2, <1>2, <1>4, Pages
      <3>4. CASE t # current
        <4>1. heap'[t] = heap[t]  BY <3>4, <1>1, <1>2
        <4>2. HeapOf(t) \cap less = {}
          <5>1. heap[t] = 0 \/ heap[current] = 0
            BY <3>4, <2>1, <2>4 DEF SpaceInv, OneHeapPerProcess
          <5>2. heap[t] = 0 => HeapOf(t) = {}  BY FirstHeapPage DEF HeapOf
          <5> QED  BY <5>1, <5>2, <1>9
        <4>3. \A p \in Data \cup HeapOf(t) : p \in Page /\ p \notin less
          BY <4>2, <3>1, <1>2, <1>4
        <4>4. \A p \in Data \cup HeapOf(t) : /\ pagusr_table'[d][p].present
                                             /\ pagusr_table'[d][p].frame \in Usable
          BY <4>3, <3>1, <3>2
        <4> QED  BY <4>1, <4>4, <3>3, <2>1, <2>2, <2>4 DEF Fine, HeapOf
      <3>5. CASE t = current
        <4>1. heap'[t] = size  BY <3>5, <1>1, <1>2
        <4>2. \A p \in Data \cup HeapRange(HeapPages(size)) :
                p \in Page /\ p \notin less /\ p \in Data \cup HeapOf(t)
          BY <3>1, <3>5, <1>2, <1>4, <1>8
        <4>3. \A p \in Data \cup HeapRange(HeapPages(size)) :
                pagusr_table'[d][p].present /\ pagusr_table'[d][p].frame \in Usable
          BY <4>2, <3>1, <3>2
        <4>4. HeapPages(size) <= PAG_LOG_INIT_HEAP - (NUM_PAG_CODE + NUM_PAG_DATA)
          BY <1>2, <1>3, MemoryAssumption
        <4> QED  BY <4>1, <4>3, <4>4, <3>3, <2>1, <2>4 DEF Fine
      <3> QED  BY <3>4, <3>5
    <2> QED  BY <2>3, <2>4
  <1>11. OneHeapPerProcess'
    <2> SUFFICES ASSUME NEW t \in Task, NEW u \in Task, t # u, dir[t] # NULL, dir[t] = dir[u]
                 PROVE  heap'[t] = 0 \/ heap'[u] = 0
      BY DEF OneHeapPerProcess, Alive
    <2>1. heap[t] = 0 \/ heap[u] = 0  BY DEF SpaceInv, OneHeapPerProcess, Alive
    <2>2. \A v \in Task : heap[v] = 0 => heap'[v] = 0  BY <1>1, <1>2, <1>9
    <2> QED  BY <2>1, <2>2
  <1>12. TablesFine'  BY <1>7, <1>10 DEF TablesFine
  <1> QED  BY <1>6, <1>11, <1>12 DEF SpaceInv

LEMMA SpaceSbrk ==
  ASSUME MemoryTypeOK, DirInv, SpaceInv, NEW increment \in Increments, Sbrk(increment)
  PROVE  SpaceInv'
PROOF
  <1>1. PICK d : d = dir[current]  OBVIOUS
  <1>2. /\ current \in Task \ {Idle} /\ Alive(current) /\ d \in Dir
        /\ UNCHANGED <<dirVars, current, halted>>
        /\ \/ SbrkFailed
           \/ \E size \in Nat : \E more, news : Grown(d, size, more, news)
           \/ \E size \in Nat : \E less : Shrunk(d, size, less)
    BY <1>1, SbrkEffects
  <1>3. UNCHANGED <<dir, current>>  BY <1>2 DEF dirVars
  <1>4. CASE SbrkFailed
    <2>1. pagusr_table' = pagusr_table /\ heap' = heap  BY <1>4 DEF SbrkFailed
    <2>2. FixedFrames'
      <3>1. FixedFrames /\ OtherTypes /\ FreeFrames \in SUBSET Usable
        BY FreeIsUsable DEF SpaceInv, MemoryTypeOK, OtherTypes
      <3>2. CASE UNCHANGED frameVars  BY <3>1, <3>2 DEF FixedFrames, frameVars
      <3>3. CASE alloc_and_free_frames(FreeFrames)  BY <3>1, <3>3, FixedStay
      <3> QED  BY <3>2, <3>3, <1>4 DEF SbrkFailed
    <2> QED  BY <2>1, <2>2, <1>3 DEF SpaceInv, TablesFine, OneHeapPerProcess, Alive
  <1>5. ASSUME NEW size \in Nat, NEW more, NEW news, Grown(d, size, more, news)
        PROVE  SpaceInv'
    BY <1>1, <1>2, <1>3, <1>5, SpaceGrown
  <1>6. ASSUME NEW size \in Nat, NEW less, Shrunk(d, size, less)
        PROVE  SpaceInv'
    BY <1>1, <1>2, <1>3, <1>6, SpaceShrunk
  <1> QED  BY <1>2, <1>4, <1>5, <1>6

LEMMA SpaceStep ==
  MemoryTypeOK /\ DirInv /\ SpaceInv /\ [Next]_vars => SpaceInv'
PROOF
  <1> SUFFICES ASSUME MemoryTypeOK, DirInv, SpaceInv, [Next]_vars  PROVE SpaceInv'  OBVIOUS
  <1>1. ASSUME UNCHANGED <<frameVars, pagusr_table, dir, heap>>  PROVE SpaceInv'
    BY <1>1 DEF frameVars, SpaceInv, FixedFrames, TablesFine, OneHeapPerProcess, Alive
  <1>2. CASE UNCHANGED vars  BY <1>2, <1>1 DEF vars, dirVars
  <1>3. CASE UserAccess
    <2>1. ASSUME NEW p \in Page, PageFault(p)  PROVE SpaceInv'  BY <2>1, SpaceFault
    <2>2. ASSUME NEW p \in Page, NEW v \in Value, Write(p, v)  PROVE SpaceInv'
      BY <2>2, <1>1 DEF Write, dirVars
    <2> QED  BY <2>1, <2>2, <1>3 DEF UserAccess
  <1>4. CASE SystemCall
    <2>1. CASE Exit  BY <2>1, SpaceExit
    <2>2. ASSUME NEW t \in Task, Fork(t)  PROVE SpaceInv'  BY <2>2, SpaceFork
    <2>3. ASSUME NEW t \in Task, NEW p \in Page, NEW v \in Value, Clone(t, p, v)  PROVE SpaceInv'
      BY <2>3, SpaceClone
    <2>4. ASSUME NEW increment \in Increments, Sbrk(increment)  PROVE SpaceInv'  BY <2>4, SpaceSbrk
    <2>5. ASSUME NEW p \in SyscallPages, NEW v \in Value, NEW next \in Task,
                 SyscallWrites(p, v, next)
          PROVE  SpaceInv'
      BY <2>5, <1>1 DEF SyscallWrites, dirVars
    <2> QED  BY <2>1, <2>2, <2>3, <2>4, <2>5, <1>4 DEF SystemCall
  <1>5. ASSUME NEW t \in Task, Switch(t)  PROVE SpaceInv'  BY <1>5, <1>1 DEF Switch, dirVars
  <1> QED  BY <1>2, <1>3, <1>4, <1>5 DEF Next

\* Of every process the table has the pages it was given, in frames that are not the code's,
\* and of its threads one at most has a heap.
THEOREM SpaceInvariance == Spec => [](MemoryInv /\ SpaceInv)
PROOF
  <1>1. Init => MemoryInv /\ SpaceInv  BY TypeInit, DirInit, CoherentInit, SpaceInit DEF MemoryInv
  <1>2. MemoryInv /\ SpaceInv /\ [Next]_vars => (MemoryInv /\ SpaceInv)'
    BY TypeStep, CoherentStep, SpaceStep DEF MemoryInv
  <1> QED  BY <1>1, <1>2, PTL DEF Spec

\* Of the threads of a process at most one has a heap: sys_sbrk finds the pages of another
\* thread's heap mapped (mm.c, sys.c:342).
THEOREM OneThreadHasTheHeap == Spec => []OneHeapPerProcess
PROOF
  <1>1. MemoryInv /\ SpaceInv => OneHeapPerProcess  BY DEF SpaceInv
  <1> QED  BY <1>1, SpaceInvariance, PTL

-----------------------------------------------------------------------------
(* One frame. *)

Pairs == Dir \X (Page \ {0})

\* What holds of a frame to which the pages R refer, of which W may be written: all are the
\* same page of their processes, the count is right, and only a page that is alone may be
\* written, when the count says so.
Sound(R, W, mem, count) ==
  /\ \A r, s \in R : r[2] = s[2]
  /\ mem = IF Cardinality(R) = 0 THEN "FREE_FRAME" ELSE "USED_FRAME"
  /\ Cardinality(R) = 1 => count \in {0, 1}
  /\ Cardinality(R) > 1 => count = Cardinality(R)
  /\ W = IF count = 0 THEN R ELSE {}

\* A frame has at most one reference of each process.
LEMMA FewReferences ==
  ASSUME NEW R \in SUBSET Pairs, \A r, s \in R : r[2] = s[2]
  PROVE  IsFiniteSet(R) /\ Cardinality(R) \in Nat /\ Cardinality(R) <= NR_TASKS
PROOF
  <1>1. NR_TASKS \in Nat  BY MemoryAssumption
  <1>2. IsFiniteSet(Dir) /\ Cardinality(Dir) = NR_TASKS  BY <1>1, FS_Interval DEF Dir
  <1> DEFINE f == [r \in R |-> r[1]]
  <1>3. f \in [R -> Dir]  BY DEF Pairs
  <1>4. \A r, s \in R : f[r] = f[s] => r = s
    <2> SUFFICES ASSUME NEW r \in R, NEW s \in R, r[1] = s[1]  PROVE r = s  OBVIOUS
    <2>1. r = <<r[1], r[2]>> /\ s = <<s[1], s[2]>>  BY DEF Pairs
    <2> QED  BY <2>1
  <1> HIDE DEF f
  <1>5. f \in Injection(R, Dir)  BY <1>3, <1>4 DEF Injection, IsInjective
  <1> QED  BY <1>2, <1>5, FS_Injection, FS_CardinalityType

\* A frame of which a page is taken for the first time.
LEMMA SoundNew ==
  ASSUME NEW r  PROVE Sound({r}, {r}, "USED_FRAME", 0)
PROOF
  <1>1. Cardinality({r}) = 1  BY FS_Singleton
  <1> QED  BY <1>1 DEF Sound

\* A free frame.
LEMMA SoundFree ==
  ASSUME NEW count  PROVE Sound({}, {}, "FREE_FRAME", count)
PROOF
  <1>1. Cardinality({}) = 0  BY FS_EmptySet
  <1> QED  BY <1>1 DEF Sound

LEMMA FreeIsUnused ==
  ASSUME NEW R \in SUBSET Pairs, NEW W, NEW mem, NEW count, Sound(R, W, mem, count)
  PROVE  mem = "FREE_FRAME" <=> R = {}
PROOF
  <1>1. IsFiniteSet(R)  BY FewReferences DEF Sound
  <1>2. Cardinality(R) = 0 <=> R = {}  BY <1>1, FS_EmptySet
  <1> QED  BY <1>2 DEF Sound

\* share_cow_page of the page r, for the page s of the child.
LEMMA SoundShared ==
  ASSUME NR_TASKS <= 128, NEW R \in SUBSET Pairs, NEW W, NEW mem, NEW count \in Byte,
         Sound(R, W, mem, count),
         NEW r \in R, NEW s \in Pairs \ R, s[2] = r[2]
  PROVE  Sound(R \cup {s}, {}, mem, CountAfterShare(count))
PROOF
  <1>1. IsFiniteSet(R) /\ Cardinality(R) \in Nat /\ Cardinality(R) <= NR_TASKS
    BY FewReferences DEF Sound
  <1>2. PICK n \in Nat : n = Cardinality(R)  BY <1>1
  <1>3. n # 0  BY <1>1, <1>2, FS_EmptySet
  <1>4. Cardinality(R \cup {s}) = n + 1  BY <1>1, <1>2, FS_AddElement
  <1>5. /\ mem = "USED_FRAME" /\ (n = 1 => count \in {0, 1}) /\ (n > 1 => count = n)
        /\ \A x, y \in R : x[2] = y[2]
    BY <1>2, <1>3 DEF Sound
  <1>6. \A x, y \in R \cup {s} : x[2] = y[2]
    <2>1. \A x \in R \cup {s} : x[2] = r[2]  BY <1>5
    <2> QED  BY <2>1
  <1>7. CountAfterShare(count) = n + 1
    <2>1. NR_TASKS \in Nat /\ n <= NR_TASKS /\ count \in Nat  BY <1>1, <1>2, MemoryAssumption DEF Byte
    <2>2. CASE n = 1
      <3>1. (1 + 1) % 256 = 2  OBVIOUS
      <3> QED  BY <2>2, <3>1, <1>5 DEF CountAfterShare
    <2>3. CASE n > 1
      <3>1. count = n /\ count # 0 /\ n + 1 <= 129  BY <2>1, <2>3, <1>5
      <3>2. (n + 1) % 256 = n + 1  BY <3>1
      <3> QED  BY <3>1, <3>2 DEF CountAfterShare
    <2> QED  BY <2>2, <2>3, <1>3
  <1>8. n + 1 # 0 /\ n + 1 > 1 /\ ~(n + 1 = 1)  BY <1>3
  <1> QED  BY <1>4, <1>5, <1>6, <1>7, <1>8 DEF Sound

\* free_frame for the page r.
LEMMA SoundFreed ==
  ASSUME NR_TASKS <= 128, NEW R \in SUBSET Pairs, NEW W, NEW mem, NEW count \in Byte,
         Sound(R, W, mem, count), NEW r \in R, NEW f, f > NUM_PAG_KERNEL,
         NEW after, after = CountAfterFree(f, count)
  PROVE  Sound(R \ {r}, W \ {r}, IF Signed(after) <= 0 THEN "FREE_FRAME" ELSE mem, after)
PROOF
  <1>1. IsFiniteSet(R) /\ Cardinality(R) \in Nat /\ Cardinality(R) <= NR_TASKS
    BY FewReferences DEF Sound
  <1>2. PICK n \in Nat : n = Cardinality(R)  BY <1>1
  <1>3. n # 0  BY <1>1, <1>2, FS_EmptySet
  <1>4. Cardinality(R \ {r}) = n - 1 /\ IsFiniteSet(R \ {r})  BY <1>1, <1>2, FS_RemoveElement
  <1>5. /\ mem = "USED_FRAME" /\ (n = 1 => count \in {0, 1}) /\ (n > 1 => count = n)
        /\ \A x, y \in R : x[2] = y[2]
        /\ W = IF count = 0 THEN R ELSE {}
    BY <1>2, <1>3 DEF Sound
  <1>6. NR_TASKS \in Nat /\ n <= NR_TASKS /\ count \in Nat  BY <1>1, <1>2, MemoryAssumption DEF Byte
  <1>7. after = (count - 1) % 256  BY DEF CountAfterFree
  <1>8. CASE n = 1
    <2>1. R \ {r} = {}  BY <1>4, <1>8, FS_EmptySet
    <2>2. W \ {r} = {}  BY <2>1, <1>5
    <2>3. Signed(after) <= 0
      <3>1. \A x \in 0 .. 1 : (x - 1) % 256 \in {0, 255}  OBVIOUS
      <3>2. after = 255 \/ after = 0  BY <3>1, <1>5, <1>7, <1>8
      <3> QED  BY <3>2 DEF Signed
    <2> QED  BY <2>1, <2>2, <2>3, SoundFree
  <1>9. CASE n > 1
    <2>1. count = n /\ n - 1 \in 1 .. 127  BY <1>5, <1>6, <1>9
    <2>2. after = n - 1
      <3>1. (n - 1) % 256 = n - 1  BY <2>1
      <3> QED  BY <3>1, <2>1, <1>7
    <2>3. ~(Signed(after) <= 0)  BY <2>1, <2>2 DEF Signed
    <2>4. W \ {r} = {} /\ count # 0 /\ after # 0  BY <2>1, <2>2, <1>5, <1>9
    <2>5. n - 1 = 1 => after \in {0, 1}  BY <2>2
    <2>6. n - 1 > 1 => after = n - 1  BY <2>2
    <2>7. n - 1 # 0  BY <2>1
    <2> QED  BY <2>3, <2>4, <2>5, <2>6, <2>7, <1>4, <1>5 DEF Sound
  <1> QED  BY <1>3, <1>8, <1>9

\* copy_frame for the page r.
LEMMA SoundCopied ==
  ASSUME NEW R \in SUBSET Pairs, NEW W, NEW mem, NEW count \in Byte, count >= 2,
         Sound(R, W, mem, count), NEW r \in R
  PROVE  Sound(R \ {r}, {}, mem, count - 1) /\ W = {} /\ mem = "USED_FRAME"
PROOF
  <1>1. IsFiniteSet(R) /\ Cardinality(R) \in Nat  BY FewReferences DEF Sound
  <1>2. PICK n \in Nat : n = Cardinality(R)  BY <1>1
  <1>3. n # 0  BY <1>1, <1>2, FS_EmptySet
  <1>4. Cardinality(R \ {r}) = n - 1  BY <1>1, <1>2, FS_RemoveElement
  <1>5. /\ mem = "USED_FRAME" /\ (n = 1 => count \in {0, 1}) /\ (n > 1 => count = n)
        /\ \A x, y \in R : x[2] = y[2]
        /\ W = IF count = 0 THEN R ELSE {}
    BY <1>2, <1>3 DEF Sound
  <1>6. n > 1 /\ count = n
    <2>1. n # 1  BY <1>5
    <2> QED  BY <2>1, <1>3, <1>5
  <1>7. W = {} /\ count - 1 # 0 /\ n - 1 # 0 /\ n - 1 \in Nat  BY <1>5, <1>6
  <1>8. (n - 1 = 1 => count - 1 \in {0, 1}) /\ (n - 1 > 1 => count - 1 = n - 1)  BY <1>6
  <1> QED  BY <1>4, <1>5, <1>7, <1>8 DEF Sound

\* The only page of a frame gets it to write.
LEMMA SoundMine ==
  ASSUME NEW R \in SUBSET Pairs, NEW W, NEW mem, Sound(R, W, mem, 1), NEW r \in R
  PROVE  R = {r} /\ mem = "USED_FRAME"
PROOF
  <1>1. IsFiniteSet(R) /\ Cardinality(R) \in Nat  BY FewReferences DEF Sound
  <1>2. PICK n \in Nat : n = Cardinality(R)  BY <1>1
  <1>3. n # 0  BY <1>1, <1>2, FS_EmptySet
  <1>4. n = 1 /\ mem = "USED_FRAME"  BY <1>2, <1>3 DEF Sound
  <1>5. PICK x : R = {x}  BY <1>1, <1>2, <1>4, FS_Singleton
  <1> QED  BY <1>4, <1>5

-----------------------------------------------------------------------------
(* The pages the processes were given. *)

\* Owned, of other directories and heaps than those of the state.
OwnedOf(ds, hs, d) ==
  IF {t \in Task : ds[t] = d} \subseteq {Idle} THEN {}
  ELSE Data \cup UNION {HeapRange(HeapPages(hs[t])) : t \in {t \in Task : ds[t] = d}}

LEMMA OwnedIs ==
  \A d : Owned(d) = OwnedOf(dir, heap, d) /\ Owned(d)' = OwnedOf(dir', heap', d)
PROOF  BY DEF Owned, OwnedOf, UsersOf, HeapOf

\* Nothing changes for a directory whose users keep their heaps.
LEMMA OwnedSame ==
  ASSUME NEW ds, NEW hs, NEW ds2, NEW hs2, NEW d,
         \A t \in Task : (ds[t] = d <=> ds2[t] = d) /\ (ds[t] = d => hs[t] = hs2[t])
  PROVE  OwnedOf(ds2, hs2, d) = OwnedOf(ds, hs, d)
PROOF
  <1>1. {t \in Task : ds2[t] = d} = {t \in Task : ds[t] = d}  OBVIOUS
  <1>2. PICK users : users = {t \in Task : ds[t] = d}  OBVIOUS
  <1>3. {HeapRange(HeapPages(hs2[t])) : t \in users} = {HeapRange(HeapPages(hs[t])) : t \in users}
    BY <1>2
  <1> QED  BY <1>1, <1>2, <1>3 DEF OwnedOf

\* The pages of a process are those of a thread, if no other one has a heap.
LEMMA OwnedByOne ==
  ASSUME NEW ds, NEW hs, NEW t \in Task \ {Idle},
         \A u \in Task : ds[u] = ds[t] => u = t \/ hs[u] = 0
  PROVE  OwnedOf(ds, hs, ds[t]) = Data \cup HeapRange(HeapPages(hs[t]))
PROOF
  <1>1. PICK users : users = {u \in Task : ds[u] = ds[t]}  OBVIOUS
  <1>2. t \in users /\ ~(users \subseteq {Idle})  BY <1>1
  <1>3. \A u \in users : u = t \/ HeapRange(HeapPages(hs[u])) = {}
    BY <1>1, FirstHeapPage
  <1>4. UNION {HeapRange(HeapPages(hs[u])) : u \in users} = HeapRange(HeapPages(hs[t]))
    BY <1>2, <1>3
  <1> QED  BY <1>1, <1>2, <1>4 DEF OwnedOf

LEMMA OwnedByNone ==
  ASSUME NEW ds, NEW hs, NEW d, \A u \in Task : ds[u] # d
  PROVE  OwnedOf(ds, hs, d) = {}
PROOF  BY DEF OwnedOf

\* Programs that do not create threads, or do not call sbrk (respuestas.txt:21 says why they
\* cannot do both).
Separate == ~Clones \/ Increments = {}

\* Then a process has one thread, or no heap.
OneThreadOrNoHeap ==
  /\ ~Clones => \A t, u \in Task : Alive(t) /\ dir[t] = dir[u] => t = u
  /\ Increments = {} => \A t \in Task : heap[t] = 0

LEMMA OthersHaveNoHeap ==
  ASSUME Separate, OneThreadOrNoHeap, NEW t \in Task, Alive(t), NEW u \in Task, dir[u] = dir[t]
  PROVE  u = t \/ heap[u] = 0
PROOF  BY DEF Separate, OneThreadOrNoHeap

LEMMA OwnedLive ==
  ASSUME Separate, OneThreadOrNoHeap, NEW t \in Task \ {Idle}, Alive(t)
  PROVE  Owned(dir[t]) = Data \cup HeapOf(t)
PROOF
  <1>1. \A u \in Task : dir[u] = dir[t] => u = t \/ heap[u] = 0  BY OthersHaveNoHeap
  <1>2. OwnedOf(dir, heap, dir[t]) = Data \cup HeapRange(HeapPages(heap[t]))  BY <1>1, OwnedByOne
  <1> QED  BY <1>2, OwnedIs DEF HeapOf

\* Owned pages are not the kernel's, and have usable frames.
LEMMA OwnedFrames ==
  ASSUME MemoryTypeOK, DirInv, SpaceInv, NEW d \in Dir, NEW p \in Owned(d)
  PROVE  p \in Page \ (Code \cup {0}) /\ pagusr_table[d][p].present /\ pagusr_table[d][p].frame \in Usable
PROOF
  <1>1. PICK t \in Task \ {Idle} : Alive(t) /\ dir[t] = d /\ p \in Data \cup HeapOf(t)
    BY OwnedPages
  <1> QED  BY <1>1, LivePages

LEMMA OneThreadInit == Init => OneThreadOrNoHeap
PROOF
  <1> SUFFICES ASSUME Init  PROVE OneThreadOrNoHeap  OBVIOUS
  <1>1. /\ dir = [t \in Task |-> IF t \in {Idle, Task1} THEN NR_TASKS - 1 - t ELSE NULL]
        /\ \A t \in Task : heap[t] = 0
    BY DEF Init, InitDirectories
  <1>2. NR_TASKS \in Nat /\ NR_TASKS > 1  BY MemoryAssumption
  <1>3. \A t, u \in Task : dir[t] # NULL /\ dir[t] = dir[u] => t = u
    <2> SUFFICES ASSUME NEW t \in Task, NEW u \in Task, dir[t] # NULL, dir[t] = dir[u]  PROVE t = u
      OBVIOUS
    <2>1. t \in {0, 1}  BY <1>1 DEF Idle, Task1
    <2>2. NR_TASKS - 1 - t # NULL  BY <2>1, <1>2 DEF NULL
    <2>3. u \in {0, 1}  BY <2>1, <2>2, <1>1 DEF Idle, Task1
    <2>4. NR_TASKS - 1 - t = NR_TASKS - 1 - u  BY <2>1, <2>3, <1>1 DEF Idle, Task1
    <2> QED  BY <2>1, <2>3, <2>4, <1>2
  <1> QED  BY <1>1, <1>3 DEF OneThreadOrNoHeap, Alive

LEMMA OneThreadStep ==
  MemoryInv /\ SpaceInv /\ OneThreadOrNoHeap /\ [Next]_vars => OneThreadOrNoHeap'
PROOF
  <1> SUFFICES ASSUME MemoryTypeOK, DirInv, SpaceInv, OneThreadOrNoHeap, [Next]_vars
               PROVE  OneThreadOrNoHeap'
    BY DEF MemoryInv
  <1>1. ASSUME UNCHANGED <<dir, heap>>  PROVE OneThreadOrNoHeap'
    BY <1>1 DEF OneThreadOrNoHeap, Alive
  <1>2. /\ dir \in [Task -> Dir \cup {NULL}] /\ heap \in [Task -> Nat] /\ current \in Task
    BY DEF MemoryTypeOK
  <1>3. CASE UNCHANGED vars  BY <1>3, <1>1 DEF vars, dirVars
  <1>4. CASE UserAccess  BY <1>4, <1>1 DEF UserAccess, PageFault, Write, dirVars
  <1>5. CASE SystemCall
    <2>1. CASE Exit
      <3>1. /\ dir' = [dir EXCEPT ![current] = NULL] /\ heap' = [heap EXCEPT ![current] = 0]
        BY <2>1 DEF Exit, free_DIR
      <3>2. \A t \in Task : dir'[t] # NULL => t # current /\ dir'[t] = dir[t]  BY <3>1, <1>2
      <3>3. \A t \in Task : heap[t] = 0 => heap'[t] = 0  BY <3>1, <1>2
      <3>4. ASSUME ~Clones, NEW t \in Task, NEW u \in Task, dir'[t] # NULL, dir'[t] = dir'[u]
            PROVE  t = u
        <4>1. dir'[t] = dir[t] /\ dir'[u] = dir[u]  BY <3>2, <3>4
        <4> QED  BY <4>1, <3>4 DEF OneThreadOrNoHeap, Alive
      <3> QED  BY <3>3, <3>4 DEF OneThreadOrNoHeap, Alive
    <2>2. ASSUME NEW child \in Task, Fork(child)  PROVE OneThreadOrNoHeap'
      <3>1. PICK c : c = Head(free_dirs)  OBVIOUS
      <3>2. /\ dir' = [dir EXCEPT ![child] = c] /\ heap' = [heap EXCEPT ![child] = heap[current]]
        BY <2>2, <3>1 DEF Fork, allocate_DIR
      <3>3. \A t \in Task : dir[t] # c
        <4>1. UsersOf(c) = {}  BY <2>2, <3>1, TablesAfterFork
        <4> QED  BY <4>1 DEF UsersOf
      <3>4. ASSUME ~Clones, NEW t \in Task, NEW u \in Task, dir'[t] # NULL, dir'[t] = dir'[u]
            PROVE  t = u
        <4>1. \A x \in Task : dir'[x] = IF x = child THEN c ELSE dir[x]  BY <3>2, <1>2
        <4>2. CASE t = child \/ u = child  BY <4>1, <4>2, <3>3, <3>4
        <4>3. CASE t # child /\ u # child
          <5>1. dir'[t] = dir[t] /\ dir'[u] = dir[u]  BY <4>1, <4>3
          <5> QED  BY <5>1, <3>4 DEF OneThreadOrNoHeap, Alive
        <4> QED  BY <4>2, <4>3
      <3>5. Increments = {} => \A t \in Task : heap'[t] = 0
        BY <3>2, <1>2 DEF OneThreadOrNoHeap
      <3> QED  BY <3>4, <3>5 DEF OneThreadOrNoHeap, Alive
    <2>3. ASSUME Clones, NEW t \in Task, NEW p \in Page, NEW v \in Value, Clone(t, p, v)
          PROVE  OneThreadOrNoHeap'
      <3>1. heap' = [heap EXCEPT ![t] = 0]  BY <2>3 DEF Clone, HeapOfThread
      <3>2. Increments = {} => \A u \in Task : heap'[u] = 0  BY <3>1, <1>2 DEF OneThreadOrNoHeap
      <3> QED  BY <3>2, <2>3 DEF OneThreadOrNoHeap
    <2>4. ASSUME NEW increment \in Increments, Sbrk(increment)  PROVE OneThreadOrNoHeap'
      <3>1. dir' = dir  BY <2>4 DEF Sbrk, dirVars
      <3> QED  BY <3>1, <2>4 DEF OneThreadOrNoHeap, Alive
    <2>5. ASSUME NEW p \in SyscallPages, NEW v \in Value, NEW next \in Task,
                 SyscallWrites(p, v, next)
          PROVE  OneThreadOrNoHeap'
      BY <2>5, <1>1 DEF SyscallWrites, dirVars
    <2> QED  BY <2>1, <2>2, <2>3, <2>4, <2>5, <1>5 DEF SystemCall
  <1>6. ASSUME NEW t \in Task, Switch(t)  PROVE OneThreadOrNoHeap'
    BY <1>6, <1>1 DEF Switch, dirVars
  <1> QED  BY <1>3, <1>4, <1>5, <1>6 DEF Next

-----------------------------------------------------------------------------
(* All frames. *)

\* The pages that refer to a frame and may be written.
Writables(f) == {r \in References(f) : pagusr_table[r[1]][r[2]].rw}

FramesSound ==
  halted = "no" =>
    \A f \in Usable : Sound(References(f), Writables(f), phys_mem[f], cow_count_mem[f])

LEMMA RefPairs ==
  /\ \A f : References(f) \in SUBSET Pairs /\ Writables(f) \subseteq References(f)
  /\ \A f : \A d \in Dir, p \in Page \ {0} :
       /\ <<d, p>> \in References(f) <=> p \in Owned(d) /\ pagusr_table[d][p].frame = f
       /\ <<d, p>> \in Writables(f) <=>
            p \in Owned(d) /\ pagusr_table[d][p].frame = f /\ pagusr_table[d][p].rw
PROOF  BY DEF References, Writables, Pairs

LEMMA NextRefPairs ==
  /\ \A f : References(f)' \in SUBSET Pairs /\ Writables(f)' \subseteq References(f)'
  /\ \A f : \A d \in Dir, p \in Page \ {0} :
       /\ <<d, p>> \in References(f)' <=> p \in Owned(d)' /\ pagusr_table'[d][p].frame = f
       /\ <<d, p>> \in Writables(f)' <=>
            p \in Owned(d)' /\ pagusr_table'[d][p].frame = f /\ pagusr_table'[d][p].rw
PROOF  BY DEF References, Writables, Pairs

LEMMA SamePairs ==
  ASSUME NEW A \in SUBSET Pairs, NEW B \in SUBSET Pairs,
         \A d \in Dir, p \in Page \ {0} : <<d, p>> \in A <=> <<d, p>> \in B
  PROVE  A = B
PROOF
  <1>1. \A r \in Pairs : r = <<r[1], r[2]>> /\ r[1] \in Dir /\ r[2] \in Page \ {0}  BY DEF Pairs
  <1>2. \A r \in Pairs : r \in A <=> r \in B
    <2> SUFFICES ASSUME NEW r \in Pairs  PROVE r \in A <=> r \in B  OBVIOUS
    <2>1. PICK d \in Dir, p \in Page \ {0} : r = <<d, p>>  BY <1>1
    <2> QED  BY <2>1
  <1> QED  BY <1>2

\* A frame of whose pages nothing changes.
LEMMA FrameKept ==
  ASSUME NEW f,
         \A d \in Dir, p \in Page \ {0} :
           p \in Owned(d)' /\ pagusr_table'[d][p].frame = f <=>
             p \in Owned(d) /\ pagusr_table[d][p].frame = f,
         \A d \in Dir, p \in Page \ {0} :
           p \in Owned(d) /\ pagusr_table[d][p].frame = f =>
             pagusr_table'[d][p].rw = pagusr_table[d][p].rw
  PROVE  References(f)' = References(f) /\ Writables(f)' = Writables(f)
PROOF
  <1>1. /\ References(f) \in SUBSET Pairs /\ References(f)' \in SUBSET Pairs
        /\ Writables(f) \in SUBSET Pairs /\ Writables(f)' \in SUBSET Pairs
    BY RefPairs, NextRefPairs
  <1>2. ASSUME NEW d \in Dir, NEW p \in Page \ {0}
        PROVE  /\ <<d, p>> \in References(f)' <=> <<d, p>> \in References(f)
               /\ <<d, p>> \in Writables(f)' <=> <<d, p>> \in Writables(f)
    <2>1. /\ <<d, p>> \in References(f) <=> p \in Owned(d) /\ pagusr_table[d][p].frame = f
          /\ <<d, p>> \in Writables(f) <=>
               p \in Owned(d) /\ pagusr_table[d][p].frame = f /\ pagusr_table[d][p].rw
      BY RefPairs
    <2>2. /\ <<d, p>> \in References(f)' <=> p \in Owned(d)' /\ pagusr_table'[d][p].frame = f
          /\ <<d, p>> \in Writables(f)' <=>
               p \in Owned(d)' /\ pagusr_table'[d][p].frame = f /\ pagusr_table'[d][p].rw
      BY NextRefPairs
    <2> QED  BY <2>1, <2>2
  <1>3. References(f)' = References(f)  BY <1>1, <1>2, SamePairs
  <1>4. Writables(f)' = Writables(f)  BY <1>1, <1>2, SamePairs
  <1> QED  BY <1>3, <1>4

\* A frame that has lost one of its pages.
LEMMA FrameLost ==
  ASSUME NEW f, NEW d \in Dir, NEW p \in Page \ {0},
         \A c \in Dir, q \in Page \ {0} :
           q \in Owned(c)' /\ pagusr_table'[c][q].frame = f <=>
             q \in Owned(c) /\ pagusr_table[c][q].frame = f /\ <<c, q>> # <<d, p>>,
         \A c \in Dir, q \in Page \ {0} :
           q \in Owned(c) /\ pagusr_table[c][q].frame = f /\ <<c, q>> # <<d, p>> =>
             pagusr_table'[c][q].rw = pagusr_table[c][q].rw
  PROVE  /\ References(f)' = References(f) \ {<<d, p>>}
         /\ Writables(f)' = Writables(f) \ {<<d, p>>}
PROOF
  <1>1. /\ References(f) \ {<<d, p>>} \in SUBSET Pairs /\ References(f)' \in SUBSET Pairs
        /\ Writables(f) \ {<<d, p>>} \in SUBSET Pairs /\ Writables(f)' \in SUBSET Pairs
    BY RefPairs, NextRefPairs
  <1>2. ASSUME NEW c \in Dir, NEW q \in Page \ {0}
        PROVE  /\ <<c, q>> \in References(f)' <=> <<c, q>> \in References(f) \ {<<d, p>>}
               /\ <<c, q>> \in Writables(f)' <=> <<c, q>> \in Writables(f) \ {<<d, p>>}
    <2>1. /\ <<c, q>> \in References(f) <=> q \in Owned(c) /\ pagusr_table[c][q].frame = f
          /\ <<c, q>> \in Writables(f) <=>
               q \in Owned(c) /\ pagusr_table[c][q].frame = f /\ pagusr_table[c][q].rw
      BY RefPairs
    <2>2. /\ <<c, q>> \in References(f)' <=> q \in Owned(c)' /\ pagusr_table'[c][q].frame = f
          /\ <<c, q>> \in Writables(f)' <=>
               q \in Owned(c)' /\ pagusr_table'[c][q].frame = f /\ pagusr_table'[c][q].rw
      BY NextRefPairs
    <2> QED  BY <2>1, <2>2
  <1>3. PICK A, B : A = References(f) \ {<<d, p>>} /\ B = Writables(f) \ {<<d, p>>}  OBVIOUS
  <1>4. References(f)' = A  BY <1>1, <1>2, <1>3, SamePairs
  <1>5. Writables(f)' = B  BY <1>1, <1>2, <1>3, SamePairs
  <1> QED  BY <1>3, <1>4, <1>5

\* A directory that gives some of its pages back.
LEMMA Released ==
  ASSUME NR_TASKS <= 128, MemoryTypeOK, DirInv, SpaceInv, FramesSound, halted = "no",
         NEW d \in Dir, NEW S \in SUBSET Owned(d),
         \A c \in Dir : Owned(c)' = IF c = d THEN Owned(c) \ S ELSE Owned(c),
         \A c \in Dir : c # d => pagusr_table'[c] = pagusr_table[c],
         \A p \in Owned(d) \ S : pagusr_table'[d][p] = pagusr_table[d][p],
         free_frames({pagusr_table[d][p].frame : p \in S})
  PROVE  FramesSound'
PROOF
  <1> SUFFICES ASSUME NEW f \in Usable
               PROVE  Sound(References(f), Writables(f), phys_mem[f], cow_count_mem[f])'
    BY DEF FramesSound
  <1>1. /\ Sound(References(f), Writables(f), phys_mem[f], cow_count_mem[f])
        /\ f \in Frame /\ cow_count_mem[f] \in Byte /\ References(f) \in SUBSET Pairs
    BY UsableFrames, RefPairs DEF FramesSound, MemoryTypeOK
  <1>2. PICK freed : freed = {pagusr_table[d][p].frame : p \in S}  OBVIOUS
  <1>3. /\ f \in freed => cow_count_mem'[f] = CountAfterFree(f, cow_count_mem[f])
        /\ f \in freed => phys_mem'[f] = IF Signed(CountAfterFree(f, cow_count_mem[f])) <= 0
                                         THEN "FREE_FRAME" ELSE phys_mem[f]
        /\ f \notin freed => cow_count_mem'[f] = cow_count_mem[f] /\ phys_mem'[f] = phys_mem[f]
    BY <1>1, <1>2 DEF free_frames
  <1>4. \A p \in Owned(d) : p \in Page \ {0}  BY OwnedFrames
  <1>5. CASE f \in freed
    <2>1. PICK p \in S : f = pagusr_table[d][p].frame  BY <1>2, <1>5
    <2>2. p \in Page \ {0} /\ p \in Owned(d) /\ <<d, p>> \in References(f)  BY <2>1, <1>4, RefPairs
    <2>3. \A q \in Page \ {0} : q \in Owned(d) /\ pagusr_table[d][q].frame = f => q = p
      <3> SUFFICES ASSUME NEW q \in Page \ {0}, q \in Owned(d), pagusr_table[d][q].frame = f
                   PROVE  q = p
        OBVIOUS
      <3>1. <<d, q>> \in References(f)  BY RefPairs
      <3>2. \A r, s \in References(f) : r[2] = s[2]  BY <1>1 DEF Sound
      <3>3. <<d, q>>[2] = <<d, p>>[2]  BY <3>1, <3>2, <2>2
      <3> QED  BY <3>3
    <2>4. ASSUME NEW c \in Dir, NEW q \in Page \ {0}
          PROVE  /\ q \in Owned(c)' /\ pagusr_table'[c][q].frame = f <=>
                      q \in Owned(c) /\ pagusr_table[c][q].frame = f /\ <<c, q>> # <<d, p>>
                 /\ q \in Owned(c) /\ pagusr_table[c][q].frame = f /\ <<c, q>> # <<d, p>> =>
                      pagusr_table'[c][q].rw = pagusr_table[c][q].rw
      <3>1. CASE c # d  BY <3>1
      <3>2. CASE c = d
        <4>1. q \in Owned(d)' <=> q \in Owned(d) /\ q \notin S  OBVIOUS
        <4>2. q \in Owned(d) /\ q \notin S => pagusr_table'[d][q] = pagusr_table[d][q]  OBVIOUS
        <4>3. q = p => q \in S  BY <2>1
        <4>4. q \in Owned(d) /\ q \notin S => pagusr_table[d][q].frame # f
          BY <2>3, <4>3
        <4>5. q \in Owned(d) /\ pagusr_table[d][q].frame = f => <<c, q>> = <<d, p>>
          BY <2>3, <3>2
        <4> QED  BY <4>1, <4>2, <4>4, <4>5, <3>2
      <3> QED  BY <3>1, <3>2
    <2>5. /\ References(f)' = References(f) \ {<<d, p>>}
          /\ Writables(f)' = Writables(f) \ {<<d, p>>}
      BY <2>2, <2>4, FrameLost
    <2>6. f > NUM_PAG_KERNEL
      <3>1. f >= NUM_PAG_KERNEL /\ f \in Nat /\ NUM_PAG_KERNEL \in Nat
        BY <1>1, MemoryAssumption DEF Usable, Allocatable, Frame
      <3>2. f # NUM_PAG_KERNEL  BY UsableFrames
      <3> QED  BY <3>1, <3>2
    <2>7. Sound(References(f) \ {<<d, p>>}, Writables(f) \ {<<d, p>>},
                phys_mem'[f], cow_count_mem'[f])
      <3>1. PICK R, W, mem, count, after :
              /\ R = References(f) /\ W = Writables(f)
              /\ mem = phys_mem[f] /\ count = cow_count_mem[f]
              /\ after = CountAfterFree(f, count)
        OBVIOUS
      <3>2. R \in SUBSET Pairs /\ count \in Byte /\ Sound(R, W, mem, count) /\ <<d, p>> \in R
        BY <3>1, <2>2, <1>1
      <3>3. Sound(R \ {<<d, p>>}, W \ {<<d, p>>},
                  IF Signed(after) <= 0 THEN "FREE_FRAME" ELSE mem, after)
        BY <3>1, <3>2, <2>6, SoundFreed
      <3>4. /\ phys_mem'[f] = IF Signed(after) <= 0 THEN "FREE_FRAME" ELSE mem
            /\ cow_count_mem'[f] = after
        BY <3>1, <1>3, <1>5
      <3> QED  BY <3>1, <3>3, <3>4
    <2> QED  BY <2>5, <2>7
  <1>6. CASE f \notin freed
    <2>1. \A p \in S : pagusr_table[d][p].frame # f  BY <1>2, <1>6
    <2>2. ASSUME NEW c \in Dir, NEW q \in Page \ {0}
          PROVE  /\ q \in Owned(c)' /\ pagusr_table'[c][q].frame = f <=>
                      q \in Owned(c) /\ pagusr_table[c][q].frame = f
                 /\ q \in Owned(c) /\ pagusr_table[c][q].frame = f =>
                      pagusr_table'[c][q].rw = pagusr_table[c][q].rw
      <3>1. CASE c # d  BY <3>1
      <3>2. CASE c = d
        <4>1. q \in Owned(d)' <=> q \in Owned(d) /\ q \notin S  OBVIOUS
        <4>2. q \in Owned(d) /\ q \notin S => pagusr_table'[d][q] = pagusr_table[d][q]  OBVIOUS
        <4> QED  BY <4>1, <4>2, <2>1, <3>2
      <3> QED  BY <3>1, <3>2
    <2>3. References(f)' = References(f) /\ Writables(f)' = Writables(f)  BY <2>2, FrameKept
    <2> QED  BY <2>3, <1>1, <1>3, <1>6
  <1> QED  BY <1>5, <1>6

\* A step that leaves the frames, the tables and the pages of all processes alone.
LEMMA FramesKept ==
  ASSUME FramesSound, UNCHANGED <<frameVars, pagusr_table, halted>>,
         \A d \in Dir : Owned(d)' = Owned(d)
  PROVE  FramesSound'
PROOF
  <1> SUFFICES ASSUME NEW f \in Usable, halted = "no"
               PROVE  Sound(References(f), Writables(f), phys_mem[f], cow_count_mem[f])'
    BY DEF FramesSound
  <1>1. References(f)' = References(f) /\ Writables(f)' = Writables(f)  BY FrameKept
  <1>2. Sound(References(f), Writables(f), phys_mem[f], cow_count_mem[f])  BY DEF FramesSound
  <1>3. phys_mem' = phys_mem /\ cow_count_mem' = cow_count_mem  BY DEF frameVars
  <1> QED  BY <1>1, <1>2, <1>3

\* The last thread of a process takes all its pages with it; another one takes none.
LEMMA OwnedAfterExit ==
  ASSUME Separate, OneThreadOrNoHeap, MemoryTypeOK, DirInv, Exit, NEW d, d = dir[current]
  PROVE  /\ \A c \in Dir : c # d => Owned(c)' = Owned(c)
         /\ Owned(d) = Data \cup HeapOf(current)
         /\ Owned(d)' = IF UsersOf(d) = {current} THEN {} ELSE Owned(d)
PROOF
  <1>2. /\ current \in Task \ {Idle} /\ Alive(current) /\ d \in Dir
        /\ dir' = [dir EXCEPT ![current] = NULL] /\ heap' = [heap EXCEPT ![current] = 0]
    BY ExitEffects
  <1>3. /\ dir \in [Task -> Dir \cup {NULL}] /\ heap \in [Task -> Nat] /\ NULL \notin Dir
    BY MemoryAssumption DEF MemoryTypeOK, NULL, Dir
  <1>4. \A t \in Task : /\ dir'[t] = IF t = current THEN NULL ELSE dir[t]
                        /\ heap'[t] = IF t = current THEN 0 ELSE heap[t]
    BY <1>2, <1>3
  <1>5. Owned(d) = Data \cup HeapOf(current)  BY <1>2, OwnedLive
  <1>6. ASSUME NEW c \in Dir, c # d  PROVE Owned(c)' = Owned(c)
    <2>1. \A t \in Task : (dir[t] = c <=> dir'[t] = c) /\ (dir[t] = c => heap[t] = heap'[t])
      BY <1>3, <1>4, <1>6
    <2>2. OwnedOf(dir', heap', c) = OwnedOf(dir, heap, c)  BY <2>1, OwnedSame
    <2> QED  BY <2>2, OwnedIs
  <1>7. CASE UsersOf(d) = {current}
    <2>1. \A t \in Task : dir'[t] # d  BY <1>2, <1>3, <1>4, <1>7 DEF UsersOf
    <2>2. OwnedOf(dir', heap', d) = {}  BY <2>1, OwnedByNone
    <2> QED  BY <2>2, <1>5, <1>6, <1>7, OwnedIs
  <1>8. CASE UsersOf(d) # {current}
    <2>1. PICK u \in Task : dir[u] = d /\ u # current  BY <1>2, <1>8 DEF UsersOf
    <2>2. u # Idle  BY <2>1, <1>2 DEF DirInv
    <2>3. \A t \in Task : heap[t] = 0
      <3>1. Clones  BY <2>1, <1>2 DEF OneThreadOrNoHeap
      <3> QED  BY <3>1 DEF Separate, OneThreadOrNoHeap
    <2>4. \A t \in Task : heap'[t] = 0 /\ dir'[u] = d  BY <2>1, <2>3, <1>4
    <2>5. OwnedOf(dir, heap, dir[u]) = Data \cup HeapRange(HeapPages(heap[u]))
      BY <2>2, <2>3, OwnedByOne
    <2>6. OwnedOf(dir', heap', dir'[u]) = Data \cup HeapRange(HeapPages(heap'[u]))
      BY <2>2, <2>4, OwnedByOne
    <2>7. Owned(d)' = Owned(d)  BY <2>1, <2>3, <2>4, <2>5, <2>6, OwnedIs
    <2> QED  BY <2>7, <1>5, <1>6, <1>8
  <1> QED  BY <1>7, <1>8

\* A heap of another size.
LEMMA OwnedAfterResize ==
  ASSUME Separate, OneThreadOrNoHeap, MemoryTypeOK,
         current \in Task \ {Idle}, Alive(current), NEW d \in Dir, d = dir[current],
         UNCHANGED dir, NEW size \in Nat, heap' = [heap EXCEPT ![current] = size]
  PROVE  /\ \A c \in Dir : c # d => Owned(c)' = Owned(c)
         /\ Owned(d) = Data \cup HeapOf(current)
         /\ Owned(d)' = Data \cup HeapRange(HeapPages(size))
PROOF
  <1>1. dir \in [Task -> Dir \cup {NULL}] /\ heap \in [Task -> Nat]  BY DEF MemoryTypeOK
  <1>2. Owned(d) = Data \cup HeapOf(current)  BY OwnedLive
  <1>3. Owned(d)' = Data \cup HeapRange(HeapPages(size))
    <2>1. heap'[current] = size  BY <1>1
    <2>2. \A u \in Task : dir[u] = dir[current] => u = current \/ heap'[u] = 0
      <3> SUFFICES ASSUME NEW u \in Task, dir[u] = dir[current], u # current  PROVE heap'[u] = 0
        OBVIOUS
      <3>1. heap[u] = 0  BY OthersHaveNoHeap
      <3> QED  BY <3>1, <1>1
    <2>3. PICK hs : hs = heap'  OBVIOUS
    <2>4. \A u \in Task : dir[u] = dir[current] => u = current \/ hs[u] = 0  BY <2>2, <2>3
    <2>5. OwnedOf(dir, hs, dir[current]) = Data \cup HeapRange(HeapPages(hs[current]))
      BY <2>4, OwnedByOne
    <2> QED  BY <2>1, <2>3, <2>5, OwnedIs
  <1>4. ASSUME NEW c \in Dir, c # d  PROVE Owned(c)' = Owned(c)
    <2>1. PICK hs : hs = heap'  OBVIOUS
    <2>2. \A t \in Task : dir[t] = c => heap[t] = hs[t]  BY <2>1, <1>1, <1>4
    <2>3. OwnedOf(dir, hs, c) = OwnedOf(dir, heap, c)  BY <2>2, OwnedSame
    <2> QED  BY <2>1, <2>3, OwnedIs
  <1> QED  BY <1>2, <1>3, <1>4

\* The pages of a process are given back with its last thread.
LEMMA SoundExit ==
  ASSUME NR_TASKS <= 128, Separate, OneThreadOrNoHeap,
         MemoryTypeOK, DirInv, SpaceInv, FramesSound, Exit
  PROVE  FramesSound'
PROOF
  <1>1. PICK d : d = dir[current]  OBVIOUS
  <1>2. /\ current \in Task \ {Idle} /\ Alive(current) /\ d \in Dir /\ halted = "no"
        /\ halted' = halted
        /\ \/ UsersOf(d) # {current} /\ UNCHANGED <<frameVars, pagusr_table>>
           \/ /\ UsersOf(d) = {current}
              /\ free_frames(FramesOf(current, Data \cup HeapOf(current)))
              /\ ClearedTables(d, Data \cup ({PAG_LOG_INIT_HEAP} \cap HeapOf(current)))
    BY <1>1, ExitEffects
  <1>3. /\ \A c \in Dir : c # d => Owned(c)' = Owned(c)
        /\ Owned(d) = Data \cup HeapOf(current)
        /\ Owned(d)' = IF UsersOf(d) = {current} THEN {} ELSE Owned(d)
    BY <1>1, OwnedAfterExit
  <1>4. CASE /\ UsersOf(d) = {current}
             /\ free_frames(FramesOf(current, Data \cup HeapOf(current)))
             /\ ClearedTables(d, Data \cup ({PAG_LOG_INIT_HEAP} \cap HeapOf(current)))
    <2>1. \A c \in Dir : Owned(c)' = IF c = d THEN Owned(c) \ Owned(d) ELSE Owned(c)
      BY <1>3, <1>4
    <2>2. \A c \in Dir : c # d => pagusr_table'[c] = pagusr_table[c]  BY <1>4 DEF ClearedTables
    <2>3. FramesOf(current, Data \cup HeapOf(current)) = {pagusr_table[d][p].frame : p \in Owned(d)}
      BY <1>1, <1>3 DEF FramesOf, PT
    <2>4. free_frames({pagusr_table[d][p].frame : p \in Owned(d)})  BY <2>3, <1>4
    <2>5. Owned(d) \in SUBSET Owned(d)
          /\ \A p \in Owned(d) \ Owned(d) : pagusr_table'[d][p] = pagusr_table[d][p]
      OBVIOUS
    <2> QED  BY <2>1, <2>2, <2>4, <2>5, <1>2, Released
  <1>5. CASE UsersOf(d) # {current} /\ UNCHANGED <<frameVars, pagusr_table>>
    <2>1. \A c \in Dir : Owned(c)' = Owned(c)  BY <1>3, <1>5
    <2> QED  BY <2>1, <1>2, <1>5, FramesKept
  <1> QED  BY <1>2, <1>4, <1>5

\* A heap that shrinks loses the pages above its new end.
LEMMA OwnedAfterShrink ==
  ASSUME Separate, OneThreadOrNoHeap, MemoryTypeOK, DirInv, SpaceInv,
         current \in Task \ {Idle}, Alive(current), NEW d \in Dir, d = dir[current],
         UNCHANGED <<dir, current>>, NEW size \in Nat, NEW less, Shrunk(d, size, less)
  PROVE  /\ \A c \in Dir : Owned(c)' = IF c = d THEN Owned(c) \ less ELSE Owned(c)
         /\ less \subseteq Owned(d) /\ Data \subseteq Owned(d)'
PROOF
  <1>1. /\ HeapPages(size) <= HeapPages(heap[current])
        /\ less = HeapOf(current) \ HeapRange(HeapPages(size))
        /\ heap' = [heap EXCEPT ![current] = size]
    BY DEF Shrunk
  <1>2. heap[current] \in Nat  BY DEF MemoryTypeOK
  <1>3. /\ HeapPages(heap[current]) \in Nat /\ HeapPages(size) \in Nat
        /\ HeapPages(heap[current]) <= PAG_LOG_INIT_HEAP - (NUM_PAG_CODE + NUM_PAG_DATA)
    BY <1>2, LivePages, HeapSizes
  <1>4. HeapOf(current) \cap Data = {}  BY <1>3, FinePages DEF HeapOf
  <1>5. HeapRange(HeapPages(size)) \subseteq HeapOf(current)  BY <1>1, <1>3, HeapRanges DEF HeapOf
  <1>6. /\ \A c \in Dir : c # d => Owned(c)' = Owned(c)
        /\ Owned(d) = Data \cup HeapOf(current)
        /\ Owned(d)' = Data \cup HeapRange(HeapPages(size))
    BY <1>1, OwnedAfterResize
  <1>7. Owned(d)' = Owned(d) \ less /\ less \subseteq Owned(d) /\ Data \subseteq Owned(d)'
    BY <1>1, <1>4, <1>5, <1>6
  <1> QED  BY <1>6, <1>7

\* The pages above the new end of the heap are given back.
LEMMA SoundShrunk ==
  ASSUME NR_TASKS <= 128, Separate, OneThreadOrNoHeap,
         MemoryTypeOK, DirInv, SpaceInv, FramesSound, halted = "no",
         current \in Task \ {Idle}, Alive(current), NEW d \in Dir, d = dir[current],
         UNCHANGED <<dir, current, halted>>,
         NEW size \in Nat, NEW less, Shrunk(d, size, less)
  PROVE  FramesSound'
PROOF
  <1>1. free_frames(FramesOf(current, less)) /\ ClearedTables(d, less)  BY DEF Shrunk
  <1>2. /\ \A c \in Dir : Owned(c)' = IF c = d THEN Owned(c) \ less ELSE Owned(c)
        /\ less \subseteq Owned(d)
    BY OwnedAfterShrink
  <1>3. \A p \in Owned(d) : p \in Page  BY OwnedFrames
  <1>4. /\ \A c \in Dir : c # d => pagusr_table'[c] = pagusr_table[c]
        /\ \A p \in Owned(d) \ less : pagusr_table'[d][p] = pagusr_table[d][p]
    BY <1>1, <1>3 DEF ClearedTables
  <1>5. free_frames({pagusr_table[d][p].frame : p \in less})
    <2>1. FramesOf(current, less) = {pagusr_table[d][p].frame : p \in less}  BY DEF FramesOf, PT
    <2> QED  BY <2>1, <1>1
  <1> QED  BY <1>2, <1>4, <1>5, Released

\* A free frame has no references, and its count means nothing.
LEMMA FreeFrameUnused ==
  ASSUME FramesSound, halted = "no", NEW f \in FreeFrames \cap Usable
  PROVE  References(f) = {} /\ Writables(f) = {}
PROOF
  <1>1. Sound(References(f), Writables(f), "FREE_FRAME", cow_count_mem[f])
    BY DEF FramesSound, FreeFrames
  <1>2. References(f) = {}  BY <1>1, FreeIsUnused, RefPairs
  <1> QED  BY <1>2, RefPairs

\* A heap that grows gets pages no thread of the process had.
LEMMA OwnedAfterGrow ==
  ASSUME Separate, OneThreadOrNoHeap, MemoryTypeOK, DirInv, SpaceInv,
         current \in Task \ {Idle}, Alive(current), NEW d \in Dir, d = dir[current],
         UNCHANGED <<dir, current>>, NEW size \in Nat, NEW more, NEW news,
         Grown(d, size, more, news)
  PROVE  /\ \A c \in Dir : c # d => Owned(c)' = Owned(c)
         /\ Owned(d)' = Owned(d) \cup more /\ Owned(d) \cap more = {}
         /\ more \subseteq Page \ {0} /\ Data \subseteq Owned(d)
PROOF
  <1>1. /\ more = HeapRange(HeapPages(size)) \ HeapOf(current)
        /\ HeapPages(size) > HeapPages(heap[current])
        /\ HeapPages(size) <= PAG_LOG_INIT_HEAP - (NUM_PAG_CODE + NUM_PAG_DATA)
        /\ heap' = [heap EXCEPT ![current] = size]
    BY DEF Grown
  <1>2. HeapPages(heap[current]) \in Nat /\ HeapPages(size) \in Nat  BY HeapSizes DEF MemoryTypeOK
  <1>3. more \subseteq Page \ {0} /\ more \cap Data = {}  BY <1>1, <1>2, FinePages
  <1>4. HeapOf(current) \subseteq HeapRange(HeapPages(size))
    <2>1. HeapPages(heap[current]) <= HeapPages(size)  BY <1>1, <1>2
    <2> QED  BY <2>1, <1>2, HeapRanges DEF HeapOf
  <1>5. /\ \A c \in Dir : c # d => Owned(c)' = Owned(c)
        /\ Owned(d) = Data \cup HeapOf(current)
        /\ Owned(d)' = Data \cup HeapRange(HeapPages(size))
    BY <1>1, OwnedAfterResize
  <1> QED  BY <1>1, <1>3, <1>4, <1>5

\* Each page that the heap gets has a free frame of its own.
LEMMA SoundGrown ==
  ASSUME Separate, OneThreadOrNoHeap,
         MemoryTypeOK, DirInv, SpaceInv, FramesSound, halted = "no",
         current \in Task \ {Idle}, Alive(current), NEW d \in Dir, d = dir[current],
         UNCHANGED <<dir, current, halted>>,
         NEW size \in Nat, NEW more, NEW news, Grown(d, size, more, news)
  PROVE  FramesSound'
PROOF
  <1>2. /\ news \in [more -> FreeFrames] /\ \A p, q \in more : news[p] = news[q] => p = q
        /\ alloc_frames({news[p] : p \in more})
        /\ \A c \in Dir : c # d => pagusr_table'[c] = pagusr_table[c]
        /\ \A p \in Page : pagusr_table'[d][p] = IF p \in more THEN Mapped(news[p], TRUE)
                                                               ELSE pagusr_table[d][p]
    BY DEF Grown
  <1>9. /\ \A c \in Dir : c # d => Owned(c)' = Owned(c)
        /\ Owned(d)' = Owned(d) \cup more /\ Owned(d) \cap more = {}
        /\ more \subseteq Page \ {0}
    BY OwnedAfterGrow
  <1>4. more \subseteq Page \ {0}  BY <1>9
  <1>8. \A c \in Dir : c # d => Owned(c)' = Owned(c)  BY <1>9
  <1> SUFFICES ASSUME NEW f \in Usable
               PROVE  Sound(References(f), Writables(f), phys_mem[f], cow_count_mem[f])'
    BY DEF FramesSound
  <1>10. /\ Sound(References(f), Writables(f), phys_mem[f], cow_count_mem[f])
         /\ f \in Frame
    BY UsableFrames DEF FramesSound
  <1>11. \A g : /\ Mapped(g, TRUE).frame = g /\ Mapped(g, TRUE).rw = TRUE  BY DEF Mapped
  <1>12. CASE \E p \in more : news[p] = f
    <2>1. PICK p \in more : news[p] = f  BY <1>12
    <2>2. phys_mem'[f] = "USED_FRAME" /\ cow_count_mem'[f] = 0
      BY <2>1, <1>2, <1>10 DEF alloc_frames
    <2>3. References(f) = {}
      <3>1. f \in FreeFrames \cap Usable  BY <2>1, <1>2
      <3> QED  BY <3>1, FreeFrameUnused
    <2>4. ASSUME NEW c \in Dir, NEW q \in Page \ {0}
          PROVE  /\ q \in Owned(c)' /\ pagusr_table'[c][q].frame = f <=> <<c, q>> = <<d, p>>
                 /\ <<c, q>> = <<d, p>> => pagusr_table'[c][q].rw
      <3>1. ~(q \in Owned(c) /\ pagusr_table[c][q].frame = f)  BY <2>3, RefPairs
      <3>2. CASE c # d  BY <3>1, <3>2, <1>2, <1>8
      <3>3. CASE c = d /\ q \notin more
        <4>1. q # p /\ pagusr_table'[d][q] = pagusr_table[d][q]  BY <3>3, <2>1, <1>2
        <4>2. q \in Owned(d)' <=> q \in Owned(d)  BY <3>3, <1>9
        <4> QED  BY <4>1, <4>2, <3>1, <3>3
      <3>4. CASE c = d /\ q \in more
        <4>1. pagusr_table'[d][q] = Mapped(news[q], TRUE) /\ q \in Owned(d)'  BY <3>4, <1>2, <1>9
        <4>2. news[q] = f <=> q = p  BY <3>4, <2>1, <1>2
        <4> QED  BY <4>1, <4>2, <3>4, <1>11
      <3> QED  BY <3>2, <3>3, <3>4
    <2>5. <<d, p>> \in Pairs  BY <2>1, <1>4 DEF Pairs
    <2>6. References(f)' = {<<d, p>>} /\ Writables(f)' = {<<d, p>>}
      <3>1. PICK A : A = {<<d, p>>}  OBVIOUS
      <3>2. ASSUME NEW c \in Dir, NEW q \in Page \ {0}
            PROVE  (<<c, q>> \in References(f)' <=> <<c, q>> \in A)
                   /\ (<<c, q>> \in Writables(f)' <=> <<c, q>> \in A)
        <4>1. /\ <<c, q>> \in References(f)' <=> q \in Owned(c)' /\ pagusr_table'[c][q].frame = f
              /\ <<c, q>> \in Writables(f)' <=>
                   q \in Owned(c)' /\ pagusr_table'[c][q].frame = f /\ pagusr_table'[c][q].rw
          BY NextRefPairs
        <4> QED  BY <4>1, <3>1, <2>4
      <3>3. /\ A \in SUBSET Pairs /\ References(f)' \in SUBSET Pairs
            /\ Writables(f)' \in SUBSET Pairs
        BY <3>1, <2>5, NextRefPairs
      <3>4. References(f)' = A  BY <3>2, <3>3, SamePairs
      <3>5. Writables(f)' = A  BY <3>2, <3>3, SamePairs
      <3> QED  BY <3>1, <3>4, <3>5
    <2> QED  BY <2>2, <2>6, SoundNew
  <1>13. CASE ~ \E p \in more : news[p] = f
    <2>1. phys_mem'[f] = phys_mem[f] /\ cow_count_mem'[f] = cow_count_mem[f]
      BY <1>2, <1>10, <1>13 DEF alloc_frames
    <2>2. ASSUME NEW c \in Dir, NEW q \in Page \ {0}
          PROVE  /\ q \in Owned(c)' /\ pagusr_table'[c][q].frame = f <=>
                      q \in Owned(c) /\ pagusr_table[c][q].frame = f
                 /\ q \in Owned(c) /\ pagusr_table[c][q].frame = f =>
                      pagusr_table'[c][q].rw = pagusr_table[c][q].rw
      <3>1. CASE c # d  BY <3>1, <1>2, <1>8
      <3>2. CASE c = d /\ q \notin more
        <4>1. pagusr_table'[d][q] = pagusr_table[d][q]  BY <3>2, <1>2
        <4>2. q \in Owned(d)' <=> q \in Owned(d)  BY <3>2, <1>9
        <4> QED  BY <4>1, <4>2, <3>2
      <3>3. CASE c = d /\ q \in more
        <4>1. pagusr_table'[d][q] = Mapped(news[q], TRUE) /\ q \notin Owned(d)  BY <3>3, <1>2, <1>9
        <4>2. pagusr_table'[d][q].frame # f  BY <4>1, <3>3, <1>11, <1>13
        <4> QED  BY <4>1, <4>2, <3>3
      <3> QED  BY <3>1, <3>2, <3>3
    <2>3. References(f)' = References(f) /\ Writables(f)' = Writables(f)  BY <2>2, FrameKept
    <2> QED  BY <2>1, <2>3, <1>10
  <1> QED  BY <1>12, <1>13

LEMMA SoundSbrk ==
  ASSUME NR_TASKS <= 128, Separate, OneThreadOrNoHeap,
         MemoryTypeOK, DirInv, SpaceInv, FramesSound,
         NEW increment \in Increments, Sbrk(increment)
  PROVE  FramesSound'
PROOF
  <1>1. PICK d : d = dir[current]  OBVIOUS
  <1>2. /\ current \in Task \ {Idle} /\ Alive(current) /\ d \in Dir
        /\ UNCHANGED <<dirVars, current, halted>>
        /\ \/ SbrkFailed
           \/ \E size \in Nat : \E more, news : Grown(d, size, more, news)
           \/ \E size \in Nat : \E less : Shrunk(d, size, less)
    BY <1>1, SbrkEffects
  <1>3. UNCHANGED <<dir, current, halted>> /\ halted = "no"  BY <1>2 DEF dirVars, Sbrk, Running
  <1>4. CASE SbrkFailed
    <2>1. pagusr_table' = pagusr_table /\ heap' = heap  BY <1>4 DEF SbrkFailed
    <2>2. \A c : Owned(c)' = Owned(c)  BY <2>1, <1>3, OwnedIs
    <2>3. CASE UNCHANGED frameVars  BY <2>1, <2>2, <2>3, <1>3, FramesKept
    <2>4. CASE alloc_and_free_frames(FreeFrames)
      <3> SUFFICES ASSUME NEW f \in Usable
                   PROVE  Sound(References(f), Writables(f), phys_mem[f], cow_count_mem[f])'
        BY DEF FramesSound
      <3>1. References(f)' = References(f) /\ Writables(f)' = Writables(f)
        BY <2>1, <2>2, FrameKept
      <3>2. Sound(References(f), Writables(f), phys_mem[f], cow_count_mem[f]) /\ f \in Frame
        BY <1>3, UsableFrames DEF FramesSound
      <3>3. CASE f \in FreeFrames
        <4>1. phys_mem'[f] = "FREE_FRAME"  BY <3>3, <2>4 DEF alloc_and_free_frames, FreeFrames
        <4>2. References(f) = {} /\ Writables(f) = {}  BY <3>3, <1>3, FreeFrameUnused
        <4> QED  BY <4>1, <4>2, <3>1, SoundFree
      <3>4. CASE f \notin FreeFrames
        <4>1. phys_mem'[f] = phys_mem[f] /\ cow_count_mem'[f] = cow_count_mem[f]
          BY <3>2, <3>4, <2>4 DEF alloc_and_free_frames
        <4> QED  BY <4>1, <3>1, <3>2
      <3> QED  BY <3>3, <3>4
    <2> QED  BY <2>3, <2>4, <1>4 DEF SbrkFailed
  <1>5. ASSUME NEW size \in Nat, NEW more, NEW news, Grown(d, size, more, news)
        PROVE  FramesSound'
    BY <1>1, <1>2, <1>3, <1>5, SoundGrown
  <1>6. ASSUME NEW size \in Nat, NEW less, Shrunk(d, size, less)
        PROVE  FramesSound'
    BY <1>1, <1>2, <1>3, <1>6, SoundShrunk
  <1> QED  BY <1>2, <1>4, <1>5, <1>6

\* A page gets another frame, or the one it has to write: only these two frames are concerned.
LEMMA FrameOfOthers ==
  ASSUME MemoryTypeOK, NEW d \in Dir, NEW p \in Page \ {0}, NEW g, NEW f,
         pagusr_table' = [pagusr_table EXCEPT ![d][p] = Mapped(g, TRUE)],
         UNCHANGED <<dir, heap>>, f # g, f # pagusr_table[d][p].frame
  PROVE  References(f)' = References(f) /\ Writables(f)' = Writables(f)
PROOF
  <1>1. pagusr_table \in [Dir -> [Page -> Entry]]  BY DEF MemoryTypeOK
  <1>2. \A c : Owned(c)' = Owned(c)  BY OwnedIs
  <1>3. PICK e : e = Mapped(g, TRUE)  OBVIOUS
  <1>4. e.frame = g  BY <1>3 DEF Mapped
  <1>5. \A c \in Dir, q \in Page :
          pagusr_table'[c][q] = IF c = d /\ q = p THEN e ELSE pagusr_table[c][q]
    BY <1>1, <1>3
  <1>6. ASSUME NEW c \in Dir, NEW q \in Page \ {0}
        PROVE  /\ q \in Owned(c)' /\ pagusr_table'[c][q].frame = f <=>
                    q \in Owned(c) /\ pagusr_table[c][q].frame = f
               /\ q \in Owned(c) /\ pagusr_table[c][q].frame = f =>
                    pagusr_table'[c][q].rw = pagusr_table[c][q].rw
    <2>1. CASE c = d /\ q = p
      <3>1. pagusr_table'[c][q] = e /\ pagusr_table[c][q].frame # f  BY <2>1, <1>5
      <3>2. pagusr_table'[c][q].frame # f  BY <3>1, <1>4
      <3> QED  BY <3>1, <3>2
    <2>2. CASE ~(c = d /\ q = p)
      <3>1. pagusr_table'[c][q] = pagusr_table[c][q]  BY <2>2, <1>5
      <3> QED  BY <3>1, <1>2
    <2> QED  BY <2>1, <2>2
  <1> QED  BY <1>6, FrameKept

\* A frame nobody else refers to, of a page that has just got it to write.
LEMMA FrameOfOne ==
  ASSUME MemoryTypeOK, NEW d \in Dir, NEW p \in Page \ {0}, NEW g, p \in Owned(d),
         pagusr_table' = [pagusr_table EXCEPT ![d][p] = Mapped(g, TRUE)],
         UNCHANGED <<dir, heap>>, References(g) \subseteq {<<d, p>>}
  PROVE  References(g)' = {<<d, p>>} /\ Writables(g)' = {<<d, p>>}
PROOF
  <1>1. pagusr_table \in [Dir -> [Page -> Entry]]  BY DEF MemoryTypeOK
  <1>2. \A c : Owned(c)' = Owned(c)  BY OwnedIs
  <1>3. PICK e : e = Mapped(g, TRUE)  OBVIOUS
  <1>4. e.frame = g /\ e.rw = TRUE  BY <1>3 DEF Mapped
  <1>5. \A c \in Dir, q \in Page :
          pagusr_table'[c][q] = IF c = d /\ q = p THEN e ELSE pagusr_table[c][q]
    BY <1>1, <1>3
  <1>6. PICK A : A = {<<d, p>>}  OBVIOUS
  <1>7. ASSUME NEW c \in Dir, NEW q \in Page \ {0}
        PROVE  (<<c, q>> \in References(g)' <=> <<c, q>> \in A)
               /\ (<<c, q>> \in Writables(g)' <=> <<c, q>> \in A)
    <2>1. /\ <<c, q>> \in References(g)' <=> q \in Owned(c)' /\ pagusr_table'[c][q].frame = g
          /\ <<c, q>> \in Writables(g)' <=>
               q \in Owned(c)' /\ pagusr_table'[c][q].frame = g /\ pagusr_table'[c][q].rw
      BY NextRefPairs
    <2>2. CASE c = d /\ q = p
      <3>1. pagusr_table'[c][q] = e /\ <<c, q>> \in A /\ q \in Owned(c)'
        BY <2>2, <1>2, <1>5, <1>6
      <3> QED  BY <3>1, <2>1, <1>4
    <2>3. CASE ~(c = d /\ q = p)
      <3>1. pagusr_table'[c][q] = pagusr_table[c][q] /\ <<c, q>> \notin A  BY <2>3, <1>5, <1>6
      <3>2. <<c, q>> \notin References(g)  BY <3>1, <1>6
      <3>3. ~(q \in Owned(c) /\ pagusr_table[c][q].frame = g)  BY <3>2, RefPairs
      <3> QED  BY <3>1, <3>3, <2>1, <1>2
    <2> QED  BY <2>2, <2>3
  <1>8. A \in SUBSET Pairs /\ References(g)' \in SUBSET Pairs /\ Writables(g)' \in SUBSET Pairs
    BY <1>6, NextRefPairs DEF Pairs
  <1>9. References(g)' = A  BY <1>7, <1>8, SamePairs
  <1>10. Writables(g)' = A  BY <1>7, <1>8, SamePairs
  <1> QED  BY <1>6, <1>9, <1>10

\* pf_rsi: a page is made writable where it is, or in a copy.
LEMMA SoundFault ==
  ASSUME MemoryTypeOK, DirInv, SpaceInv, FramesSound, NEW p \in Page, PageFault(p)
  PROVE  FramesSound'
PROOF
  <1>1. PICK d, f : d = dir[current] /\ f = pagusr_table[d][p].frame  OBVIOUS
  <1>2. /\ current \in Task \ {Idle} /\ Alive(current) /\ d \in Dir /\ f \in Frame
        /\ cow_count_mem[f] \in Byte /\ halted = "no"
        /\ UNCHANGED <<dirVars, heap, current>>
        /\ \/ /\ halted' # "no" /\ UNCHANGED <<phys_mem, content, pagusr_table, cpuVars>>
              /\ \/ UNCHANGED cow_count_mem
                 \/ /\ f \in Usable /\ cow_count_mem[f] >= 2
                    /\ cow_count_mem' = [cow_count_mem EXCEPT ![f] = cow_count_mem[f] - 1]
           \/ /\ p \in Owned(d) /\ p \notin Code \cup {0} /\ f \in Usable
              /\ cow_count_mem[f] = 1 /\ MakeWritable(p, f)
           \/ /\ p \in Owned(d) /\ p \notin Code \cup {0} /\ f \in Usable
              /\ cow_count_mem[f] >= 2 /\ FreeFrames # {} /\ CopyPage(p, f)
    BY <1>1, FaultEffects
  <1>3. UNCHANGED <<dir, heap>>  BY <1>2 DEF dirVars
  <1>4. /\ phys_mem \in [Frame -> {"USED_FRAME", "FREE_FRAME"}] /\ cow_count_mem \in [Frame -> Byte]
        /\ pagusr_table \in [Dir -> [Page -> Entry]]
    BY DEF MemoryTypeOK
  <1>5. \A g \in Usable : /\ Sound(References(g), Writables(g), phys_mem[g], cow_count_mem[g])
                          /\ g \in Frame /\ References(g) \in SUBSET Pairs
    BY <1>2, UsableFrames, RefPairs DEF FramesSound
  <1>6. CASE halted' # "no"  BY <1>6 DEF FramesSound
  <1>7. CASE /\ p \in Owned(d) /\ p \notin Code \cup {0} /\ f \in Usable
             /\ cow_count_mem[f] = 1 /\ MakeWritable(p, f)
    <2>1. /\ cow_count_mem' = [cow_count_mem EXCEPT ![f] = 0] /\ phys_mem' = phys_mem
          /\ pagusr_table' = [pagusr_table EXCEPT ![d][p] = Mapped(f, TRUE)]
      BY <1>1, <1>7 DEF MakeWritable
    <2>2. p \in Page \ {0} /\ <<d, p>> \in References(f)  BY <1>1, <1>2, <1>7, RefPairs
    <2>3. References(f) = {<<d, p>>} /\ phys_mem[f] = "USED_FRAME"
      <3>1. Sound(References(f), Writables(f), phys_mem[f], 1)  BY <1>5, <1>7
      <3>2. References(f) \in SUBSET Pairs  BY <1>5, <1>7
      <3> QED  BY <3>1, <3>2, <2>2, SoundMine
    <2>4. Sound(References(f), Writables(f), phys_mem[f], cow_count_mem[f])'
      <3>1. References(f)' = {<<d, p>>} /\ Writables(f)' = {<<d, p>>}
        BY <2>1, <2>2, <2>3, <1>2, <1>3, <1>7, FrameOfOne
      <3>2. phys_mem'[f] = "USED_FRAME" /\ cow_count_mem'[f] = 0  BY <2>1, <2>3, <1>2, <1>4
      <3> QED  BY <3>1, <3>2, SoundNew
    <2>5. ASSUME NEW g \in Usable, g # f
          PROVE  Sound(References(g), Writables(g), phys_mem[g], cow_count_mem[g])'
      <3>1. References(g)' = References(g) /\ Writables(g)' = Writables(g)
        BY <2>1, <2>2, <2>5, <1>1, <1>2, <1>3, FrameOfOthers
      <3>2. phys_mem'[g] = phys_mem[g] /\ cow_count_mem'[g] = cow_count_mem[g]
        BY <2>1, <2>5, <1>4, <1>5
      <3> QED  BY <3>1, <3>2, <1>5
    <2> QED  BY <2>4, <2>5 DEF FramesSound
  <1>8. CASE /\ p \in Owned(d) /\ p \notin Code \cup {0} /\ f \in Usable
             /\ cow_count_mem[f] >= 2 /\ FreeFrames # {} /\ CopyPage(p, f)
    <2>1. PICK new : new = NewFrame(0)  OBVIOUS
    <2>2. /\ phys_mem' = [phys_mem EXCEPT ![new] = "USED_FRAME"]
          /\ cow_count_mem' = [cow_count_mem EXCEPT ![f] = cow_count_mem[f] - 1, ![new] = 0]
          /\ pagusr_table' = [pagusr_table EXCEPT ![d][p] = Mapped(new, TRUE)]
      BY <2>1, <1>1, <1>8 DEF CopyPage, CountAfterCopy
    <2>3. new \in FreeFrames /\ new \in Usable  BY <2>1, <1>8, NewFrames, FreeIsUsable DEF SpaceInv
    <2>4. p \in Page \ {0} /\ <<d, p>> \in References(f)  BY <1>1, <1>2, <1>8, RefPairs
    <2>5. PICK R, W, mem, count : /\ R = References(f) /\ W = Writables(f)
                                  /\ mem = phys_mem[f] /\ count = cow_count_mem[f]
      OBVIOUS
    <2>6. /\ R \in SUBSET Pairs /\ Sound(R, W, mem, count) /\ count \in Byte /\ count >= 2
          /\ <<d, p>> \in R
      BY <2>4, <2>5, <1>2, <1>5, <1>8
    <2>7. Sound(R \ {<<d, p>>}, {}, mem, count - 1) /\ W = {} /\ mem = "USED_FRAME"
      BY <2>6, SoundCopied
    <2>8. new # f  BY <2>3, <2>5, <2>7 DEF FreeFrames
    <2>9. Sound(References(f), Writables(f), phys_mem[f], cow_count_mem[f])'
      <3>1. phys_mem'[f] = mem /\ cow_count_mem'[f] = count - 1
        BY <2>2, <2>3, <2>5, <2>8, <1>2, <1>4, <1>5
      <3>2. PICK e : e = Mapped(new, TRUE)  OBVIOUS
      <3>3. e.frame = new  BY <3>2 DEF Mapped
      <3>4. \A c \in Dir, q \in Page :
              pagusr_table'[c][q] = IF c = d /\ q = p THEN e ELSE pagusr_table[c][q]
        BY <2>2, <3>2, <1>4
      <3>5. \A c : Owned(c)' = Owned(c)  BY <1>3, OwnedIs
      <3>6. ASSUME NEW c \in Dir, NEW q \in Page \ {0}
            PROVE  /\ q \in Owned(c)' /\ pagusr_table'[c][q].frame = f <=>
                        q \in Owned(c) /\ pagusr_table[c][q].frame = f /\ <<c, q>> # <<d, p>>
                   /\ q \in Owned(c) /\ pagusr_table[c][q].frame = f /\ <<c, q>> # <<d, p>> =>
                        pagusr_table'[c][q].rw = pagusr_table[c][q].rw
        <4>1. CASE c = d /\ q = p
          <5>1. pagusr_table'[c][q].frame # f  BY <4>1, <3>3, <3>4, <2>8
          <5> QED  BY <5>1, <4>1
        <4>2. CASE ~(c = d /\ q = p)
          <5>1. pagusr_table'[c][q] = pagusr_table[c][q] /\ <<c, q>> # <<d, p>>  BY <4>2, <3>4
          <5> QED  BY <5>1, <3>5
        <4> QED  BY <4>1, <4>2
      <3>7. References(f)' = R \ {<<d, p>>} /\ Writables(f)' = W \ {<<d, p>>}
        BY <3>6, <2>4, <2>5, <1>2, FrameLost
      <3>8. W \ {<<d, p>>} = {}  BY <2>7
      <3> QED  BY <3>1, <3>7, <3>8, <2>7
    <2>10. Sound(References(new), Writables(new), phys_mem[new], cow_count_mem[new])'
      <3>1. References(new) = {}  BY <2>3, <1>2, FreeFrameUnused
      <3>2. References(new)' = {<<d, p>>} /\ Writables(new)' = {<<d, p>>}
        BY <3>1, <2>2, <2>4, <1>2, <1>3, <1>8, FrameOfOne
      <3>3. phys_mem'[new] = "USED_FRAME" /\ cow_count_mem'[new] = 0  BY <2>2, <2>3, <1>4, <1>5
      <3> QED  BY <3>2, <3>3, SoundNew
    <2>11. ASSUME NEW g \in Usable, g # f, g # new
           PROVE  Sound(References(g), Writables(g), phys_mem[g], cow_count_mem[g])'
      <3>1. References(g)' = References(g) /\ Writables(g)' = Writables(g)
        BY <2>2, <2>4, <2>11, <1>1, <1>2, <1>3, FrameOfOthers
      <3>2. phys_mem'[g] = phys_mem[g] /\ cow_count_mem'[g] = cow_count_mem[g]
        BY <2>2, <2>11, <1>4, <1>5
      <3> QED  BY <3>1, <3>2, <1>5
    <2> QED  BY <2>9, <2>10, <2>11 DEF FramesSound
  <1> QED  BY <1>2, <1>6, <1>7, <1>8

\* The child has the pages of its father.
LEMMA OwnedAfterFork ==
  ASSUME Separate, OneThreadOrNoHeap, MemoryTypeOK, DirInv, NEW child \in Task, Fork(child),
         NEW src, src = dir[current], NEW c, c = Head(free_dirs),
         NEW shared, shared = Data \cup HeapOf(current)
  PROVE  /\ \A d \in Dir : d # c => Owned(d)' = Owned(d)
         /\ Owned(src) = shared /\ Owned(c) = {} /\ Owned(c)' = shared
PROOF
  <1>1. /\ current \in Task \ {Idle} /\ Alive(current) /\ ~Alive(child)
        /\ dir' = [dir EXCEPT ![child] = c]
        /\ heap' = [heap EXCEPT ![child] = heap[current]]
    BY DEF Fork, Running, allocate_DIR, MemoryTypeOK
  <1>2. src \in Dir /\ c \in Dir /\ UsersOf(c) = {}  BY TablesAfterFork
  <1>3. /\ dir \in [Task -> Dir \cup {NULL}] /\ heap \in [Task -> Nat]  BY DEF MemoryTypeOK
  <1>4. \A t \in Task : /\ dir'[t] = IF t = child THEN c ELSE dir[t]
                        /\ heap'[t] = IF t = child THEN heap[current] ELSE heap[t]
    BY <1>1, <1>3
  <1>5. \A t \in Task : dir[t] # c  BY <1>2 DEF UsersOf
  <1>6. Owned(src) = shared  BY <1>1, OwnedLive
  <1>7. Owned(c) = {} /\ Owned(c)' = shared
    <2>1. OwnedOf(dir, heap, c) = {}  BY <1>5, OwnedByNone
    <2>2. child # Idle  BY <1>1 DEF DirInv
    <2>3. \A u \in Task : dir'[u] = dir'[child] => u = child \/ heap'[u] = 0  BY <1>4, <1>5
    <2>4. OwnedOf(dir', heap', dir'[child]) = Data \cup HeapRange(HeapPages(heap'[child]))
      BY <2>2, <2>3, OwnedByOne
    <2>5. dir'[child] = c /\ heap'[child] = heap[current]  BY <1>4
    <2> QED  BY <2>1, <2>4, <2>5, OwnedIs DEF HeapOf
  <1>8. ASSUME NEW d \in Dir, d # c  PROVE Owned(d)' = Owned(d)
    <2>0. dir[child] # d
      <3>1. NULL \notin Dir  BY MemoryAssumption DEF NULL, Dir
      <3> QED  BY <3>1, <1>1 DEF Alive
    <2>1. \A t \in Task : (dir[t] = d <=> dir'[t] = d) /\ (dir[t] = d => heap[t] = heap'[t])
      BY <2>0, <1>4, <1>8
    <2>2. OwnedOf(dir', heap', d) = OwnedOf(dir, heap, d)  BY <2>1, OwnedSame
    <2> QED  BY <2>2, OwnedIs
  <1> QED  BY <1>6, <1>7, <1>8

\* share_cow_page counts the child's reference to each page, and takes the right to write from
\* the father's; a third process that shares the page has not had it any more.
LEMMA SoundFork ==
  ASSUME NR_TASKS <= 128, Separate, OneThreadOrNoHeap,
         MemoryTypeOK, DirInv, SpaceInv, FramesSound, NEW child \in Task, Fork(child)
  PROVE  FramesSound'
PROOF
  <1>1. PICK src, c, shared : /\ src = dir[current] /\ c = Head(free_dirs)
                              /\ shared = Data \cup HeapOf(current)
    OBVIOUS
  <1>2. /\ current \in Task \ {Idle} /\ Alive(current) /\ halted = "no"
        /\ phys_mem' = phys_mem
        /\ cow_count_mem' = [f \in Frame |-> IF f \in FramesOf(current, shared)
                                             THEN CountAfterShare(cow_count_mem[f])
                                             ELSE cow_count_mem[f]]
    BY <1>1 DEF Fork, Running, MemoryTypeOK
  <1>3. src \in Dir /\ c \in Dir /\ UsersOf(c) = {} /\ src # c /\ ForkedTables(src, c, shared)
    BY <1>1, TablesAfterFork
  <1>4. /\ \A d \in Dir : d # src /\ d # c => pagusr_table'[d] = pagusr_table[d]
        /\ \A p \in shared : p \in Page /\ p # 0
        /\ \A p \in shared : /\ pagusr_table'[src][p] = ReadOnly(pagusr_table[src][p])
                             /\ pagusr_table'[c][p] = Mapped(pagusr_table[src][p].frame, FALSE)
    <2>1. shared \subseteq Page \ (Code \cup {0})  BY <1>1, <1>2, LivePages
    <2> QED  BY <2>1, <1>3 DEF ForkedTables
  <1>5. pagusr_table \in [Dir -> [Page -> Entry]] /\ cow_count_mem \in [Frame -> Byte]
    BY DEF MemoryTypeOK
  <1>7. /\ \A d \in Dir : d # c => Owned(d)' = Owned(d)
        /\ Owned(src) = shared /\ Owned(c) = {} /\ Owned(c)' = shared
    BY <1>1, OwnedAfterFork
  <1>8. Owned(src) = shared  BY <1>7
  <1>9. Owned(c) = {} /\ Owned(c)' = shared  BY <1>7
  <1>10. \A d \in Dir : d # c => Owned(d)' = Owned(d)  BY <1>7
  <1>11. /\ \A f : Mapped(f, FALSE).frame = f /\ Mapped(f, FALSE).rw = FALSE
         /\ \A p \in shared : /\ ReadOnly(pagusr_table[src][p]).frame = pagusr_table[src][p].frame
                              /\ ReadOnly(pagusr_table[src][p]).rw = FALSE
    BY <1>3, <1>4, <1>5, Entries DEF Mapped
  <1> SUFFICES ASSUME NEW f \in Usable
               PROVE  Sound(References(f), Writables(f), phys_mem[f], cow_count_mem[f])'
    BY DEF FramesSound
  <1>12. PICK R, W, mem, count : /\ R = References(f) /\ W = Writables(f)
                                 /\ mem = phys_mem[f] /\ count = cow_count_mem[f]
    OBVIOUS
  <1>13. /\ Sound(R, W, mem, count) /\ count \in Byte /\ R \in SUBSET Pairs /\ f \in Frame
    BY <1>2, <1>5, <1>12, UsableFrames, RefPairs DEF FramesSound
  <1>14. /\ \A p \in shared : <<src, p>> \in R <=> pagusr_table[src][p].frame = f
         /\ \A d \in Dir, q \in Page \ {0} :
              <<d, q>> \in R <=> q \in Owned(d) /\ pagusr_table[d][q].frame = f
    BY <1>3, <1>4, <1>8, <1>12, RefPairs
  <1>15. phys_mem'[f] = mem  BY <1>2, <1>12
  <1>16. CASE \E p \in shared : pagusr_table[src][p].frame = f
    <2>1. PICK p \in shared : pagusr_table[src][p].frame = f  BY <1>16
    <2>2. PICK r, s : r = <<src, p>> /\ s = <<c, p>>  OBVIOUS
    <2>3. r \in R /\ s \in Pairs /\ s \notin R /\ s[2] = r[2]
      BY <2>1, <2>2, <1>3, <1>4, <1>9, <1>14 DEF Pairs
    <2>4. \A q \in shared : pagusr_table[src][q].frame = f => q = p
      <3> SUFFICES ASSUME NEW q \in shared, pagusr_table[src][q].frame = f  PROVE q = p
        OBVIOUS
      <3>1. <<src, q>> \in R /\ <<src, p>> \in R  BY <2>2, <2>3, <1>14
      <3>2. \A x, y \in R : x[2] = y[2]  BY <1>13 DEF Sound
      <3>3. <<src, q>>[2] = <<src, p>>[2]  BY <3>1, <3>2
      <3> QED  BY <3>3
    <2>5. cow_count_mem'[f] = CountAfterShare(count)
      <3>1. f \in FramesOf(current, shared)  BY <2>1, <1>1 DEF FramesOf, PT
      <3> QED  BY <3>1, <1>2, <1>12, <1>13
    <2>6. Sound(R \cup {s}, {}, mem, CountAfterShare(count))  BY <2>3, <1>13, SoundShared
    <2>7. ASSUME NEW d \in Dir, NEW q \in Page \ {0}
          PROVE  /\ q \in Owned(d)' /\ pagusr_table'[d][q].frame = f <=>
                      <<d, q>> \in R \/ <<d, q>> = <<c, p>>
                 /\ ~(q \in Owned(d)' /\ pagusr_table'[d][q].frame = f /\ pagusr_table'[d][q].rw)
      <3>1. CASE d = c
        <4>1. <<d, q>> \notin R /\ (q \in Owned(d)' <=> q \in shared)  BY <3>1, <1>9, <1>14
        <4>2. q \in shared => /\ pagusr_table'[d][q].frame = pagusr_table[src][q].frame
                              /\ pagusr_table'[d][q].rw = FALSE
          <5>1. PICK g : g = pagusr_table[src][q].frame  OBVIOUS
          <5>2. Mapped(g, FALSE).frame = g /\ Mapped(g, FALSE).rw = FALSE  BY <1>11
          <5>3. q \in shared => pagusr_table'[c][q] = Mapped(g, FALSE)  BY <5>1, <1>4
          <5> QED  BY <5>1, <5>2, <5>3, <3>1
        <4>3. q \in shared /\ pagusr_table[src][q].frame = f <=> q = p  BY <2>1, <2>4
        <4> QED  BY <4>1, <4>2, <4>3, <3>1
      <3>2. CASE d = src
        <4>1. q \in Owned(d)' <=> q \in shared  BY <3>2, <1>3, <1>8, <1>10
        <4>2. q \in shared => /\ pagusr_table'[d][q].frame = pagusr_table[src][q].frame
                              /\ pagusr_table'[d][q].rw = FALSE
          BY <3>2, <1>4, <1>11
        <4>3. <<d, q>> \in R <=> q \in shared /\ pagusr_table[src][q].frame = f
          BY <3>2, <1>8, <1>14
        <4> QED  BY <4>1, <4>2, <4>3, <3>2, <1>3
      <3>3. CASE d # c /\ d # src
        <4>1. Owned(d)' = Owned(d) /\ pagusr_table'[d] = pagusr_table[d]  BY <3>3, <1>4, <1>10
        <4>2. <<d, q>> \in R => <<d, q>> \notin W
          <5> SUFFICES ASSUME <<d, q>> \in R  PROVE count # 0
            BY <1>13 DEF Sound
          <5>1. IsFiniteSet(R) /\ Cardinality(R) \in Nat  BY <1>13, FewReferences DEF Sound
          <5>2. PICK n \in Nat : n = Cardinality(R)  BY <5>1
          <5>3. n # 0  BY <5>1, <5>2, <2>3, FS_EmptySet
          <5>4. n # 1
            <6> SUFFICES ASSUME n = 1  PROVE FALSE  OBVIOUS
            <6>1. PICK x : R = {x}  BY <5>1, <5>2, FS_Singleton
            <6>2. <<d, q>> = <<src, p>>  BY <6>1, <2>2, <2>3
            <6> QED  BY <6>2, <3>3
          <5>5. n > 1  BY <5>3, <5>4
          <5>6. count = n  BY <5>2, <5>5, <1>13 DEF Sound
          <5> QED  BY <5>5, <5>6
        <4>3. <<d, q>> \in W <=>
                q \in Owned(d) /\ pagusr_table[d][q].frame = f /\ pagusr_table[d][q].rw
          BY <1>12, RefPairs
        <4>4. <<d, q>> \in R <=> q \in Owned(d) /\ pagusr_table[d][q].frame = f  BY <1>14
        <4> QED  BY <4>1, <4>2, <4>3, <4>4, <3>3
      <3> QED  BY <3>1, <3>2, <3>3
    <2>8. References(f)' = R \cup {s}
      <3>1. PICK A : A = R \cup {s}  OBVIOUS
      <3>2. A \in SUBSET Pairs /\ References(f)' \in SUBSET Pairs
        BY <3>1, <2>3, <1>13, NextRefPairs
      <3>3. ASSUME NEW d \in Dir, NEW q \in Page \ {0}
            PROVE  <<d, q>> \in References(f)' <=> <<d, q>> \in A
        <4>1. <<d, q>> \in References(f)' <=> q \in Owned(d)' /\ pagusr_table'[d][q].frame = f
          BY NextRefPairs
        <4>2. <<d, q>> \in A <=> <<d, q>> \in R \/ <<d, q>> = <<c, p>>  BY <3>1, <2>2
        <4> QED  BY <4>1, <4>2, <2>7
      <3> QED  BY <3>1, <3>2, <3>3, SamePairs
    <2>9. Writables(f)' = {}
      <3>1. Writables(f)' \in SUBSET Pairs /\ {} \in SUBSET Pairs  BY NextRefPairs
      <3>2. ASSUME NEW d \in Dir, NEW q \in Page \ {0}
            PROVE  <<d, q>> \in Writables(f)' <=> <<d, q>> \in {}
        <4>1. <<d, q>> \in Writables(f)' <=>
                q \in Owned(d)' /\ pagusr_table'[d][q].frame = f /\ pagusr_table'[d][q].rw
          BY NextRefPairs
        <4> QED  BY <4>1, <2>7
      <3> QED  BY <3>1, <3>2, SamePairs
    <2> QED  BY <2>5, <2>6, <2>8, <2>9, <1>15
  <1>17. CASE ~ \E p \in shared : pagusr_table[src][p].frame = f
    <2>1. cow_count_mem'[f] = count
      <3>1. f \notin FramesOf(current, shared)  BY <1>17, <1>1 DEF FramesOf, PT
      <3> QED  BY <3>1, <1>2, <1>12, <1>13
    <2>2. ASSUME NEW d \in Dir, NEW q \in Page \ {0}
          PROVE  /\ q \in Owned(d)' /\ pagusr_table'[d][q].frame = f <=>
                      q \in Owned(d) /\ pagusr_table[d][q].frame = f
                 /\ q \in Owned(d) /\ pagusr_table[d][q].frame = f =>
                      pagusr_table'[d][q].rw = pagusr_table[d][q].rw
      <3>1. CASE d = c
        <4>1. Owned(d) = {} /\ Owned(d)' = shared  BY <3>1, <1>9
        <4>2. q \in shared => pagusr_table'[d][q].frame # f  BY <3>1, <1>4, <1>11, <1>17
        <4> QED  BY <4>1, <4>2
      <3>2. CASE d = src
        <4>1. Owned(d) = shared /\ Owned(d)' = shared  BY <3>2, <1>3, <1>8, <1>10
        <4>2. q \in shared => pagusr_table'[d][q].frame # f /\ pagusr_table[d][q].frame # f
          BY <3>2, <1>4, <1>11, <1>17
        <4> QED  BY <4>1, <4>2
      <3>3. CASE d # c /\ d # src  BY <3>3, <1>4, <1>10
      <3> QED  BY <3>1, <3>2, <3>3
    <2>3. References(f)' = References(f) /\ Writables(f)' = Writables(f)  BY <2>2, FrameKept
    <2> QED  BY <2>1, <2>3, <1>12, <1>13, <1>15
  <1> QED  BY <1>16, <1>17

\* A thread adds no pages to its process.
LEMMA OwnedAfterClone ==
  ASSUME Separate, OneThreadOrNoHeap, Clones, MemoryTypeOK, DirInv,
         NEW t \in Task, NEW p, NEW v, Clone(t, p, v)
  PROVE  \A d \in Dir : Owned(d)' = Owned(d)
PROOF
  <1>1. /\ dir \in [Task -> Dir \cup {NULL}] /\ heap \in [Task -> Nat] /\ current \in Task
    BY DEF MemoryTypeOK
  <1>2. /\ current # Idle /\ Alive(current) /\ ~Alive(t)
        /\ dir' = [dir EXCEPT ![t] = dir[current]] /\ heap' = [heap EXCEPT ![t] = 0]
    BY DEF Clone, Running, reuse_DIR, HeapOfThread
  <1>3. \A u \in Task : heap[u] = 0  BY DEF Separate, OneThreadOrNoHeap
  <1>4. \A u \in Task : /\ heap'[u] = 0
                        /\ dir'[u] = IF u = t THEN dir[current] ELSE dir[u]
    BY <1>1, <1>2, <1>3
  <1>5. current # t  BY <1>2
  <1>6. ASSUME NEW d \in Dir  PROVE Owned(d)' = Owned(d)
    <2>1. CASE d = dir[current]
      <3>1. OwnedOf(dir, heap, dir[current]) = Data \cup HeapRange(HeapPages(heap[current]))
        BY <1>1, <1>2, <1>3, OwnedByOne
      <3>2. OwnedOf(dir', heap', dir'[current]) = Data \cup HeapRange(HeapPages(heap'[current]))
        BY <1>1, <1>2, <1>4, OwnedByOne
      <3>3. dir'[current] = d /\ heap'[current] = heap[current]  BY <2>1, <1>1, <1>3, <1>4, <1>5
      <3> QED  BY <3>1, <3>2, <3>3, <2>1, OwnedIs
    <2>2. CASE d # dir[current]
      <3>0. dir[t] # d
        <4>1. NULL \notin Dir  BY MemoryAssumption DEF NULL, Dir
        <4> QED  BY <4>1, <1>2 DEF Alive
      <3>1. \A u \in Task : (dir[u] = d <=> dir'[u] = d) /\ (dir[u] = d => heap[u] = heap'[u])
        BY <3>0, <2>2, <1>3, <1>4
      <3>2. OwnedOf(dir', heap', d) = OwnedOf(dir, heap, d)  BY <3>1, OwnedSame
      <3> QED  BY <3>2, OwnedIs
    <2> QED  BY <2>1, <2>2
  <1> QED  BY <1>6

LEMMA SoundClone ==
  ASSUME Separate, OneThreadOrNoHeap, Clones, MemoryTypeOK, DirInv, FramesSound,
         NEW t \in Task, NEW p, NEW v, Clone(t, p, v)
  PROVE  FramesSound'
PROOF
  <1>1. UNCHANGED <<frameVars, pagusr_table, halted>>  BY DEF Clone
  <1> QED  BY <1>1, OwnedAfterClone, FramesKept

\* At first only the first process has pages.
LEMMA OwnedInit ==
  ASSUME Init, NEW d, d = dir[Task1]
  PROVE  Owned(d) = Data /\ \A c \in Dir : c # d => Owned(c) = {}
PROOF
  <1>1. Task1 \in Task \ {Idle}  BY MemoryAssumption DEF Task1, Task, Idle
  <1>2. /\ \A t \in Task : heap[t] = 0
        /\ \A t \in Task \ {Idle, Task1} : dir[t] = NULL
    BY DEF Init, InitDirectories
  <1>3. Owned(d) = Data
    <2>1. \A u \in Task : dir[u] = dir[Task1] => u = Task1 \/ heap[u] = 0  BY <1>2
    <2>2. OwnedOf(dir, heap, dir[Task1]) = Data \cup HeapRange(HeapPages(heap[Task1]))
      BY <2>1, <1>1, OwnedByOne
    <2> QED  BY <2>2, <1>1, <1>2, FirstHeapPage, OwnedIs
  <1>4. ASSUME NEW c \in Dir, c # d  PROVE Owned(c) = {}
    <2>1. NULL \notin Dir  BY MemoryAssumption DEF NULL, Dir
    <2>2. UsersOf(c) \subseteq {Idle}  BY <2>1, <1>2, <1>4 DEF UsersOf
    <2> QED  BY <2>2 DEF Owned
  <1> QED  BY <1>3, <1>4

\* At first the frames of the first process's data are in use, each by one page.
LEMMA SoundInit == Init => FramesSound
PROOF
  <1> SUFFICES ASSUME Init, NEW f \in Usable
               PROVE  Sound(References(f), Writables(f), phys_mem[f], cow_count_mem[f])
    BY DEF FramesSound
  <1>1. PICK d : d = dir[Task1]  OBVIOUS
  <1>3. d \in Dir
    <2>1. Task1 \in Task  BY MemoryAssumption DEF Task1, Task
    <2>2. dir[Task1] = NR_TASKS - 1 - Task1  BY <2>1 DEF Init, InitDirectories
    <2> QED  BY <2>1, <2>2, <1>1, MemoryAssumption DEF Task1, Dir
  <1>5. Owned(d) = Data  BY <1>1, OwnedInit
  <1>6. ASSUME NEW c \in Dir, c # d  PROVE Owned(c) = {}  BY <1>1, <1>6, OwnedInit
  <1>7. pagusr_table[d] = set_user_pages  BY <1>1, <1>3 DEF Init
  <1>8. ASSUME NEW p \in Data
        PROVE  /\ p \in Page \ {0} /\ pagusr_table[d][p].frame = FirstFrame(p)
               /\ pagusr_table[d][p].rw
    <2>1. p \in Page \ {0}  BY Pages
    <2>2. (p \in Data) = TRUE  OBVIOUS
    <2>3. pagusr_table[d][p] = Mapped(FirstFrame(p), TRUE)
      BY <2>1, <2>2, <1>7 DEF set_user_pages
    <2> QED  BY <2>1, <2>3 DEF Mapped
  <1>9. f \in Frame /\ f \notin CodeFrames /\ f \in Allocatable  BY UsableFrames DEF Usable
  <1>10. /\ cow_count_mem[f] = 0
         /\ phys_mem[f] = IF f \in 0 .. NUM_PAG_KERNEL - 1 \cup {FirstFrame(p) : p \in Code \cup Data}
                          THEN "USED_FRAME" ELSE "FREE_FRAME"
    BY <1>9 DEF Init, InitFrames
  <1>11. CASE \E p \in Data : f = FirstFrame(p)
    <2>1. PICK p \in Data : f = FirstFrame(p)  BY <1>11
    <2>2. phys_mem[f] = "USED_FRAME"  BY <2>1, <1>10
    <2>3. PICK A : A = {<<d, p>>}  OBVIOUS
    <2>4. /\ A \in SUBSET Pairs /\ References(f) \in SUBSET Pairs /\ Writables(f) \in SUBSET Pairs
      BY <2>1, <2>3, <1>3, <1>8, RefPairs DEF Pairs
    <2>5. ASSUME NEW c \in Dir, NEW q \in Page \ {0}
          PROVE  (<<c, q>> \in References(f) <=> <<c, q>> \in A)
                 /\ (<<c, q>> \in Writables(f) <=> <<c, q>> \in A)
      <3>1. /\ <<c, q>> \in References(f) <=> q \in Owned(c) /\ pagusr_table[c][q].frame = f
            /\ <<c, q>> \in Writables(f) <=>
                 q \in Owned(c) /\ pagusr_table[c][q].frame = f /\ pagusr_table[c][q].rw
        BY RefPairs
      <3>2. CASE c # d
        <4>1. q \notin Owned(c) /\ <<c, q>> \notin A  BY <3>2, <2>3, <1>6
        <4> QED  BY <4>1, <3>1
      <3>3. CASE c = d /\ q \notin Data
        <4>1. q \notin Owned(c) /\ <<c, q>> \notin A  BY <3>3, <2>1, <2>3, <1>5
        <4> QED  BY <4>1, <3>1
      <3>4. CASE c = d /\ q \in Data
        <4>1. FirstFrame(q) = f <=> q = p  BY <3>4, <2>1, FirstFrames
        <4>2. <<c, q>> \in A <=> q = p  BY <3>4, <2>3
        <4>3. /\ q \in Owned(c) /\ pagusr_table[c][q].frame = FirstFrame(q)
              /\ pagusr_table[c][q].rw
          BY <3>4, <1>5, <1>8
        <4> QED  BY <4>1, <4>2, <4>3, <3>1
      <3> QED  BY <3>2, <3>3, <3>4
    <2>6. References(f) = A  BY <2>4, <2>5, SamePairs
    <2>7. Writables(f) = A  BY <2>4, <2>5, SamePairs
    <2> QED  BY <2>2, <2>3, <2>6, <2>7, <1>10, SoundNew
  <1>12. CASE ~ \E p \in Data : f = FirstFrame(p)
    <2>1. phys_mem[f] = "FREE_FRAME"
      <3>1. \A p \in Code : f # FirstFrame(p)  BY <1>9, UsableFrames
      <3>2. f \notin 0 .. NUM_PAG_KERNEL - 1
        <4>1. f >= NUM_PAG_KERNEL /\ f \in Int /\ NUM_PAG_KERNEL \in Nat
          BY <1>9, MemoryAssumption DEF Allocatable, Frame
        <4> QED  BY <4>1
      <3> QED  BY <3>1, <3>2, <1>10, <1>12
    <2>2. ASSUME NEW c \in Dir, NEW q \in Page \ {0}
          PROVE  <<c, q>> \in References(f) <=> <<c, q>> \in {}
      <3>1. <<c, q>> \in References(f) <=> q \in Owned(c) /\ pagusr_table[c][q].frame = f
        BY RefPairs
      <3>2. CASE c # d  BY <3>1, <3>2, <1>6
      <3>3. CASE c = d  BY <3>1, <3>3, <1>5, <1>8, <1>12
      <3> QED  BY <3>2, <3>3
    <2>3. References(f) \in SUBSET Pairs /\ {} \in SUBSET Pairs  BY RefPairs
    <2>4. References(f) = {}  BY <2>2, <2>3, SamePairs
    <2>5. Writables(f) = {}  BY <2>4, RefPairs
    <2> QED  BY <2>1, <2>4, <2>5, SoundFree
  <1> QED  BY <1>11, <1>12

LEMMA SoundStep ==
  ASSUME NR_TASKS <= 128, Separate
  PROVE  MemoryInv /\ SpaceInv /\ OneThreadOrNoHeap /\ FramesSound /\ [Next]_vars => FramesSound'
PROOF
  <1> SUFFICES ASSUME MemoryTypeOK, DirInv, SpaceInv, OneThreadOrNoHeap, FramesSound, [Next]_vars
               PROVE  FramesSound'
    BY DEF MemoryInv
  <1>1. ASSUME UNCHANGED <<frameVars, pagusr_table, dir, heap, halted>>  PROVE FramesSound'
    <2>1. \A d \in Dir : Owned(d)' = Owned(d)  BY <1>1, OwnedIs
    <2> QED  BY <2>1, <1>1, FramesKept
  <1>2. CASE UNCHANGED vars  BY <1>2, <1>1 DEF vars, dirVars
  <1>3. CASE UserAccess
    <2>1. ASSUME NEW p \in Page, PageFault(p)  PROVE FramesSound'  BY <2>1, SoundFault
    <2>2. ASSUME NEW p \in Page, NEW v \in Value, Write(p, v)  PROVE FramesSound'
      BY <2>2, <1>1 DEF Write, dirVars
    <2> QED  BY <2>1, <2>2, <1>3 DEF UserAccess
  <1>4. CASE SystemCall
    <2>1. CASE Exit  BY <2>1, SoundExit
    <2>2. ASSUME NEW t \in Task, Fork(t)  PROVE FramesSound'  BY <2>2, SoundFork
    <2>3. ASSUME Clones, NEW t \in Task, NEW p \in Page, NEW v \in Value, Clone(t, p, v)
          PROVE  FramesSound'
      BY <2>3, SoundClone
    <2>4. ASSUME NEW increment \in Increments, Sbrk(increment)  PROVE FramesSound'
      BY <2>4, SoundSbrk
    <2>5. ASSUME NEW p \in SyscallPages, NEW v \in Value, NEW next \in Task,
                 SyscallWrites(p, v, next)
          PROVE  FramesSound'
      BY <2>5, <1>1 DEF SyscallWrites, dirVars
    <2> QED  BY <2>1, <2>2, <2>3, <2>4, <2>5, <1>4 DEF SystemCall
  <1>5. ASSUME NEW t \in Task, Switch(t)  PROVE FramesSound'  BY <1>5, <1>1 DEF Switch, dirVars
  <1> QED  BY <1>2, <1>3, <1>4, <1>5 DEF Next

\* What holds of programs that do not combine threads and heaps.
FramesInv == MemoryInv /\ SpaceInv /\ OneThreadOrNoHeap /\ FramesSound

\* alloc_frame, free_frame, share_cow_page, pf_rsi and sbrk keep the counts of the frames, the
\* entries that may be written, and the frames that are free in step.
THEOREM FramesInvariance ==
  ASSUME NR_TASKS <= 128, Separate  PROVE Spec => []FramesInv
PROOF
  <1>1. Init => FramesInv
    BY TypeInit, DirInit, CoherentInit, SpaceInit, OneThreadInit, SoundInit DEF MemoryInv, FramesInv
  <1>2. FramesInv /\ [Next]_vars => FramesInv'
    <2>1. MemoryInv /\ [Next]_vars => MemoryInv'  BY TypeStep, CoherentStep DEF MemoryInv
    <2>2. MemoryInv /\ SpaceInv /\ [Next]_vars => SpaceInv'  BY SpaceStep DEF MemoryInv
    <2> QED  BY <2>1, <2>2, OneThreadStep, SoundStep DEF FramesInv
  <1> QED  BY <1>1, <1>2, PTL DEF Spec

\* RefCountsExact: no frame is lost, and none is freed while another process refers to it
\* (respuestas.txt:15), for any number of processes that the count of a frame can count.
THEOREM FramesAreCountedExactly ==
  ASSUME NR_TASKS <= 128, Separate  PROVE Spec => []RefCountsExact
PROOF
  <1>1. FramesInv => RefCountsExact
    <2> SUFFICES ASSUME FramesInv, halted = "no", NEW f \in Usable,
                        NEW n, n = Cardinality(References(f))
                 PROVE  /\ phys_mem[f] = IF n = 0 THEN "FREE_FRAME" ELSE "USED_FRAME"
                        /\ n = 1 => cow_count_mem[f] \in {0, 1}
                        /\ n > 1 => cow_count_mem[f] = n
      BY DEF RefCountsExact, Usable
    <2>1. Sound(References(f), Writables(f), phys_mem[f], cow_count_mem[f])
      BY DEF FramesInv, FramesSound
    <2> QED  BY <2>1 DEF Sound
  <1> QED  BY <1>1, FramesInvariance, PTL

\* A page that may be written is the only one that refers to its frame.
LEMMA OnlyWriter ==
  ASSUME NEW R \in SUBSET Pairs, NEW W, NEW mem, NEW count, Sound(R, W, mem, count),
         NEW r \in W
  PROVE  R = {r}
PROOF
  <1>1. count = 0 /\ W = R  BY DEF Sound
  <1>2. IsFiniteSet(R) /\ Cardinality(R) \in Nat  BY FewReferences DEF Sound
  <1>3. Cardinality(R) # 0  BY <1>1, <1>2, FS_EmptySet
  <1>4. Cardinality(R) = 1
    <2>1. ~(Cardinality(R) > 1)  BY <1>1, <1>2 DEF Sound
    <2> QED  BY <2>1, <1>2, <1>3
  <1>5. PICK x : R = {x}  BY <1>2, <1>4, FS_Singleton
  <1> QED  BY <1>1, <1>5

LEMMA WritersAlone == FramesInv => WritableIsPrivate
PROOF
  <1> SUFFICES ASSUME FramesInv, halted = "no", NEW d \in Dir, NEW p \in Owned(d),
                      NEW e, e = pagusr_table[d][p]
               PROVE  /\ e.present
                      /\ e.rw => References(e.frame) = {<<d, p>>}
                      /\ e.rw <=> cow_count_mem[e.frame] = 0
    BY DEF WritableIsPrivate
  <1>1. p \in Page \ (Code \cup {0}) /\ e.present /\ e.frame \in Usable
    BY OwnedFrames DEF FramesInv, MemoryInv
  <1>2. PICK f, R, W, count : /\ f = e.frame /\ R = References(f) /\ W = Writables(f)
                              /\ count = cow_count_mem[f]
    OBVIOUS
  <1>3. W = IF count = 0 THEN R ELSE {}
    BY <1>1, <1>2 DEF FramesInv, FramesSound, Sound
  <1>4. <<d, p>> \in R /\ (<<d, p>> \in W <=> e.rw)  BY <1>1, <1>2, RefPairs
  <1>5. e.rw => R = {<<d, p>>}
    <2>1. Sound(R, W, phys_mem[f], count)  BY <1>1, <1>2 DEF FramesInv, FramesSound
    <2>2. R \in SUBSET Pairs  BY <1>2, RefPairs
    <2> QED  BY <2>1, <2>2, <1>4, OnlyWriter
  <1> QED  BY <1>1, <1>2, <1>3, <1>4, <1>5

\* WritableIsPrivate: a page that may be written shares its frame with nobody, and one that may
\* not has a count by which pf_rsi finds out what to do.
THEOREM WritersAreAlone ==
  ASSUME NR_TASKS <= 128, Separate  PROVE Spec => []WritableIsPrivate
PROOF
  BY WritersAlone, FramesInvariance, PTL

-----------------------------------------------------------------------------
(* Page faults. *)

\* The processor uses the entry of the table.
LEMMA OneTranslation ==
  ASSUME MemoryTypeOK, TLBCoherent, current \in Task, Alive(current), NEW p
  PROVE  Translations(p) = {pagusr_table[dir[current]][p]}
PROOF
  <1>1. cr3 = dir[current] /\ tlb = {}  BY DEF TLBCoherent
  <1>2. {c[2] : c \in {c \in tlb : c[1] = p}} = {}  BY <1>1
  <1> QED  BY <1>1, <1>2 DEF Translations

LEMMA FaultInOwnPage ==
  ASSUME FramesInv, NEW p \in OwnPages, PageFault(p), Separate
  PROVE  halted' \in {"no", "NOT ENOUGH PHYSICAL MEMORY"}
PROOF
  <1>1. MemoryTypeOK /\ DirInv /\ TLBCoherent /\ SpaceInv /\ OneThreadOrNoHeap
    BY DEF FramesInv, MemoryInv
  <1>2. current \in Task \ {Idle} /\ Alive(current) /\ halted = "no"
    BY <1>1 DEF PageFault, Running, MemoryTypeOK
  <1>3. PICK d : d = dir[current]  OBVIOUS
  <1>4. d \in Dir /\ p \in Owned(d)  BY <1>2, <1>3, <1>1 DEF OwnPages, Alive, DirInv
  <1>5. Owned(d) = Data \cup HeapOf(current)  BY <1>1, <1>2, <1>3, OwnedLive
  <1>6. access_ok(current, p)
    <2>1. p \in Data => p \in 1 .. NUM_PAG_CODE + NUM_PAG_DATA + 1
      BY MemoryAssumption DEF Data
    <2>2. HeapPages(heap[current]) \in Nat  BY <1>1, <1>2, LivePages
    <2>3. p \in HeapOf(current) =>
            p \in PAG_LOG_INIT_HEAP - HeapPages(heap[current]) .. PAG_LOG_INIT_HEAP
      BY <2>2, MemoryAssumption DEF HeapOf, HeapRange
    <2> QED  BY <2>1, <2>3, <1>4, <1>5 DEF access_ok
  <1>7. PICK e : e = pagusr_table[d][p]  OBVIOUS
  <1>8. ~e.rw  BY <1>1, <1>2, <1>3, <1>7, OneTranslation DEF PageFault
  <1>9. cow_count_mem[e.frame] # 0  BY <1>2, <1>4, <1>7, <1>8, WritersAlone DEF WritableIsPrivate
  <1>10. PT(current)[p].frame = e.frame  BY <1>3, <1>7 DEF PT
  <1>11. halted' = halted \/ halted' = "NOT ENOUGH PHYSICAL MEMORY"
    BY <1>6, <1>9, <1>10 DEF PageFault, MakeWritable, CopyPage, Halt
  <1> QED  BY <1>2, <1>11

\* StopsOnlyForMemory: pf_rsi never stops the machine for a write of a program to its own
\* memory, neither for a wrong access nor for a count that makes no sense.
THEOREM FaultsEndWell ==
  ASSUME NR_TASKS <= 128, Separate  PROVE Spec => StopsOnlyForMemory
PROOF
  <1>1. FramesInv => \A p \in OwnPages : PageFault(p) => halted' \in {"no", "NOT ENOUGH PHYSICAL MEMORY"}
    BY FaultInOwnPage
  <1> QED  BY <1>1, FramesInvariance, PTL DEF StopsOnlyForMemory

-----------------------------------------------------------------------------
(* Memories of their own. *)

SpaceOf(d) == [p \in Owned(d) |-> content[pagusr_table[d][p].frame]]

LEMMA SpaceIs ==
  /\ DOMAIN space = Dir /\ DOMAIN space' = Dir
  /\ space = [d \in Dir |-> space[d]] /\ space' = [d \in Dir |-> space'[d]]
  /\ \A d \in Dir : /\ DOMAIN space[d] = Owned(d) /\ DOMAIN space'[d] = Owned(d)'
                    /\ space[d] = [p \in Owned(d) |-> space[d][p]]
                    /\ space'[d] = [p \in Owned(d)' |-> space'[d][p]]
  /\ \A d \in Dir : \A p \in Owned(d) : space[d][p] = content[pagusr_table[d][p].frame]
  /\ \A d \in Dir : \A p \in Owned(d)' : space'[d][p] = content'[pagusr_table'[d][p].frame]
PROOF  BY DEF space

\* A memory that a step leaves alone.
LEMMA SpaceKept ==
  ASSUME NEW d \in Dir, Owned(d)' = Owned(d),
         \A p \in Owned(d) :
           content'[pagusr_table'[d][p].frame] = content[pagusr_table[d][p].frame]
  PROVE  space'[d] = space[d]
PROOF
  <1>1. \A p \in Owned(d) : space'[d][p] = space[d][p]  BY SpaceIs
  <1>2. PICK S, f, g : S = Owned(d) /\ f = space[d] /\ g = space'[d]  OBVIOUS
  <1>3. f = [p \in S |-> f[p]]  BY <1>2, SpaceIs
  <1>4. g = [p \in S |-> g[p]]  BY <1>2, SpaceIs
  <1>5. \A p \in S : f[p] = g[p]  BY <1>1, <1>2
  <1>6. f = g  BY <1>3, <1>4, <1>5
  <1> QED  BY <1>2, <1>6

LEMMA AllKept ==
  ASSUME \A d \in Dir : space'[d] = space[d]
  PROVE  space' = space
PROOF
  <1>1. PICK f, g : f = space /\ g = space'  OBVIOUS
  <1>2. f = [d \in Dir |-> f[d]]  BY <1>1, SpaceIs
  <1>3. g = [d \in Dir |-> g[d]]  BY <1>1, SpaceIs
  <1>4. \A d \in Dir : f[d] = g[d]  BY <1>1
  <1>5. f = g  BY <1>2, <1>3, <1>4
  <1> QED  BY <1>1, <1>5

LEMMA OneChanges ==
  ASSUME NEW d \in Dir, \A c \in Dir : c # d => space'[c] = space[c]
  PROVE  Spaces!Only(d)
PROOF
  <1>1. PICK f, g : f = space /\ g = space'  OBVIOUS
  <1>2. f = [c \in Dir |-> f[c]]  BY <1>1, SpaceIs
  <1>3. g = [c \in Dir |-> g[c]]  BY <1>1, SpaceIs
  <1>4. \A c \in Dir : c # d => g[c] = f[c]  BY <1>1
  <1>5. [f EXCEPT ![d] = g[d]] = [c \in Dir |-> IF c = d THEN g[d] ELSE f[c]]  BY <1>2
  <1>6. [c \in Dir |-> IF c = d THEN g[d] ELSE f[c]] = [c \in Dir |-> g[c]]  BY <1>4
  <1>7. g = [f EXCEPT ![d] = g[d]]  BY <1>3, <1>5, <1>6
  <1> QED  BY <1>1, <1>7 DEF Spaces!Only

\* Where the tables and the contents do not change, nothing does.
LEMMA SpacesKept ==
  ASSUME UNCHANGED <<content, pagusr_table, dir, heap>>
  PROVE  space' = space
PROOF
  <1>1. \A d \in Dir : Owned(d)' = Owned(d)  BY OwnedIs
  <1> QED  BY <1>1, SpaceKept, AllKept

\* A write to a page that may be written is seen in one memory.
LEMMA SpaceWritten ==
  ASSUME MemoryTypeOK, DirInv, SpaceInv, FramesSound, halted = "no",
         NEW d \in Dir, NEW p \in Owned(d), NEW f, f = pagusr_table[d][p].frame,
         pagusr_table[d][p].rw, NEW v \in Value,
         content' = [content EXCEPT ![f] = v], UNCHANGED pagusr_table,
         \A c \in Dir : Owned(c)' = Owned(c)
  PROVE  Spaces!OneWritten(space[d], space'[d]) /\ Spaces!Only(d)
PROOF
  <1>1. p \in Page \ {0} /\ f \in Usable  BY OwnedFrames
  <1>2. content \in [Frame -> Value] /\ f \in Frame  BY <1>1, UsableFrames DEF MemoryTypeOK
  <1>3. References(f) = {<<d, p>>}
    <2>1. <<d, p>> \in Writables(f)  BY <1>1, RefPairs
    <2>2. Sound(References(f), Writables(f), phys_mem[f], cow_count_mem[f])
      BY <1>1 DEF FramesSound
    <2>3. References(f) \in SUBSET Pairs  BY RefPairs
    <2> QED  BY <2>1, <2>2, <2>3, OnlyWriter
  <1>4. ASSUME NEW c \in Dir, NEW q \in Owned(c)
        PROVE  content'[pagusr_table'[c][q].frame] =
                 IF c = d /\ q = p THEN v ELSE content[pagusr_table[c][q].frame]
    <2>1. q \in Page \ {0} /\ pagusr_table[c][q].frame \in Frame
      BY OwnedFrames, UsableFrames
    <2>2. PICK g : g = pagusr_table[c][q].frame  OBVIOUS
    <2>3. g = f <=> c = d /\ q = p
      <3>1. <<c, q>> \in References(f) <=> g = f  BY <2>1, <2>2, RefPairs
      <3> QED  BY <3>1, <1>3
    <2>4. content'[g] = IF g = f THEN v ELSE content[g]  BY <2>1, <2>2, <1>2
    <2> QED  BY <2>2, <2>3, <2>4
  <1>5. ASSUME NEW c \in Dir, c # d  PROVE space'[c] = space[c]
    <2>1. Owned(c)' = Owned(c)  OBVIOUS
    <2> QED  BY <2>1, <1>4, <1>5, SpaceKept
  <1>6. PICK S, m, n : S = Owned(d) /\ m = space[d] /\ n = space'[d]  OBVIOUS
  <1>7. m = [q \in S |-> m[q]] /\ DOMAIN m = S  BY <1>6, SpaceIs
  <1>8. n = [q \in S |-> n[q]]  BY <1>6, SpaceIs
  <1>9. \A q \in S : n[q] = IF q = p THEN v ELSE m[q]  BY <1>4, <1>6, SpaceIs
  <1>10. [m EXCEPT ![p] = v] = [q \in S |-> IF q = p THEN v ELSE m[q]]  BY <1>7
  <1>11. n = [m EXCEPT ![p] = v]  BY <1>8, <1>9, <1>10
  <1>12. Spaces!OneWritten(m, n)  BY <1>6, <1>7, <1>11 DEF Spaces!OneWritten
  <1> QED  BY <1>5, <1>6, <1>12, OneChanges

\* A page fault copies or moves nothing a program can see.
LEMMA FaultUnseen ==
  ASSUME MemoryTypeOK, DirInv, SpaceInv, FramesSound, NEW p \in Page, PageFault(p)
  PROVE  UNCHANGED <<dir, space>>
PROOF
  <1>1. PICK d, f : d = dir[current] /\ f = pagusr_table[d][p].frame  OBVIOUS
  <1>2. /\ d \in Dir /\ f \in Frame /\ halted = "no" /\ dir' = dir /\ heap' = heap
        /\ \/ UNCHANGED <<content, pagusr_table>>
           \/ p \in Owned(d) /\ MakeWritable(p, f)
           \/ p \in Owned(d) /\ FreeFrames # {} /\ CopyPage(p, f)
    BY <1>1, FaultEffects DEF dirVars
  <1>3. \A c \in Dir : Owned(c)' = Owned(c)  BY <1>2, OwnedIs
  <1>4. pagusr_table \in [Dir -> [Page -> Entry]] /\ content \in [Frame -> Value]
    BY DEF MemoryTypeOK
  <1>5. CASE UNCHANGED <<content, pagusr_table>>  BY <1>5, <1>2, SpacesKept
  <1>6. CASE p \in Owned(d) /\ MakeWritable(p, f)
    <2>1. /\ content' = content
          /\ pagusr_table' = [pagusr_table EXCEPT ![d][p] = Mapped(f, TRUE)]
      BY <1>1, <1>6 DEF MakeWritable
    <2>2. ASSUME NEW c \in Dir, NEW q \in Owned(c)
          PROVE  pagusr_table'[c][q].frame = pagusr_table[c][q].frame
      <3>1. q \in Page  BY OwnedFrames
      <3>2. Mapped(f, TRUE).frame = f  BY DEF Mapped
      <3> QED  BY <3>1, <3>2, <2>1, <1>1, <1>2, <1>4
    <2>3. \A c \in Dir : space'[c] = space[c]  BY <2>1, <2>2, <1>3, SpaceKept
    <2> QED  BY <2>3, <1>2, AllKept
  <1>7. CASE p \in Owned(d) /\ FreeFrames # {} /\ CopyPage(p, f)
    <2>1. PICK new : new = NewFrame(0)  OBVIOUS
    <2>2. /\ content' = [content EXCEPT ![new] = content[f]]
          /\ pagusr_table' = [pagusr_table EXCEPT ![d][p] = Mapped(new, TRUE)]
      BY <1>1, <1>7, <2>1 DEF CopyPage
    <2>3. new \in FreeFrames \cap Usable /\ new \in Frame
      <3>1. new \in FreeFrames  BY <2>1, <1>7, NewFrames
      <3> QED  BY <3>1, FreeIsUsable, UsableFrames DEF SpaceInv
    <2>4. References(new) = {}  BY <2>3, <1>2, FreeFrameUnused
    <2>5. ASSUME NEW c \in Dir, NEW q \in Owned(c)
          PROVE  content'[pagusr_table'[c][q].frame] = content[pagusr_table[c][q].frame]
      <3>1. q \in Page \ {0} /\ pagusr_table[c][q].frame \in Frame
        BY OwnedFrames, UsableFrames
      <3>2. CASE c = d /\ q = p
        <4>1. pagusr_table'[c][q].frame = new  BY <3>1, <3>2, <2>2, <1>2, <1>4 DEF Mapped
        <4>2. content'[new] = content[f]  BY <2>2, <2>3, <1>4
        <4> QED  BY <4>1, <4>2, <3>2, <1>1
      <3>3. CASE ~(c = d /\ q = p)
        <4>1. pagusr_table'[c][q] = pagusr_table[c][q]  BY <3>1, <3>3, <2>2, <1>2, <1>4
        <4>2. PICK g : g = pagusr_table[c][q].frame  OBVIOUS
        <4>3. g # new
          <5>1. <<c, q>> \in References(g)  BY <4>2, <3>1, RefPairs
          <5> QED  BY <5>1, <2>4
        <4>4. content'[g] = content[g]  BY <4>2, <4>3, <3>1, <2>2, <2>3, <1>4
        <4> QED  BY <4>1, <4>2, <4>4
      <3> QED  BY <3>2, <3>3
    <2>6. \A c \in Dir : space'[c] = space[c]  BY <2>5, <1>3, SpaceKept
    <2> QED  BY <2>6, <1>2, AllKept
  <1> QED  BY <1>2, <1>5, <1>6, <1>7

\* fork gives the child a memory with the same contents.
LEMMA ForkCopies ==
  ASSUME Separate, OneThreadOrNoHeap, MemoryTypeOK, DirInv, SpaceInv,
         NEW child \in Task, Fork(child)
  PROVE  Spaces!Fork(current, child)
PROOF
  <1>1. PICK src, c, shared : /\ src = dir[current] /\ c = Head(free_dirs)
                              /\ shared = Data \cup HeapOf(current)
    OBVIOUS
  <1>2. /\ src \in Dir /\ c \in Dir /\ UsersOf(c) = {} /\ src # c /\ ForkedTables(src, c, shared)
    BY <1>1, TablesAfterFork
  <1>3. /\ \A d \in Dir : d # c => Owned(d)' = Owned(d)
        /\ Owned(src) = shared /\ Owned(c) = {} /\ Owned(c)' = shared
    BY <1>1, OwnedAfterFork
  <1>4. /\ dir[child] = NULL /\ dir' = [dir EXCEPT ![child] = c] /\ content' = content
    BY <1>1 DEF Fork, Alive, allocate_DIR
  <1>5. pagusr_table \in [Dir -> [Page -> Entry]]  BY DEF MemoryTypeOK
  <1>6. \A p \in shared : p \in Page  BY <1>2, <1>3, OwnedFrames
  <1>7. \A p \in shared : /\ pagusr_table'[src][p].frame = pagusr_table[src][p].frame
                          /\ pagusr_table'[c][p].frame = pagusr_table[src][p].frame
    <2> SUFFICES ASSUME NEW p \in shared
                 PROVE  /\ pagusr_table'[src][p].frame = pagusr_table[src][p].frame
                        /\ pagusr_table'[c][p].frame = pagusr_table[src][p].frame
      OBVIOUS
    <2>1. p \in Page /\ pagusr_table[src][p] \in Entry  BY <1>2, <1>5, <1>6
    <2>2. /\ pagusr_table'[src][p] = ReadOnly(pagusr_table[src][p])
          /\ pagusr_table'[c][p] = Mapped(pagusr_table[src][p].frame, FALSE)
      BY <2>1, <1>2 DEF ForkedTables
    <2> QED  BY <2>1, <2>2, Entries DEF Mapped
  <1>8. ASSUME NEW d \in Dir, d # c  PROVE space'[d] = space[d]
    <2>1. \A p \in Owned(d) : pagusr_table'[d][p].frame = pagusr_table[d][p].frame
      <3>1. CASE d = src  BY <3>1, <1>3, <1>7
      <3>2. CASE d # src  BY <3>2, <1>2, <1>8 DEF ForkedTables
      <3> QED  BY <3>1, <3>2
    <2> QED  BY <2>1, <1>3, <1>4, <1>8, SpaceKept
  <1>9. Spaces!Only(c)  BY <1>2, <1>8, OneChanges
  <1>10. DOMAIN space[src] = shared /\ DOMAIN space'[c] = shared  BY <1>2, <1>3, SpaceIs
  <1>11. \A p \in shared : space'[c][p] = space[src][p]  BY <1>2, <1>3, <1>4, <1>7, SpaceIs
  <1>12. Spaces!Agree(space[src], space'[c])  BY <1>10, <1>11 DEF Spaces!Agree
  <1>13. Spaces!Users(c) = {}  BY <1>2 DEF Spaces!Users, UsersOf
  <1>14. Data \subseteq shared  BY <1>1
  <1> QED  BY <1>1, <1>2, <1>4, <1>9, <1>10, <1>12, <1>13, <1>14 DEF Spaces!Fork

\* The last thread takes the memory of its process with it.
LEMMA ExitRemoves ==
  ASSUME Separate, OneThreadOrNoHeap, MemoryTypeOK, DirInv, SpaceInv, Exit
  PROVE  Spaces!Exit(current)
PROOF
  <1>1. PICK d : d = dir[current]  OBVIOUS
  <1>2. /\ current \in Task \ {Idle} /\ Alive(current) /\ d \in Dir
        /\ dir' = [dir EXCEPT ![current] = NULL] /\ content' = content
        /\ \/ UsersOf(d) # {current} /\ pagusr_table' = pagusr_table
           \/ /\ UsersOf(d) = {current}
              /\ ClearedTables(d, Data \cup ({PAG_LOG_INIT_HEAP} \cap HeapOf(current)))
    BY <1>1, ExitEffects
  <1>3. /\ \A c \in Dir : c # d => Owned(c)' = Owned(c)
        /\ Owned(d) = Data \cup HeapOf(current)
        /\ Owned(d)' = IF UsersOf(d) = {current} THEN {} ELSE Owned(d)
    BY <1>1, OwnedAfterExit
  <1>4. \A c \in Dir : c # d => pagusr_table'[c] = pagusr_table[c]
    BY <1>2 DEF ClearedTables
  <1>5. \A c \in Dir : c # d => space'[c] = space[c]  BY <1>2, <1>3, <1>4, SpaceKept
  <1>6. Spaces!Only(d)  BY <1>2, <1>5, OneChanges
  <1>7. Spaces!Users(d) = UsersOf(d)  BY DEF Spaces!Users, UsersOf
  <1>8. CASE UsersOf(d) = {current}
    <2>1. DOMAIN space'[d] = {} /\ space'[d] = [p \in {} |-> space'[d][p]]
      BY <1>2, <1>3, <1>8, SpaceIs
    <2>2. [p \in {} |-> space'[d][p]] = [p \in {} |-> 0]  OBVIOUS
    <2>3. space'[d] = Spaces!Empty  BY <2>1, <2>2 DEF Spaces!Empty
    <2>4. space' = [space EXCEPT ![d] = Spaces!Empty]  BY <2>3, <1>6 DEF Spaces!Only
    <2> QED  BY <2>4, <1>1, <1>2, <1>7, <1>8 DEF Spaces!Exit
  <1>9. CASE UsersOf(d) # {current}
    <2>1. Owned(d)' = Owned(d) /\ pagusr_table' = pagusr_table  BY <1>2, <1>3, <1>9
    <2>2. space'[d] = space[d]  BY <2>1, <1>2, SpaceKept
    <2>3. DOMAIN space[d] = Data \cup HeapOf(current)  BY <1>2, <1>3, SpaceIs
    <2>4. Spaces!Agree(space[d], space'[d])  BY <2>2 DEF Spaces!Agree
    <2> QED  BY <2>2, <2>3, <2>4, <1>1, <1>2, <1>6, <1>7, <1>9 DEF Spaces!Exit
  <1> QED  BY <1>8, <1>9

\* sbrk keeps what the pages that stay contain.
LEMMA SbrkResizes ==
  ASSUME Separate, OneThreadOrNoHeap, MemoryTypeOK, DirInv, SpaceInv,
         NEW increment \in Increments, Sbrk(increment)
  PROVE  Spaces!Resize(current) \/ UNCHANGED <<dir, space>>
PROOF
  <1>1. PICK d : d = dir[current]  OBVIOUS
  <1>2. /\ current \in Task \ {Idle} /\ Alive(current) /\ d \in Dir
        /\ dir' = dir /\ current' = current
        /\ \/ SbrkFailed
           \/ \E size \in Nat : \E more, news : Grown(d, size, more, news)
           \/ \E size \in Nat : \E less : Shrunk(d, size, less)
    BY <1>1, SbrkEffects DEF dirVars
  <1>3. CASE SbrkFailed  BY <1>2, <1>3, SpacesKept DEF SbrkFailed
  <1>4. ASSUME \A c \in Dir : c # d => Owned(c)' = Owned(c) /\ pagusr_table'[c] = pagusr_table[c],
               content' = content, Data \subseteq Owned(d)',
               \A p \in Owned(d) \cap Owned(d)' : pagusr_table'[d][p] = pagusr_table[d][p]
        PROVE  Spaces!Resize(current)
    <2>1. \A c \in Dir : c # d => space'[c] = space[c]  BY <1>4, SpaceKept
    <2>2. Spaces!Only(d)  BY <2>1, <1>2, OneChanges
    <2>3. DOMAIN space[d] = Owned(d) /\ DOMAIN space'[d] = Owned(d)'  BY <1>2, SpaceIs
    <2>4. \A p \in Owned(d) \cap Owned(d)' : space'[d][p] = space[d][p]  BY <1>2, <1>4, SpaceIs
    <2>5. Spaces!Agree(space[d], space'[d])  BY <2>3, <2>4 DEF Spaces!Agree
    <2> QED  BY <2>2, <2>3, <2>5, <1>1, <1>2, <1>4 DEF Spaces!Resize
  <1>5. ASSUME NEW size \in Nat, NEW more, NEW news, Grown(d, size, more, news)
        PROVE  Spaces!Resize(current)
    <2>1. /\ \A c \in Dir : c # d => Owned(c)' = Owned(c)
          /\ Owned(d)' = Owned(d) \cup more /\ Owned(d) \cap more = {} /\ Data \subseteq Owned(d)
      BY <1>1, <1>2, <1>5, OwnedAfterGrow
    <2>2. /\ \A c \in Dir : c # d => pagusr_table'[c] = pagusr_table[c]
          /\ \A p \in Page : p \notin more => pagusr_table'[d][p] = pagusr_table[d][p]
          /\ content' = content
      BY <1>5 DEF Grown
    <2>3. \A p \in Owned(d) : p \in Page /\ p \notin more  BY <2>1, <1>2, OwnedFrames
    <2> QED  BY <2>1, <2>2, <2>3, <1>4
  <1>6. ASSUME NEW size \in Nat, NEW less, Shrunk(d, size, less)
        PROVE  Spaces!Resize(current)
    <2>1. /\ \A c \in Dir : Owned(c)' = IF c = d THEN Owned(c) \ less ELSE Owned(c)
          /\ Data \subseteq Owned(d)'
      BY <1>1, <1>2, <1>6, OwnedAfterShrink
    <2>2. content' = content /\ ClearedTables(d, less)  BY <1>6 DEF Shrunk
    <2>3. /\ \A c \in Dir : c # d => pagusr_table'[c] = pagusr_table[c]
          /\ \A p \in Page : p \notin less => pagusr_table'[d][p] = pagusr_table[d][p]
      BY <2>2 DEF ClearedTables
    <2>4. \A p \in Owned(d)' : p \in Page /\ p \notin less  BY <2>1, <1>2, OwnedFrames
    <2> QED  BY <2>1, <2>2, <2>3, <2>4, <1>2, <1>4
  <1> QED  BY <1>2, <1>3, <1>5, <1>6

\* A write, of the program or of the kernel for it, goes to the memory of its process.
LEMMA CurrentWrites ==
  ASSUME MemoryTypeOK, DirInv, TLBCoherent, SpaceInv, FramesSound, Running,
         NEW p \in OwnPages, NEW v \in Value,
         \E e \in Translations(p) : e.rw /\ content' = [content EXCEPT ![e.frame] = v],
         UNCHANGED pagusr_table, \A c \in Dir : Owned(c)' = Owned(c)
  PROVE  Spaces!OneWritten(space[dir[current]], space'[dir[current]]) /\ Spaces!Only(dir[current])
PROOF
  <1>1. PICK d, f : d = dir[current] /\ f = pagusr_table[d][p].frame  OBVIOUS
  <1>2. current \in Task /\ Alive(current) /\ halted = "no"  BY DEF Running, MemoryTypeOK
  <1>3. d \in Dir /\ p \in Owned(d)  BY <1>1, <1>2 DEF OwnPages, Alive, DirInv
  <1>4. Translations(p) = {pagusr_table[d][p]}  BY <1>1, <1>2, OneTranslation
  <1>5. pagusr_table[d][p].rw /\ content' = [content EXCEPT ![f] = v]  BY <1>1, <1>4
  <1>6. Spaces!OneWritten(space[d], space'[d]) /\ Spaces!Only(d)
    BY <1>1, <1>2, <1>3, <1>5, SpaceWritten
  <1> QED  BY <1>1, <1>6

\* The frames of the first process contain zeros.
LEMMA SpacesInit == Init => Spaces!Init
PROOF
  <1> SUFFICES ASSUME Init  PROVE Spaces!Init  OBVIOUS
  <1>1. PICK d : d = dir[Task1]  OBVIOUS
  <1>2. Task1 \in Task \ {Idle} /\ Idle \in Task /\ d \in Dir
    <2>1. Task1 \in Task \ {Idle} /\ Idle \in Task  BY MemoryAssumption DEF Task1, Task, Idle
    <2>2. dir[Task1] = NR_TASKS - 1 - Task1  BY <2>1 DEF Init, InitDirectories
    <2> QED  BY <2>1, <2>2, <1>1, MemoryAssumption DEF Task1, Dir
  <1>3. d # dir[Idle]  BY <1>1, <1>2, DirInit DEF DirInv
  <1>4. \A t \in Task \ {Idle, Task1} : dir[t] = NULL  BY DEF Init, InitDirectories
  <1>5. Owned(d) = Data /\ \A c \in Dir : c # d => Owned(c) = {}  BY <1>1, OwnedInit
  <1>6. MemoryTypeOK /\ DirInv /\ SpaceInv  BY TypeInit, DirInit, SpaceInit
  <1>7. \A f \in Frame : content[f] = 0  BY DEF Init, InitFrames
  <1>8. \A p \in Data : space[d][p] = 0
    <2>1. \A p \in Owned(d) : pagusr_table[d][p].frame \in Frame
      BY <1>2, <1>6, OwnedFrames, UsableFrames
    <2> QED  BY <2>1, <1>2, <1>5, <1>7, SpaceIs
  <1>9. ASSUME NEW c \in Dir
        PROVE  space[c] = IF c = d THEN [p \in Data |-> 0] ELSE Spaces!Empty
    <2>1. PICK m : m = space[c]  OBVIOUS
    <2>2. m = [p \in Owned(c) |-> m[p]]  BY <2>1, SpaceIs
    <2>3. CASE c = d
      <3>1. \A p \in Data : m[p] = 0  BY <2>1, <2>3, <1>8
      <3> QED  BY <3>1, <2>1, <2>2, <2>3, <1>5
    <2>4. CASE c # d
      <3>1. m = [p \in {} |-> m[p]]  BY <2>2, <2>4, <1>5
      <3>2. [p \in {} |-> m[p]] = [p \in {} |-> 0]  OBVIOUS
      <3> QED  BY <3>1, <3>2, <2>1, <2>4 DEF Spaces!Empty
    <2> QED  BY <2>3, <2>4
  <1>10. space = [s \in Dir |-> IF s = d THEN [p \in Data |-> 0] ELSE Spaces!Empty]
    <2>1. PICK f : f = space  OBVIOUS
    <2>2. f = [s \in Dir |-> f[s]]  BY <2>1, SpaceIs
    <2>3. \A s \in Dir : f[s] = IF s = d THEN [p \in Data |-> 0] ELSE Spaces!Empty
      BY <2>1, <1>9
    <2>4. f = [s \in Dir |-> IF s = d THEN [p \in Data |-> 0] ELSE Spaces!Empty]  BY <2>2, <2>3
    <2> QED  BY <2>1, <2>4
  <1>11. current = Task1  BY DEF Init
  <1> QED  BY <1>1, <1>2, <1>3, <1>4, <1>10, <1>11 DEF Spaces!Init

\* The processor goes to tasks that have a memory.
LEMMA TasksDispatched ==
  ASSUME MemoryTypeOK, DirInv, [Next]_vars
  PROVE  Spaces!Dispatch
PROOF
  <1> DEFINE Goes == current' = current \/ (current' \in Task /\ dir'[current'] # NULL)
  <1> SUFFICES Goes  BY DEF Spaces!Dispatch
  <1>1. CASE UNCHANGED vars  BY <1>1 DEF vars
  <1>2. ASSUME NEW t \in Task, Alive(t), SwitchTo(t), dir' = dir  PROVE Goes
    BY <1>2 DEF SwitchTo, Alive
  <1>3. ASSUME NEW p \in SyscallPages, NEW v \in Value, NEW next \in Task, SyscallWrites(p, v, next)
        PROVE  Goes
    <2>1. current' = current \/ (Alive(next) /\ SwitchTo(next) /\ dir' = dir)
      BY <1>3 DEF SyscallWrites, dirVars
    <2> QED  BY <2>1, <1>2
  <1>4. ASSUME NEW t \in Task, Switch(t)  PROVE Goes
    <2>1. Alive(t) /\ SwitchTo(t) /\ dir' = dir  BY <1>4 DEF Switch, dirVars
    <2> QED  BY <2>1, <1>2
  <1>5. CASE UserAccess  BY <1>5 DEF UserAccess, PageFault, Write
  <1>6. CASE Exit  BY <1>6 DEF Exit
  <1>7. ASSUME NEW t \in Task, Fork(t)  PROVE Goes  BY <1>7 DEF Fork
  <1>8. ASSUME NEW t \in Task, NEW p \in Page, NEW v \in Value, Clone(t, p, v)  PROVE Goes
    BY <1>8 DEF Clone
  <1>9. ASSUME NEW increment \in Increments, Sbrk(increment)  PROVE Goes  BY <1>9 DEF Sbrk
  <1>10. CASE SystemCall  BY <1>3, <1>6, <1>7, <1>8, <1>9, <1>10 DEF SystemCall
  <1> QED  BY <1>1, <1>4, <1>5, <1>10 DEF Next

\* Every step is one of the running process, which has a memory of its own, or changes none.
LEMMA SpacesStep ==
  ASSUME Separate, TouchFirst, FramesInv, [Next]_vars
  PROVE  [Spaces!Next]_<<dir, space, current>>
PROOF
  <1> DEFINE Step == Spaces!Step \/ UNCHANGED <<dir, space>>
  <1>1. MemoryTypeOK /\ DirInv /\ TLBCoherent /\ SpaceInv /\ OneThreadOrNoHeap /\ FramesSound
    BY DEF FramesInv, MemoryInv
  <1> SUFFICES Step
    <2>1. Spaces!Dispatch  BY <1>1, TasksDispatched
    <2> QED  BY <2>1 DEF Spaces!Next
  <1>2. ASSUME Running  PROVE current # Idle /\ dir[current] # NULL
    BY <1>2 DEF Running, Alive
  <1>3. ASSUME UNCHANGED <<content, pagusr_table, dir, heap>>  PROVE UNCHANGED <<dir, space>>
    BY <1>3, SpacesKept
  <1>4. ASSUME UNCHANGED <<dir, heap>>  PROVE \A c \in Dir : Owned(c)' = Owned(c)
    BY <1>4, OwnedIs
  <1>5. CASE UNCHANGED vars  BY <1>5, <1>3 DEF vars, dirVars
  <1>6. ASSUME NEW p \in Page, PageFault(p)  PROVE Step
    BY <1>1, <1>6, FaultUnseen
  <1>7. ASSUME NEW p \in Page, NEW v \in Value, Write(p, v)  PROVE Step
    <2>1. Running /\ UNCHANGED <<pagusr_table, dir, heap>> /\ p \in OwnPages
      BY <1>7 DEF Write, dirVars
    <2>2. /\ Spaces!OneWritten(space[dir[current]], space'[dir[current]])
          /\ Spaces!Only(dir[current])
      BY <2>1, <1>1, <1>4, <1>7, CurrentWrites DEF Write
    <2> QED  BY <2>1, <2>2, <1>2 DEF Spaces!Write, Spaces!Step
  <1>8. ASSUME NEW p \in SyscallPages, NEW v \in Value, NEW next \in Task, SyscallWrites(p, v, next)
        PROVE  Step
    <2>1. Running /\ UNCHANGED <<pagusr_table, dir, heap>> /\ p \in OwnPages
      BY <1>8 DEF SyscallWrites, KernelWrites, dirVars
    <2>2. \E e \in Translations(p) : e.rw /\ content' = [content EXCEPT ![e.frame] = v]
      BY <1>8 DEF SyscallWrites, KernelWrites
    <2>3. /\ Spaces!OneWritten(space[dir[current]], space'[dir[current]])
          /\ Spaces!Only(dir[current])
      BY <2>1, <2>2, <1>1, <1>4, CurrentWrites
    <2> QED  BY <2>1, <2>3, <1>2 DEF Spaces!Write, Spaces!Step
  <1>9. CASE Exit
    <2>1. Running  BY <1>9 DEF Exit
    <2>2. Spaces!Exit(current)  BY <1>1, <1>9, ExitRemoves
    <2> QED  BY <2>1, <2>2, <1>2 DEF Spaces!Step
  <1>10. ASSUME NEW t \in Task, Fork(t)  PROVE Step
    <2>1. Running  BY <1>10 DEF Fork
    <2>2. Spaces!Fork(current, t)  BY <1>1, <1>10, ForkCopies
    <2> QED  BY <2>1, <2>2, <1>2 DEF Spaces!Step
  <1>11. ASSUME Clones, NEW t \in Task, NEW p \in Page, NEW v \in Value, Clone(t, p, v)
         PROVE  Step
    <2>1. /\ Running /\ pagusr_table' = pagusr_table
          /\ dir[t] = NULL /\ dir' = [dir EXCEPT ![t] = dir[current]]
      BY <1>11 DEF Clone, Alive, reuse_DIR
    <2>2. PICK q \in {p - 1, p} : KernelWrites(q, v)
      BY <1>11 DEF Clone
    <2>3. /\ q \in OwnPages
          /\ \E e \in Translations(q) : e.rw /\ content' = [content EXCEPT ![e.frame] = v]
      BY <2>2 DEF KernelWrites
    <2>4. /\ Spaces!OneWritten(space[dir[current]], space'[dir[current]])
          /\ Spaces!Only(dir[current])
      BY <2>1, <2>3, <1>1, <1>11, OwnedAfterClone, CurrentWrites
    <2> QED  BY <2>1, <2>4, <1>2 DEF Spaces!Clone, Spaces!Step
  <1>12. ASSUME NEW increment \in Increments, Sbrk(increment)  PROVE Step
    <2>1. Running  BY <1>12 DEF Sbrk
    <2>2. Spaces!Resize(current) \/ UNCHANGED <<dir, space>>  BY <1>1, <1>12, SbrkResizes
    <2> QED  BY <2>1, <2>2, <1>2 DEF Spaces!Step
  <1>13. ASSUME NEW t \in Task, Switch(t)  PROVE Step
    BY <1>13, <1>3 DEF Switch, dirVars
  <1>14. CASE UserAccess  BY <1>6, <1>7, <1>14 DEF UserAccess
  <1>15. CASE SystemCall  BY <1>8, <1>9, <1>10, <1>11, <1>12, <1>15 DEF SystemCall
  <1> QED  BY <1>5, <1>13, <1>14, <1>15 DEF Next

\* Isolation: Memory implements AddressSpaces.  Copy on write, the reference counts, cr3 and the
\* TLB cannot be seen by programs that pass to system calls only pages of their own that they
\* have written to since the last fork; nothing in the code makes them do that.
THEOREM ProcessesAreIsolated ==
  ASSUME NR_TASKS <= 128, Separate, TouchFirst  PROVE Spec => Isolation
PROOF
  <1>1. FramesInv /\ [Next]_vars => [Spaces!Next]_<<dir, space, current>>  BY SpacesStep
  <1> QED  BY <1>1, SpacesInit, FramesInvariance, PTL DEF Spec, Isolation, Spaces!Spec
=============================================================================
