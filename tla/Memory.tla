------------------------------- MODULE Memory -------------------------------
(***************************************************************************)
(* mm.c, and what sys.c does with it: frames with reference counts,        *)
(* directories shared by threads, copy on write after fork, the heap, page *)
(* faults, and the TLB.                                                    *)
(*                                                                         *)
(* Which task runs next is decided by the modules Scheduler and Kernel;    *)
(* here it is any task that is alive.  A directory and its only page table *)
(* are one thing (dir_pages[i] and pagusr_table[i]).  A page's contents    *)
(* are one value.                                                          *)
(***************************************************************************)
EXTENDS Integers, FiniteSets, Sequences, SequencesExt

CONSTANTS
  NR_TASKS,              \* PCBs, and directories
  NUM_PAG_CODE, NUM_PAG_DATA,
  PAG_LOG_INIT_HEAP,     \* page the heap starts in; it grows towards the data
  PAGE_SIZE,
  NUM_PAG_KERNEL,        \* first frame that is not the kernel's
  TOTAL_PAGES,           \* frames
  Increments,            \* arguments of sbrk
  Clones,                \* TRUE: programs create threads
  SyscallPages,          \* pages system calls are asked to write to
  TouchFirst,            \* TRUE: programs pass to system calls only pages of their own that
                         \* they have written to
  Value                  \* what a page may contain

ASSUME MemoryAssumption ==
  /\ NR_TASKS \in Nat /\ NR_TASKS > 1
  /\ NUM_PAG_CODE \in Nat \ {0} /\ NUM_PAG_DATA \in Nat \ {0} /\ PAGE_SIZE \in Nat \ {0}
  /\ PAG_LOG_INIT_HEAP \in Nat /\ PAG_LOG_INIT_HEAP > NUM_PAG_CODE + NUM_PAG_DATA
  /\ NUM_PAG_KERNEL \in Nat \ {0}
  /\ TOTAL_PAGES \in Nat /\ TOTAL_PAGES > NUM_PAG_KERNEL + 2 * (NUM_PAG_CODE + NUM_PAG_DATA)
  /\ Increments \subseteq Int \ {0} /\ Clones \in BOOLEAN /\ TouchFirst \in BOOLEAN
  /\ 0 \in Value

Task  == 0 .. NR_TASKS - 1
Idle  == 0
Task1 == 1
Dir   == 0 .. NR_TASKS - 1
NULL  == -1

\* Page 0 stands for the pages of the kernel.
Page  == 0 .. PAG_LOG_INIT_HEAP
Code  == 1 .. NUM_PAG_CODE
Data  == NUM_PAG_CODE + 1 .. NUM_PAG_CODE + NUM_PAG_DATA
Frame == 0 .. TOTAL_PAGES - 1
Byte  == 0 .. 255

Entry  == [present : BOOLEAN, rw : BOOLEAN, frame : Frame]
Absent == [present |-> FALSE, rw |-> FALSE, frame |-> 0]
Mapped(f, w) == [present |-> TRUE, rw |-> w, frame |-> f]

VARIABLES
  phys_mem, cow_count_mem,
  content,               \* what each frame contains
  pagusr_table,          \* the page table of each directory
  dir_count, free_dirs,
  dir,                   \* dir_pages_baseAddr of each task, as an index
  heap,                  \* HEAP_START - heap_top of each task: bytes of heap
  current,
  cr3,                   \* the directory the processor uses
  tlb,                   \* entries the TLB may still hold that the page table has no more
  halted                 \* why pf_rsi stopped the machine for good

frameVars == <<phys_mem, cow_count_mem>>
dirVars   == <<dir_count, free_dirs, dir>>
cpuVars   == <<cr3, tlb>>
vars == <<frameVars, dirVars, content, pagusr_table, heap, current, cpuVars, halted>>

-----------------------------------------------------------------------------
(* Frames. *)

\* alloc_frame looks at every second frame only.
Allocatable == {f \in Frame : f >= NUM_PAG_KERNEL /\ (f - NUM_PAG_KERNEL) % 2 = 0}
FreeFrames  == {f \in Allocatable : phys_mem[f] = "FREE_FRAME"}

\* The frame that the call number i of alloc_frame in a row returns.
NewFrame(i) == CHOOSE f \in FreeFrames : Cardinality({g \in FreeFrames : g < f}) = i

alloc_frames(S) ==
  /\ phys_mem' = [f \in Frame |-> IF f \in S THEN "USED_FRAME" ELSE phys_mem[f]]
  /\ cow_count_mem' = [f \in Frame |-> IF f \in S THEN 0 ELSE cow_count_mem[f]]

\* A mistake: take the count for an integer.
CountAfterFree_NoWrap(f, count) == IF f > NUM_PAG_KERNEL THEN count - 1 ELSE count

\* The count free_frame leaves, a Byte, and that count as a signed char.
CountAfterFree(f, count) == IF f > NUM_PAG_KERNEL THEN (count - 1) % 256 ELSE count
Signed(byte) == IF byte < 128 THEN byte ELSE byte - 256

\* free_frame for each frame of S.
free_frames(S) ==
  LET after(f) == CountAfterFree(f, cow_count_mem[f])
  IN  /\ cow_count_mem' = [f \in Frame |-> IF f \in S THEN after(f) ELSE cow_count_mem[f]]
      /\ phys_mem' = [f \in Frame |-> IF f \in S /\ Signed(after(f)) <= 0 THEN "FREE_FRAME"
                                                                         ELSE phys_mem[f]]

\* A mistake: keep the frames although they do not suffice.
alloc_and_free_frames_Leak(S) == alloc_frames(S)

\* alloc_frame and at once free_frame for each frame of S, which all are free.
alloc_and_free_frames(S) ==
  /\ cow_count_mem' = [f \in Frame |-> IF f \in S THEN CountAfterFree(f, 0) ELSE cow_count_mem[f]]
  /\ UNCHANGED phys_mem

-----------------------------------------------------------------------------
(* Address spaces. *)

PT(t) == pagusr_table[dir[t]]
FramesOf(t, S) == {PT(t)[p].frame : p \in S}

\* get_heap_page_size, of a heap of so many bytes.
HeapPages(bytes) == (bytes - 1 + PAGE_SIZE) \div PAGE_SIZE

\* The n pages of a heap, from PAG_LOG_INIT_HEAP downwards.
HeapRange(n) == PAG_LOG_INIT_HEAP - n + 1 .. PAG_LOG_INIT_HEAP

Alive(t)     == dir[t] # NULL
HeapOf(t)    == HeapRange(HeapPages(heap[t]))
UsersOf(d)   == {t \in Task : dir[t] = d}

\* The pages the tasks of a directory were given: data, and the heap each of them asked for.
Owned(d) == IF UsersOf(d) \subseteq {Idle} THEN {}
            ELSE Data \cup UNION {HeapOf(t) : t \in UsersOf(d)}

\* The TLB may hold every entry of the table in use, and after a change of that table also
\* the entries that were changed, until cr3 is loaded.
Outdated == {<<p, pagusr_table[cr3][p]>> : p \in {p \in Page :
               pagusr_table[cr3][p].present /\ pagusr_table[cr3][p] # pagusr_table'[cr3][p]}}

set_cr3(d) == cr3' = d /\ tlb' = {}

\* A table was changed and cr3 is not loaded.
NoFlush == tlb' = tlb \cup Outdated /\ UNCHANGED cr3

\* The set_cr3 of sys_fork.
FlushAfterFork == set_cr3(dir[current])

\* A mistake: never load cr3.
SwitchTo_KeepsCr3(t) == current' = t /\ UNCHANGED cpuVars

\* A mistake: let the idle task run in whatever directory is loaded.
SwitchTo_LazyIdle(t) ==
  /\ current' = t
  /\ IF dir[current] # dir[t] /\ t # Idle THEN set_cr3(dir[t]) ELSE UNCHANGED cpuVars

\* inner_task_switch: load cr3 for another directory.
SwitchTo(t) ==
  /\ current' = t
  /\ IF dir[current] # dir[t] THEN set_cr3(dir[t]) ELSE UNCHANGED cpuVars

\* A process that has not left its address space runs.
Running == halted = "no" /\ current # Idle /\ Alive(current)

\* alloc_frame gives set_user_pages every second frame, in the order of the pages.
FirstFrame(p) == NUM_PAG_KERNEL + 2 * (p - 1)

InitFrames ==
  LET used == 0 .. NUM_PAG_KERNEL - 1 \cup {FirstFrame(p) : p \in Code \cup Data}
  IN  /\ phys_mem = [f \in Frame |-> IF f \in used THEN "USED_FRAME" ELSE "FREE_FRAME"]
      /\ cow_count_mem = [f \in Frame |-> 0]
      /\ content = [f \in Frame |-> 0]

\* A table without a process has the kernel's pages only.
KernelPages == [p \in Page |-> IF p = 0 THEN Mapped(0, TRUE) ELSE Absent]

\* The pages of the first process, of which the code may not be written.
set_user_pages == [p \in Page |-> IF p \in Code \cup Data THEN Mapped(FirstFrame(p), p \in Data)
                                                          ELSE KernelPages[p]]

\* The list of free directories is a stack, filled in ascending order; the idle task and the
\* first process take the first two.
InitDirectories ==
  /\ dir = [t \in Task |-> IF t \in {Idle, Task1} THEN NR_TASKS - 1 - t ELSE NULL]
  /\ dir_count = [d \in Dir |-> IF d \in {dir[Idle], dir[Task1]} THEN 1 ELSE 0]
  /\ free_dirs = [i \in 1 .. NR_TASKS - 2 |-> NR_TASKS - 2 - i]

Init ==
  /\ InitFrames
  /\ InitDirectories
  /\ pagusr_table = [d \in Dir |-> IF d = dir[Task1] THEN set_user_pages ELSE KernelPages]
  /\ heap = [t \in Task |-> 0]
  /\ current = Task1 /\ cr3 = dir[Task1]
  /\ tlb = {}
  /\ halted = "no"

-----------------------------------------------------------------------------
(* Accesses of the running program, in user mode. *)

\* The entries the processor may use for a page.  (A read changes nothing.)
Translations(p) == {pagusr_table[cr3][p]} \cup {c[2] : c \in {c \in tlb : c[1] = p}}

OwnPages == Owned(dir[current])

Write(p, v) ==
  /\ Running /\ p \in OwnPages
  /\ \E e \in Translations(p) : e.rw /\ content' = [content EXCEPT ![e.frame] = v]
  /\ UNCHANGED <<frameVars, dirVars, pagusr_table, heap, current, cpuVars, halted>>

\* access_ok(VERIFY_WRITE, ...) of one byte in the page: it falls through to the case of
\* VERIFY_READ, so that it also accepts the code; and the page past the data, and the one
\* below the heap.
access_ok(t, p) ==
  \/ p \in 1 .. NUM_PAG_CODE + NUM_PAG_DATA + 1
  \/ p \in PAG_LOG_INIT_HEAP - HeapPages(heap[t]) .. PAG_LOG_INIT_HEAP

\* The last process that refers to a frame gets it back.
MakeWritable(p, f) ==
  /\ cow_count_mem' = [cow_count_mem EXCEPT ![f] = 0]
  /\ pagusr_table' = [pagusr_table EXCEPT ![dir[current]][p] = Mapped(f, TRUE)]
  /\ tlb' = {c \in tlb : c[1] # p}
  /\ UNCHANGED <<phys_mem, content, cr3, halted>>

CountAfterCopy(f, new) == [cow_count_mem EXCEPT ![f] = cow_count_mem[f] - 1, ![new] = 0]

\* copy_frame, and map the copy.
CopyPage(p, f) ==
  LET new == NewFrame(0)
  IN  /\ phys_mem' = [phys_mem EXCEPT ![new] = "USED_FRAME"]
      /\ cow_count_mem' = CountAfterCopy(f, new)
      /\ content' = [content EXCEPT ![new] = content[f]]
      /\ pagusr_table' = [pagusr_table EXCEPT ![dir[current]][p] = Mapped(new, TRUE)]
      /\ set_cr3(dir[current])
      /\ UNCHANGED halted

\* while(1), with interrupts disabled.
Halt(why) == halted' = why /\ UNCHANGED <<phys_mem, content, pagusr_table, cpuVars>>

\* Pages the program may try to write to: its own, and, by mistake, the code or a page that
\* is not mapped.  A page that is mapped but not its own (NoForeignPages) it leaves alone.
Touchable == OwnPages \cup Code \cup {p \in Page : ~PT(current)[p].present}

\* pf_rsi, for a write to a page that is not writable.  A system call that stores something in
\* a page access_ok accepts, but that is not there, stops the machine in the same way.
PageFault(p) ==
  LET f == PT(current)[p].frame
      count == cow_count_mem[f]
  IN  /\ Running /\ p \in Touchable /\ \E e \in Translations(p) : ~e.rw
      /\ \/ ~access_ok(current, p) /\ Halt("WRONG ACCESS") /\ UNCHANGED cow_count_mem
         \/ /\ access_ok(current, p)
            /\ \/ count = 1 /\ MakeWritable(p, f)
               \/ count >= 2 /\ FreeFrames # {} /\ CopyPage(p, f)
               \/ /\ count >= 2 /\ FreeFrames = {}
                  /\ cow_count_mem' = [cow_count_mem EXCEPT ![f] = count - 1]
                  /\ Halt("NOT ENOUGH PHYSICAL MEMORY")
               \/ count = 0 /\ Halt("KERNEL PANIC") /\ UNCHANGED cow_count_mem
      /\ UNCHANGED <<dirVars, heap, current>>

\* A write of the kernel where a program asked for it.  It does not fault on a page that is
\* read-only, which may be one of the code: cr0.WP is never set (set_pe_flag).
KernelWrites(p, v) ==
  \E e \in Translations(p) :
    /\ e.present
    /\ TouchFirst => p \in OwnPages /\ e.rw
    /\ content' = [content EXCEPT ![e.frame] = v]

\* read_from_keyboard_buffer, and what get_stats stores, after which the call returns, or
\* blocks and leaves the processor to another task.
SyscallWrites(p, v, next) ==
  /\ Running /\ Alive(next)
  /\ access_ok(current, p) /\ KernelWrites(p, v)
  /\ IF next = current THEN UNCHANGED <<current, cpuVars>> ELSE SwitchTo(next)
  /\ UNCHANGED <<frameVars, dirVars, pagusr_table, heap, halted>>

-----------------------------------------------------------------------------
(* Processes and threads. *)

\* A mistake: count the first sharing as one reference.
CountAfterShare_One(count) == (count + 1) % 256

\* A mistake: forget that a page may be shared by more than two.
CountAfterShare_Two(count) == 2

\* What share_cow_page does to a count: 0 stands for one reference, as 1 does.
CountAfterShare(count) == IF count = 0 THEN 2 ELSE (count + 1) % 256

\* A mistake: let the father go on writing.
ReadOnly_ChildOnly(e) == e

ReadOnly(e) == [e EXCEPT !.rw = FALSE]

\* share_cow_page for each page of S, as far as the tables go.
share_cow_pages(tables, source, dest, S) ==
  [tables EXCEPT
     ![source] = [p \in Page |-> IF p \in S THEN ReadOnly(@[p]) ELSE @[p]],
     ![dest] = [p \in Page |-> IF p \in S THEN ReadOnly(Mapped(tables[source][p].frame, TRUE))
                                          ELSE @[p]]]

\* A directory of its own.
allocate_DIR(t) ==
  /\ free_dirs # <<>>
  /\ dir' = [dir EXCEPT ![t] = Head(free_dirs)]
  /\ dir_count' = [dir_count EXCEPT ![Head(free_dirs)] = 1]
  /\ free_dirs' = Tail(free_dirs)

\* The directory of another task.
reuse_DIR(d, t) ==
  /\ dir' = [dir EXCEPT ![t] = d]
  /\ dir_count' = [dir_count EXCEPT ![d] = @ + 1]
  /\ UNCHANGED free_dirs

\* sys_fork.  The entries of the child that it does not set stay what the last user of that
\* directory left.
Fork(child) ==
  LET c == Head(free_dirs)
      shared == Data \cup HeapOf(current)
      frames == FramesOf(current, shared)
      with_code == [pagusr_table EXCEPT ![c] = [p \in Page |-> IF p \in Code THEN PT(current)[p]
                                                                           ELSE @[p]]]
  IN  /\ Running /\ ~Alive(child)
      /\ allocate_DIR(child)
      /\ heap' = [heap EXCEPT ![child] = heap[current]]
      /\ cow_count_mem' = [f \in Frame |-> IF f \in frames THEN CountAfterShare(cow_count_mem[f])
                                                          ELSE cow_count_mem[f]]
      /\ pagusr_table' = share_cow_pages(with_code, dir[current], c, shared)
      /\ FlushAfterFork
      /\ UNCHANGED <<phys_mem, content, current, halted>>

\* A mistake: let the thread inherit the size of the heap.
HeapOfThread_Inherited == heap[current]

\* The heap of a thread, of which allocate_process knows nothing.
HeapOfThread == 0

\* sys_clone, with a stack in page p; v stands for the return address pushed on it, which may
\* be in the page below.
Clone(thread, p, v) ==
  /\ Running /\ ~Alive(thread)
  /\ access_ok(current, p) /\ \E q \in {p - 1, p} : KernelWrites(q, v)
  /\ reuse_DIR(dir[current], thread)
  /\ heap' = [heap EXCEPT ![thread] = HeapOfThread]
  /\ UNCHANGED <<frameVars, pagusr_table, current, cpuVars, halted>>

\* A mistake: take the whole address space away with the first of its users.
LastUser_Any(d) == TRUE

\* A mistake: test the count before it is decremented.
LastUser_TooEarly(d) == dir_count[d] = 0

LastUser(d) == dir_count[d] = 1

\* free_user_pages.  It clears the entries above PAG_LOG_INIT_HEAP and not those below; of
\* them only PAG_LOG_INIT_HEAP itself was in use.
free_user_pages(t) ==
  LET cleared == Data \cup ({PAG_LOG_INIT_HEAP} \cap HeapOf(t))
  IN  /\ free_frames(FramesOf(t, Data \cup HeapOf(t)))
      /\ pagusr_table' = [pagusr_table EXCEPT
           ![dir[t]] = [p \in Page |-> IF p \in cleared THEN Absent ELSE @[p]]]

free_DIR(t) ==
  /\ dir' = [dir EXCEPT ![t] = NULL]
  /\ dir_count' = [dir_count EXCEPT ![dir[t]] = @ - 1]
  /\ IF LastUser(dir[t])
     THEN free_user_pages(t) /\ free_dirs' = <<dir[t]>> \o free_dirs
     ELSE UNCHANGED <<frameVars, pagusr_table, free_dirs>>

\* sys_exit, as far as free_DIR: the process goes on in the kernel with the directory it has
\* just given back, until it switches.  The heap_top of a PCB that is free is not read again;
\* here it is reset at once.
Exit ==
  /\ Running
  /\ free_DIR(current)
  /\ NoFlush
  /\ heap' = [heap EXCEPT ![current] = 0]
  /\ UNCHANGED <<content, current, halted>>

Switch(next) ==
  /\ halted = "no" /\ Alive(next) /\ next # current
  /\ SwitchTo(next)
  /\ UNCHANGED <<frameVars, dirVars, content, pagusr_table, heap, halted>>

-----------------------------------------------------------------------------
(* sys_sbrk. *)

HEAP_START == (PAG_LOG_INIT_HEAP + 1) * PAGE_SIZE - 1

\* -ENOMEM.
SbrkFails == UNCHANGED <<content, pagusr_table, heap, cpuVars>>

IsFree(S) == \A p \in S : ~PT(current)[p].present

\* The heap gets more pages.  When the frames do not suffice, those that were allocated are
\* freed again.
Grow(size) ==
  LET act  == HeapPages(heap[current])
      more == HeapRange(HeapPages(size)) \ HeapRange(act)
      n    == Cardinality(more)
      frameOf(p) == NewFrame(PAG_LOG_INIT_HEAP - act - p)
  IN  \/ ~IsFree(more) /\ SbrkFails /\ UNCHANGED frameVars
      \/ /\ IsFree(more) /\ Cardinality(FreeFrames) < n
         /\ alloc_and_free_frames(FreeFrames)
         /\ SbrkFails
      \/ /\ IsFree(more) /\ Cardinality(FreeFrames) >= n
         /\ alloc_frames({frameOf(p) : p \in more})
         /\ pagusr_table' = [pagusr_table EXCEPT
              ![dir[current]] = [p \in Page |-> IF p \in more THEN Mapped(frameOf(p), TRUE) ELSE @[p]]]
         /\ heap' = [heap EXCEPT ![current] = size]
         /\ UNCHANGED <<content, cpuVars>>

\* A mistake: leave the pages in the TLB.
FlushAfterShrink_Not == NoFlush

\* The set_cr3 of sys_sbrk.
FlushAfterShrink == set_cr3(dir[current])

\* The heap keeps its pages, or loses some.
Shrink(size) ==
  LET less == HeapOf(current) \ HeapRange(HeapPages(size))
  IN  /\ free_frames(FramesOf(current, less))
      /\ pagusr_table' = [pagusr_table EXCEPT
           ![dir[current]] = [p \in Page |-> IF p \in less THEN Absent ELSE @[p]]]
      /\ heap' = [heap EXCEPT ![current] = size]
      /\ FlushAfterShrink
      /\ UNCHANGED content

Sbrk(increment) ==
  LET asked == heap[current] + increment
      size  == IF asked < 0 THEN 0 ELSE asked
  IN  /\ Running
      /\ \/ asked > HEAP_START /\ SbrkFails /\ UNCHANGED frameVars
         \/ asked <= HEAP_START /\ HeapPages(size) > HeapPages(heap[current]) /\ Grow(size)
         \/ asked <= HEAP_START /\ HeapPages(size) <= HeapPages(heap[current]) /\ Shrink(size)
      /\ UNCHANGED <<dirVars, current, halted>>

-----------------------------------------------------------------------------

UserAccess == \E p \in Page : PageFault(p) \/ \E v \in Value : Write(p, v)

SystemCall ==
  \/ Exit
  \/ \E t \in Task : Fork(t)
  \/ Clones /\ \E t \in Task, p \in Page, v \in Value : Clone(t, p, v)
  \/ \E increment \in Increments : Sbrk(increment)
  \/ \E p \in SyscallPages, v \in Value, next \in Task : SyscallWrites(p, v, next)

Next == UserAccess \/ SystemCall \/ \E t \in Task : Switch(t)

Spec == Init /\ [][Next]_vars

-----------------------------------------------------------------------------

\* Where the pages of live processes are.
References(f) == {r \in Dir \X (Page \ {0}) :
                    r[2] \in Owned(r[1]) /\ pagusr_table[r[1]][r[2]].frame = f}

CodeFrames == {NUM_PAG_KERNEL + 2 * (p - 1) : p \in Code}

\* The types of the variables.
MemoryTypeOK ==
  /\ phys_mem \in [Frame -> {"USED_FRAME", "FREE_FRAME"}] /\ cow_count_mem \in [Frame -> Byte]
  /\ content \in [Frame -> Value] /\ pagusr_table \in [Dir -> [Page -> Entry]]
  /\ dir \in [Task -> Dir \cup {NULL}] /\ dir_count \in [Dir -> 0 .. NR_TASKS]
  /\ free_dirs \in Seq(Dir) /\ heap \in [Task -> Nat] /\ current \in Task
  /\ cr3 \in Dir /\ tlb \in SUBSET (Page \X Entry)

\* The count of a frame is the number of pages that refer to it, where 0 and 1 both stand for
\* one page; a frame no page refers to is free.  No frame is lost, and none is freed while
\* another process refers to it (respuestas.txt:15).
RefCountsExact ==
  halted = "no" =>
    \A f \in Allocatable \ CodeFrames :
      LET n == Cardinality(References(f))
      IN  /\ phys_mem[f] = IF n = 0 THEN "FREE_FRAME" ELSE "USED_FRAME"
          /\ n = 1 => cow_count_mem[f] \in {0, 1}
          /\ n > 1 => cow_count_mem[f] = n

\* A page that may be written is the only one that refers to its frame, over all forks, faults
\* and exits; one that may not refers to a frame with a count, so that the fault finds out what
\* to do.  (When all others that shared the frame are gone, it may still be read-only.)
WritableIsPrivate ==
  halted = "no" =>
    \A d \in Dir : \A p \in Owned(d) :
      LET e == pagusr_table[d][p]
      IN  /\ e.present
          /\ e.rw => References(e.frame) = {<<d, p>>}
          /\ e.rw <=> cow_count_mem[e.frame] = 0

\* A task that has an address space runs with its own directory in cr3, and with no entry of
\* another time or another process in the TLB: every change of a table that takes something
\* away is followed by a load of cr3, and cr3 is loaded wherever the next task needs it.
TLBCoherent == Alive(current) => cr3 = dir[current] /\ tlb = {}

\* The count of a directory is the number of its threads, and it is free when there is none:
\* fork never finds a PCB without a directory for it.
DirectoryCountsExact ==
  /\ \A d \in Dir : dir_count[d] = Cardinality(UsersOf(d))
  /\ \A d \in Dir : dir_count[d] = 0 <=> d \in ToSet(free_dirs)
  /\ Cardinality(ToSet(free_dirs)) = Len(free_dirs)

\* Of the threads of a process at most one has a heap: the others find its pages in use.
OneHeapPerProcess ==
  \A t, u \in Task : t # u /\ Alive(t) /\ dir[t] = dir[u] => heap[t] = 0 \/ heap[u] = 0

\* A program that writes to a page it was given is stopped only for want of memory.
StopsOnlyForMemory ==
  [][\A p \in OwnPages : PageFault(p) => halted' \in {"no", "NOT ENOUGH PHYSICAL MEMORY"}]_vars

\* sys.c:342, where sbrk finds a page in use: "Check that we don't enter in another memory
\* region".  A page that is mapped below the heap belongs to a region of the process.
NoForeignPages ==
  \A d \in Dir : UsersOf(d) # {} =>
    \A p \in Page \ {0} : pagusr_table[d][p].present => p \in Code \cup Owned(d)

-----------------------------------------------------------------------------

\* The memory each process sees: the contents of its own pages.
space == [d \in Dir |-> [p \in Owned(d) |-> content[pagusr_table[d][p].frame]]]

Spaces == INSTANCE AddressSpaces WITH home <- dir, NoSpace <- NULL, Space <- Dir

\* Memory implements processes that have memories of their own: a fork copies, and what the
\* running task writes is written in its own memory and seen in no other, although processes
\* share frames, and cr3 and the TLB decide what a write means.
Isolation == Spaces!Spec
=============================================================================
