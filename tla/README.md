# A TLA+ development of the ZEOS kernel

ZEOS is a small teaching kernel for one x86 processor: ten PCBs, a round-robin scheduler,
`fork`, `clone` and `exit`, semaphores, a blocking read from the keyboard, a heap and copy
on write. This directory holds TLA+ modules of it, configurations for TLC, and proofs that
TLAPS checks. All paths are relative to the repository's root.

## 1. The system

### Components

| Component | State | Operations | Correct if |
|---|---|---|---|
| Process table (`sched.c`, `include/sched.h`) | `tasks[]` with PID, state, anchor, quantum; `free_queue`, `readyqueue`; `last_PID` | `allocate_process`, `free_process`, `update_process_state` | a task is in one list, the one its state says, or it runs; PIDs of live tasks are unique |
| Scheduler (`sched.c`, `sched.S`, `interrupt.c`) | the running task (the stack pointer), `current_ticks` | `clock_routine`, `execute_scheduling`, `sched_next_rr`, `task_switch`, `set_quantum` | nobody is lost, nobody overtaken, a ready task runs some time, a quantum is kept |
| Processes (`sys.c`) | PCB, kernel stack, page directory, heap top | `sys_fork`, `sys_clone`, `sys_exit`, `sys_getpid` | a process leaves nothing behind; parent and child do not share memory, threads do |
| Semaphores (`sys.c`) | `semaphores[]`: used, count, owner, waiters; in each PCB the list of its semaphores and `sem_deleted` | `sys_sem_init`, `_wait`, `_signal`, `_destroy`, `free_semaphores` | no lost wake-up; a waiter learns whether it was signalled or the semaphore destroyed; no semaphore outlives its owner |
| Keyboard (`keyboard.c`) | circular buffer, two indices, `keyboardqueue`, `remaining_to_read` | `keyboard_routine`, `sys_read_keyboard` | keys keep their order, none is delivered twice, a read gets consecutive keys and ends |
| Lists (`list.c`) | `next` and `prev` of every anchor | add, add at the tail, delete, iterate | the pointers form disjoint cycles through the list heads |
| Accounting (`stats.c`) | tick counters in every PCB | `update_stats`, `sys_get_stats` | the remaining ticks are right; every tick is counted once, for what the task did in it |
| Memory (`mm.c`) | frames with reference counts, directories with reference counts, page tables | `alloc_frame`, `free_frame`, `share_cow_page`, `allocate_DIR`, `reuse_DIR`, `free_DIR` | a frame is free if and only if nobody maps it; a shared frame is not writable |
| Heap and page faults (`sys.c`) | `heap_top` | `sys_sbrk`, `pf_rsi` | what is mapped agrees with `heap_top`; a write to a shared page gets a copy |
| User pointers, write, console (`utils.c`, `sys.c`, `io.c`) | cursor | `access_ok`, `copy_from_user`, `sys_write`, `printc` | only the caller's own pages are touched; all bytes are written |
| Entry and start (`entry.S`, `interrupt.c`, `system.c`) | gates, TSS | save, dispatch, `iret`; `main` | handlers are not interrupted; no interrupt before user mode does harm |
| Library, boot loader, image builder, tables | none the kernel reads back | | |

### How they interact

Everything meets in the process table. The handlers of system calls and interrupts call
`update_process_state` or `add_process_to_scheduling` to move tasks between the lists of the
scheduler, of the semaphores and of the keyboard, and `sched_next_rr` to give up the
processor. Semaphores are found from PCBs and PCBs from semaphores. The process table uses
the memory component for directories, and `exit` walks through all of them.

### What is hard about it

* All gates are interrupt gates (`interrupt.c:49-52`), so a handler runs with interrupts
  disabled; it is interleaved with others only where it calls `task_switch`. The state a
  handler read before is old when it goes on: the countdown of keys, the flag of a destroyed
  semaphore, the buffer.
* An interrupt takes the processor from a task that did not ask for anything. That task has
  to be requeued by the handler (`respuestas.txt`, answer 2c, is about an implementation that
  forgets it).
* Between `enable_int` and `return_gate`, `main()` runs with interrupts enabled on the stack
  of a PCB that is in the free queue (`interrupt.c:86-93`). A process in `sys_exit` does the
  same for a while, with interrupts disabled.
* Readers are put in front of the ready queue and in front of the keyboard queue, everybody
  else at the tail.
* A PCB is reused while other PCBs, semaphores or queues could still refer to it.

`PROJECT.json` lists each hazard at its line, with the properties that would catch it.

## 2. The modules

```
ProcessTable      the table and the functions of sched.c, as operators
  Scheduler       EXTENDS it: the processor, clock, fork, clone, exit, set_quantum
    Semaphores    EXTENDS Scheduler; implements SemaphoreService
    Keyboard      EXTENDS Scheduler; implements KeyStream
      Kernel      EXTENDS both: Init, Next, fairness, the properties of the whole
        Accounting   EXTENDS Kernel: the time, and the counters of stats.c
        System       EXTENDS Kernel, with an INSTANCE of Memory: the whole
Memory            frames, page tables, fork, clone, exit, sbrk, page faults;
                  implements AddressSpaces
Lists             the pointers of list.c; implements TaskQueues
Console           printc and its cursor
  Calls           EXTENDS it: arguments of system calls, write, errno, itoa

SemaphoreService, KeyStream, AddressSpaces   abstract: what programs are promised
TaskQueues        abstract: the lists as ProcessTable has them

MCKernel, MCAccounting, MCSystem, MCMemory, MCLists, MCCalls   instances for TLC
ProcessTableProofs   lemmas about the operators of ProcessTable, and about lists
  KernelProofs       the invariants of Kernel and what follows from them
    BlockingProofs     ownership and flags; Semaphores implements SemaphoreService;
                       the buffer, reads and the countdown; Keyboard implements KeyStream
    AccountingProofs   EXTENDS Accounting, too: every tick is counted
    SystemProofs       EXTENDS System, too, with an INSTANCE of MemoryProofs: the whole
MemoryProofs         types, directories, TLB and page tables, for all programs;
                     reference counts and faults; Memory implements AddressSpaces
ListsProofs          the pointers of the lists; Lists implements TaskQueues
CallsProofs          the check of user pointers; what is printed
```

**ProcessTable.** A process table is a record `p`: `current`, `state`, `queue`, `PID`,
`last_PID`, `quantum`, `remaining`, `current_ticks`. A C function that changes it is an
operator from tables to tables under its C name, so that a handler reads like its code:
`sched_next_rr(update_process_state(p, t, "keyboard", TRUE))`. A list is the sequence of the
tasks linked in it, named by a string or, for the list of a semaphore, by the semaphore. The
slots of `tasks[]` are numbered; slot 0 is the idle task and slot 1 the first process, because
`init_idle` and `init_task1` take the first two, and slot 3 is the one whose stack `main()`
borrows. `NULL` as a destination stands for "on the processor", as in the code.

**Scheduler.** The variable `sched` is the process table, and `cont[t]` is the point where
task `t` resumes, the one thing about its kernel stack that matters here. An action is what
the kernel does from an entry, or from the return of a `task_switch`, to `iret` or to the next
`task_switch`. `sched_next_rr` is where the processor changes hands; code after it in the
handlers becomes an action of its own, guarded by `cont[current]`. `sys_exit` is cut in two
or more steps although nothing interrupts it, so that the states in between are seen by the
invariants.

| Action | Code |
|---|---|
| `ReturnGate` | `main`, `system.c:97-102` |
| `ClockTick` | `clock_routine`, `interrupt.c:82` |
| `Spawn` | `sys_fork`, `sys_clone`, `sys.c:62`, `:122` |
| `SysExit`, `ExitSwitch` | `sys_exit` and `free_process`, `sys.c:40`, `sched.c:67` |
| `Nice` | `set_quantum`, `sched.c:221`; the system call is in the binary `libauxjp.a` |
| `SemInit`, `SemWait`, `SemWaitReturn`, `SemSignal`, `SemDestroy`, `ExitDestroySem` | `sys.c:218-320` |
| `KeyboardIrq` | `keyboard_routine`, `keyboard.c:41` |
| `SysRead`, `ReadResume` | `sys_read`, `sys_read_keyboard`, `sys.c:197`, `keyboard.c:87` |

Early returns with an error code change no state and are guards here. A system call may be made
by any task in user mode at any time, with any of the arguments the configuration lists: the
user programs are arbitrary.

**Semaphores.** `sem`, `owned` and `sem_deleted`. A count is a C `int` of `INT_MAX`, and the
conversion of the unsigned initial value and the decrement wrap around as they do on the
machine. **Keyboard.** A key is its number in the order of acceptance, modulo twice the size of
the buffer, so that an overwritten, skipped or repeated key is noticed. Keys that are dropped
because the buffer is full, released keys, and codes beyond the table change nothing and are
stuttering steps. `need[t]` is the local variable `size` of the reader. **Kernel** joins them
and says for each action what the other components do in it: `Spawn`, for instance, also
empties the child's list of semaphores.

**SemaphoreService** and **KeyStream** say what the two components promise, without a scheduler:
a wait takes a unit, or is answered `signalled` in the order of the waits, or `destroyed`, until
it returns; a key is appended to a stream, of which the oldest read in progress takes its part.
`Semaphores` maps the answer of a task from the queue it is in, the point where it resumes and
`sem_deleted`; `Keyboard` maps the reads in progress to the running task, if it is between its
wake-up and its look at the buffer, and the queue behind it.

**Memory.** The state is the code's: `phys_mem` and `cow_count_mem`, the page tables, the counts
of the directories and the stack of the free ones, and for each task its directory and heap.
`content` says what each frame contains, a page being one value. Three things are different:

* A directory and its table are one, as `init_dir_pages` ties each directory to a table for good.
  The page numbers are small: page 0 stands for the kernel's pages, then code, data, a gap and the
  heap, which grows downwards from `PAG_LOG_INIT_HEAP`. `heap[t]` is `HEAP_START - heap_top`.
* The TLB. The processor may hold any entry of the current page table, so what matters is what it
  may hold besides: `tlb` is the set of entries that were in the table, were changed, and have not
  been flushed. A flush empties it and a page fault drops the entries of its page. An access may
  use the page table of `cr3` or any such entry. `cr3` is a variable: it is not always the directory
  of the running task, because a process in `sys_exit` goes on in the one it has just given back.
* Which task runs next, and that a task may be blocked, is left to the other modules: `Switch` goes
  to any task that is alive, also from the end of `sys_exit`, which is the only thing a task without
  a directory can do.

| Action | Code |
|---|---|
| `Write` | a program writes to a page it was given |
| `PageFault` | `pf_handler`, `pf_rsi`, `sys.c:386`; also for mistaken writes to code or to no page, the kernel's in a system call included |
| `SyscallWrites` | what `sys_read` and `sys_get_stats` store where the caller says (`keyboard.c:78`, `sys.c:163`), in any page `access_ok` accepts |
| `Fork`, `Clone`, `Exit` | `sys.c:62`, `:122`, `:40`, with `mm.c:263`, `:298-327` |
| `Sbrk` (`Grow`, `Shrink`) | `sys_sbrk`, `sys.c:322` |
| `Switch` | `inner_task_switch`, `sched.c:82` |

`allocate_DIR`, `reuse_DIR`, `free_DIR`, `share_cow_pages`, `set_cr3` and the operators on frames have
the names they have in `mm.c`.

Loops over frames and pages are one step over a set, because nothing interrupts them and the pages
of one process have different frames. The frames are still taken in the order of `alloc_frame`.
Frames of the code are never counted nor freed, as in the code.

**AddressSpaces** is the abstract specification: memories that belong to processes, in which a
fork copies, a write changes one page, `sbrk` adds pages of any content or removes some, and
the last exit removes all. Only the task that runs (`current`) does any of this, and only to its own
memory, so that a write that lands elsewhere, because cr3 or the TLB is wrong, is no step of it. `Memory` maps the memory of a directory to the contents of the frames
its pages refer to, as far as they are data or heap of one of its tasks.

**System** is the composition: the variables of `Kernel` and of `Memory`, with `Memory`'s `current`
replaced by `running`, the task that runs, or the first process as long as `main()` runs, because
`init_task1` has loaded its directory. Each action is a run of the kernel together with what it does
to the memory:

| Action | Kernel | Memory |
|---|---|---|
| `ForkOrClone` | `Create` | `Fork` or `Clone` of the same PCB |
| `FreeProcess` | `Leave` | `Exit` |
| `Read` | `ReadCall`, `ReadResume` | the keys it takes are written to the reader's memory |
| `Elsewhere` | all others | `Follow` |
| `Alone` | nothing | `UserAccess`, `Sbrk` |

`Follow` is `inner_task_switch`: cr3 is loaded if the task that runs next has another directory.
`MemoryImplemented` says that every behaviour of `System` is one of `Memory`, so that what is checked
of `Memory`, where any task may be scheduled at any time, holds of the system.

**Accounting** adds the time (`get_ticks`) and the counters of each PCB to every action of `Kernel`. A
handler is a chain of the events it reports: `CountTyping`, when it wakes a reader, is `Entered`
(`USER_TO_SYS` of the task that runs), `preempting` (its `SYS_TO_READY`), `BLOCKED_TO_READY` and
`READY_TO_SYS` of the reader, and `leaving` if that goes on in user mode. Time may pass in user mode
and between the entry and the other events of a handler.

**Lists** has the pointers of every list head and anchor. `Move` is `update_process_state` with any
task, list and position, of which the moves of the handlers are a part; the loop of
`sys_sem_destroy` is modelled entry by entry, with its two variables. **TaskQueues** is what the
other modules take the lists for; it EXTENDS `ProcessTable` for its `relink`.

**Console** is `printc` with its cursor. **Calls** has the memory of a program, with small pages and
addresses that wrap, and the system calls with a buffer: `Checked`, `access_ok`, `sys_read`,
`sys_get_stats` and the loop of `sys_write` as functions of the arguments, and the library's side of
them (`Returns` is `UPDATE_ERRNO`). A call that touches a page that is not mapped (`Unmapped`) ends in
`pf_rsi` (`Stops`): the chunks before that are on the screen, with its message, and `halted` says that
nothing happens any more. `Clock` is what the binary `libauxjp.a` does with `printc_xy`.
What a read waits for is left to `Keyboard`.

## 3. The runs

| Run | Instance | States | Properties |
|---|---|---|---|
| `semaphores` | 5 PCBs, 2 semaphores (symmetric) | 392 158 | `WaitersOnlyAtZero`, `OwnerIsAlive`, `FlagMeansDestroyed`, `LivePIDsUnique`, `ServiceImplemented` |
| `kernel` | 4 PCBs, 1 semaphore, 2 keys of buffer, reads of 1 and 3 | 433 831 | `TypeOK`, `LinkedOnce`, `NoLostTask`, `RunningIsUnlinked`, `StateMatchesQueue`, `IdleOnlyWhenNothingReady`, `NoOvertaking`, `BufferInOrder`, `OneReadInProgress`, `ReadersNeverReady`, `CountdownIsOfFirstReader`, `StreamImplemented` |
| `fairness` | 4 PCBs, 1 key of buffer, reads of 1 and 2 | 7 855 | `ReadyTaskRuns`, `ReadEnds` |
| `quantum` | 4 PCBs, 1 key of buffer, quantum of 4 ticks, `set_quantum` to 2 | 59 430 | `RemainingIsExact`, `ReadyTaskRuns` |
| `accounting` | 4 PCBs, 1 semaphore, 1 key of buffer, 1 unit of time, quantum of 2 ticks | 360 216 | `TicksGoWhereSpent` |
| `frames` | 3 PCBs, 1 data page, 2 heap pages of 2 bytes, 4 frames | 178 349 | `MemoryTypeOK`, `RefCountsExact`, `WritableIsPrivate`, `TLBCoherent`, `StopsOnlyForMemory` |
| `isolation` | 3 PCBs, threads, 1 data and 1 heap page, 4 frames, 2 values, system calls that write | 164 960 | `DirectoryCountsExact`, `OneHeapPerProcess`, `Isolation` |
| `stale` | heaps of 2 pages | | `NoForeignPages` is violated |
| `kernel_writes` | system calls that write to shared pages | | `Isolation` is violated |
| `lists` | 4 PCBs, 3 lists of the kernel and 1 of a semaphore | 3 599 | `LinksAgree`, `ListsAreSequences` |
| `calls` | 10 pages of 4 bytes, of which some are not mapped, chunks of 3, a screen of 3 by 2, 2 calls | 24 765 | `WriteShowsBuffer`, `GoodBlocksAccepted`, `KernelStaysUntouched`, `ScreenShowsText` |
| `system` | 4 PCBs, threads, 1 key of buffer, 1 data page, 4 frames | 185 574 | `FreeTasksHaveDirectories`, `AddressSpaceWhileUsed`, `FramesAreCounted`, `MemoryImplemented` |

The modules document each property where they define it. Every property of a passing run is
also run against a mutant, a plausible mistake in one function of the code; the mutants stand in
front of the definition they replace ("A mistake: ...").

**Bounds.** `MaxPID` stops the creation of processes after `MaxPID - 2` of them; without it
`last_PID` grows for ever. Four PCBs are the idle task, the first process and two more, the
least number that puts somebody behind somebody else in a queue while a third runs; the fifth
PCB of `semaphores` adds a third process besides the first, so that a queue of two can meet a
running process and a reused PCB. `MaxCount` bounds the count of a semaphore and
`INT_MAX` stands for the largest `int`. The buffer of two keys and reads of three make a read
go through a full buffer, a wrap and a second sleep. `remaining_to_read` is cut off at -1: the
code compares it with 0 only.

In `Memory`, the idle task and two processes give counts of 1 and 2, and `system`, with a third
process, counts of 3 and a fork of a fork. Four frames that can be allocated, of which the first
process takes two, are enough for some copies and not for all, so that every path runs out of
frames. Pages of two bytes tell growth within a page from growth by a page. `HEAP_START + 1` is an
increment below address 0.

`accounting` bounds the time at one unit (`MaxTicks`): each step is checked for the counter that unit
goes to, and every handler is reached both before and after it. In `quantum` a task has used from
none to three of its four ticks when it blocks in a read, is preempted by a key, forks, exits or calls
`set_quantum`; two is then a quantum below the ticks already used, equal to them, or above them. With
quanta that long, two processes are as many as its liveness property takes; `fairness` has three,
with quanta of one tick and no `set_quantum`.
`lists` has every order of four tasks in four
lists, and the state space has no other bound. `calls` has page 0, which is not mapped,
one page of the kernel, one of code, two of data, one that never is mapped, two of heap, which are
mapped or not, and two more that never are. Its buffers are NULL and another one in page 0, and in the
kernel, in the data up to its last page, and in the heap; its sizes are negative, 0, one chunk, two,
one that does not fit, so that the last chunk ends in the data or behind it, and one that runs through
pages of all kinds, or wraps around the addresses. `StatsSize` is larger than a page, as a block of
`get_stats` may lie across one. Two calls make a call on the screen and in the `errno` another one left
(`MaxCalls`).

The passing runs of `Memory` assume three things about programs, because others show what happens
without: they access the pages they were given, the code, and pages that are not mapped, but not
those an earlier process left mapped (`stale`); they pass to system calls only pages of their own
that they have written to since the last fork (`TouchFirst`; nothing in the code makes them, and
`access_ok` accepts more; see `kernel_writes`); and where reference counts and the end of a
fault are checked they do not both create threads and call `sbrk`, which do not go together
(section 4; the author says so in `respuestas.txt:21`): `frames` has no threads and `system` no
`sbrk`. `system` has one value per page and speaks of counts and directories only, so that it need
not assume the second.

**Symmetry** is used in `semaphores` only, for the names of semaphores in safety properties.
Tasks are not symmetric: they are numbers, and allocation takes the first free slot.

**Deadlock** is checked in the runs of `Kernel`, `Accounting` and `Lists`, which never stop. In those
of `Memory`, `System` and `Calls` it is not, because `pf_rsi` may loop for ever with interrupts
disabled.

**Fairness.** `FairSpec` assumes weak fairness of `Boot`, `Clock` and `Resume`. The processor
goes on executing the kernel (`Boot`, `Resume`), and in user mode the timer keeps interrupting
(`Clock`). No fairness is assumed of system calls or keys: programs need not call anything, and
`ReadyTaskRuns` holds whatever they do. `ReadEnds` needs somebody who goes on typing, and says so
itself: it assumes weak fairness of `Typing`. Typing is enabled whenever interrupts are and
the buffer is not full, so it can be disabled again and again by a full buffer, but while a
reader sleeps the buffer is not full (`CountdownIsOfFirstReader`).

`IdleOnlyWhenNothingReady` has a consequence for the code: the first clause of `needs_sched_rr`
(`sched.c:167`) never decides anything, because whoever makes a task ready while the idle task
runs switches to it at once.

## 4. What the code does that its texts do not say

* `stale`: `free_user_pages` walks the heap in the wrong direction when it clears the page table
  (`mm.c:236`). After the exit of a process with two pages of heap, the next process with that
  directory has a page it did not ask for, to a frame that is free or somebody else's, and its
  `sbrk` says `ENOMEM`.
* `kernel_writes`: `cr0.WP` is not set (`mm.c:130`), so what system calls store in a page shared
  since `fork` is stored for father and child.

Noticed while translating, without a run:

* `sys_sem_init` tests an unsigned for being negative (`sys.c:223`), so `sem_init(n, -1)` makes a
  semaphore with the count -1, on which nobody blocks (`Semaphores!ToInt`; `ServiceIsImplemented`
  takes initial values up to `INT_MAX`).
* `copy_from_user` "devuelve 0 si ok y -1 si error" (`utils.c:23`), and `sys_write` tests that error
  (`sys.c:191`), but it always returns 0 (`utils.c:39`), and `sys_write` does not call `access_ok`. A
  write of a buffer that is not mapped faults in the kernel, and `pf_rsi` prints a message and loops
  for ever (the last part of `WriteShowsBuffer`).

* `sbrk` of a few bytes, within the last page of the heap, returns the byte below the heap
  (`sys.c:379`), although the comment at `sys.c:367` has the first writeable byte in mind.
* A write of more than `CHUNK_SIZE` bytes whose size is not a multiple of it prints up to
  `CHUNK_SIZE - 1` bytes of what follows the buffer (`sys.c:186`), and returns the size asked for; if
  what follows is not mapped, the machine stops, though the buffer was good. `WriteShowsBuffer` says
  what is left of the promise.
* In `access_ok` the case of `VERIFY_WRITE` falls through to that of `VERIFY_READ`
  (`utils.c:83-84`), so that the code is accepted as a place to write to, against the comment at
  `utils.c:79`. The heap is compared with the first page of a block only, and one page below it is
  accepted; so is the page behind the data. What a program passes there is stored in frames all
  processes share (`Memory!KernelWrites`), or stops the machine, if no page is there.
* `sys_clone` checks the word at the address it gets for the stack (`sys.c:123`) and writes to the
  one below it (`sys.c:136`), which may be in the page below, also one of the kernel (`Memory!Clone`).
* `itoa` of a negative number writes an empty string (`libc.c:53`). perror says "Address is null"
  for every `EFAULT` (`libc.c:27`).
* `remaining_to_read` is decremented for every key while readers that were not served yet are
  queued (`keyboard.c:54`); nothing stops it before it underflows after 2^31 of them.
* The idle task's counters are left out because `keyboard_routine` reports nothing for an idle task
  it preempts (`keyboard.c:55`), so they are not meant to be right. `pf_handler` reports no entry
  (`entry.S:120`): the time of a page fault counts as the user's. So does, for the first process, what
  `main()` does after `init_task1`.
* perror's text for `EINVAL`, "Buffer size is equal or less than 0" (`libc.c:24`), is not what
  `sys_read` tests, `size < 0` (`sys.c:205`). A read of 0 bytes may sleep behind the reader that
  is being served until a key is typed.
* A thread does not inherit `heap_top` (`sched.c:56`), so `access_ok` in the page fault handler
  does not know the heap of its process, and a thread that writes to a second heap page after a
  fork stops the machine. A thread that has the heap and exits before the last one leaves its
  frames allocated for ever.
* A copy on write that finds no frame stops the machine (`sys.c:401`), although `exit` of another
  process could free one.

## 5. The proofs

The theorems hold for every number of tasks, semaphores, buffer slots, pages and frames, and for
every bound. They rest on the named assumptions about the constants (`TasksAssumption` and its like,
which TLC evaluates on the runs) and, where the table says so, on a hypothesis about programs or
sizes which the code does not enforce.

| Theorem | Says | Takes |
|---|---|---|
| **KernelProofs** `TypeCorrect` | `Spec => []TypeOK` | |
| `ListsStayIntact` | `LinkedOnce` | |
| `NobodyIsLost` | `NoLostTask` | |
| `RunningStaysUnlinked` | `RunningIsUnlinked` | |
| `StatesAreRight` | `StateMatchesQueue` | |
| `IdleIsLast` | `IdleOnlyWhenNothingReady` | |
| `NoWakeupIsLost` | `WaitersOnlyAtZero` | |
| `PIDsStayUnique` | `LivePIDsUnique` | |
| `QuantumIsExact` | `RemainingIsExact` | |
| `ReadersAreNeverReady` | `ReadersNeverReady` | |
| `NobodyOvertakes` | `NoOvertaking`, an action property | |
| **BlockingProofs** `OwnersAreAlive` | `OwnerIsAlive` | |
| `FlagsMeanDestroyed` | `FlagMeansDestroyed` | |
| `ServiceIsImplemented` | `ServiceImplemented`, a refinement | initial values up to `INT_MAX` (section 4) |
| `KeysStayInOrder` | `BufferInOrder` | |
| `ReadsDoNotMix` | `OneReadInProgress` | |
| `CountdownIsRight` | `CountdownIsOfFirstReader` | no reads of 0 bytes; more than one slot |
| `StreamIsImplemented` | `StreamImplemented`, a refinement | |
| **AccountingProofs** `TimeIsAccounted` | `TicksGoWhereSpent`, an action property | |
| **ListsProofs** `ListsAreLinked` | `LinksAgree` | |
| `ListsImplementQueues` | `ListsAreSequences`, a refinement | |
| **MemoryProofs** `MemoryTypeCorrect` | `MemoryTypeOK` | |
| `DirectoriesAreCounted` | `DirectoryCountsExact` | |
| `NoStaleTranslation` | `TLBCoherent` | |
| `OneThreadHasTheHeap` | `OneHeapPerProcess` | |
| `FramesAreCountedExactly` | `RefCountsExact` | at most 128 tasks; not both threads and `sbrk` |
| `WritersAreAlone` | `WritableIsPrivate` | the same |
| `FaultsEndWell` | `StopsOnlyForMemory`, an action property | the same |
| `ProcessesAreIsolated` | `Isolation`, a refinement | the same; `TouchFirst`: programs pass to system calls only pages of their own that they have written to since the last fork (see `kernel_writes`) |
| **CallsProofs** `GoodBlocksPass` | `GoodBlocksAccepted` | |
| `KernelIsUntouched` | `KernelStaysUntouched` | |
| `WritesAreWhole` | `WriteShowsBuffer` | |
| `NumbersAreRead` | `NumbersReadBack`: the digits of `itoa` are those of the number | |
| `TextFillsScreen` | `ScreenShowsText`, an action property | |
| **SystemProofs** `KernelInSystem` | `SystemSpec => Spec`: all of the first four modules | |
| `MemoryIsImplemented` | `MemoryImplemented`, a refinement | |
| `TasksHaveAddressSpaces` | `AddressSpaceWhileUsed` | |
| `DirectoryForEveryTask` | `FreeTasksHaveDirectories` | |
| `FramesCounted` | `FramesAreCounted` | at most 128 tasks; not both threads and `sbrk` |

**The process table.** None of the properties is inductive alone: that the running task is in no
list depends on every other task being in one, on the states, and on who may be resumed where.
`Inv` describes the whole table by the situation it is in:

* `cont[current] = "boot"`: the table is still `InitialTable`. The keyboard queue is empty, so
  no key wakes anybody, and the state of the PCB `main()` borrows is `ST_INVALID`, so the guard
  of `clock_routine` holds the clock off.
* `cont[current] = "exit"`: the table is `Parked`, every task but the idle one is in a list, and
  the running one in the free queue.
* otherwise it is `Running`: the same, except for the running task, which is in none.

`RunningParks`, `ParkedMoves` and `SwitchRuns` (`ProcessTableProofs`) are the heart of it: a
handler that gives up the processor first moves the running task into a list, which takes a
`Running` table to a `Parked` one, may then move others, and calls `sched_next_rr`, which takes
a `Parked` table to a `Running` one. `Inv` adds that only the running task can be in `main()`
or in an exit, that the idle task is never in the middle of a system call, the types, and
`WaitersOnlyAtZero`. The last is needed because `sys_sem_init` empties the list of waiters: only
the fact that a semaphore nobody uses has no waiters makes that harmless for `NoLostTask`. The
lemmas about lists go down to what `RemoveFirst`, `\o` and `Append` do to the members of a
sequence.

**Effects.** With `Inv`, a run of the kernel does one of a dozen things to the table (`KernelStep`,
`StepEffect`): the first ready task takes the place of the running one, a key puts a reader in
front, a task sleeps, the first waiter or all of them become ready, a PCB is taken or given back.
`ProcessInv` is proved once per effect: where the tasks of each list resume (`Resumption`), the
PIDs of the living against `last_PID`, and the ticks of the running task. `NoOvertaking` is proved
from the same effects. The semaphores add to it that the two sides of ownership agree and that the
owner lives (`Ownership`), and where a task with the flag is on its way to (`Flags`); the keyboard
that the slots of the buffer hold the last accepted keys (`BufferInOrder`, with its arithmetic
modulo the two sizes) and who is in the middle of a read (`OneRead`). `ServiceIsImplemented` maps
each effect to a step of `SemaphoreService`: a signal to the answer of the first waiter, a destroy
to that of all, an exit to the same semaphore by semaphore. `StreamIsImplemented` does so with
`ReaderStep`: a key is typed whether or not it wakes a reader, who stays the first of the reads in
progress when it leaves the queue for the processor; a read that looks at the buffer is served as
the first of them, or as the only one; all else is a stutter.

**Lists.** That `next` and `prev` agree says nothing about which list an entry is in, and would not
survive the loop of `sys_sem_destroy`. `ListsInv` has two witnesses, the owner of each entry and its
rank between its neighbours, which show that the pointers that start at a head lead back to it, and
where the two variables of the loop are (`InLoop`). A move takes new witnesses from the old ones.

`ListsImplementQueues` adds a third witness, the sequence of each list (`Holds`): no task is twice
in them, the pointers of each list go through its sequence and back to its head, and who is linked
is in one. `DeleteHolds` and `InsertHolds` say that `list_del` and `__list_add` take one place out
of such a chain and put one in (`Without`), and `Relinked` that these are the places at which
`relink` of `ProcessTable` changes the sequences, whose `RemoveFirst`, `\o` and `Append` are those
of `ProcessTableProofs`. That the sequence is what `Tasks` finds by following the pointers
(`TasksAre`) is an induction along the chain, which is no longer than there are tasks because its
entries differ. The loop stands on the first entry of the list it empties (`AtFirst`): what it has
read before it moved that entry is the first one after (`LoopAdvances`), so each round is a `Wake`
of `TaskQueues`, and it is back at the head when nobody is left.

**Accounting.** The counters of a process lag behind: what it did since its last event is in none of
them. `Report` is what they would say if an event were reported now. An event of the kind that fits
what the process does leaves its `Report` alone (`ChargeIs`), and time changes one counter of it. So
a handler is right if, for every task, the events it reports lead from what the task did before to
what it does after (`Fits`). Both are known from the state of the PCB and the running task
(`Switches`, what the functions of `sched.c` do to the states), so each handler is one lemma
(`ClockFits`, `TypingFits`, `WaitFits`, `LeaveFits`, ...): the chain of its events, one after the
other. `FitsAccounts` draws the conclusion for any amount of time in between. `Inv` and `ProcessInv`
of the kernel are needed for which tasks there are, where they resume, and who is ready.

**Memory.** `DirInv` (the counts are numbers of tasks, the free directories distinct, the idle task's
directory its own) and `TLBCoherent` hold for all programs, and so does `SpaceInv`: a living
process has the pages it was given in its table, in frames of programs, and of its threads one at
most a heap. `FramesInv` describes a frame by the set of pages that refer to it and those of them
that may be written (`Sound`): all are the same page of their processes, so that there are no more
of them than tasks; the count is their number, 0 or 1 if that is 1; and one may be written only if
it is alone. Each operation is proved to keep this for the frames it touches, by adding or
removing one reference. That is where the hypotheses come from: the count is a byte that
`free_frame` reads as a signed char (`NR_TASKS <= 128`), and a thread that leaves with a heap does
not give it back. `ProcessesAreIsolated` then has every step change the memory of the process that runs,
as `AddressSpaces` says: cr3 is its directory and the TLB holds nothing else (`OneTranslation`), and who
may write a frame is alone with it (`OnlyWriter`). That a task gets the processor only if it has a
memory is `TasksDispatched`.

**Pointers.** `LastChecked` relates the record of a call to what `access_ok` said of its block. The
rest is arithmetic of pages. A block in the data or in the heap cannot wrap, or it would contain
page 0, and the byte after it is on the page after the last at most, which `access_ok` allows. A
block that wraps is less than half of the addresses long (`SizeAssumption`: a size is an `int`), so
it ends on a page before its first, and is refused; any other is above its first page.

**What is printed.** The loop of `sys_write`, `itoa` and a text on the screen are recursive functions
over their input. `Recursion` says that such a function exists, `Induction` and `StrongInduction` that
a set of numbers which holds 0 and the successor of each of its members, or each number below which
it holds all, is the set of all numbers; both follow from the well-foundedness of the numbers. With
them, `TextIsShown` follows the cursor through a text, over the end of the screen, `PrintedText` adds
the chunks of a write, and `ItoaReads` shows that the digits, which come out last to first and are
turned round, read back as the number. `LastPrinted` ties them to the record of the last call. They
rest on `PrintingAssumption`: the clock's cell is on the screen, the messages of `perror` end, and
those of `pf_rsi` are texts. A write that meets a byte that is not there (`StoppedWrite`) has printed
the chunks before the one with the first such byte: `ChunkStart` finds where that chunk begins, which
is before the end of the buffer, because only the last chunk goes beyond.

**The system.** `SystemInv` is the invariants of both and `Coupled`: a PCB has a directory if and only
if it is not in the free queue. It shows that whoever gets the processor after a run of the kernel
has an address space (`RunsOn`, from the effects), so that the switch is one `Memory` allows, and
vice versa the kernel's part of a fork or an exit keeps `Coupled`. `System` has the memory as one
instance of `Memory` and the proofs have it as another, of `MemoryProofs`; `SameMemory` says that
the two are equal. That free PCBs find directories is then a matter of counting: the tasks that are
alive use at most as many directories as they are.

**Only model-checked**: liveness, `ReadyTaskRuns` and `ReadEnds`, because the prover has no rules for
fairness and ENABLED. All other properties the passing runs check are stated by a theorem;
what `itoa` writes (`NumbersReadBack`) is proved, and no run checks it. Induction
is over sets of numbers throughout: the library's induction theorems take an operator as a parameter,
which the provers cannot instantiate, but that every set of numbers that is not empty has a smallest
one (`WFMin`) takes none.

## 6. What is not modelled, and the plan

The plan was the kernel on one process table first, then the memory below it and the whole of both,
then the lists, the accounting and the calls, each with its runs before its proofs. It is carried
out. What is left is what the prover cannot do (liveness), and what is left out of the proofs by
their hypotheses: threads together with `sbrk`, where the code is not right (section 4), and reads
of 0 bytes in `CountdownIsRight`.

Not modelled:

* the boot loader and the image builder, the descriptor tables and the TSS: written once, before
  there is anything to interleave with;
* the register saving of `entry.S`, the kernel stacks and the dispatch table: a task's kernel stack is
  the point where it resumes;
* the wrappers of `libc.S` besides those of `write`, `read` and `get_stats`, which differ in the
  registers they load; the test program `user.c`, one of the arbitrary programs of the models;
* `char_map`, colours, and the port each character is copied to;
* `total_trans`, and the counters of the idle task;
* the binary `libauxjp.a`, except for `set_quantum` being called at any time (`Nice`) and the clock
  being shown (`Clock`).
