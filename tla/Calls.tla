-------------------------------- MODULE Calls --------------------------------
(***************************************************************************)
(* What the system calls that take a buffer do with the arguments of a     *)
(* program (sys.c, utils.c), and the functions of libc.c that print: the   *)
(* checks in their order, the chunks of a write, the errors, the numbers   *)
(* of itoa.  Interrupts are disabled in the kernel, so that a call is one  *)
(* step; how a read waits for its keys is in Keyboard.                     *)
(*                                                                         *)
(* Addresses are numbers below ADDRESSES, and wrap as they do in the code. *)
(* The calls touch the memory of the program where it says.  On a page     *)
(* that is not mapped they fault in the kernel, and do not come back.      *)
(***************************************************************************)
EXTENDS Console, SequencesExt

CONSTANTS
  ADDRESSES,             \* 2^32
  PAGE_SIZE,
  USER_FIRST_PAGE, NUM_PAG_CODE, NUM_PAG_DATA, PAG_LOG_INIT_HEAP,
  KernelPages,           \* those below USER_FIRST_PAGE that are mapped; page 0 is not
  CHUNK_SIZE,            \* bytes write copies at a time
  StatsSize,             \* sizeof(struct stats)
  memory,                \* the character at each address; 0 ends a string
  error_message,         \* where perror's message for an errno starts
  pf_message,            \* what pf_rsi prints before it stops the machine
  ClockCell, ClockFaces, \* where the clock is shown, and what it may show
  Buffers, Sizes, Descriptors, Numbers, HeapPages,    \* arguments of programs
  MaxCalls               \* bound: calls programs make

DataEnd == USER_FIRST_PAGE + NUM_PAG_CODE + NUM_PAG_DATA

ASSUME CallsAssumption ==
  /\ ADDRESSES \in Nat /\ PAGE_SIZE \in Nat \ {0} /\ ADDRESSES % PAGE_SIZE = 0
  /\ {USER_FIRST_PAGE, NUM_PAG_CODE, NUM_PAG_DATA, PAG_LOG_INIT_HEAP, CHUNK_SIZE, StatsSize}
       \subseteq Nat \ {0}
  /\ KernelPages \subseteq 1 .. USER_FIRST_PAGE - 1
  /\ DataEnd < PAG_LOG_INIT_HEAP /\ (PAG_LOG_INIT_HEAP + 1) * PAGE_SIZE < ADDRESSES
  /\ Buffers \subseteq 0 .. ADDRESSES - 1 /\ Sizes \subseteq Int /\ Numbers \subseteq Int
  /\ HeapPages \subseteq 0 .. PAG_LOG_INIT_HEAP - DataEnd
  /\ MaxCalls \in Nat

\* A size is an int, half of which are negative.
ASSUME SizeAssumption == \A size \in Sizes \cup {StatsSize} : 2 * size < ADDRESSES

ESRCH  == 3
EBADF  == 9
EFAULT == 14
EINVAL == 22
NULL   == 0

\* The clock has a cell of the screen, every message of perror is a string in memory, and those
\* of pf_rsi are texts.
ASSUME PrintingAssumption ==
  /\ ClockCell \in Cell
  /\ \A e \in {0, ESRCH, EBADF, EFAULT, EINVAL} :
       /\ error_message[e] \in 0 .. ADDRESSES - 1
       /\ \E a \in error_message[e] .. ADDRESSES - 1 : memory[a] = 0
  /\ \A why \in {"WRONG ACCESS", "KERNEL PANIC"} : pf_message[why] \in Seq(0 .. 255)

VARIABLES
  console,
  errno,
  last,          \* the last call of a program: its arguments, what it returned and printed
  calls,         \* number of calls
  halted         \* why pf_rsi stopped the machine for good

vars == <<console, errno, last, calls, halted>>

-----------------------------------------------------------------------------
(* access_ok *)

PageOf(addr) == (addr % ADDRESSES) \div PAGE_SIZE

\* A mistake: do not look whether the end of the block has wrapped.
IsOverflow_Ignored(ini, fin) == FALSE

IsOverflow(ini, fin) == fin < ini

\* A mistake: count the page of the byte after the block to the block.
EndsInData_Strict(fin) == fin < DataEnd

EndsInData(fin) == fin <= DataEnd

\* Only the first page is compared with the heap.  VERIFY_WRITE has no break: a block it
\* refuses is accepted all the same where VERIFY_READ accepts it.
access_ok(type, addr, size, heap_pages) ==
  LET ini == PageOf(addr)
      fin == PageOf(addr + size)
  IN  /\ ~IsOverflow(ini, fin)
      /\ \/ /\ type = "VERIFY_WRITE"
            /\ ini >= USER_FIRST_PAGE + NUM_PAG_CODE
            /\ EndsInData(fin)
         \/ ini >= USER_FIRST_PAGE /\ EndsInData(fin)
         \/ ini \in PAG_LOG_INIT_HEAP - heap_pages .. PAG_LOG_INIT_HEAP

-----------------------------------------------------------------------------
(* Pages that are not mapped *)

\* The pages in the table of a process with so many pages of heap.
Mapped(heap_pages) ==
  KernelPages \cup USER_FIRST_PAGE .. DataEnd - 1
              \cup PAG_LOG_INIT_HEAP - heap_pages + 1 .. PAG_LOG_INIT_HEAP

\* The bytes of a block that are on no page, by their offsets.
Unmapped(addr, size, heap_pages) ==
  {i \in 0 .. size - 1 : PageOf(addr + i) \notin Mapped(heap_pages)}

\* Where pf_rsi ends for a byte on no page.  The frame in the empty entry is 0, whose count is 0.
pf_rsi(addr, heap_pages) ==
  IF access_ok("VERIFY_WRITE", addr, 1, heap_pages) THEN "KERNEL PANIC" ELSE "WRONG ACCESS"

-----------------------------------------------------------------------------
(* The system calls: what they return, and what they print. *)

\* The characters copy_from_user gets.
Text(addr, size) == [i \in 1 .. size |-> memory[(addr + i - 1) % ADDRESSES]]

\* A mistake: copy every chunk from the start of the buffer.
Chunk_First(buffer, offset, size) == Text(buffer, size)

Chunk(buffer, offset, size) == Text(buffer + offset, size)

MoveSize(size) == IF size < CHUNK_SIZE THEN size ELSE CHUNK_SIZE

\* The loop of sys_write, if every byte is there: the last chunk is as long as the others.
Printed(buffer, size) ==
  LET move_size == MoveSize(size)
      from[offset \in 0 .. size + CHUNK_SIZE] ==
        IF offset >= size THEN <<>>
        ELSE Chunk(buffer, offset, move_size) \o from[offset + move_size]
  IN  from[0]

check_fd(fd, good) == fd = good

\* The result of sys_write or sys_read, whose descriptor is good.
Checked(fd, good, buffer, size) ==
  CASE ~check_fd(fd, good)                              -> -EBADF
    [] check_fd(fd, good) /\ buffer = NULL              -> -EFAULT
    [] check_fd(fd, good) /\ buffer # NULL /\ size < 0  -> -EINVAL
    [] OTHER                                            -> size

sys_read(fd, buffer, size, heap_pages) ==
  LET result == Checked(fd, 0, buffer, size)
  IN  IF result >= 0 /\ ~access_ok("VERIFY_WRITE", buffer, size, heap_pages)
      THEN -EFAULT ELSE result

\* found: the PID is that of a task that is not free.
sys_get_stats(pid, st, heap_pages, found) ==
  CASE pid < 0 -> -EINVAL
    [] pid >= 0 /\ (st = NULL \/ ~access_ok("VERIFY_WRITE", st, StatsSize, heap_pages)) -> -EFAULT
    [] OTHER   -> IF found THEN 0 ELSE -ESRCH

-----------------------------------------------------------------------------
(* libc *)

\* The record of a call: result is what its checks, and what follows them, come to.
Called(call, buffer, size, heap_pages, result, printed) ==
  /\ calls < MaxCalls
  /\ calls' = calls + 1
  /\ last' = [call |-> call, buffer |-> buffer, size |-> size, heap_pages |-> heap_pages,
              result |-> result, printed |-> printed]
  /\ console' = print(console, printed)

\* UPDATE_ERRNO.  The program gets -1 for a negative result.
Returns(call, buffer, size, heap_pages, result, printed) ==
  /\ Called(call, buffer, size, heap_pages, result, printed)
  /\ errno' = IF result < 0 THEN -result ELSE errno
  /\ UNCHANGED halted

\* The kernel faults at addr, and loops with interrupts disabled.
Stops(call, buffer, size, heap_pages, result, printed, addr) ==
  LET why == pf_rsi(addr, heap_pages)
  IN  /\ Called(call, buffer, size, heap_pages, result, printed \o pf_message[why])
      /\ halted' = why
      /\ UNCHANGED errno

\* A chunk with a byte that is not there is not printed.
Write(fd, buffer, size, heap_pages) ==
  LET result  == Checked(fd, 1, buffer, size)
      printed == Printed(buffer, size)
      bad     == Unmapped(buffer, Len(printed), heap_pages)
  IN  \/ result < 0 /\ Returns("write", buffer, size, heap_pages, result, <<>>)
      \/ result >= 0 /\ bad = {} /\ Returns("write", buffer, size, heap_pages, result, printed)
      \/ /\ result >= 0 /\ bad # {}
         /\ Stops("write", buffer, size, heap_pages, result,
                  SubSeq(printed, 1, Min(bad) - (Min(bad) % MoveSize(size))), buffer + Min(bad))

\* A call that stores something in each byte of a block.
Stores(call, buffer, size, heap_pages, result) ==
  LET bad == Unmapped(buffer, size, heap_pages)
  IN  \/ (result < 0 \/ bad = {}) /\ Returns(call, buffer, size, heap_pages, result, <<>>)
      \/ /\ result >= 0 /\ bad # {}
         /\ Stops(call, buffer, size, heap_pages, result, <<>>, buffer + Min(bad))

Read(fd, buffer, size, heap_pages) ==
  Stores("read", buffer, size, heap_pages, sys_read(fd, buffer, size, heap_pages))

GetStats(pid, st, heap_pages) ==
  \E found \in BOOLEAN :
    Stores("get_stats", st, StatsSize, heap_pages, sys_get_stats(pid, st, heap_pages, found))

strlen(addr) ==
  CHOOSE n \in 0 .. ADDRESSES - 1 - addr : memory[addr + n] = 0 /\ \A i \in 0 .. n - 1 : memory[addr + i] # 0

perror(heap_pages) == Write(1, error_message[errno], strlen(error_message[errno]), heap_pages)

\* How many digits itoa swaps with their mirror images.
Swaps(i) == i \div 2

LowFirst[a \in Nat] == IF a = 0 THEN <<>> ELSE <<48 + (a % 10)>> \o LowFirst[a \div 10]

\* Nothing for a negative number.
itoa(a) ==
  LET b == IF a = 0 THEN <<48>> ELSE IF a < 0 THEN <<>> ELSE LowFirst[a]
      swapped[i1 \in 0 .. Len(b)] ==
        IF i1 = 0 THEN b
        ELSE [swapped[i1 - 1] EXCEPT ![i1] = swapped[i1 - 1][Len(b) - i1 + 1],
                                     ![Len(b) - i1 + 1] = swapped[i1 - 1][i1]]
  IN  swapped[Swaps(Len(b))]

\* A program prints a number in a buffer of its own.
Number(a) ==
  /\ Len(itoa(a)) <= CHUNK_SIZE
  /\ Returns("number", NULL, a, 0, Len(itoa(a)), itoa(a))

\* zeos_show_clock, between two calls.
Clock ==
  \E face \in ClockFaces :
    /\ console' = printc_xy(console, ClockCell[1], ClockCell[2], face)
    /\ UNCHANGED <<errno, last, calls, halted>>

Init ==
  /\ console \in [x : {0}, y : 0 .. NUM_ROWS - 1, screen : {[cell \in Cell |-> 32]}]
  /\ errno = 0
  /\ last = [call |-> "none", printed |-> <<>>]
  /\ calls = 0
  /\ halted = "no"

Call ==
  \/ \E fd \in Descriptors, buffer \in Buffers, size \in Sizes, heap_pages \in HeapPages :
       Write(fd, buffer, size, heap_pages) \/ Read(fd, buffer, size, heap_pages)
  \/ \E pid \in {-1, 1}, st \in Buffers, heap_pages \in HeapPages : GetStats(pid, st, heap_pages)
  \/ \E heap_pages \in HeapPages : perror(heap_pages)
  \/ \E a \in Numbers : Number(a)

Next == halted = "no" /\ (Call \/ Clock)

Spec == Init /\ [][Next]_vars

-----------------------------------------------------------------------------
(* Properties *)

\* The loop of sys_write reads no more than it was asked for.
Fits(size) == size <= CHUNK_SIZE \/ size % CHUNK_SIZE = 0

\* A write that returns has printed what the program asked for, in order, across any chunks
\* (sys.c:185), all of it in memory that is there; when the size is not a multiple of the chunk,
\* and larger, it goes on with less than a chunk of what follows (sys.c:186), and never more.
\* A write that does not return has printed some whole chunks of that and what pf_rsi has to
\* say: it stops at a byte that is not there, before the end of the buffer or, if the size
\* does not fit, in the chunk that goes beyond.  A write that fails prints nothing.
WriteShowsBuffer ==
  LET asked == Text(last.buffer, last.size)
  IN  last.call = "write" =>
        /\ last.result < 0 => last.printed = <<>> /\ halted = "no"
        /\ last.result >= 0 /\ halted = "no" =>
             /\ IsPrefix(asked, last.printed)
             /\ Len(last.printed) < last.size + CHUNK_SIZE
             /\ Fits(last.size) => last.printed = asked
             /\ Unmapped(last.buffer, last.size, last.heap_pages) = {}
        /\ last.result >= 0 /\ halted # "no" =>
             \E n \in 0 .. last.size - 1 :
               /\ last.printed = Text(last.buffer, n) \o pf_message[halted]
               /\ n % CHUNK_SIZE = 0
               /\ Unmapped(last.buffer + n, IF Fits(last.size) THEN last.size - n ELSE CHUNK_SIZE,
                           last.heap_pages) # {}

\* What is printed fills the screen row by row from the cursor on (io.c:26); the clock, which
\* moves the cursor and puts it back (io.c:42), changes its own cell and nothing else, even in
\* the last column.
ScreenShowsText ==
  [][IF calls' = calls
     THEN /\ Position(console') = Position(console)
          /\ \A cell \in Cell \ {ClockCell} : console'.screen[cell] = console.screen[cell]
     ELSE Shows(console, last'.printed, console')]_vars

Bytes == {(last.buffer + i) % ADDRESSES : i \in 0 .. last.size - 1}
Pages == {PageOf(b) : b \in Bytes}

\* A block that lies in the data of the program, or in its heap, is one the kernel writes to:
\* access_ok refuses only what is "definitely invalid" (utils.c:67), although it works with the
\* page of the byte after the block; and the kernel finds all of it.
GoodBlocksAccepted ==
  /\ last.call \in {"read", "get_stats"} /\ last.buffer # NULL /\ last.size > 0
  /\ \/ Pages \subseteq USER_FIRST_PAGE + NUM_PAG_CODE .. DataEnd - 1
     \/ Pages \subseteq PAG_LOG_INIT_HEAP - last.heap_pages + 1 .. PAG_LOG_INIT_HEAP
  => last.result # -EFAULT /\ halted = "no"

\* A block the kernel accepts to write to has no byte in the kernel's pages, wherever it ends
\* and even if it wraps around the end of the addresses (utils.c:74).
KernelStaysUntouched ==
  last.call \in {"read", "get_stats"} /\ last.result >= 0
    => \A p \in Pages : p >= USER_FIRST_PAGE

\* The digits of itoa are those of the number, the first one not 0 (libc.c:42); it writes no
\* digits for a negative number.
NumbersReadBack ==
  last.call = "number" =>
    LET digits == last.printed
        value[i \in 0 .. Len(digits)] ==
          IF i = 0 THEN 0 ELSE 10 * value[i - 1] + digits[i] - 48
    IN  IF last.size < 0 THEN digits = <<>>
        ELSE /\ value[Len(digits)] = last.size
             /\ Len(digits) > 1 => digits[1] # 48
=============================================================================
