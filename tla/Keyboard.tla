------------------------------ MODULE Keyboard ------------------------------
(***************************************************************************)
(* keyboard.c: the circular buffer of typed keys, its interrupt, and the   *)
(* blocking read.  The first task of the keyboard queue is the one being   *)
(* served; remaining_to_read counts down the keys it still waits for.      *)
(*                                                                         *)
(* A key is its number in the order the buffer accepted it, modulo Keys.   *)
(***************************************************************************)
EXTENDS Scheduler

CONSTANTS
  KEYBOARD_BUFFER_SIZE,   \* slots of the buffer; it is full with one less
  ReadSizes               \* sizes read is called with

ASSUME BufferAssumption == KEYBOARD_BUFFER_SIZE \in Nat /\ KEYBOARD_BUFFER_SIZE > 0
ASSUME ReadAssumption == ReadSizes \subseteq Nat

VARIABLES
  keyboard_buffer, buff_from, buff_to,
  remaining_to_read,      \* keys the first reader waits for
  need,                   \* size of each reader: bytes it has not been given yet
  next_key,               \* number of the next key accepted (history)
  next_read               \* number of the next key to be read (history)

kbdVars == <<keyboard_buffer, buff_from, buff_to, remaining_to_read, need, next_key, next_read>>

B    == KEYBOARD_BUFFER_SIZE
Keys == 2 * B
Slot == 0 .. B - 1

Buffered == (buff_to - buff_from) % B

\* A mistake: let the two indices meet, which makes a full buffer look empty.
is_buffer_full_Never(from, to) == B = 1

is_buffer_full(from, to) == from - to = 1 \/ (from = 0 /\ to = B - 1)

\* init_keyboard; the buffer itself is never initialised, and never read before written.
KeyboardInit ==
  /\ keyboard_buffer = [i \in Slot |-> 0]
  /\ buff_from = 0 /\ buff_to = 0
  /\ remaining_to_read = 0
  /\ need = [t \in Task |-> 0]
  /\ next_key = 0 /\ next_read = 0

\* --remaining_to_read, cut off at -1: it is only ever compared with 0, and set anew by
\* a reader that waits for a definite number of keys.
CountDown(r) == IF r < 0 THEN r ELSE r - 1

\* A mistake: the preempted task is linked in no list (respuestas.txt, 2c).
WakeFirstReader_Loses(p) ==
  sched_next_rr(add_process_to_scheduling(p, Head(p.queue["keyboard"]), "BLOCKED_TO_READY", TRUE))

\* A mistake: make the reader ready and go on with the running task.
WakeFirstReader_NoSwitch(p) ==
  add_process_to_scheduling(p, Head(p.queue["keyboard"]), "BLOCKED_TO_READY", TRUE)

\* Requeue the running task, put the first reader in front of the ready queue, and switch.
WakeFirstReader(p) ==
  LET preempted == IF p.current # Idle
                   THEN add_process_to_scheduling(p, p.current, "SYS_TO_READY", FALSE)
                   ELSE p
  IN  sched_next_rr(add_process_to_scheduling(preempted, Head(p.queue["keyboard"]),
                                              "BLOCKED_TO_READY", TRUE))

\* A mistake: forget that a reader may want more keys than the buffer holds.
ReaderIsDue_IgnoresFull(remaining, from, to) == remaining <= 0

ReaderIsDue(remaining, from, to) == remaining <= 0 \/ is_buffer_full(from, to)

\* A mistake: run off the end of the buffer.
NextSlot_NoWrap(i) == i + 1

NextSlot(i) == IF i + 1 = B THEN 0 ELSE i + 1

\* keyboard_routine for a key that is pressed and has a character.  With a full buffer,
\* as for a key that is released, it changes nothing: that key is lost.
KeyboardIrq ==
  /\ InterruptsEnabled
  /\ ~is_buffer_full(buff_from, buff_to)
  /\ keyboard_buffer' = [keyboard_buffer EXCEPT ![buff_to] = next_key]
  /\ buff_to' = NextSlot(buff_to)
  /\ next_key' = (next_key + 1) % Keys
  /\ IF OnQueue("keyboard") = <<>>
     THEN UNCHANGED <<remaining_to_read, sched>>
     ELSE /\ remaining_to_read' = CountDown(remaining_to_read)
          /\ sched' = IF ReaderIsDue(remaining_to_read', buff_from, buff_to')
                      THEN WakeFirstReader(sched)
                      ELSE sched
  /\ UNCHANGED <<buff_from, need, next_read, cont>>

\* A mistake: wait again behind the readers that came later.
WaitForRest_AtTail(rest) == remaining_to_read' = rest /\ Block("keyboard", FALSE, "read1")

\* A mistake: leave the countdown as the reader before left it.
WaitForRest_StaleCountdown(rest) == UNCHANGED remaining_to_read /\ Block("keyboard", TRUE, "read1")

\* Wait for the rest in front of all other readers.
WaitForRest(rest) == remaining_to_read' = rest /\ Block("keyboard", TRUE, "read1")

\* read_from_keyboard_buffer and what sys_read_keyboard does after it: return with all
\* that was asked for, or wait for the rest.
TakeKeys(size) ==
  LET count == IF size < Buffered THEN size ELSE Buffered
  IN  /\ buff_from' = (buff_from + count) % B
      /\ next_read' = (next_read + count) % Keys
      /\ need' = [need EXCEPT ![current] = size - count]
      /\ IF size > count
         THEN WaitForRest(size - count)
         ELSE cont' = [cont EXCEPT ![current] = "user"] /\ UNCHANGED <<remaining_to_read, sched>>

\* A mistake: take the keys that are there whoever waits for them.
SomebodyReads_Ignored == FALSE

SomebodyReads == OnQueue("keyboard") # <<>>

\* sys_read on fd 0 with a good buffer; a size of 0 is accepted (sys.c:205).
SysRead(size) ==
  /\ InSyscall
  /\ IF SomebodyReads
     THEN /\ need' = [need EXCEPT ![current] = size]
          /\ Block("keyboard", FALSE, "read0")
          /\ UNCHANGED <<buff_from, next_read, remaining_to_read>>
     ELSE TakeKeys(size)
  /\ UNCHANGED <<keyboard_buffer, buff_to, next_key>>

\* sys_read_keyboard after block_in_read.
ReadResume ==
  /\ cont[current] \in {"read0", "read1"}
  /\ TakeKeys(need[current])
  /\ UNCHANGED <<keyboard_buffer, buff_to, next_key>>

-----------------------------------------------------------------------------

\* The types of the keyboard's variables: both indices stay in the buffer.
KeyboardTypeOK ==
  /\ keyboard_buffer \in [Slot -> 0 .. Keys - 1]
  /\ buff_from \in Slot /\ buff_to \in Slot
  /\ remaining_to_read \in Nat \cup {-1}
  /\ need \in [Task -> Nat]
  /\ next_key \in 0 .. Keys - 1 /\ next_read \in 0 .. Keys - 1

\* What lies between the two indices is every key that was accepted and not read yet, in
\* the order they were typed: no key is overwritten, read twice or skipped.
BufferInOrder ==
  /\ Buffered = (next_key - next_read) % Keys
  /\ \A i \in 0 .. Buffered - 1 : keyboard_buffer[(buff_from + i) % B] = (next_read + i) % Keys

\* A reader that already has a part of its keys is the first of the queue, or running:
\* no second reader can be in the middle of a read.
OneReadInProgress ==
  \A t \in Task : cont[t] = "read1" => \/ t = current
                                       \/ /\ OnQueue("keyboard") # <<>>
                                          /\ t = Head(OnQueue("keyboard"))

\* A reader that has not got its keys is in the keyboard queue or running, never ready:
\* after it was woken no other task runs before it has emptied the buffer, or keys would
\* be taken from under it.
ReadersNeverReady ==
  /\ \A t \in ToSet(OnQueue("keyboard")) : cont[t] \in {"read0", "read1"}
  /\ \A t \in Task : cont[t] \in {"read0", "read1"} =>
       t \in ToSet(OnQueue("keyboard")) \/ t = current

\* The countdown the interrupt handler uses is that of the reader it will wake: a reader
\* in the middle of its read waits for exactly the keys it needs, one that has not looked
\* at the buffer is woken by the next key, and the buffer has room for that key.
CountdownIsOfFirstReader ==
  InterruptsEnabled /\ OnQueue("keyboard") # <<>> =>
    LET first == Head(OnQueue("keyboard"))
    IN  /\ need[first] > 0
        /\ ~is_buffer_full(buff_from, buff_to)
        /\ cont[first] = "read1" => remaining_to_read = need[first] - Buffered
                                    /\ remaining_to_read > 0
        /\ cont[first] = "read0" => remaining_to_read <= 0

\* Who is in the middle of a read: the task that was woken and has not looked at the buffer
\* yet, or looks at it, and then the keyboard queue.
Readers ==
  (IF cont[current] \in {"read0", "read1"} THEN <<current>> ELSE <<>>) \o OnQueue("keyboard")

Stream == INSTANCE KeyStream WITH
  Reader   <- Task,
  Size     <- ReadSizes,
  Key      <- 0 .. Keys - 1,
  Capacity <- B - 1,
  waiters  <- [i \in DOMAIN Readers |-> [reader |-> Readers[i], rest |-> need[Readers[i]]]],
  stream   <- [i \in 1 .. Buffered |-> keyboard_buffer[(buff_from + i - 1) % B]]

\* The keys go to the readers in the order of their calls and each gets consecutive keys,
\* although a reader may sleep many times in the middle of its read, readers are woken by
\* interrupts, and what a second read finds is a queue (keyboard.c:90) and not the buffer.
StreamImplemented == Stream!Init /\ [][Stream!Next]_(Stream!vars)
=============================================================================
