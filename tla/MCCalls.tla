------------------------------- MODULE MCCalls -------------------------------
(* Calls with pages of 4 bytes: 1 the kernel's, 2 code, 3 and 4 data, 7 the first of the heap. *)
EXTENDS Calls

MemoryImage == [a \in 0 .. ADDRESSES - 1 |->
                  CASE a \in {10, 13, 19} -> 0
                    [] a % 7 = 3          -> NewLine
                    [] OTHER              -> 64 + a]

\* The last message is longer than a chunk, and ends with the data.
Messages == [e \in {0, ESRCH, EBADF, EFAULT, EINVAL} |->
               CASE e = EBADF -> 8 [] e = EFAULT -> 9 [] e = EINVAL -> 11 [] OTHER -> 15]

FaultMessages == [why \in {"WRONG ACCESS", "KERNEL PANIC"} |->
                    IF why = "WRONG ACCESS" THEN <<87, 65>> ELSE <<75, 80>>]

MCSizes     == {-1, 0, 3, 5, 6, 19}
MCBuffers   == {0, 3, 4, 12, 15, 16, 24, 27}
MCNumbers   == {-3, 0, 10, 123}
MCClockCell == <<2, 0>>
=============================================================================
