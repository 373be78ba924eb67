------------------------------ MODULE KeyStream ------------------------------
(***************************************************************************)
(* What the keyboard promises: the keys typed are one stream, and it goes  *)
(* to the readers in the order in which they called read, each of them a   *)
(* run of consecutive keys.  Implemented by Keyboard, with its buffer, its *)
(* countdown and its queue of blocked tasks.                               *)
(***************************************************************************)
EXTENDS Integers, Sequences

CONSTANTS Reader, Size, Key, Capacity

VARIABLES
  waiters,     \* the reads in progress, the oldest first: who reads, and how much is missing
  stream       \* the keys nobody has read yet, the oldest first

vars == <<waiters, stream>>

Init == waiters = <<>> /\ stream = <<>>

\* The first of the reads rs takes all it wants, or all there is; it is over when nothing
\* is missing.
Give(rs) ==
  LET first == Head(rs)
      count == IF first.rest < Len(stream) THEN first.rest ELSE Len(stream)
  IN  /\ stream' = SubSeq(stream, count + 1, Len(stream))
      /\ waiters' = IF first.rest = count THEN Tail(rs)
                    ELSE <<[first EXCEPT !.rest = @ - count]>> \o Tail(rs)

Idles(r) == \A i \in DOMAIN waiters : waiters[i].reader # r

\* A read looks at the stream at once if it is alone, or waits behind the others.
Read(r, size) ==
  LET all == Append(waiters, [reader |-> r, rest |-> size])
  IN  /\ Idles(r)
      /\ \/ waiters = <<>> /\ Give(all)
         \/ waiters # <<>> /\ waiters' = all /\ UNCHANGED stream

Serve == waiters # <<>> /\ Give(waiters)

Type(key) ==
  /\ Len(stream) < Capacity
  /\ stream' = Append(stream, key)
  /\ UNCHANGED waiters

Next ==
  \/ \E r \in Reader, size \in Size : Read(r, size)
  \/ Serve
  \/ \E key \in Key : Type(key)

Spec == Init /\ [][Next]_vars
=============================================================================
