------------------------------ MODULE ByteQueue ------------------------------
(***************************************************************************)
(* What the block queue of nbq.cc promises to its users: a queue is a      *)
(* string of bytes and a position in it, whatever the blocks are that it   *)
(* is kept in.  Bytes are read once, in the order they were written; a     *)
(* queue can be read again from any offset, can drop what was read, and    *)
(* can be cut in two and joined.                                           *)
(*                                                                         *)
(* The bytes that enter are numbered in the order they come, so that a     *)
(* queue that loses, doubles or garbles one on the way in is told apart.   *)
(***************************************************************************)
EXTENDS Naturals, Sequences

CONSTANTS
  Queues,
  Offsets,    \* where a queue may be asked to be cut
  Late        \* those of them for which the cut may come further on

VARIABLES
  content,    \* the bytes of each queue
  pos,        \* how many of them were read
  got,        \* what the last operation read
  nbytes      \* how many bytes have entered

vars == <<content, pos, got, nbytes>>

Init ==
  /\ content = [q \in Queues |-> << >>]
  /\ pos = [q \in Queues |-> 0]
  /\ got = << >> /\ nbytes = 0

Put(q, s, p) == content' = [content EXCEPT ![q] = s] /\ pos' = [pos EXCEPT ![q] = p]

\* The bytes, if any, that a step lets in.
Entering == [i \in 1..nbytes' - nbytes |-> nbytes + i]

\* They are added at the end, as they come.
Write(q) ==
  /\ nbytes' >= nbytes
  /\ Put(q, content[q] \o Entering, pos[q])
  /\ got' = << >>

\* The n bytes at an offset, and the position after them.
ReadFrom(q, off, n) ==
  /\ off + n <= Len(content[q])
  /\ got' = SubSeq(content[q], off + 1, off + n)
  /\ Put(q, content[q], off + n)
  /\ UNCHANGED nbytes

\* The next n bytes; of the bytes read so far, any number is dropped.
Drain(q, n) ==
  /\ n > 0 /\ pos[q] + n <= Len(content[q])
  /\ got' = SubSeq(content[q], pos[q] + 1, pos[q] + n)
  /\ \E k \in 0..pos[q] + n :
       Put(q, SubSeq(content[q], k + 1, Len(content[q])), pos[q] + n - k)
  /\ UNCHANGED nbytes

Clear(q) == Put(q, << >>, 0) /\ got' = << >> /\ UNCHANGED nbytes

\* The bytes from a place on become a queue of their own, to be read from the
\* start, as the bytes before it are.
Split(q, tail, at) ==
  /\ content' = [content EXCEPT ![q] = SubSeq(@, 1, at),
                                ![tail] = SubSeq(content[q], at + 1, Len(content[q]))]
  /\ pos' = [pos EXCEPT ![q] = 0, ![tail] = 0]
  /\ got' = << >> /\ UNCHANGED nbytes

\* Where a queue of n bytes that is to be cut at an offset is cut.
Places(off, n) == IF off \in Late THEN off..n ELSE {off}

\* All the bytes of a queue follow what is written to another, from which
\* they are read.
Join(q, tail) ==
  /\ nbytes' >= nbytes
  /\ content' = [content EXCEPT ![q] = (@ \o Entering) \o content[tail], ![tail] = << >>]
  /\ pos' = [pos EXCEPT ![tail] = 0]
  /\ got' = << >>

Next ==
  \/ \E q \in Queues :
       \/ Write(q) \/ Clear(q)
       \/ \E n \in 0..Len(content[q]) :
            Drain(q, n) \/ \E off \in 0..Len(content[q]) : ReadFrom(q, off, n)
  \/ \E q, tail \in Queues :
       /\ q # tail
       /\ \/ Join(q, tail)
          \/ \E off \in Offsets :
               /\ off \in 1..Len(content[q]) - 1
               /\ \E at \in Places(off, Len(content[q])) : Split(q, tail, at)

Spec == Init /\ [][Next]_vars
=============================================================================
