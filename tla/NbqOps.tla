------------------------------- MODULE NbqOps -------------------------------
(***************************************************************************)
(* The block queue of nbq.cc as operators on its state.  A queue is the    *)
(* list of blocks m_q, the write and the read cursor into it, the write    *)
(* offset and the number of bytes left to read.  A cursor is the position  *)
(* of its block, or End for m_q.end(): the end of a std::list stays the    *)
(* end when a block is appended, the position after the last would not.    *)
(*                                                                         *)
(* The loops of write(), write_fd(), write_q() and read() are iterations   *)
(* of one round each, so that they can be reasoned about.                  *)
(***************************************************************************)
EXTENDS Integers, Sequences

CONSTANT BSize    \* m_bsize, the bytes that a block holds

ASSUME BSizeAssumption == BSize \in Nat \ {0}

End  == 0
Junk == 0         \* memory that no byte was stored in

\* nb_struct: a block with memory of its own, and one that refers to the
\* memory of another.
NewBlock == [len |-> BSize, written |-> 0, read |-> 0, ref |-> FALSE,
             data |-> [i \in 1..BSize |-> Junk]]

RefBlock(b) == [len |-> b.written, written |-> b.written, read |-> 0,
                ref |-> TRUE, data |-> SubSeq(b.data, 1, b.written)]

write_avail(b) == b.len - b.written
block_read_avail(b) == b.written - b.read
write_reset(b) == [b EXCEPT !.written = 0, !.read = 0]
read_reset(b) == [b EXCEPT !.read = 0]

\* nbq::nbq()
NewQueue == [m_q |-> << >>, wr |-> End, rd |-> End, off |-> 0, avail |-> 0]

\* begin(), --end() and ++ of an iterator of m_q: the list is circular, so
\* that --end() of an empty one is end() again.
Begin(q) == IF q.m_q = << >> THEN End ELSE 1
LastPos(q) == Len(q.m_q)
Succ(q, i) == IF i = Len(q.m_q) THEN End ELSE i + 1

Least(a, b) == IF a < b THEN a ELSE b

\* The list with an operation done on each of its blocks.
EachBlock(Op(_), m) == SubSeq([i \in DOMAIN m |-> Op(m[i])], 1, Len(m))

\* A loop: n rounds from x on.  A round leaves a loop that has ended as it is,
\* and n is the bytes the loop is to move, of which every round moves one or
\* more.
Rounds(Round(_), x, n) ==
  LET after[k \in 0..n] == IF k = 0 THEN x ELSE Round(after[k - 1]) IN after[n]

\* The sum of the first i numbers of a sequence.
SumTo(s, i) ==
  LET sum[k \in 0..Len(s)] == IF k = 0 THEN 0 ELSE sum[k - 1] + s[k] IN sum[i]

\* The bytes written to the first i blocks, and to all of them.
WrittenTo(m, i) == SumTo([k \in DOMAIN m |-> m[k].written], i)
Written(m) == WrittenTo(m, Len(m))

-----------------------------------------------------------------------------
(* Writing, block by block *)

b_write_avail(q) == IF q.wr = End THEN 0 ELSE write_avail(q.m_q[q.wr])

\* The write cursor leaves a full block that has another one after it.
AdvanceWrite(q) ==
  IF write_avail(q.m_q[q.wr]) = 0 /\ q.wr # LastPos(q)
  THEN [q EXCEPT !.wr = @ + 1] ELSE q

b_write_add_avail(q) ==
  LET added == [q EXCEPT !.m_q = Append(@, NewBlock)] IN
  IF Len(added.m_q) = 1 THEN [added EXCEPT !.rd = 1, !.wr = 1]
                        ELSE AdvanceWrite(added)

\* Mutant: the read cursor stays on a block that has been read to its end.
IncrKeepRead(q, n) ==
  AdvanceWrite([q EXCEPT !.off = @ + n, !.avail = @ + n,
                         !.m_q[q.wr].written = @ + n])

b_write_incr(q, n) ==
  LET moved == AdvanceWrite([q EXCEPT !.off = @ + n, !.avail = @ + n,
                                      !.m_q[q.wr].written = @ + n]) IN
  IF n > 0 /\ block_read_avail(moved.m_q[moved.rd]) = 0
  THEN [moved EXCEPT !.rd = Succ(moved, @)] ELSE moved

\* memcpy() to b_write_ptr(), and the increment that follows it.
Store(q, bytes) ==
  LET at == q.m_q[q.wr].written IN
  b_write_incr([q EXCEPT !.m_q[q.wr].data =
                  [i \in DOMAIN @ |-> IF i - at \in 1..Len(bytes)
                                      THEN bytes[i - at] ELSE @[i]]],
               Len(bytes))

WithSpace(q) == IF b_write_avail(q) = 0 THEN b_write_add_avail(q) ELSE q

WriteRound(s) ==
  IF s.left = << >> THEN s
  ELSE LET a == WithSpace(s.q)
           n == Least(Len(s.left), b_write_avail(a)) IN
       [q |-> Store(a, SubSeq(s.left, 1, n)),
        left |-> SubSeq(s.left, n + 1, Len(s.left))]

write(q, bytes) == Rounds(WriteRound, [q |-> q, left |-> bytes], Len(bytes)).q

-----------------------------------------------------------------------------
(* Reading, block by block *)

\* Mutant: every block is taken for the one that is written to.
AvailAsIfLast(q) == IF q.rd = End THEN 0 ELSE q.avail

b_read_avail(q) ==
  IF q.rd = End THEN 0
  ELSE IF q.rd = q.wr THEN q.avail
  ELSE block_read_avail(q.m_q[q.rd])

\* The cursor stays on the last block that was read: a later write moves it.
b_read_incr(q, n) ==
  LET left == b_read_avail(q) - n
      took == [q EXCEPT !.avail = @ - n, !.m_q[q.rd].read = @ + n] IN
  IF left = 0 /\ took.avail # 0 THEN [took EXCEPT !.rd = Succ(took, @)] ELSE took

\* n bytes at b_read_ptr(); past the end of the block there is no telling.
Fetch(q, n) ==
  LET b == q.m_q[q.rd] IN
  [i \in 1..n |-> IF b.read + i \in DOMAIN b.data THEN b.data[b.read + i] ELSE Junk]

\* The loop of read(): what it copies out and the queue it leaves.  A round
\* that finds nothing in its block would be repeated for ever; it ends here
\* instead, and the bytes are missing from the result.
ReadRound(s) ==
  LET n == Least(s.left, b_read_avail(s.q)) IN
  IF n = 0 THEN s
  ELSE [q |-> b_read_incr(s.q, n), left |-> s.left - n, got |-> s.got \o Fetch(s.q, n)]

read(q, n) ==
  LET left == Least(n, q.avail) IN
  Rounds(ReadRound, [q |-> q, left |-> left, got |-> << >>], left)

reset_read(q) ==
  [q EXCEPT !.m_q = EachBlock(read_reset, @),
            !.rd = Begin(q),
            !.avail = Written(q.m_q)]

read_seek(q, off) == read(reset_read(q), off).q
read_from(q, off, n) == read(read_seek(q, off), n)

-----------------------------------------------------------------------------
(* write_fd() and write_q(): the bytes come from a file and from a queue *)

\* Each ::read() gives at least one byte until the file ends: which of the
\* short reads it is makes no difference to the next round.
WriteFdRound(s) ==
  LET w == WriteRound(s) IN
  IF s.left = << >> THEN s ELSE [w EXCEPT !.q = b_read_incr(@, 0)]

write_fd(q, bytes) == Rounds(WriteFdRound, [q |-> q, left |-> bytes], Len(bytes)).q

\* A read that gives nothing ends the loop.
WriteQRound(s) ==
  LET a == WithSpace(s.q)
      r == read(s.src, Least(s.left, b_write_avail(a))) IN
  IF s.left = 0 THEN s
  ELSE IF r.got = << >> THEN [q |-> a, src |-> r.q, left |-> 0]
  ELSE [q |-> Store(a, r.got), src |-> r.q, left |-> s.left - Len(r.got)]

write_q(q, src) == Rounds(WriteQRound, [q |-> q, src |-> src, left |-> src.avail], src.avail)

-----------------------------------------------------------------------------
(* Whole queues *)

\* The blocks with memory of their own.
OwnBlocks(m) ==
  LET own[k \in 0..Len(m)] ==
        IF k = 0 THEN << >>
        ELSE IF m[k].ref THEN own[k - 1] ELSE Append(own[k - 1], m[k])
  IN own[Len(m)]

\* Mutant: the offset is left where it was.
ResetWriteKeepOff(q) ==
  LET own == OwnBlocks(q.m_q)
      m == EachBlock(write_reset, own)
      first == IF m = << >> THEN End ELSE 1 IN
  [m_q |-> m, wr |-> first, rd |-> first, off |-> q.off, avail |-> 0]

\* Mutant: writing goes on in the last of the blocks that are kept.
ResetWriteLast(q) ==
  LET own == OwnBlocks(q.m_q)
      m == EachBlock(write_reset, own)
      first == IF m = << >> THEN End ELSE 1 IN
  [m_q |-> m, wr |-> Len(m), rd |-> first, off |-> 0, avail |-> 0]

reset_write(q) ==
  LET own == OwnBlocks(q.m_q)
      m == EachBlock(write_reset, own)
      first == IF m = << >> THEN End ELSE 1 IN
  [m_q |-> m, wr |-> first, rd |-> first, off |-> 0, avail |-> 0]

reset(q) == NewQueue

\* The blocks before the read cursor go, and so does the last one when it is
\* full and read.  The offset falls by the size of a block, not by the bytes
\* written to it: below zero stands for the wrapped unsigned value.
shrink(q) ==
  LET k == IF q.rd = End THEN Len(q.m_q) ELSE q.rd - 1
      m == SubSeq(q.m_q, k + 1, Len(q.m_q))
      back(i) == IF i = End THEN End ELSE i - k
      s == [q EXCEPT !.m_q = m, !.rd = back(@), !.wr = back(@),
                     !.off = @ - SumTo([i \in DOMAIN q.m_q |-> q.m_q[i].len], k)] IN
  IF /\ s.rd # End /\ s.wr # End /\ s.rd = s.wr
     /\ block_read_avail(s.m_q[s.rd]) = 0 /\ write_avail(s.m_q[s.rd]) = 0
  THEN NewQueue ELSE s

\* The block that holds the byte at an offset, and the offset in it.
BlockAt(q, off) ==
  CHOOSE i \in DOMAIN q.m_q :
    WrittenTo(q.m_q, i - 1) <= off /\ off < WrittenTo(q.m_q, i)
RestOf(q, off) == off - WrittenTo(q.m_q, BlockAt(q, off) - 1)

\* Mutant: the block keeps the bytes that the tail has a copy of.
HeadUncut(q, off) ==
  LET i == BlockAt(q, off)
      m == SubSeq(q.m_q, 1, i) IN
  reset_read([q EXCEPT !.m_q = m, !.wr = i,
                       !.off = @ - Written(SubSeq(q.m_q, i + 1, Len(q.m_q)))])

\* split() at an offset in 1 .. off - 1.  The block of the offset keeps the
\* bytes before it; the blocks after that one go.
SplitHead(q, off) ==
  LET i == BlockAt(q, off)
      rest == RestOf(q, off)
      m == SubSeq(q.m_q, 1, i) IN
  reset_read([q EXCEPT !.m_q = IF rest > 0 THEN [m EXCEPT ![i].written = rest] ELSE m,
                       !.wr = i,
                       !.off = @ - Written(SubSeq(q.m_q, i + 1, Len(q.m_q)))])

\* The tail has a copy of the bytes that follow the offset in its block, and
\* the blocks after that one.  An offset at the start of a block has nothing
\* to copy, and the block is stepped over all the same.
SplitTail(q, off) ==
  LET i == BlockAt(q, off)
      rest == RestOf(q, off)
      b == q.m_q[i]
      copy == IF rest > 0 THEN write(NewQueue, SubSeq(b.data, rest + 1, b.written))
                          ELSE NewQueue
      moved == SubSeq(q.m_q, i + 1, Len(q.m_q)) IN
  reset_read([copy EXCEPT !.m_q = @ \o moved, !.wr = Len(copy.m_q \o moved),
                          !.off = @ + Written(moved)])

\* join_ref(): the blocks of the other queue, as references, after which
\* nothing more can be written.
join_ref(q, tail) ==
  LET refs == EachBlock(RefBlock, tail.m_q) IN
  [q EXCEPT !.m_q = @ \o refs, !.wr = End,
            !.off = @ + Written(refs), !.avail = @ + Written(refs)]

-----------------------------------------------------------------------------
(* The bytes of a queue, in order, and how many of them were read *)

ContentTo(m, i) ==
  LET joined[k \in 0..Len(m)] ==
        IF k = 0 THEN << >> ELSE joined[k - 1] \o SubSeq(m[k].data, 1, m[k].written)
  IN joined[i]
Content(q) == ContentTo(q.m_q, Len(q.m_q))
Pos(q) == Len(Content(q)) - q.avail
=============================================================================
