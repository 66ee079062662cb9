--------------------------------- MODULE Nbq ---------------------------------
(***************************************************************************)
(* The block queues that a proxied request and its answer go through, each *)
(* used as its owner uses it:                                              *)
(*                                                                         *)
(*   in    session.m_in_q: nc_read() fills it, the parsed message is       *)
(*         copied out of it part by part, its body is split off, and       *)
(*         reset_write() empties it for the next request;                  *)
(*   body  the queue that hmsg::get_body_q() splits off;                   *)
(*   out   the queue towards a peer: headers are written to it, the body   *)
(*         is joined to it or a file or an upstream answer read into it,   *)
(*         nc_write() drains it, and it is emptied or replaced.            *)
(***************************************************************************)
EXTENDS NbqOps

CONSTANTS
  BodyOffsets,    \* where the body of a request may start
  MaxReadQueue,   \* m_max_read_queue of the queue an answer is read into
  MaxBytes        \* bound: the bytes that enter the queues

ASSUME OffsetsAssumption ==
  BodyOffsets \subseteq Nat /\ MaxReadQueue \in Nat \ {0} /\ MaxBytes \in Nat

VARIABLES in, body, out,
  has_body,     \* hmsg.m_body_q and then subr.m_body_q is not NULL
  cut,          \* the body of the request in `in' has been split off
  got,          \* what the last operation read
  nbytes        \* the bytes that entered so far, numbered from 1

vars == <<in, body, out, has_body, cut, got, nbytes>>

Init ==
  /\ in = NewQueue /\ body = NewQueue /\ out = NewQueue
  /\ has_body = FALSE /\ cut = FALSE /\ got = << >> /\ nbytes = 0

\* The next n bytes to enter a queue.
Fresh(n) == [i \in 1..n |-> nbytes + i]
Enter(n) == nbytes + n <= MaxBytes /\ nbytes' = nbytes + n

\* nconn::nc_read() of a queue with the given limit (0: none): the size asked
\* for, and what is left in the queue when n bytes come.
ReadSize(q, max) ==
  IF max > 0 /\ q.avail + b_write_avail(q) > max THEN max - q.avail
  ELSE b_write_avail(q)

nc_read(q, max, n) ==
  LET a == WithSpace(q) IN IF n = 0 THEN a ELSE Store(a, Fresh(n))

CanRead(q, max, n) == (max > 0 => q.avail < max) /\ n <= ReadSize(WithSpace(q), max)

-----------------------------------------------------------------------------
(* The request *)

\* session::run_state_machine(), EVR_MODE_READ; n = 0 is a read that would
\* block, for which the block has been added all the same.
Recv(n) ==
  /\ ~cut
  /\ CanRead(in, 0, n) /\ Enter(n)
  /\ in' = nc_read(in, 0, n)
  /\ got' = << >>
  /\ UNCHANGED <<body, out, has_body, cut>>

\* copy_part(): the url, a header.
CopyPart(off, n) ==
  /\ off + n <= Len(Content(in))
  /\ LET r == read_from(in, off, n) IN in' = r.q /\ got' = r.got
  /\ UNCHANGED <<body, out, has_body, cut, nbytes>>

\* hmsg::get_body_q(), once for a request.
GetBody(off) ==
  /\ ~cut /\ ~has_body
  /\ off > 0 /\ off < in.off
  /\ in' = SplitHead(in, off) /\ body' = SplitTail(in, off)
  /\ has_body' = TRUE /\ cut' = TRUE /\ got' = << >>
  /\ UNCHANGED <<out, nbytes>>

\* The request has been handled: in is empty when the next one is read, and
\* the body belongs to the subrequest.
NextRequest ==
  /\ in.avail + Pos(in) > 0
  /\ in' = reset_write(in) /\ cut' = FALSE
  /\ got' = << >>
  /\ UNCHANGED <<body, out, has_body, nbytes>>

-----------------------------------------------------------------------------
(* Towards a peer *)

\* Nothing is written after join_ref(), which leaves no block to write to.
Writeable == out.wr # End \/ out.m_q = << >>

WriteOut(n) ==
  /\ Writeable /\ Enter(n)
  /\ out' = write(out, Fresh(n))
  /\ got' = << >>
  /\ UNCHANGED <<in, body, has_body, cut>>

\* file_u::ups_read_ahead()
WriteFile(n) ==
  /\ Writeable /\ Enter(n)
  /\ out' = write_fd(out, Fresh(n))
  /\ got' = << >>
  /\ UNCHANGED <<in, body, has_body, cut>>

\* ups_session::run_state_machine(), EVR_MODE_READ, into session.m_out_q.
RecvAnswer(n) ==
  /\ Writeable
  /\ CanRead(out, MaxReadQueue, n) /\ Enter(n)
  /\ out' = nc_read(out, MaxReadQueue, n)
  /\ got' = << >>
  /\ UNCHANGED <<in, body, has_body, cut>>

\* subr::create_request() on the new queue that ups_session::create() gives
\* it: n bytes of headers and the body.
CreateRequest(n) ==
  /\ out.m_q = << >> /\ Enter(n)
  /\ LET head == write(out, Fresh(n)) IN
     out' = IF has_body THEN join_ref(head, body) ELSE head
  /\ body' = NewQueue /\ has_body' = FALSE
  /\ got' = << >>
  /\ UNCHANGED <<in, cut>>

\* write_q(), the copying alternative to join_ref().
CopyBody ==
  /\ has_body /\ Writeable
  /\ out' = write_q(out, body).q /\ body' = NewQueue /\ has_body' = FALSE
  /\ got' = << >>
  /\ UNCHANGED <<in, cut, nbytes>>

\* nconn::nc_write(), when the peer takes n bytes.
Drain(n) ==
  /\ out.avail > 0 /\ n <= b_read_avail(out)
  /\ got' = Fetch(out, n)
  /\ out' = shrink(b_read_incr(out, n))
  /\ UNCHANGED <<in, body, has_body, cut, nbytes>>

\* The answer is complete: reset_write() for a connection that is kept.
Reuse ==
  /\ out.avail = 0 /\ out.m_q # << >>
  /\ out' = reset_write(out)
  /\ got' = << >>
  /\ UNCHANGED <<in, body, has_body, cut, nbytes>>

\* reset(), and a queue that is deleted and replaced.
Discard ==
  /\ out.m_q # << >>
  /\ out' = reset(out)
  /\ got' = << >>
  /\ UNCHANGED <<in, body, has_body, cut, nbytes>>

Next ==
  \/ \E n \in 0..BSize : Recv(n) \/ RecvAnswer(n)
  \/ \E n \in 1..BSize + 1 : WriteOut(n) \/ WriteFile(n) \/ CreateRequest(n)
  \/ \E n \in 1..out.avail : Drain(n)
  \/ \E off \in 0..MaxBytes, n \in 1..BSize + 1 : CopyPart(off, n)
  \/ \E off \in BodyOffsets : GetBody(off)
  \/ NextRequest \/ CopyBody \/ Reuse \/ Discard

Spec == Init /\ [][Next]_vars

-----------------------------------------------------------------------------
(* Properties *)

QueueType(q) ==
  /\ \A i \in DOMAIN q.m_q : LET b == q.m_q[i] IN
       /\ b.read \in 0..b.written /\ b.written \in 0..b.len
       /\ b.ref \in BOOLEAN /\ Len(b.data) = b.len
  /\ q.wr \in 0..Len(q.m_q) /\ q.rd \in 0..Len(q.m_q)
  /\ q.off \in Int /\ q.avail \in Nat

\* The shape of the queues: no block is written past its size nor read past
\* what was written (nb_struct of nbq.cc).
TypeOK ==
  /\ QueueType(in) /\ QueueType(body) /\ QueueType(out)
  /\ has_body \in BOOLEAN /\ cut \in BOOLEAN /\ nbytes \in 0..MaxBytes
  /\ got \in Seq(0..MaxBytes)

\* The offsets at which a block of `in' starts: its blocks are filled one after
\* the other.
BlockStarts == {off \in BodyOffsets : \E k \in 0..off : off = k * BSize}

Bytes == INSTANCE ByteQueue WITH
  Queues  <- {"in", "body", "out"},
  Offsets <- BodyOffsets,
  Late    <- BlockStarts,
  content <- [in |-> Content(in), body |-> Content(body), out |-> Content(out)],
  pos     <- [in |-> Pos(in), body |-> Pos(body), out |-> Pos(out)]

\* The blocks, cursors and counters of nbq.cc implement a string of bytes
\* with a position: nothing is lost, doubled, reordered or garbled on the way
\* in, at a block boundary, by the shared blocks of join_ref(), by shrink() or
\* by the blocks that reset_write() keeps.  The body is split off where it was
\* asked for, except that at the start of a block the cut may come later: the
\* first queue may keep bytes of the body, and no byte goes missing.
IsByteQueue == Bytes!Spec

\* What nbq.h says of split() ("tail at offset"), and get_body_q() relies on:
\* the queue that is split off starts at the offset, wherever blocks start.
SplitAtOffset ==
  [][\A off \in BodyOffsets : GetBody(off) =>
       Content(body)' = SubSeq(Content(in), off + 1, Len(Content(in)))]_vars

\* get_cur_write_offset() is the number of bytes in the queue that requests
\* are read into, up to the split: parsed offsets are counted from it
\* (session.cc) and split() checks its argument against it.
OffsetExact == ~cut => in.off = Len(Content(in))

\* Where bytes are left to read the read cursor is on a block that has some:
\* the loops of read() and of nc_write() make progress.
ReadProgress ==
  \A q \in {in, body, out} : q.avail > 0 => q.rd # End /\ b_read_avail(q) > 0

\* The writer is never behind the reader, blocks past the writer are empty,
\* and those before it hold no room: so shrink() frees no block that is still
\* to be written or read.
WriterAhead ==
  \A q \in {in, out} : q.wr # End =>
    /\ q.rd # End /\ q.rd <= q.wr
    /\ \A i \in DOMAIN q.m_q : i > q.wr => q.m_q[i].written = 0
    /\ \A i \in DOMAIN q.m_q : i < q.wr => write_avail(q.m_q[i]) = 0

\* The offset and the cursors of every queue are right, at block boundaries
\* too: what b_read_avail() and b_write_avail() rely on between two calls.
CursorsRight == TypeOK /\ OffsetExact /\ ReadProgress /\ WriterAhead
=============================================================================
