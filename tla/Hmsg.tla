-------------------------------- MODULE Hmsg --------------------------------
(***************************************************************************)
(* How a message is found again in the queue it was read into.  Each read  *)
(* of the socket puts a piece of the message into a block of the queue and *)
(* runs the parser over it; the parser's callbacks (cb.cc) turn pointers   *)
(* into offsets from the start of the queue, and the url, the headers and  *)
(* the body are copied out by these offsets when the message is complete   *)
(* (rqst.cc, hmsg.cc).  session.cc does this for requests and              *)
(* ups_session.cc for answers.                                             *)
(*                                                                         *)
(* The answer of a proxied request is read into the client's output queue, *)
(* which is written to the client, and freed, while the answer comes in.   *)
(*                                                                         *)
(* The parser is external: a message is a list of elements, each a range   *)
(* of its bytes, and the parser reports what a read brings of them.  The   *)
(* bytes of a message are numbered, so that what is copied out shows where *)
(* it came from.                                                           *)
(***************************************************************************)
EXTENDS NbqOps, SequencesExt, FiniteSets

CONSTANTS
  Messages,    \* the messages that may come, by side: [elements, len] with the
               \* elements [kind, first, last] in order
  MsgLen,      \* bound: the bytes of a message
  MaxMsgs      \* bound: messages on one connection

\* session.cc reads requests; ups_session.cc reads answers, each into a queue
\* of its own, or into the client's output queue.
Sides == {"rqst", "resp", "proxied"}

ASSUME MessagesAssumption ==
  DOMAIN Messages = Sides /\ \A s \in Sides : \A m \in Messages[s] : m.len <= MsgLen

Kinds == {"url", "status", "key", "val", "body"}

VARIABLES
  side,
  msg,         \* the message that comes in
  q,           \* m_q: the queue that the message is read into
  m_cur_buf, m_cur_off,
  part,        \* what the callbacks recorded: kind -> sequence of [off, len],
               \* with the byte it was recorded of (at) and gone at that time
  m_complete,
  received,    \* bytes of the message so far
  gone,        \* bytes of the message that were written on and freed
  reads,       \* reads of the message so far
  msgs,        \* messages so far
  cuts         \* the bytes of the message that were the last of a read

vars == <<side, msg, q, m_cur_buf, m_cur_off, part, m_complete, received, gone,
          reads, msgs, cuts>>

\* hmsg::init() and rqst::init()
NoParts == [k \in Kinds |-> << >>]
NoBuf == <<End, 0>>

Init ==
  /\ side \in Sides /\ msg \in Messages[side]
  /\ q = NewQueue /\ gone = 0
  /\ m_cur_buf = NoBuf /\ m_cur_off = 0 /\ part = NoParts
  /\ m_complete = FALSE /\ received = 0 /\ reads = 0 /\ msgs = 1 /\ cuts = {}

-----------------------------------------------------------------------------
(* The parser *)

\* The elements it reports of the bytes lo .. hi, each with the range of it
\* that is there.  A string is reported at the end of the read as well as at
\* the byte that ends it: with no byte at all when that is the first one.
Reported(lo, hi) ==
  SelectSeq([i \in DOMAIN msg.elements |->
              LET e == msg.elements[i] IN
              [kind |-> e.kind,
               from |-> IF e.first < lo THEN lo ELSE e.first,
               to |-> Least(e.last, hi),
               in |-> /\ e.first <= hi
                      /\ lo <= IF e.kind = "body" THEN e.last ELSE e.last + 1]],
            LAMBDA r : r.in)

-----------------------------------------------------------------------------
(* The callbacks *)

\* A pointer is a block and a place in it.  The distance of two blocks is
\* whatever malloc() made of it, and leads nowhere in the queue.
Wild == MsgLen + 1
CALC_OFFSET(at, buf, off) ==
  IF at[1] = buf[1] THEN at[2] - buf[2] + off ELSE Wild

\* Mutants: a header replaces the one before; every piece of the body is
\* taken for its start.
RecordLast(p, r, c) ==
  CASE r.kind = "body" /\ p.body # << >> /\ p.body[1].off # 0 ->
         [p EXCEPT !.body[1].len = @ + c.len]
    [] OTHER -> [p EXCEPT ![r.kind] = <<c>>]

RecordBodyAgain(p, r, c) ==
  CASE r.kind \in {"url", "status", "body"} -> [p EXCEPT ![r.kind] = <<c>>]
    [] OTHER -> [p EXCEPT ![r.kind] = Append(@, c)]

\* hp_on_url() and hp_on_status() keep the last piece, hp_on_header_field()
\* and hp_on_header_value() keep every piece, hp_on_body() adds them up from
\* the first one that has an offset, of every chunk there is.
Record(p, r, c) ==
  CASE r.kind \in {"url", "status"} -> [p EXCEPT ![r.kind] = <<c>>]
    [] r.kind = "body" /\ p.body # << >> /\ p.body[1].off # 0 ->
         [p EXCEPT !.body[1].len = @ + c.len]
    [] r.kind = "body" -> [p EXCEPT !.body = <<c>>]
    [] OTHER -> [p EXCEPT ![r.kind] = Append(@, c)]

\* http_parser_execute() of the bytes lo .. hi that start at pointer l_buf.
Parse(lo, hi, l_buf, buf, off) ==
  FoldLeft(LAMBDA p, r :
             Record(p, r,
               [off |-> CALC_OFFSET(<<l_buf[1], l_buf[2] + r.from - lo>>, buf, off),
                len |-> r.to - r.from + 1, at |-> r.from, gone |-> gone]),
           part, Reported(lo, hi))

-----------------------------------------------------------------------------
(* Reading *)

\* nc_read(): where the bytes go, and the queue with n of them.
Pieces(n) == [i \in 1..n |-> received + i]
Target == WithSpace(q)
l_buf == <<Target.wr, Target.m_q[Target.wr].written>>

Received(n) ==
  /\ ~m_complete
  /\ n <= b_write_avail(Target) /\ received + n <= msg.len
  /\ q' = Store(Target, Pieces(n))
  /\ received' = received + n /\ reads' = reads + 1
  /\ m_complete' = (received + n = msg.len)
  /\ cuts' = cuts \cup {received + n}
  /\ UNCHANGED <<side, msg, gone, msgs>>

\* session::run_state_machine(): m_cur_buf is the start of the block that is
\* written next, m_cur_off the offset of the read before this one.
ReadRqst(n) ==
  /\ Received(n)
  /\ m_cur_buf' = <<q'.wr, 0>>
  /\ part' = Parse(received + 1, received + n, l_buf, m_cur_buf', m_cur_off)
  /\ m_cur_off' = q.off

\* Mutant: the buffer is taken from the block, as for requests.
BufFromBlock(n) ==
  /\ Received(n)
  /\ m_cur_buf' = <<q'.wr, 0>> /\ m_cur_off' = q.off
  /\ part' = Parse(received + 1, received + n, l_buf, m_cur_buf', m_cur_off')

\* ups_session::run_state_machine(): m_cur_buf is where this read went and
\* m_cur_off its offset.
ReadResp(n) ==
  /\ Received(n)
  /\ m_cur_buf' = l_buf /\ m_cur_off' = q.off
  /\ part' = Parse(received + 1, received + n, l_buf, m_cur_buf', m_cur_off')

\* session.cc writes n bytes of the client's output queue: nc_write(), which
\* frees the blocks that have been written whole.
nc_write(n) ==
  /\ n <= b_read_avail(q)
  /\ q' = shrink(b_read_incr(q, n))
  /\ gone' = received - Len(Content(q'))
  /\ UNCHANGED <<side, msg, m_cur_buf, m_cur_off, part, m_complete, received, reads,
                 msgs, cuts>>

NextMessage ==
  /\ m_complete /\ msgs < MaxMsgs
  /\ msg' \in Messages[side]
  /\ m_cur_buf' = NoBuf /\ m_cur_off' = 0 /\ part' = NoParts
  /\ m_complete' = FALSE /\ received' = 0 /\ gone' = 0 /\ reads' = 0
  /\ msgs' = msgs + 1 /\ cuts' = {} /\ UNCHANGED side

\* The request has been handled: init() and reset_write() of the same queue.
NextRqst == NextMessage /\ q' = reset_write(q)

\* Mutant: the new answer comes into the queue of the one before.
KeepQueue == NextMessage /\ q' = q

\* The answer has been handled: a new one comes into a new queue.
NextResp == NextMessage /\ q' = NewQueue

\* The client has been sent the answer, and its output queue was reset.
NextProxied == q.avail = 0 /\ NextMessage /\ q' = reset_write(q)

Next ==
  \/ /\ side = "rqst"
     /\ NextRqst \/ \E n \in 1..BSize : ReadRqst(n)
  \/ /\ side = "resp"
     /\ NextResp \/ \E n \in 1..BSize : ReadResp(n)
  \/ /\ side = "proxied"
     /\ NextProxied \/ \E n \in 1..BSize : ReadResp(n) \/ nc_write(n)

Spec == Init /\ [][Next]_vars

-----------------------------------------------------------------------------
(* What the users of a message get *)

\* copy_part() of a recorded piece.
Copied(c) == read_from(q, c.off, c.len).got

ElementsOf(k) == SelectSeq(msg.elements, LAMBDA e : e.kind = k)
BytesOf(e) == [i \in 1..e.last - e.first + 1 |-> e.first + i - 1]

-----------------------------------------------------------------------------
(* Properties *)

\* The shape of the state.
TypeOK ==
  /\ side \in Sides /\ msg \in Messages[side]
  /\ cuts \subseteq 1..received /\ Cardinality(cuts) = reads
  /\ received \in 0..msg.len /\ reads \in 0..received /\ msgs \in 1..MaxMsgs
  /\ m_complete \in BOOLEAN /\ gone \in 0..received
  /\ q.off = received - gone /\ Len(Content(q)) = received - gone
  /\ \A k \in Kinds : \A i \in DOMAIN part[k] :
       LET c == part[k][i] IN
       /\ c.off \in Int /\ c.len \in 0..MsgLen /\ c.at \in 1..MsgLen
       /\ c.gone \in 0..gone

\* What was recorded, less what has been freed since.
Now(c) == [c EXCEPT !.off = @ - (gone - c.gone)]

Exact(c) == Copied(c) = [i \in 1..c.len |-> c.at + i - 1]

\* A recorded offset and length give back the bytes that the parser reported
\* (CALC_OFFSET of cb.cc): of an answer, however it was cut into reads and
\* blocks, and of a proxied one as long as nothing of the queue has been freed
\* since, after which it is off by just that; of a request, while it came in
\* at most two reads and has not filled its first block, the case in which the
\* way session.cc counts is right.
OffsetsExact ==
  (side = "rqst" => reads <= 2 /\ received < BSize) =>
    \A k \in Kinds : \A i \in DOMAIN part[k] :
      LET c == part[k][i] IN c.at > gone => Exact(Now(c))

\* The body of an answer is found when it is complete, in however many reads
\* it came, by get_body_q() and get_body_len() of hmsg.cc: whole when it came
\* in one piece.  Of a chunked one hp_on_body() keeps where the first chunk
\* starts and the bytes of all chunks, without what is between them.
BodyWhole ==
  LET chunks == ElementsOf("body")
      bytes == FoldLeft(LAMBDA sum, e : sum + Len(BytesOf(e)), 0, chunks) IN
  side = "resp" /\ m_complete /\ chunks # << >> =>
    /\ part.body # << >> /\ part.body[1].len = bytes
    /\ Copied([part.body[1] EXCEPT !.len = Len(BytesOf(chunks[1]))]) = BytesOf(chunks[1])

\* The url, the status, and every header's name and its value at the same
\* place of their lists (get_header_list() pairs them up), as long as no read
\* ended in a string or right behind it: hp_on_url() and hp_on_header_field()
\* make nothing of the pieces of one.
StringsWhole ==
  m_complete => \A k \in {"url", "status", "key", "val"} :
    (\A e \in ToSet(ElementsOf(k)) : cuts \cap (e.first .. e.last) = {}) =>
      /\ Len(part[k]) = Len(ElementsOf(k))
      /\ \A i \in DOMAIN part[k] :
           /\ part[k][i].at = ElementsOf(k)[i].first
           /\ part[k][i].len = Len(BytesOf(ElementsOf(k)[i]))

\* What the users of a complete message get of it is whole.
MessageWhole == TypeOK /\ BodyWhole /\ StringsWhole
=============================================================================
