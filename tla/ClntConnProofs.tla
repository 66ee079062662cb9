--------------------------- MODULE ClntConnProofs ---------------------------
(***************************************************************************)
(* Proofs about one client connection, for any kinds of connection, sizes  *)
(* of responses and send buffers: nothing stalls although epoll is edge    *)
(* triggered, a client that waits for its answers is never refused and     *)
(* never has a response overwritten, and requests are logged once.         *)
(***************************************************************************)
EXTENDS ClntConn, SequenceTheorems, TLAPS

----------------------------------------------------------------------------
(* The invariant *)

Accepts == m_nc_state = "ACCEPTING"
Connected == m_nc_state = "CONNECTED"
Freed == m_nc_state = "FREE"

\* No response is under way.
AtRest == m_out_q = 0 /\ m_u.kind = "none"

\* The events that are harvested and not dispatched, by what the loop does.
LoopInv ==
  /\ mode \in {"wait", "WRITE"} => ev = {}
  /\ mode = "READ" => ev \subseteq {"OUT"}
  /\ mode = "batch" => ev # {}

\* A deferred response: a file has parts left until it is done, and a proxied
\* one that is done is still to be written.  Reads give nothing of files only.
RespInv ==
  /\ m_u.kind = "none" => m_u = NoResp
  /\ m_u.kind = "file" /\ ~m_u.done => m_u.left > 0
  /\ m_u.kind = "proxy" /\ m_u.done => m_out_q > 0
  /\ dry => m_u.kind # "none"

\* The stages of the connection: no request before it is connected, nothing
\* left once it is freed, and one kind of interest in between.  Outside of a
\* READ pass the SSL object holds bytes only after a bad request.
StageInv ==
  /\ Accepts => part = 0 /\ AtRest /\ ~m_evr_writeable /\ ~keep_alive /\ stray = 0
  /\ Freed => mode = "wait" /\ AtRest /\ ~m_evr_writeable /\ ~queued /\ m_attr_mask = {}
  /\ Connected => m_attr_mask \in {{"READ"}, {"WRITE"}} /\ m_tls_state = HsDone
  /\ ~conf.tls => m_tls_state = HsDone /\ (Accepts => m_attr_mask = {"READ"})
  /\ Accepts /\ m_tls_state = HsDone /\ mode \in {"wait", "batch"} => ~conf.tls
  /\ ssl <= Len(rcv) /\ (Accepts \/ ~conf.tls => ssl = 0)
  /\ ssl > 0 /\ ~Freed => mode = "READ" \/ bad > 0

\* Input in the socket that the interest covers is known to epoll or the
\* loop, or nobody reads on after a bad request or a failed handshake.
InputKnown ==
  "READ" \in m_attr_mask /\ Len(rcv) > ssl /\ ~Freed =>
    queued \/ "IN" \in ev \/ mode = "READ" \/ part = 2 \/ m_tls_state = HsFailed

\* So is the end of the input, during the handshake.
EofKnown ==
  eof /\ Accepts =>
    queued \/ "IN" \in ev \/ mode \in {"READ", "WRITE"} \/ m_tls_state = HsFailed

\* Between passes, the handshake has the interest that its next step needs.
HandshakeArmed ==
  Accepts /\ m_tls_state < HsDone /\ mode \in {"wait", "batch"} =>
    IF m_tls_state \in HsReads THEN "READ" \in m_attr_mask
    ELSE "WRITE" \in m_attr_mask /\ (room = 0 \/ queued \/ "OUT" \in ev)

\* With no writeable event and outside of a WRITE pass, output waits for an
\* edge that will come, unless a read of a file gave nothing, and so does a
\* session that stopped reading.
OutputArmed ==
  Connected /\ ~m_evr_writeable /\ mode # "WRITE" =>
    /\ m_out_q > 0 /\ ~dry =>
         "WRITE" \in m_attr_mask /\ (queued \/ "OUT" \in ev \/ room = 0)
    /\ m_u.kind # "none" /\ ~dry =>
         m_out_q > 0 \/ (m_u.kind = "proxy" /\ ~m_u.done)
    /\ part = 2 => ~AtRest
    /\ "WRITE" \in m_attr_mask => queued \/ "OUT" \in ev \/ room = 0 \/ m_u.kind # "none"

\* A writeable event is queued for a response; only when the loop is about to
\* run the event may the response be over already.
EventHasResponse == m_evr_writeable /\ mode # "wait" => ~AtRest

One(b) == IF b THEN 1 ELSE 0

\* A WRITE pass runs, or the interest will bring one.
WriteDue == mode = "WRITE" \/ "WRITE" \in m_attr_mask

\* The requests of a plain connection that are not logged yet, and the late
\* end of its handshake, pay for the writeable event and for the WRITE pass
\* that runs or will run.
Logged ==
  Plain =>
    /\ IF Accepts THEN dones = 0
       ELSE dones + One(m_evr_writeable) + One(WriteDue) <= handled + bad + late
    /\ m_u.kind \in {"none", "file"} /\ (m_u.kind = "file" => m_u.done) /\ stray = 0

\* What a client that waits for its answers has in the socket of a connection:
\* the unread halves of one request, while no response is under way.
RqstInv ==
  Connected =>
    \/ rcv = << >> /\ part = 0 /\ sent % 2 = 0 /\ (sent = 0 => AtRest)
    \/ /\ AtRest
       /\ \/ rcv = <<0>> /\ part = 0 /\ sent % 2 = 1
          \/ rcv = <<0, 1>> /\ part = 0 /\ sent % 2 = 0 /\ sent > 0
          \/ rcv = << >> /\ part = 1 /\ sent % 2 = 1
          \/ rcv = <<1>> /\ part = 1 /\ sent % 2 = 0 /\ sent > 0

\* The same during the handshake, whose messages come first.
HelloInv ==
  Accepts /\ m_tls_state # HsFailed =>
    \/ rcv = << >> /\ sent = 0
    \/ m_tls_state \in HsReads /\ rcv = <<HsMsg>> /\ sent = 0
    \/ m_tls_state = 2 /\ rcv = <<HsMsg, 0>> /\ sent = 1
    \/ m_tls_state = 2 /\ rcv = <<HsMsg, 0, 1>> /\ sent = 2
    \/ m_tls_state > 2 /\ rcv = <<0>> /\ sent = 1
    \/ m_tls_state > 2 /\ rcv = <<0, 1>> /\ sent = 2

\* No WRITE pass ends a response, and so forgets the first half of a request,
\* while that half is read and the connection is to be kept.
HalfKept ==
  /\ part = 1 => ~m_evr_writeable
  /\ keep_alive => sent > 0
  /\ Connected /\ keep_alive =>
       /\ rcv \in {<<0>>, <<0, 1>>} => room > 0
       /\ AtRest => "WRITE" \notin m_attr_mask
       /\ mode = "WRITE" => part # 1

OneAtATime ==
  ~conf.pipelining => bad = 0 /\ stray = 0 /\ RqstInv /\ HelloInv /\ HalfKept

IInv ==
  /\ TypeOK /\ LoopInv /\ RespInv /\ StageInv
  /\ InputKnown /\ EofKnown /\ HandshakeArmed /\ OutputArmed
  /\ EventHasResponse /\ Logged /\ OneAtATime

Resp == [kind : {"none", "file", "proxy"}, left : Nat, done : BOOLEAN, shutdown : BOOLEAN]

\* The type invariant, by groups of variables.
SockType == /\ rcv \in Seq({HsMsg, 0, 1}) /\ ssl \in Nat /\ eof \in BOOLEAN
            /\ room \in 0 .. MaxRoom /\ sent \in 0 .. MaxPieces
PollType == m_attr_mask \in SUBSET {"READ", "WRITE"} /\ queued \in BOOLEAN
NcType == /\ conf \in Conf /\ m_nc_state \in {"ACCEPTING", "CONNECTED", "FREE"}
          /\ m_tls_state \in 0 .. HsFailed
RqstType == part \in 0 .. 2 /\ keep_alive \in BOOLEAN
RespType == /\ m_out_q \in Nat /\ m_u \in Resp
            /\ m_evr_writeable \in BOOLEAN /\ dry \in BOOLEAN
LoopType == mode \in {"wait", "batch", "READ", "WRITE"} /\ ev \in SUBSET {"IN", "OUT"}
HistType == /\ late \in 0 .. 1 /\ stray \in Nat /\ handled \in Nat /\ bad \in Nat
            /\ dones \in Nat

\* The groups make up the type invariant.
LEMMA TypeParts ==
  TypeOK <=> /\ SockType /\ PollType /\ NcType /\ RqstType /\ RespType
             /\ LoopType /\ HistType
BY DEF TypeOK, SockType, PollType, NcType, RqstType, RespType, LoopType, HistType, Resp

\* The same after a step.
LEMMA TypeNext ==
  ASSUME SockType', PollType', NcType', RqstType', RespType', LoopType', HistType'
  PROVE  TypeOK'
BY DEF TypeOK, SockType, PollType, NcType, RqstType, RespType, LoopType, HistType, Resp

\* The invariant gives what the runs check.
LEMMA InvGives ==
  IInv => NothingStalls /\ NeverRefused /\ DoneOnce
<1> SUFFICES ASSUME IInv PROVE NothingStalls /\ NeverRefused /\ DoneOnce
  OBVIOUS
<1>1. TypeOK
  BY DEF IInv
<1>2. NoLostInput
  <2>0. Quiet /\ ~Freed /\ ssl > 0 => bad > 0
    BY DEF Quiet, IInv, StageInv
  <2> SUFFICES ASSUME Quiet, ~Freed, Len(rcv) > ssl, m_tls_state # HsFailed, ~dry
               PROVE  \/ "READ" \notin m_attr_mask /\ room = 0
                      \/ /\ "READ" \notin m_attr_mask \/ part = 2
                         /\ m_u.kind = "proxy" /\ ~m_u.done
    <3>1. CASE dry /\ Quiet /\ ~Freed /\ Len(rcv) > ssl /\ m_tls_state # HsFailed
      <4>1. "READ" \notin m_attr_mask \/ part = 2
        BY <3>1 DEF IInv, InputKnown, LoopInv, Quiet
      <4> QED
        BY <2>0, <3>1, <4>1 DEF NoLostInput, Freed
    <3> QED
      BY <2>0, <3>1 DEF NoLostInput, Freed
  <2>1. mode = "wait" /\ ev = {} /\ ~queued /\ ~m_evr_writeable
    BY DEF Quiet, IInv, LoopInv
  <2>2. CASE Accepts
    <3>1. part = 0 /\ "READ" \notin m_attr_mask
      BY <2>1, <2>2 DEF IInv, StageInv, InputKnown, Freed
    <3>2. m_tls_state < HsDone
      BY <1>1, <2>1, <2>2, <3>1 DEF IInv, StageInv, TypeOK, HsDone, HsFailed
    <3> QED
      BY <2>1, <2>2, <3>1, <3>2 DEF IInv, HandshakeArmed
  <2>3. CASE Connected
    <3>1. CASE "READ" \in m_attr_mask
      <4>1. part = 2
        BY <2>1, <3>1 DEF IInv, InputKnown
      <4>2. "WRITE" \notin m_attr_mask
        BY <2>3, <3>1 DEF IInv, StageInv
      <4>3. m_out_q = 0 /\ m_u.kind # "none"
        BY <1>1, <2>1, <2>3, <4>1, <4>2 DEF IInv, OutputArmed, AtRest, TypeOK
      <4> QED
        BY <2>1, <2>3, <4>1, <4>3 DEF IInv, OutputArmed
    <3>2. CASE "READ" \notin m_attr_mask
      <4>1. "WRITE" \in m_attr_mask
        BY <2>3, <3>2 DEF IInv, StageInv
      <4>2. room = 0 \/ (m_u.kind # "none" /\ ~(m_out_q > 0))
        BY <2>1, <2>3, <4>1 DEF IInv, OutputArmed
      <4> QED
        BY <2>1, <2>3, <3>2, <4>2 DEF IInv, OutputArmed
    <3> QED
      BY <3>1, <3>2
  <2> QED
    BY <1>1, <2>2, <2>3 DEF TypeOK, Accepts, Connected, Freed
<1>3. ResponseAdvances
  <2> SUFFICES ASSUME Quiet, Connected, ~dry
               PROVE  /\ m_out_q > 0 => room = 0 /\ "WRITE" \in m_attr_mask
                      /\ m_u.kind # "none" =>
                           m_out_q > 0 \/ (m_u.kind = "proxy" /\ ~m_u.done)
    BY DEF ResponseAdvances, Connected
  <2>1. mode = "wait" /\ ev = {} /\ ~queued /\ ~m_evr_writeable
    BY DEF Quiet, IInv, LoopInv
  <2> QED
    BY <2>1 DEF IInv, OutputArmed
<1>4. HandshakeAdvances
  <2> SUFFICES ASSUME Quiet, Accepts, m_tls_state < HsDone
               PROVE  IF m_tls_state \in HsReads
                      THEN "READ" \in m_attr_mask /\ rcv = << >> /\ ~eof
                      ELSE "WRITE" \in m_attr_mask /\ room = 0
    BY DEF HandshakeAdvances, Accepts
  <2>1. mode = "wait" /\ ev = {} /\ ~queued /\ ~m_evr_writeable
    BY DEF Quiet, IInv, LoopInv
  <2>2. ~eof /\ m_tls_state # HsFailed /\ part = 0 /\ ~Freed
    BY <2>1 DEF IInv, EofKnown, StageInv, HsDone, HsFailed, Accepts, Freed
  <2>3. ssl = 0 /\ (rcv # << >> => Len(rcv) > 0)
    BY <1>1 DEF IInv, StageInv, TypeOK
  <2> QED
    BY <2>1, <2>2, <2>3 DEF IInv, HandshakeArmed, InputKnown
<1>5. NeverRefused
  BY DEF IInv, NeverRefused, OneAtATime
<1>6. DoneOnce
  <2> SUFFICES ASSUME Plain PROVE dones <= handled + bad + late
    BY DEF DoneOnce
  <2>1. dones \in Nat /\ handled \in Nat /\ bad \in Nat /\ late \in 0 .. 1
    BY <1>1 DEF TypeOK
  <2>2. One(m_evr_writeable) \in Nat /\ One(WriteDue) \in Nat
    BY DEF One, WriteDue
  <2> QED
    BY <2>1, <2>2 DEF IInv, Logged
<1> QED
  BY <1>1, <1>2, <1>3, <1>4, <1>5, <1>6 DEF NothingStalls

\* The initial state.
LEMMA InitInv ==
  Init => IInv
<1> SUFFICES ASSUME Init PROVE IInv
  OBVIOUS
<1> USE ConfigAssumption DEF Init
<1>1. TypeOK
  <2>1. SockType
    <3>1. room \in 0 .. MaxRoom /\ sent \in 0 .. MaxPieces /\ rcv \in Seq({HsMsg, 0, 1})
      OBVIOUS
    <3> QED
      BY <3>1 DEF SockType
  <2>2. PollType /\ NcType /\ LoopType
    BY DEF PollType, NcType, LoopType, HsDone, HsFailed
  <2>3. RespType
    BY DEF RespType, Resp, NoResp
  <2>4. part \in 0 .. 2
    OBVIOUS
  <2>5. keep_alive \in BOOLEAN
    OBVIOUS
  <2>6. RqstType
    BY <2>4, <2>5 DEF RqstType
  <2>7. HistType
    BY DEF HistType
  <2> QED
    BY <2>1, <2>2, <2>3, <2>6, <2>7, TypeParts
<1>2. LoopInv /\ RespInv /\ StageInv
  BY DEF LoopInv, RespInv, StageInv, Accepts, Connected, Freed, AtRest, NoResp, HsDone
<1>3. InputKnown /\ EofKnown /\ HandshakeArmed /\ OutputArmed /\ EventHasResponse
  BY DEF InputKnown, EofKnown, HandshakeArmed, OutputArmed, EventHasResponse,
         Accepts, Connected, HsReads, HsDone
<1>4. Logged
  BY DEF Logged, Plain, One, WriteDue, Accepts, NoResp
<1>5. OneAtATime
  BY DEF OneAtATime, RqstInv, HelloInv, HalfKept, Accepts, Connected
<1> QED
  BY <1>1, <1>2, <1>3, <1>4, <1>5 DEF IInv
----------------------------------------------------------------------------
(* The peer, the kernel and the event loop *)

\* The peer closes its side.
LEMMA PeerCloseInv ==
  ASSUME IInv, PeerClose
  PROVE  IInv'
<1>1. /\ SockType /\ PollType /\ NcType /\ RqstType /\ RespType /\ LoopType /\ HistType
      /\ LoopInv /\ RespInv /\ StageInv /\ InputKnown /\ EofKnown /\ HandshakeArmed
      /\ OutputArmed /\ EventHasResponse /\ Logged /\ OneAtATime
  BY TypeParts DEF IInv
<1>2. /\ ~eof /\ ~Freed
      /\ eof' = TRUE /\ queued' = TRUE
      /\ UNCHANGED <<rcv, ssl, room, sent, m_attr_mask, conf, m_nc_state,
                     m_tls_state, part, keep_alive, m_out_q, m_u,
                     m_evr_writeable, dry, mode, ev, late, stray, handled, bad,
                     dones>>
  BY DEF PeerClose, Freed, sockVars, pollVars, ncVars, rqstVars, respVars,
         loopVars, histVars
<1>3. TypeOK'
  <2>1. NcType' /\ RqstType' /\ RespType' /\ LoopType' /\ HistType'
    BY <1>1, <1>2 DEF NcType, RqstType, RespType, LoopType, HistType
  <2>2. SockType'
    BY <1>1, <1>2 DEF SockType
  <2>3. PollType'
    BY <1>1, <1>2 DEF PollType
  <2> QED
    BY <2>1, <2>2, <2>3, TypeNext
<1>4. LoopInv'
  BY <1>1, <1>2 DEF LoopInv
<1>5. RespInv'
  BY <1>1, <1>2 DEF RespInv
<1>6. StageInv'
  BY <1>1, <1>2 DEF StageInv, Accepts, Connected, Freed, AtRest
<1>7. InputKnown'
  BY <1>1, <1>2 DEF InputKnown, Accepts, Connected, Freed
<1>8. EofKnown' /\ HandshakeArmed'
  BY <1>1, <1>2 DEF EofKnown, HandshakeArmed, Accepts, Connected, Freed
<1>9. OutputArmed'
  BY <1>1, <1>2 DEF OutputArmed, Accepts, Connected, Freed, AtRest
<1>10. EventHasResponse'
  BY <1>1, <1>2 DEF EventHasResponse, AtRest
<1>11. Logged'
  BY <1>1, <1>2 DEF Logged, Plain, One, WriteDue, Accepts
<1>12. OneAtATime'
  BY <1>1, <1>2 DEF OneAtATime, RqstInv, HelloInv, HalfKept, Accepts, Connected, Freed,
                    AtRest
<1> QED
  BY <1>3, <1>4, <1>5, <1>6, <1>7, <1>8, <1>9, <1>10, <1>11, <1>12 DEF IInv

\* The peer receives what was sent.
LEMMA PeerDrainInv ==
  ASSUME IInv, PeerDrain
  PROVE  IInv'
<1>1. /\ SockType /\ PollType /\ NcType /\ RqstType /\ RespType /\ LoopType /\ HistType
      /\ LoopInv /\ RespInv /\ StageInv /\ InputKnown /\ EofKnown /\ HandshakeArmed
      /\ OutputArmed /\ EventHasResponse /\ Logged /\ OneAtATime
  BY TypeParts DEF IInv
<1>2. /\ room < MaxRoom /\ ~Freed
      /\ room' = MaxRoom
      /\ queued' = (queued \/ (room = 0 /\ "WRITE" \in m_attr_mask))
      /\ UNCHANGED <<rcv, ssl, eof, sent, m_attr_mask, conf, m_nc_state,
                     m_tls_state, part, keep_alive, m_out_q, m_u,
                     m_evr_writeable, dry, mode, ev, late, stray, handled, bad,
                     dones>>
  BY DEF PeerDrain, Freed, sockVars, pollVars, ncVars, rqstVars, respVars,
         loopVars, histVars
<1>3. MaxRoom \in 0 .. MaxRoom /\ MaxRoom > 0
  BY ConfigAssumption
<1>4. TypeOK'
  <2>1. NcType' /\ RqstType' /\ RespType' /\ LoopType' /\ HistType'
    BY <1>1, <1>2 DEF NcType, RqstType, RespType, LoopType, HistType
  <2>2. SockType'
    BY <1>1, <1>2, <1>3 DEF SockType
  <2>3. PollType'
    BY <1>1, <1>2 DEF PollType
  <2> QED
    BY <2>1, <2>2, <2>3, TypeNext
<1>5. LoopInv'
  BY <1>1, <1>2 DEF LoopInv
<1>6. RespInv'
  BY <1>1, <1>2 DEF RespInv
<1>7. StageInv'
  BY <1>1, <1>2 DEF StageInv, Accepts, Connected, Freed, AtRest
<1>8. InputKnown'
  BY <1>1, <1>2 DEF InputKnown, Accepts, Connected, Freed
<1>9. EofKnown' /\ HandshakeArmed'
  BY <1>1, <1>2 DEF EofKnown, HandshakeArmed, Accepts, Connected, Freed
<1>10. OutputArmed'
  BY <1>1, <1>2 DEF OutputArmed, Accepts, Connected, Freed, AtRest
<1>11. EventHasResponse'
  BY <1>1, <1>2 DEF EventHasResponse, AtRest
<1>12. Logged'
  BY <1>1, <1>2 DEF Logged, Plain, One, WriteDue, Accepts
<1>13. OneAtATime'
  BY <1>1, <1>2, <1>3 DEF OneAtATime, RqstInv, HelloInv, HalfKept, Accepts, Connected,
                          Freed, AtRest
<1> QED
  BY <1>4, <1>5, <1>6, <1>7, <1>8, <1>9, <1>10, <1>11, <1>12, <1>13 DEF IInv

\* The event loop waits, and harvests what epoll reports.
LEMMA WaitInv ==
  ASSUME IInv, Wait
  PROVE  IInv'
<1>1. /\ SockType /\ PollType /\ NcType /\ RqstType /\ RespType /\ LoopType /\ HistType
      /\ LoopInv /\ RespInv /\ StageInv /\ InputKnown /\ EofKnown /\ HandshakeArmed
      /\ OutputArmed /\ EventHasResponse /\ Logged /\ OneAtATime
  BY TypeParts DEF IInv
<1>2. /\ mode = "wait" /\ ~m_evr_writeable /\ queued
      /\ queued' = FALSE
      /\ ev' = Events(m_attr_mask)
      /\ mode' = IF ev' = {} THEN "wait" ELSE "batch"
      /\ UNCHANGED <<rcv, ssl, eof, room, sent, m_attr_mask, conf, m_nc_state,
                     m_tls_state, part, keep_alive, m_out_q, m_u,
                     m_evr_writeable, dry, late, stray, handled, bad, dones>>
  BY DEF Wait, sockVars, pollVars, ncVars, rqstVars, respVars, loopVars,
         histVars
<1>3. /\ "IN" \in ev' <=> eof \/ ("READ" \in m_attr_mask /\ Len(rcv) > ssl)
      /\ "OUT" \in ev' <=> "WRITE" \in m_attr_mask /\ room > 0
      /\ ev' \subseteq {"IN", "OUT"}
  BY <1>2 DEF Events
<1>4. TypeOK'
  <2>1. SockType' /\ NcType' /\ RqstType' /\ RespType' /\ HistType'
    BY <1>1, <1>2 DEF SockType, NcType, RqstType, RespType, HistType
  <2>2. PollType'
    BY <1>1, <1>2 DEF PollType
  <2>3. LoopType'
    BY <1>1, <1>2, <1>3 DEF LoopType
  <2> QED
    BY <2>1, <2>2, <2>3, TypeNext
<1>5. LoopInv'
  BY <1>1, <1>2 DEF LoopInv
<1>6. RespInv'
  BY <1>1, <1>2 DEF RespInv
<1>7. StageInv'
  BY <1>1, <1>2, <1>3 DEF StageInv, PollType, Accepts, Connected, Freed, AtRest, LoopInv
<1>8. InputKnown'
  BY <1>1, <1>2, <1>3 DEF InputKnown, Freed
<1>9. EofKnown' /\ HandshakeArmed'
  BY <1>1, <1>2, <1>3 DEF EofKnown, HandshakeArmed, Accepts, SockType, LoopInv
<1>10. OutputArmed'
  BY <1>1, <1>2, <1>3 DEF OutputArmed, Accepts, Connected, Freed, AtRest, SockType
<1>11. EventHasResponse'
  BY <1>1, <1>2 DEF EventHasResponse, AtRest
<1>12. Logged'
  BY <1>1, <1>2 DEF Logged, Plain, One, WriteDue, Accepts
<1>13. OneAtATime'
  BY <1>1, <1>2 DEF OneAtATime, RqstInv, HelloInv, HalfKept, Accepts, Connected, Freed,
                    AtRest
<1> QED
  BY <1>4, <1>5, <1>6, <1>7, <1>8, <1>9, <1>10, <1>11, <1>12, <1>13 DEF IInv

\* The event loop dispatches the next event of the fd.
LEMMA DispatchInv ==
  ASSUME IInv, Dispatch
  PROVE  IInv'
<1>1. /\ SockType /\ PollType /\ NcType /\ RqstType /\ RespType /\ LoopType /\ HistType
      /\ LoopInv /\ RespInv /\ StageInv /\ InputKnown /\ EofKnown /\ HandshakeArmed
      /\ OutputArmed /\ EventHasResponse /\ Logged /\ OneAtATime
  BY TypeParts DEF IInv
<1>2. /\ mode = "batch"
      /\ mode' = IF "IN" \in ev THEN "READ" ELSE IF "WRITE" \in m_attr_mask THEN "WRITE" ELSE "wait"
      /\ ev' = IF "IN" \in ev THEN ev \ {"IN"} ELSE {}
      /\ UNCHANGED <<rcv, ssl, eof, room, sent, m_attr_mask, queued, conf,
                     m_nc_state, m_tls_state, part, keep_alive, m_out_q, m_u,
                     m_evr_writeable, dry, late, stray, handled, bad, dones>>
  BY DEF Dispatch, sockVars, pollVars, ncVars, rqstVars, respVars, loopVars,
         histVars
<1>3. TypeOK'
  <2>1. SockType' /\ PollType' /\ NcType' /\ RqstType' /\ RespType' /\ HistType'
    BY <1>1, <1>2 DEF SockType, PollType, NcType, RqstType, RespType, HistType
  <2>2. LoopType'
    BY <1>1, <1>2 DEF LoopType
  <2> QED
    BY <2>1, <2>2, TypeNext
<1>4. LoopInv'
  BY <1>1, <1>2 DEF LoopInv, LoopType
<1>5. RespInv'
  BY <1>1, <1>2 DEF RespInv
<1>6. StageInv'
  BY <1>1, <1>2 DEF StageInv, Accepts, Connected, Freed, AtRest
<1>7. InputKnown'
  BY <1>1, <1>2 DEF InputKnown, Accepts, Connected, Freed
<1>8. EofKnown' /\ HandshakeArmed'
  BY <1>1, <1>2 DEF EofKnown, HandshakeArmed, Accepts, Connected, Freed
<1>9. OutputArmed'
  BY <1>1, <1>2 DEF OutputArmed, Accepts, Connected, Freed, AtRest
<1>10. EventHasResponse'
  BY <1>1, <1>2 DEF EventHasResponse, AtRest
<1>11. Logged'
  BY <1>1, <1>2 DEF Logged, Plain, One, WriteDue, Accepts
<1>12. OneAtATime'
  BY <1>1, <1>2 DEF OneAtATime, RqstInv, HelloInv, HalfKept, Accepts, Connected, Freed,
                    AtRest
<1> QED
  BY <1>3, <1>4, <1>5, <1>6, <1>7, <1>8, <1>9, <1>10, <1>11, <1>12 DEF IInv

\* The writeable event runs.
LEMMA RunWriteableInv ==
  ASSUME IInv, RunWriteable
  PROVE  IInv'
<1>1. /\ SockType /\ PollType /\ NcType /\ RqstType /\ RespType /\ LoopType /\ HistType
      /\ LoopInv /\ RespInv /\ StageInv /\ InputKnown /\ EofKnown /\ HandshakeArmed
      /\ OutputArmed /\ EventHasResponse /\ Logged /\ OneAtATime
  BY TypeParts DEF IInv
<1>2. /\ mode = "wait" /\ m_evr_writeable
      /\ m_evr_writeable' = FALSE
      /\ mode' = "WRITE"
      /\ UNCHANGED <<rcv, ssl, eof, room, sent, m_attr_mask, queued, conf,
                     m_nc_state, m_tls_state, part, keep_alive, m_out_q, m_u, dry,
                     ev, late, stray, handled, bad, dones>>
  BY DEF RunWriteable, sockVars, pollVars, ncVars, rqstVars, respVars,
         loopVars, histVars
<1>3. TypeOK'
  <2>1. SockType' /\ PollType' /\ NcType' /\ RqstType' /\ HistType'
    BY <1>1, <1>2 DEF SockType, PollType, NcType, RqstType, HistType
  <2>2. RespType'
    BY <1>1, <1>2 DEF RespType
  <2>3. LoopType'
    BY <1>1, <1>2 DEF LoopType
  <2> QED
    BY <2>1, <2>2, <2>3, TypeNext
<1>4. LoopInv'
  BY <1>1, <1>2 DEF LoopInv
<1>5. RespInv'
  BY <1>1, <1>2 DEF RespInv
<1>6. StageInv'
  BY <1>1, <1>2 DEF StageInv, Accepts, Connected, Freed, AtRest
<1>7. InputKnown'
  BY <1>1, <1>2 DEF InputKnown, Accepts, Connected, Freed
<1>8. EofKnown' /\ HandshakeArmed'
  BY <1>1, <1>2 DEF EofKnown, HandshakeArmed, Accepts, Connected, Freed
<1>9. OutputArmed'
  BY <1>1, <1>2 DEF OutputArmed, Accepts, Connected, Freed, AtRest
<1>10. EventHasResponse'
  BY <1>1, <1>2 DEF EventHasResponse, AtRest
<1>11. Logged'
  BY <1>1, <1>2 DEF Logged, Plain, One, WriteDue, Accepts, HistType
<1>12. OneAtATime'
  BY <1>1, <1>2 DEF OneAtATime, RqstInv, HelloInv, HalfKept, Accepts, Connected, Freed,
                    AtRest
<1> QED
  BY <1>3, <1>4, <1>5, <1>6, <1>7, <1>8, <1>9, <1>10, <1>11, <1>12 DEF IInv
\* Short sequences of numbers, by their elements.
LEMMA IsTuple ==
  ASSUME NEW s \in Seq(Int), NEW a \in Int, NEW b \in Int, NEW c \in Int
  PROVE  /\ Len(s) = 1 /\ s[1] = a => s = <<a>>
         /\ Len(s) = 2 /\ s[1] = a /\ s[2] = b => s = <<a, b>>
         /\ Len(s) = 3 /\ s[1] = a /\ s[2] = b /\ s[3] = c => s = <<a, b, c>>
<1>1. ASSUME Len(s) = 1, s[1] = a PROVE s = <<a>>
  <2>1. <<a>> \in Seq(Int) /\ Len(<<a>>) = 1 /\ \A i \in 1 .. 1 : s[i] = <<a>>[i]
    BY <1>1
  <2> QED
    BY <1>1, <2>1, SeqEqual
<1>2. ASSUME Len(s) = 2, s[1] = a, s[2] = b PROVE s = <<a, b>>
  <2>1. <<a, b>> \in Seq(Int) /\ Len(<<a, b>>) = 2 /\ \A i \in 1 .. 2 : s[i] = <<a, b>>[i]
    BY <1>2
  <2> QED
    BY <1>2, <2>1, SeqEqual
<1>3. ASSUME Len(s) = 3, s[1] = a, s[2] = b, s[3] = c PROVE s = <<a, b, c>>
  <2>1. /\ <<a, b, c>> \in Seq(Int) /\ Len(<<a, b, c>>) = 3
        /\ \A i \in 1 .. 3 : s[i] = <<a, b, c>>[i]
    BY <1>3
  <2> QED
    BY <1>3, <2>1, SeqEqual
<1> QED
  BY <1>1, <1>2, <1>3

\* Short sequences grow by one.
LEMMA Append2 ==
  ASSUME NEW x \in Int, NEW y \in Int
  PROVE  Append(<<x>>, y) = <<x, y>>
<1> DEFINE s == Append(<<x>>, y)
<1>1. s \in Seq(Int) /\ Len(s) = 2 /\ s[1] = x /\ s[2] = y
  OBVIOUS
<1> HIDE DEF s
<1>2. s = <<x, y>>
  BY <1>1, IsTuple
<1> QED
  BY <1>2 DEF s

\* The same for a longer one.
LEMMA Append3 ==
  ASSUME NEW x \in Int, NEW y \in Int, NEW z \in Int
  PROVE  Append(<<x, y>>, z) = <<x, y, z>>
<1> DEFINE s == Append(<<x, y>>, z)
<1>1. s \in Seq(Int) /\ Len(s) = 3 /\ s[1] = x /\ s[2] = y /\ s[3] = z
  OBVIOUS
<1> HIDE DEF s
<1>2. s = <<x, y, z>>
  BY <1>1, IsTuple
<1> QED
  BY <1>2 DEF s

\* What the peer sends is added to what the socket holds.
LEMMA Grown ==
  /\ Append(<< >>, 0) = <<0>> /\ Append(<< >>, 1) = <<1>> /\ Append(<< >>, HsMsg) = <<HsMsg>>
  /\ Append(<<0>>, 1) = <<0, 1>> /\ Append(<<HsMsg>>, 0) = <<HsMsg, 0>>
  /\ Append(<<HsMsg, 0>>, 1) = <<HsMsg, 0, 1>>
<1>1. HsMsg \in Int
  BY DEF HsMsg
<1>2. Append(<< >>, 0) = <<0>> /\ Append(<< >>, 1) = <<1>> /\ Append(<< >>, HsMsg) = <<HsMsg>>
  OBVIOUS
<1>3. Append(<<0>>, 1) = <<0, 1>>
  BY Append2
<1>4. Append(<<HsMsg>>, 0) = <<HsMsg, 0>>
  BY <1>1, Append2
<1>5. Append(<<HsMsg, 0>>, 1) = <<HsMsg, 0, 1>>
  BY <1>1, Append3
<1> QED
  BY <1>2, <1>3, <1>4, <1>5

\* The halves of the requests alternate.
LEMMA Halves ==
  ASSUME NEW n \in Nat
  PROVE  /\ n % 2 \in {0, 1}
         /\ n % 2 = 0 => (n + 1) % 2 = 1
         /\ n % 2 = 1 => (n + 1) % 2 = 0
OBVIOUS

\* The peer sends a handshake message, or half of a request.
LEMMA PeerSendInv ==
  ASSUME IInv, NEW x \in {HsMsg, 0, 1}, PeerSend(x)
  PROVE  IInv'
<1>1. /\ SockType /\ PollType /\ NcType /\ RqstType /\ RespType /\ LoopType /\ HistType
      /\ LoopInv /\ RespInv /\ StageInv /\ InputKnown /\ EofKnown /\ HandshakeArmed
      /\ OutputArmed /\ EventHasResponse /\ Logged /\ OneAtATime
  BY TypeParts DEF IInv
<1>2. /\ ~eof /\ ~Freed
      /\ x = HsMsg => conf.tls /\ rcv = << >> /\ m_tls_state \in {0, 2}
      /\ rcv' = Append(rcv, x)
      /\ sent' = IF x = HsMsg THEN sent ELSE sent + 1
      /\ queued' = (queued \/ "READ" \in m_attr_mask)
      /\ UNCHANGED <<ssl, eof, room, m_attr_mask, conf, m_nc_state, m_tls_state,
                     part, keep_alive, m_out_q, m_u, m_evr_writeable, dry, mode,
                     ev, late, stray, handled, bad, dones>>
  BY DEF PeerSend, PeerMaySend, Freed, sockVars, pollVars, ncVars, rqstVars,
         respVars, loopVars, histVars
<1>3. ASSUME x # HsMsg
      PROVE  /\ m_tls_state >= 2 /\ (m_tls_state = 2 => rcv # << >>)
             /\ sent < MaxPieces /\ x = sent % 2 /\ sent' = sent + 1
  BY <1>3 DEF PeerSend, PeerMaySend
<1>4. ASSUME x = 0, sent > 0, ~conf.pipelining PROVE Answered
  BY <1>4 DEF PeerSend, PeerMaySend, HsMsg
<1>5. TypeOK'
  <2>1. NcType' /\ RqstType' /\ RespType' /\ LoopType' /\ HistType'
    BY <1>1, <1>2 DEF NcType, RqstType, RespType, LoopType, HistType
  <2>2. SockType'
    <3>1. rcv' \in Seq({HsMsg, 0, 1})
      BY <1>1, <1>2 DEF SockType
    <3>2. sent' \in 0 .. MaxPieces
      BY <1>1, <1>2, <1>3, ConfigAssumption DEF SockType
    <3> QED
      BY <1>1, <1>2, <3>1, <3>2 DEF SockType
  <2>3. PollType'
    BY <1>1, <1>2 DEF PollType
  <2> QED
    BY <2>1, <2>2, <2>3, TypeNext
<1>6. LoopInv'
  BY <1>1, <1>2 DEF LoopInv
<1>7. RespInv'
  BY <1>1, <1>2 DEF RespInv
<1>8. StageInv'
  <2>1. Len(rcv') = Len(rcv) + 1 /\ Len(rcv) \in Nat /\ ssl \in Nat
    BY <1>1, <1>2 DEF SockType
  <2> QED
    BY <1>1, <1>2, <2>1 DEF StageInv, Accepts, Connected, Freed, AtRest
<1>9. InputKnown'
  BY <1>1, <1>2 DEF InputKnown, Accepts, Connected, Freed
<1>10. EofKnown' /\ HandshakeArmed'
  BY <1>1, <1>2 DEF EofKnown, HandshakeArmed, Accepts, Connected, Freed
<1>11. OutputArmed'
  BY <1>1, <1>2 DEF OutputArmed, Accepts, Connected, Freed, AtRest
<1>12. EventHasResponse'
  BY <1>1, <1>2 DEF EventHasResponse, AtRest
<1>13. Logged'
  BY <1>1, <1>2 DEF Logged, Plain, One, WriteDue, Accepts
<1>14. OneAtATime'
  <2> SUFFICES ASSUME ~conf.pipelining PROVE OneAtATime'
    BY <1>2 DEF OneAtATime
  <2>1. sent \in Nat /\ MaxRoom > 0
    BY <1>1, ConfigAssumption DEF SockType
  <2>2. RqstInv /\ HelloInv /\ HalfKept /\ bad = 0 /\ stray = 0
    BY <1>1 DEF OneAtATime
  <2>3. CASE Connected
    <3>1. m_tls_state = HsDone /\ x # HsMsg /\ sent' = sent + 1
      BY <1>1, <1>2, <2>3 DEF StageInv, HsDone, HsMsg
    <3>2. CASE x = 0
      <4>1. sent % 2 = 0 /\ (sent + 1) % 2 = 1
        BY <1>3, <2>1, <3>1, <3>2, Halves
      <4>2. sent > 0 => AtRest /\ rcv = << >> /\ part = 0 /\ room = MaxRoom
        <5>1. sent > 0 => Answered
          BY <1>4, <3>2
        <5> QED
          BY <1>1, <5>1 DEF Answered, RespInv, AtRest, NoResp
      <4>3. AtRest /\ rcv = << >> /\ part = 0
        BY <2>1, <2>2, <2>3, <4>1, <4>2 DEF RqstInv
      <4>4. rcv' = <<0>>
        BY <1>2, <3>2, <4>3, Grown
      <4>5. RqstInv'
        BY <1>2, <3>1, <4>1, <4>3, <4>4 DEF RqstInv, AtRest
      <4>6. HalfKept'
        BY <1>2, <2>1, <2>2, <3>1, <4>2 DEF HalfKept, AtRest, Connected
      <4>7. HelloInv'
        BY <1>2, <2>3 DEF HelloInv, Accepts, Connected
      <4> QED
        BY <1>2, <2>2, <4>5, <4>6, <4>7 DEF OneAtATime
    <3>3. CASE x = 1
      <4>1. sent % 2 = 1 /\ (sent + 1) % 2 = 0
        BY <1>3, <2>1, <3>1, <3>3, Halves
      <4>2. AtRest /\ ((rcv = <<0>> /\ part = 0) \/ (rcv = << >> /\ part = 1))
        BY <2>2, <2>3, <4>1 DEF RqstInv
      <4>3. (rcv' = <<0, 1>> /\ part = 0 /\ rcv = <<0>>) \/ (rcv' = <<1>> /\ part = 1)
        BY <1>2, <3>3, <4>2, Grown
      <4>4. RqstInv'
        BY <1>2, <2>1, <3>1, <4>1, <4>2, <4>3 DEF RqstInv, AtRest
      <4>5. HalfKept'
        BY <1>2, <2>1, <2>2, <3>1, <4>3 DEF HalfKept, AtRest, Connected
      <4>6. HelloInv'
        BY <1>2, <2>3 DEF HelloInv, Accepts, Connected
      <4> QED
        BY <1>2, <2>2, <4>4, <4>5, <4>6 DEF OneAtATime
    <3> QED
      BY <3>1, <3>2, <3>3
  <2>4. CASE Accepts
    <3>1. RqstInv'
      BY <1>2, <2>4 DEF RqstInv, Accepts, Connected
    <3>2. HalfKept'
      BY <1>1, <1>2, <2>4 DEF HalfKept, StageInv, Accepts, Connected
    <3>3. HelloInv'
      <4> SUFFICES ASSUME m_tls_state # HsFailed PROVE HelloInv'
        BY <1>2 DEF HelloInv
      <4>1. CASE x = HsMsg
        <5>1. rcv' = <<HsMsg>> /\ sent' = sent /\ sent = 0
          BY <1>2, <2>2, <2>4, <4>1, Grown DEF HelloInv, HsMsg
        <5> QED
          BY <1>2, <4>1, <5>1 DEF HelloInv, HsReads
      <4>2. CASE x # HsMsg
        <5>1. sent' = sent + 1 /\ m_tls_state >= 2 /\ x = sent % 2
          BY <1>3, <4>2
        <5>2. CASE sent = 0
          <6>1. (m_tls_state = 2 /\ rcv = <<HsMsg>>) \/ (m_tls_state > 2 /\ rcv = << >>)
            BY <1>1, <1>3, <2>2, <2>4, <4>2, <5>1, <5>2 DEF HelloInv, HsReads, NcType,
                 HsFailed
          <6>2. x = 0
            BY <5>1, <5>2
          <6>3. (m_tls_state = 2 /\ rcv' = <<HsMsg, 0>>) \/ (m_tls_state > 2 /\ rcv' = <<0>>)
            BY <1>2, <6>1, <6>2, Grown
          <6> QED
            BY <1>2, <5>1, <5>2, <6>3 DEF HelloInv
        <5>3. CASE sent = 1
          <6>1. (m_tls_state = 2 /\ rcv = <<HsMsg, 0>>) \/ (m_tls_state > 2 /\ rcv = <<0>>)
            BY <2>2, <2>4, <5>1, <5>3 DEF HelloInv
          <6>2. x = 1
            BY <5>1, <5>3
          <6>3. (m_tls_state = 2 /\ rcv' = <<HsMsg, 0, 1>>) \/ (m_tls_state > 2 /\ rcv' = <<0, 1>>)
            BY <1>2, <6>1, <6>2, Grown
          <6> QED
            BY <1>2, <5>1, <5>3, <6>3 DEF HelloInv
        <5>4. CASE sent = 2
          <6>1. rcv # << >> /\ x = 0
            BY <2>2, <2>4, <5>1, <5>4 DEF HelloInv
          <6>2. Answered
            BY <1>4, <5>4, <6>1
          <6> QED
            BY <6>1, <6>2 DEF Answered
        <5> QED
          BY <2>2, <2>4, <5>2, <5>3, <5>4 DEF HelloInv
      <4> QED
        BY <4>1, <4>2
    <3> QED
      BY <1>2, <2>2, <3>1, <3>2, <3>3 DEF OneAtATime
  <2> QED
    BY <1>1, <1>2, <2>3, <2>4 DEF NcType, Accepts, Connected, Freed
<1> QED
  BY <1>5, <1>6, <1>7, <1>8, <1>9, <1>10, <1>11, <1>12, <1>13, <1>14 DEF IInv

\* A session is torn down, whatever the socket holds.
LEMMA TeardownInv ==
  ASSUME IInv, Teardown, SockType', ssl' <= Len(rcv'), ~conf.tls => ssl' = 0,
         RqstType', sent' = sent, keep_alive' = keep_alive, late' = late, stray' = stray,
         handled' = handled, bad' = bad, dones' \in Nat,
         Plain => dones' <= handled + bad + late
  PROVE  IInv'
<1>1. /\ TypeOK /\ LoopInv /\ RespInv /\ StageInv /\ Logged /\ OneAtATime
  BY DEF IInv
<1>2. /\ Freed' /\ mode' = "wait" /\ ev' = {} /\ m_attr_mask' = {} /\ queued' = FALSE
      /\ m_out_q' = 0 /\ m_u' = NoResp /\ m_evr_writeable' = FALSE /\ dry' = FALSE
      /\ conf' = conf /\ m_tls_state' = m_tls_state
  BY DEF Teardown, ReturnError, Freed
<1>3. ~Accepts' /\ ~Connected'
  BY <1>2 DEF Freed, Accepts, Connected
<1>4. m_u'.kind = "none" /\ AtRest'
  BY <1>2 DEF NoResp, AtRest
<1>5. TypeOK'
  <2>1. PollType' /\ LoopType'
    BY <1>2 DEF PollType, LoopType
  <2>2. NcType'
    BY <1>1, <1>2 DEF NcType, TypeOK, Freed
  <2>3. RespType'
    BY <1>2 DEF RespType, Resp, NoResp
  <2>4. HistType'
    BY <1>1 DEF HistType, TypeOK
  <2> QED
    BY <2>1, <2>2, <2>3, <2>4, TypeNext
<1>6. LoopInv' /\ RespInv'
  BY <1>2, <1>4 DEF LoopInv, RespInv
<1>7. StageInv'
  BY <1>1, <1>2, <1>3, <1>4 DEF StageInv
<1>8. InputKnown' /\ EofKnown' /\ HandshakeArmed' /\ OutputArmed' /\ EventHasResponse'
  BY <1>2, <1>3 DEF InputKnown, EofKnown, HandshakeArmed, OutputArmed, EventHasResponse
<1>9. Logged'
  <2> SUFFICES ASSUME Plain PROVE Logged'
    BY <1>2 DEF Logged, Plain
  <2>1. /\ One(m_evr_writeable)' \in Int /\ One(m_evr_writeable)' <= 0
        /\ One(WriteDue)' \in Int /\ One(WriteDue)' <= 0
    BY <1>2 DEF One, WriteDue
  <2>2. handled \in Nat /\ bad \in Nat /\ late \in 0 .. 1
    BY <1>1 DEF TypeOK
  <2>3. dones' <= handled' + bad' + late'
    BY Zenon
  <2>4. dones' + One(m_evr_writeable)' + One(WriteDue)' <= handled' + bad' + late'
    BY <2>1, <2>2, <2>3
  <2>5. stray' = 0 /\ m_u'.kind = "none"
    BY <1>1, <1>4 DEF Logged
  <2> QED
    BY <1>3, <2>4, <2>5 DEF Logged
<1>10. OneAtATime'
  BY <1>1, <1>2, <1>3 DEF OneAtATime, RqstInv, HelloInv, HalfKept
<1> QED
  BY <1>5, <1>6, <1>7, <1>8, <1>9, <1>10 DEF IInv

\* The teardowns that leave the counters alone: the idle timer, the end of the
\* input, a failed write and a failed handler.
LEMMA QuietTeardown ==
  ASSUME IInv, Teardown, SockType', ssl' <= Len(rcv'), ~conf.tls => ssl' = 0,
         sent' = sent, UNCHANGED <<rqstVars, histVars>>
  PROVE  IInv'
<1>1. RqstType /\ HistType
  BY TypeParts DEF IInv
<1>2. RqstType'
  BY <1>1 DEF RqstType, rqstVars
<1>3. /\ keep_alive' = keep_alive /\ late' = late /\ stray' = stray /\ handled' = handled
      /\ bad' = bad /\ dones' = dones
  BY DEF rqstVars, histVars
<1>4. dones' \in Nat /\ (Plain => dones' <= handled + bad + late)
  BY <1>1, <1>3, InvGives DEF HistType, DoneOnce
<1> QED
  BY <1>2, <1>3, <1>4, TeardownInv

\* The idle timer.
LEMMA TimeoutInv ==
  ASSUME IInv, Timeout
  PROVE  IInv'
<1>1. SockType' /\ ssl' <= Len(rcv') /\ (~conf.tls => ssl' = 0) /\ sent' = sent
  <2>1. SockType /\ StageInv
    BY TypeParts DEF IInv
  <2> QED
    BY <2>1 DEF Timeout, sockVars, SockType, StageInv
<1> QED
  BY <1>1, QuietTeardown DEF Timeout

\* The end of the input.
LEMMA ReadEofInv ==
  ASSUME IInv, ReadEof
  PROVE  IInv'
<1>1. SockType' /\ ssl' <= Len(rcv') /\ (~conf.tls => ssl' = 0) /\ sent' = sent
  <2>1. SockType /\ StageInv
    BY TypeParts DEF IInv
  <2> QED
    BY <2>1 DEF ReadEof, sockVars, SockType, StageInv
<1> QED
  BY <1>1, QuietTeardown DEF ReadEof

\* A write fails.
LEMMA WriteErrorInv ==
  ASSUME IInv, WriteError
  PROVE  IInv'
<1>1. SockType' /\ ssl' <= Len(rcv') /\ (~conf.tls => ssl' = 0) /\ sent' = sent
  <2>1. SockType /\ StageInv
    BY TypeParts DEF IInv
  <2> QED
    BY <2>1 DEF WriteError, sockVars, SockType, StageInv
<1> QED
  BY <1>1, QuietTeardown DEF WriteError

\* What nc_read() leaves in the socket.
LEMMA RecvType ==
  ASSUME SockType, NEW k \in 1 .. Len(rcv), Recv(k)
  PROVE  /\ rcv' \in Seq({HsMsg, 0, 1}) /\ Len(rcv') = Len(rcv) - k
         /\ \A i \in 1 .. Len(rcv) - k : rcv'[i] = rcv[k + i]
         /\ eof' = eof /\ sent' = sent
BY DEF Recv, SockType

\* What it leaves in the SSL object.
LEMMA RecvSsl ==
  ASSUME SockType, StageInv, NEW k \in 1 .. Len(rcv), Recv(k)
  PROVE  ssl' \in Nat /\ ssl' <= Len(rcv') /\ (~conf.tls => ssl' = 0)
<1>1. /\ ssl \in Nat /\ ssl <= Len(rcv) /\ (~conf.tls => ssl = 0)
      /\ Len(rcv) \in Nat /\ k \in Nat /\ k <= Len(rcv)
  BY DEF SockType, StageInv
<1>2. Len(rcv') = Len(rcv) - k /\ Decrypted(k)
  BY RecvType DEF Recv
<1>3. CASE ~conf.tls
  BY <1>1, <1>2, <1>3 DEF Decrypted
<1>4. CASE conf.tls /\ ssl = 0
  BY <1>1, <1>2, <1>4 DEF Decrypted
<1>5. CASE conf.tls /\ ssl # 0
  BY <1>1, <1>2, <1>5 DEF Decrypted
<1> QED
  BY <1>3, <1>4, <1>5

\* A handler fails.
LEMMA ReadRqstFailsInv ==
  ASSUME IInv, NEW k \in 1 .. Len(rcv), ReadRqstFails(k)
  PROVE  IInv'
<1>1. SockType /\ StageInv
  BY TypeParts DEF IInv
<1>2. Recv(k) /\ Teardown /\ UNCHANGED <<room, rqstVars, histVars>>
  BY DEF ReadRqstFails
<1>3. SockType' /\ ssl' <= Len(rcv') /\ (~conf.tls => ssl' = 0) /\ sent' = sent
  BY <1>1, <1>2, RecvType, RecvSsl DEF SockType
<1> QED
  BY <1>2, <1>3, QuietTeardown
----------------------------------------------------------------------------
(* The handshake *)

\* The connection is accepted.
LEMMA AcceptDoneInv ==
  ASSUME IInv, AcceptDone
  PROVE  IInv'
<1>1. /\ SockType /\ PollType /\ NcType /\ RqstType /\ RespType /\ LoopType /\ HistType
      /\ LoopInv /\ RespInv /\ StageInv /\ InputKnown /\ EofKnown /\ HandshakeArmed
      /\ OutputArmed /\ EventHasResponse /\ Logged /\ OneAtATime
  BY TypeParts DEF IInv
<1>2. /\ mode \in {"READ", "WRITE"} /\ Accepts /\ m_tls_state = HsDone
      /\ m_nc_state' = "CONNECTED"
      /\ UNCHANGED <<rcv, ssl, eof, room, sent, conf, m_tls_state, part,
                     keep_alive, m_out_q, m_u, m_evr_writeable, dry, mode, ev,
                     stray, handled, bad, dones>>
      /\ late' = IF mode = "WRITE" THEN 1 ELSE late
  BY DEF AcceptDone, Accepting, Accepts, sockVars, pollVars, ncVars, rqstVars,
         respVars, loopVars, histVars
<1>3. /\ m_attr_mask' = {"READ"}
      /\ queued' = (queued \/ (conf.tls /\ (eof \/ Len(rcv) > ssl)))
  <2>1. CASE conf.tls
    <3>1. mod_fd({"READ"})
      BY <2>1 DEF AcceptDone
    <3>2. Events({"READ"}) # {} <=> eof \/ Len(rcv) > ssl
      BY DEF Events
    <3> QED
      BY <1>1, <2>1, <3>1, <3>2 DEF mod_fd, PollType
  <2>2. CASE ~conf.tls
    BY <1>1, <1>2, <2>2 DEF AcceptDone, pollVars, StageInv, PollType
  <2> QED
    BY <2>1, <2>2
<1>4. TypeOK'
  <2>1. SockType' /\ RqstType' /\ RespType' /\ LoopType' /\ HistType'
    BY <1>1, <1>2 DEF SockType, RqstType, RespType, LoopType, HistType
  <2>2. PollType'
    BY <1>1, <1>3 DEF PollType
  <2>3. NcType'
    BY <1>1, <1>2 DEF NcType
  <2> QED
    BY <2>1, <2>2, <2>3, TypeNext
<1>5. LoopInv'
  BY <1>1, <1>2 DEF LoopInv
<1>6. RespInv'
  BY <1>1, <1>2 DEF RespInv
<1>7. StageInv'
  BY <1>1, <1>2, <1>3 DEF StageInv, Accepts, Connected, Freed, AtRest
<1>8. InputKnown'
  BY <1>1, <1>2, <1>3 DEF InputKnown, StageInv, Accepts, Connected, Freed
<1>9. EofKnown' /\ HandshakeArmed'
  BY <1>1, <1>2 DEF EofKnown, HandshakeArmed, Accepts, Connected, Freed
<1>10. OutputArmed'
  BY <1>1, <1>2, <1>3 DEF OutputArmed, StageInv, Accepts, Connected, Freed, AtRest
<1>11. EventHasResponse'
  BY <1>1, <1>2 DEF EventHasResponse, AtRest
<1>12. Logged'
  <2> SUFFICES ASSUME Plain PROVE Logged'
    BY <1>2 DEF Logged, Plain
  <2>1. dones = 0 /\ ~m_evr_writeable /\ handled \in Nat /\ bad \in Nat
    BY <1>1, <1>2 DEF Logged, StageInv, HistType
  <2>2. late' \in 0 .. 1 /\ (mode = "WRITE" => late' = 1)
    BY <1>1, <1>2 DEF HistType
  <2>3. One(m_evr_writeable)' = 0
    BY <1>2, <2>1 DEF One
  <2>4. One(WriteDue)' <= late' /\ One(WriteDue)' \in Nat
    BY <1>2, <1>3, <2>2 DEF One, WriteDue
  <2>5. dones' + One(m_evr_writeable)' + One(WriteDue)' <= handled' + bad' + late'
    BY <1>2, <2>1, <2>2, <2>3, <2>4
  <2> QED
    BY <1>1, <1>2, <2>5 DEF Logged, Accepts
<1>13. OneAtATime'
  BY <1>1, <1>2, <1>3 DEF OneAtATime, RqstInv, HelloInv, HalfKept, StageInv, Accepts,
                          Connected, Freed, AtRest, HsReads, HsDone, HsFailed
<1> QED
  BY <1>4, <1>5, <1>6, <1>7, <1>8, <1>9, <1>10, <1>11, <1>12, <1>13 DEF IInv

\* The first message of the peer is read.
LEMMA HelloTails ==
  Tail(<<HsMsg>>) = << >> /\ Tail(<<HsMsg, 0>>) = <<0>> /\ Tail(<<HsMsg, 0, 1>>) = <<0, 1>>
OBVIOUS

\* The handshake reads or writes its next message.
LEMMA AcceptStepInv ==
  ASSUME IInv, AcceptStep
  PROVE  IInv'
<1>1. /\ SockType /\ PollType /\ NcType /\ RqstType /\ RespType /\ LoopType /\ HistType
      /\ LoopInv /\ RespInv /\ StageInv /\ InputKnown /\ EofKnown /\ HandshakeArmed
      /\ OutputArmed /\ EventHasResponse /\ Logged /\ OneAtATime
  BY TypeParts DEF IInv
<1>2. /\ mode \in {"READ", "WRITE"} /\ Accepts /\ m_tls_state < HsDone
      /\ rcv' = IF m_tls_state \in HsReads THEN Tail(rcv) ELSE rcv
      /\ m_tls_state \in HsReads => rcv # << >>
      /\ room' = IF m_tls_state \in HsReads THEN room ELSE room - 1
      /\ m_tls_state \notin HsReads => room > 0
      /\ m_tls_state' = m_tls_state + 1
      /\ UNCHANGED <<ssl, eof, sent, m_attr_mask, queued, conf, m_nc_state, part,
                     keep_alive, m_out_q, m_u, m_evr_writeable, dry, mode, ev,
                     late, stray, handled, bad, dones>>
  BY DEF AcceptStep, Accepting, Accepts, sockVars, pollVars, ncVars, rqstVars,
         respVars, loopVars, histVars
<1>3. m_tls_state \in {0, 1, 2, 3} /\ conf.tls
  BY <1>1, <1>2 DEF NcType, StageInv, HsDone, HsFailed
<1>4. TypeOK'
  <2>1. PollType' /\ RqstType' /\ RespType' /\ LoopType' /\ HistType'
    BY <1>1, <1>2 DEF PollType, RqstType, RespType, LoopType, HistType
  <2>2. SockType'
    <3>1. rcv' \in Seq({HsMsg, 0, 1})
      BY <1>1, <1>2 DEF SockType
    <3>2. room' \in 0 .. MaxRoom
      BY <1>1, <1>2, ConfigAssumption DEF SockType
    <3> QED
      BY <1>1, <1>2, <3>1, <3>2 DEF SockType
  <2>3. NcType'
    BY <1>1, <1>2 DEF NcType, HsDone, HsFailed
  <2> QED
    BY <2>1, <2>2, <2>3, TypeNext
<1>5. LoopInv'
  BY <1>1, <1>2 DEF LoopInv
<1>6. RespInv'
  BY <1>1, <1>2 DEF RespInv
<1>7. StageInv'
  <2>1. ssl = 0 /\ ssl' = 0 /\ Len(rcv') >= 0
    BY <1>1, <1>2, <1>4, TypeParts DEF StageInv, TypeOK
  <2> QED
    BY <1>1, <1>2, <1>3, <2>1 DEF StageInv, Accepts, Connected, Freed, AtRest, HsReads, HsDone,
                          HsFailed
<1>8. InputKnown'
  <2>1. Len(rcv') > ssl' => Len(rcv) > ssl
    <3>1. ssl = 0 /\ ssl' = 0
      BY <1>1, <1>2 DEF StageInv
    <3> QED
      BY <1>1, <1>2, <3>1 DEF SockType
  <2>2. m_tls_state # HsFailed
    BY <1>2 DEF HsDone, HsFailed
  <2> QED
    BY <1>1, <1>2, <2>1, <2>2 DEF InputKnown, Accepts, Connected, Freed
<1>9. EofKnown' /\ HandshakeArmed'
  BY <1>1, <1>2, <1>3 DEF EofKnown, HandshakeArmed, Accepts, Connected, Freed, HsReads,
                          HsDone, HsFailed
<1>10. OutputArmed'
  BY <1>1, <1>2 DEF OutputArmed, Accepts, Connected, Freed, AtRest
<1>11. EventHasResponse'
  BY <1>1, <1>2 DEF EventHasResponse, AtRest
<1>12. Logged'
  BY <1>1, <1>2 DEF Logged, Plain, One, WriteDue, Accepts
<1>13. OneAtATime'
  <2> SUFFICES ASSUME ~conf.pipelining PROVE OneAtATime'
    BY <1>2 DEF OneAtATime
  <2>1. HelloInv /\ HalfKept /\ bad = 0 /\ stray = 0
    BY <1>1 DEF OneAtATime
  <2>2. HelloInv'
    <3>1. CASE m_tls_state = 0
      <4>1. rcv = <<HsMsg>> /\ sent = 0
        BY <1>2, <2>1, <3>1 DEF HelloInv, HsReads, HsDone, HsFailed
      <4>2. rcv' = << >> /\ sent' = 0
        BY <1>2, <3>1, <4>1, HelloTails DEF HsReads
      <4> QED
        BY <4>2 DEF HelloInv
    <3>2. CASE m_tls_state = 1
      <4>1. rcv' = << >> /\ sent' = 0
        BY <1>2, <2>1, <3>2 DEF HelloInv, HsReads, HsDone, HsFailed
      <4> QED
        BY <4>1 DEF HelloInv
    <3>3. CASE m_tls_state = 2
      <4>1. \/ rcv = <<HsMsg>> /\ sent = 0
            \/ rcv = <<HsMsg, 0>> /\ sent = 1
            \/ rcv = <<HsMsg, 0, 1>> /\ sent = 2
        BY <1>2, <2>1, <3>3 DEF HelloInv, HsReads, HsDone, HsFailed
      <4>2. rcv' = Tail(rcv) /\ sent' = sent /\ m_tls_state' = 3
        BY <1>2, <3>3 DEF HsReads
      <4>3. \/ rcv' = << >> /\ sent' = 0
            \/ rcv' = <<0>> /\ sent' = 1
            \/ rcv' = <<0, 1>> /\ sent' = 2
        BY <4>1, <4>2, HelloTails
      <4> QED
        BY <4>2, <4>3 DEF HelloInv
    <3>4. CASE m_tls_state = 3
      <4>1. /\ rcv' = rcv /\ sent' = sent /\ m_tls_state' = 4
            /\ \/ rcv = << >> /\ sent = 0
               \/ rcv = <<0>> /\ sent = 1
               \/ rcv = <<0, 1>> /\ sent = 2
        BY <1>2, <2>1, <3>4 DEF HelloInv, HsReads, HsDone, HsFailed
      <4> QED
        BY <4>1 DEF HelloInv
    <3> QED
      BY <1>3, <3>1, <3>2, <3>3, <3>4
  <2>3. RqstInv' /\ HalfKept'
    BY <1>2, <2>1 DEF RqstInv, HalfKept, Accepts, Connected, AtRest
  <2> QED
    BY <1>2, <2>1, <2>2, <2>3 DEF OneAtATime
<1> QED
  BY <1>4, <1>5, <1>6, <1>7, <1>8, <1>9, <1>10, <1>11, <1>12, <1>13 DEF IInv

\* The handshake blocks.
LEMMA AcceptAgainInv ==
  ASSUME IInv, AcceptAgain
  PROVE  IInv'
<1>1. /\ SockType /\ PollType /\ NcType /\ RqstType /\ RespType /\ LoopType /\ HistType
      /\ LoopInv /\ RespInv /\ StageInv /\ InputKnown /\ EofKnown /\ HandshakeArmed
      /\ OutputArmed /\ EventHasResponse /\ Logged /\ OneAtATime
  BY TypeParts DEF IInv
<1>2. /\ mode \in {"READ", "WRITE"} /\ Accepts /\ m_tls_state < HsDone
      /\ m_tls_state \in HsReads => rcv = << >> /\ ~eof
      /\ m_tls_state \notin HsReads => room = 0
      /\ mode' = IF "OUT" \in ev THEN "batch" ELSE "wait"
      /\ m_attr_mask' = IF m_tls_state \in HsReads THEN {"READ"} ELSE {"WRITE"}
      /\ UNCHANGED <<rcv, ssl, eof, room, sent, conf, m_nc_state, m_tls_state,
                     part, keep_alive, m_out_q, m_u, m_evr_writeable, dry, ev,
                     late, stray, handled, bad, dones>>
  BY DEF AcceptAgain, mod_fd, Return, Accepting, Accepts, sockVars, pollVars,
         ncVars, rqstVars, respVars, loopVars, histVars
<1>3. conf.tls /\ queued' \in BOOLEAN /\ (queued \/ eof => queued')
  <2>1. conf.tls
    BY <1>1, <1>2 DEF StageInv, HsDone
  <2>2. CASE m_tls_state \in HsReads
    <3>1. mod_fd({"READ"})
      BY <2>2 DEF AcceptAgain
    <3>2. eof => Events({"READ"}) # {}
      BY DEF Events
    <3> QED
      BY <2>1, <3>1, <3>2 DEF mod_fd
  <2>3. CASE m_tls_state \notin HsReads
    <3>1. mod_fd({"WRITE"})
      BY <2>3 DEF AcceptAgain
    <3>2. eof => Events({"WRITE"}) # {}
      BY DEF Events
    <3> QED
      BY <2>1, <3>1, <3>2 DEF mod_fd
  <2> QED
    BY <2>2, <2>3
<1>4. TypeOK'
  <2>1. SockType' /\ NcType' /\ RqstType' /\ RespType' /\ HistType'
    BY <1>1, <1>2 DEF SockType, NcType, RqstType, RespType, HistType
  <2>2. PollType'
    BY <1>1, <1>2, <1>3 DEF PollType
  <2>3. LoopType'
    BY <1>1, <1>2 DEF LoopType
  <2> QED
    BY <2>1, <2>2, <2>3, TypeNext
<1>5. LoopInv'
  BY <1>1, <1>2 DEF LoopInv, LoopType
<1>6. RespInv'
  BY <1>1, <1>2 DEF RespInv
<1>7. StageInv'
  BY <1>1, <1>2, <1>3 DEF StageInv, Accepts, Connected, Freed, AtRest, HsReads, HsDone,
                          HsFailed
<1>8. InputKnown'
  BY <1>1, <1>2 DEF InputKnown, SockType
<1>9. EofKnown' /\ HandshakeArmed'
  BY <1>1, <1>2, <1>3 DEF EofKnown, HandshakeArmed, Accepts, Connected, Freed, HsReads,
                          HsDone, HsFailed
<1>10. OutputArmed'
  BY <1>1, <1>2 DEF OutputArmed, Accepts, Connected, Freed, AtRest
<1>11. EventHasResponse'
  BY <1>1, <1>2 DEF EventHasResponse, AtRest
<1>12. Logged'
  BY <1>1, <1>2, <1>3 DEF Logged, Plain, Accepts
<1>13. OneAtATime'
  BY <1>1, <1>2 DEF OneAtATime, RqstInv, HelloInv, HalfKept, Accepts, Connected, Freed,
                    AtRest
<1> QED
  BY <1>4, <1>5, <1>6, <1>7, <1>8, <1>9, <1>10, <1>11, <1>12, <1>13 DEF IInv

\* The handshake fails.
LEMMA AcceptErrorInv ==
  ASSUME IInv, AcceptError
  PROVE  IInv'
<1>1. /\ SockType /\ PollType /\ NcType /\ RqstType /\ RespType /\ LoopType /\ HistType
      /\ LoopInv /\ RespInv /\ StageInv /\ InputKnown /\ EofKnown /\ HandshakeArmed
      /\ OutputArmed /\ EventHasResponse /\ Logged /\ OneAtATime
  BY TypeParts DEF IInv
<1>2. /\ Accepts /\ m_tls_state # HsDone
      /\ m_tls_state' = HsFailed
      /\ mode' = "wait" /\ ev' = {}
      /\ UNCHANGED <<rcv, ssl, eof, room, sent, m_attr_mask, queued, conf,
                     m_nc_state, part, keep_alive, m_out_q, m_u,
                     m_evr_writeable, dry, late, stray, handled, bad, dones>>
  BY DEF AcceptError, ReturnError, HsReads, HsDone, HsFailed, Accepting,
         Accepts, sockVars, pollVars, ncVars, rqstVars, respVars, loopVars,
         histVars
<1>3. TypeOK'
  <2>1. SockType' /\ PollType' /\ RqstType' /\ RespType' /\ HistType'
    BY <1>1, <1>2 DEF SockType, PollType, RqstType, RespType, HistType
  <2>2. NcType'
    BY <1>1, <1>2 DEF NcType, HsFailed
  <2>3. LoopType'
    BY <1>1, <1>2 DEF LoopType
  <2> QED
    BY <2>1, <2>2, <2>3, TypeNext
<1>4. LoopInv'
  BY <1>1, <1>2 DEF LoopInv
<1>5. RespInv'
  BY <1>1, <1>2 DEF RespInv
<1>6. StageInv'
  BY <1>1, <1>2 DEF StageInv, Accepts, Connected, Freed, AtRest, HsReads, HsDone, HsFailed
<1>7. InputKnown'
  BY <1>1, <1>2 DEF InputKnown, Accepts, Connected, Freed, HsReads, HsDone, HsFailed
<1>8. EofKnown' /\ HandshakeArmed'
  BY <1>1, <1>2 DEF EofKnown, HandshakeArmed, Accepts, Connected, Freed, HsReads, HsDone,
                    HsFailed
<1>9. OutputArmed'
  BY <1>1, <1>2 DEF OutputArmed, Accepts, Connected, Freed, AtRest
<1>10. EventHasResponse'
  BY <1>2 DEF EventHasResponse
<1>11. Logged'
  BY <1>1, <1>2 DEF Logged, Plain, Accepts
<1>12. OneAtATime'
  BY <1>1, <1>2 DEF OneAtATime, RqstInv, HelloInv, HalfKept, Accepts, Connected, Freed,
                    AtRest
<1> QED
  BY <1>3, <1>4, <1>5, <1>6, <1>7, <1>8, <1>9, <1>10, <1>11, <1>12 DEF IInv
----------------------------------------------------------------------------
(* Reading *)

\* "100 Continue": nothing, a write, or a full socket whose interest becomes
\* WRITE.
LEMMA ContinueEffect ==
  ASSUME SockType, PollType, NEW p, Continue(p)
  PROVE  \/ room' = room /\ m_attr_mask' = m_attr_mask /\ queued' = queued
         \/ /\ conf.expect /\ room > 0 /\ room' = room - 1
            /\ m_attr_mask' = m_attr_mask /\ queued' = queued
         \/ /\ conf.expect /\ room = 0 /\ room' = 0
            /\ m_attr_mask' = {"WRITE"} /\ queued' \in BOOLEAN /\ (queued => queued')
<1>1. CASE ~conf.expect \/ ~\E i \in 1 .. Len(p) : p[i] = 0
  BY <1>1 DEF Continue, pollVars
<1>2. CASE conf.expect /\ (\E i \in 1 .. Len(p) : p[i] = 0) /\ room > 0
  BY <1>2 DEF Continue, pollVars
<1>3. CASE conf.expect /\ (\E i \in 1 .. Len(p) : p[i] = 0) /\ ~(room > 0)
  <2>1. room' = room /\ mod_fd({"WRITE"})
    BY <1>3 DEF Continue
  <2>2. room = 0
    BY <1>3 DEF SockType
  <2>3. m_attr_mask' = {"WRITE"} /\ queued' = (queued \/ Events({"WRITE"}) # {})
    BY <2>1 DEF mod_fd
  <2> QED
    BY <1>3, <2>1, <2>2, <2>3 DEF PollType
<1> QED
  BY <1>1, <1>2, <1>3

\* What one read gets from a client that waits for its answers.
LEMMA OneRequest ==
  ASSUME SockType, Connected, RqstInv, NEW k \in 1 .. Len(rcv), Recv(k)
  PROVE  /\ AtRest /\ WellFormed(SubSeq(rcv, 1, k))
         /\ \/ /\ ~Completes(SubSeq(rcv, 1, k)) /\ rcv \in {<<0>>, <<0, 1>>}
               /\ \/ rcv' = << >> /\ sent % 2 = 1
                  \/ rcv' = <<1>> /\ sent % 2 = 0 /\ sent > 0
            \/ /\ Completes(SubSeq(rcv, 1, k))
               /\ rcv' = << >> /\ sent % 2 = 0 /\ sent > 0
<1> DEFINE p == SubSeq(rcv, 1, k)
<1>1. rcv # << >>
  BY DEF SockType
<1>2. AtRest /\ part \in {0, 1}
  BY <1>1 DEF RqstInv
<1>3. /\ Len(p) = k /\ (\A i \in 1 .. k : p[i] = rcv[i])
      /\ rcv' \in Seq({HsMsg, 0, 1}) /\ Len(rcv') = Len(rcv) - k
      /\ \A i \in 1 .. Len(rcv) - k : rcv'[i] = rcv[k + i]
  BY RecvType DEF SockType
<1> HIDE DEF p
<1>4. CASE rcv = <<0>> /\ part = 0 /\ sent % 2 = 1
  <2>1. k = 1 /\ Len(rcv') = 0 /\ p[1] = 0
    BY <1>3, <1>4
  <2>2. rcv' = << >>
    BY <1>3, <2>1
  <2>3. WellFormed(p) /\ ~Completes(p)
    BY <1>3, <1>4, <2>1 DEF WellFormed, Completes
  <2> QED
    BY <1>2, <1>4, <2>2, <2>3 DEF p
<1>5. CASE rcv = <<0, 1>> /\ part = 0 /\ sent % 2 = 0 /\ sent > 0
  <2>1. Len(rcv) = 2 /\ rcv[1] = 0 /\ rcv[2] = 1
    BY <1>5
  <2>2. CASE k = 1
    <3>1. Len(rcv') = 1 /\ rcv'[1] = 1 /\ p[1] = 0
      BY <1>3, <2>1, <2>2
    <3>2. rcv' \in Seq(Int)
      BY <1>3 DEF HsMsg
    <3>3. rcv' = <<1>>
      BY <3>1, <3>2, IsTuple
    <3>4. WellFormed(p) /\ ~Completes(p)
      BY <1>3, <1>5, <2>2, <3>1 DEF WellFormed, Completes
    <3> QED
      BY <1>2, <1>5, <3>3, <3>4 DEF p
  <2>3. CASE k = 2
    <3>1. Len(rcv') = 0 /\ p[1] = 0 /\ p[2] = 1
      BY <1>3, <2>1, <2>3
    <3>2. rcv' = << >>
      BY <1>3, <3>1
    <3>3. WellFormed(p)
      BY <1>3, <1>5, <2>3, <3>1 DEF WellFormed
    <3>4. Completes(p)
      BY <1>3, <2>3, <3>1 DEF Completes
    <3> QED
      BY <1>2, <1>5, <3>2, <3>3, <3>4 DEF p
  <2> QED
    BY <2>1, <2>2, <2>3
<1>6. CASE rcv = <<1>> /\ part = 1 /\ sent % 2 = 0 /\ sent > 0
  <2>1. k = 1 /\ Len(rcv') = 0 /\ p[1] = 1
    BY <1>3, <1>6
  <2>2. rcv' = << >>
    BY <1>3, <2>1
  <2>3. WellFormed(p) /\ Completes(p)
    BY <1>3, <1>6, <2>1 DEF WellFormed, Completes
  <2> QED
    BY <1>2, <1>6, <2>2, <2>3 DEF p
<1> QED
  BY <1>1, <1>4, <1>5, <1>6 DEF RqstInv

\* The first half of a request is read.
LEMMA ReadPartInv ==
  ASSUME IInv, NEW k \in 1 .. Len(rcv), ReadPart(k)
  PROVE  IInv'
<1>1. /\ SockType /\ PollType /\ NcType /\ RqstType /\ RespType /\ LoopType /\ HistType
      /\ LoopInv /\ RespInv /\ StageInv /\ InputKnown /\ EofKnown /\ HandshakeArmed
      /\ OutputArmed /\ EventHasResponse /\ Logged /\ OneAtATime
  BY TypeParts DEF IInv
<1>2. /\ mode = "READ" /\ Connected
      /\ Recv(k) /\ ~Completes(SubSeq(rcv, 1, k))
      /\ part' = 1
      /\ UNCHANGED <<eof, sent, conf, m_nc_state, m_tls_state, keep_alive,
                     m_out_q, m_u, m_evr_writeable, dry, mode, ev, late, stray,
                     handled, bad, dones>>
  BY DEF ReadPart, Recv, Reading, Connected, sockVars, pollVars, ncVars,
         rqstVars, respVars, loopVars, histVars
<1>3. \/ room' = room /\ m_attr_mask' = m_attr_mask /\ queued' = queued
      \/ /\ conf.expect /\ room > 0 /\ room' = room - 1
         /\ m_attr_mask' = m_attr_mask /\ queued' = queued
      \/ /\ conf.expect /\ room = 0 /\ room' = 0
         /\ m_attr_mask' = {"WRITE"} /\ queued' \in BOOLEAN /\ (queued => queued')
  BY <1>1, ContinueEffect DEF ReadPart
<1>4. TypeOK'
  <2>1. NcType' /\ RespType' /\ LoopType' /\ HistType'
    BY <1>1, <1>2 DEF NcType, RespType, LoopType, HistType
  <2>2. SockType'
    <3>1. rcv' \in Seq({HsMsg, 0, 1}) /\ ssl' \in Nat
      BY <1>1, <1>2, RecvType, RecvSsl
    <3>2. room' \in 0 .. MaxRoom
      BY <1>1, <1>3, ConfigAssumption DEF SockType
    <3> QED
      BY <1>1, <1>2, <3>1, <3>2 DEF SockType
  <2>3. PollType'
    BY <1>1, <1>3 DEF PollType
  <2>4. RqstType'
    <3>1. part' \in 0 .. 2
      BY <1>2
    <3> QED
      BY <1>1, <1>2, <3>1 DEF RqstType
  <2> QED
    BY <2>1, <2>2, <2>3, <2>4, TypeNext
<1>5. LoopInv'
  BY <1>1, <1>2 DEF LoopInv
<1>6. RespInv'
  BY <1>1, <1>2 DEF RespInv
<1>7. StageInv'
  <2>1. ssl' <= Len(rcv') /\ (~conf.tls => ssl' = 0)
    BY <1>1, <1>2, RecvSsl
  <2> QED
    BY <1>1, <1>2, <1>3, <2>1 DEF StageInv, Accepts, Connected, Freed
<1>8. InputKnown'
  BY <1>1, <1>2 DEF InputKnown, Accepts, Connected, Freed
<1>9. EofKnown' /\ HandshakeArmed'
  BY <1>1, <1>2 DEF EofKnown, HandshakeArmed, Accepts, Connected, Freed
<1>10. OutputArmed'
  BY <1>1, <1>2, <1>3 DEF OutputArmed, Accepts, Connected, Freed, AtRest, SockType
<1>11. EventHasResponse'
  BY <1>1, <1>2 DEF EventHasResponse, AtRest
<1>12. Logged'
  BY <1>1, <1>2, <1>3 DEF Logged, Plain, One, WriteDue, Accepts
<1>13. OneAtATime'
  <2> SUFFICES ASSUME ~conf.pipelining PROVE OneAtATime'
    BY <1>2 DEF OneAtATime
  <2>1. RqstInv /\ HalfKept /\ bad = 0 /\ stray = 0
    BY <1>1 DEF OneAtATime
  <2>2. /\ AtRest /\ rcv \in {<<0>>, <<0, 1>>}
        /\ \/ rcv' = << >> /\ sent % 2 = 1
           \/ rcv' = <<1>> /\ sent % 2 = 0 /\ sent > 0
    BY <1>1, <1>2, <2>1, OneRequest
  <2>3. ~m_evr_writeable
    BY <1>1, <1>2, <2>2 DEF EventHasResponse
  <2>4. RqstInv'
    BY <1>2, <2>2 DEF RqstInv, AtRest
  <2>5. HelloInv'
    BY <1>2 DEF HelloInv, Accepts, Connected
  <2>6. rcv' \notin {<<0>>, <<0, 1>>}
    BY <2>2
  <2>7. keep_alive => room > 0
    BY <1>2, <2>1, <2>2 DEF HalfKept
  <2>8. keep_alive => "WRITE" \notin m_attr_mask'
    BY <1>2, <1>3, <2>1, <2>2, <2>7 DEF HalfKept
  <2>9. HalfKept'
    BY <1>2, <2>1, <2>3, <2>6, <2>8 DEF HalfKept
  <2> QED
    BY <1>2, <2>1, <2>4, <2>5, <2>9 DEF OneAtATime
<1> QED
  BY <1>4, <1>5, <1>6, <1>7, <1>8, <1>9, <1>10, <1>11, <1>12, <1>13 DEF IInv

\* The response records that the steps store, field by field.
LEMMA SetKindLeft ==
  ASSUME NEW s \in Resp, NEW k, NEW l
  PROVE  [s EXCEPT !.kind = k, !.left = l]
           = [kind |-> k, left |-> l, done |-> s.done, shutdown |-> s.shutdown]
<1> DEFINE t == [s EXCEPT !.kind = k]
<1>1. t = [kind |-> k, left |-> s.left, done |-> s.done, shutdown |-> s.shutdown]
  BY DEF Resp
<1>2. [s EXCEPT !.kind = k, !.left = l] = [t EXCEPT !.left = l]
  OBVIOUS
<1> HIDE DEF t
<1> QED
  BY <1>1, <1>2

\* The same with the flag that the response is complete.
LEMMA SetKindLeftDone ==
  ASSUME NEW s \in Resp, NEW k, NEW l, NEW d
  PROVE  [s EXCEPT !.kind = k, !.left = l, !.done = d]
           = [kind |-> k, left |-> l, done |-> d, shutdown |-> s.shutdown]
<1> DEFINE t == [s EXCEPT !.kind = k, !.left = l]
<1>1. t = [kind |-> k, left |-> l, done |-> s.done, shutdown |-> s.shutdown]
  BY SetKindLeft
<1>2. [s EXCEPT !.kind = k, !.left = l, !.done = d] = [t EXCEPT !.done = d]
  OBVIOUS
<1> HIDE DEF t
<1> QED
  BY <1>1, <1>2

\* One more part of a response.
LEMMA SetLeftDone ==
  ASSUME NEW s \in Resp, NEW l, NEW d
  PROVE  [s EXCEPT !.left = l, !.done = d]
           = [kind |-> s.kind, left |-> l, done |-> d, shutdown |-> s.shutdown]
<1> DEFINE t == [s EXCEPT !.left = l]
<1>1. t = [kind |-> s.kind, left |-> l, done |-> s.done, shutdown |-> s.shutdown]
  BY DEF Resp
<1>2. [s EXCEPT !.left = l, !.done = d] = [t EXCEPT !.done = d]
  OBVIOUS
<1> HIDE DEF t
<1> QED
  BY <1>1, <1>2

\* The last one, after which the connection ends.
LEMMA SetLeftDoneShutdown ==
  ASSUME NEW s \in Resp, NEW l, NEW d, NEW e
  PROVE  [s EXCEPT !.left = l, !.done = d, !.shutdown = e]
           = [kind |-> s.kind, left |-> l, done |-> d, shutdown |-> e]
<1> DEFINE t == [s EXCEPT !.left = l, !.done = d]
<1>1. t = [kind |-> s.kind, left |-> l, done |-> d, shutdown |-> s.shutdown]
  BY SetLeftDone
<1>2. [s EXCEPT !.left = l, !.done = d, !.shutdown = e] = [t EXCEPT !.shutdown = e]
  OBVIOUS
<1> HIDE DEF t
<1> QED
  BY <1>1, <1>2

\* A new response.
LEMMA NewResp ==
  ASSUME NEW h, NEW l, NEW d
  PROVE  /\ [NoResp EXCEPT !.kind = h, !.left = l, !.done = d]
              = [kind |-> h, left |-> l, done |-> d, shutdown |-> FALSE]
         /\ [NoResp EXCEPT !.kind = h, !.left = l]
              = [kind |-> h, left |-> l, done |-> FALSE, shutdown |-> FALSE]
<1>0. NoResp \in Resp
  BY DEF NoResp, Resp
<1>1. NoResp.done = FALSE /\ NoResp.shutdown = FALSE
  BY DEF NoResp
<1>2. [NoResp EXCEPT !.kind = h, !.left = l, !.done = d]
        = [kind |-> h, left |-> l, done |-> d, shutdown |-> NoResp.shutdown]
  BY <1>0, SetKindLeftDone, Zenon
<1>3. [NoResp EXCEPT !.kind = h, !.left = l]
        = [kind |-> h, left |-> l, done |-> NoResp.done, shutdown |-> NoResp.shutdown]
  BY <1>0, SetKindLeft, Zenon
<1>4. /\ [kind |-> h, left |-> l, done |-> d, shutdown |-> NoResp.shutdown]
           = [kind |-> h, left |-> l, done |-> d, shutdown |-> FALSE]
      /\ [kind |-> h, left |-> l, done |-> NoResp.done, shutdown |-> NoResp.shutdown]
           = [kind |-> h, left |-> l, done |-> FALSE, shutdown |-> FALSE]
  BY <1>1, Zenon
<1> QED
  BY <1>2, <1>3, <1>4, Zenon

\* The handlers, and what each leaves behind.
LEMMA RespondEffect ==
  ASSUME RespType, NEW h \in conf.handlers \ {"fail"}, conf \in Conf,
         NEW n \in (IF h = "file" THEN conf.reads ELSE Size), Respond(h, n)
  PROVE  /\ n \in Nat /\ n > 0
         /\ \/ /\ h = "api" /\ m_out_q' = m_out_q + n
               /\ m_evr_writeable' = TRUE /\ dry' = FALSE
               /\ m_u' = m_u /\ stray' = stray
            \/ /\ h = "file" /\ m_out_q' = m_out_q + 1
               /\ m_evr_writeable' = TRUE /\ dry' = FALSE
               /\ m_u' = [kind |-> "file", left |-> n - 1, done |-> (n = 1), shutdown |-> FALSE]
               /\ stray' = IF m_u.kind = "proxy" THEN stray + m_u.left ELSE stray
            \/ /\ h = "file" /\ conf.faults /\ m_out_q' = m_out_q + 1
               /\ m_evr_writeable' = m_evr_writeable /\ dry' = ~m_evr_writeable
               /\ \E done \in BOOLEAN :
                    m_u' = [kind |-> "file", left |-> n, done |-> done, shutdown |-> FALSE]
               /\ stray' = IF m_u.kind = "proxy" THEN stray + m_u.left ELSE stray
            \/ /\ h = "proxy" /\ m_out_q' = m_out_q
               /\ m_evr_writeable' = m_evr_writeable /\ dry' = dry
               /\ m_u' = [kind |-> "proxy", left |-> n, done |-> FALSE, shutdown |-> FALSE]
               /\ stray' = IF m_u.kind = "proxy" THEN stray + m_u.left ELSE stray
<1>1. n \in Nat /\ n > 0
  <2>1. conf.reads \subseteq Nat \ {0} /\ Size \subseteq Nat \ {0}
    BY ConfigAssumption
  <2>2. n \in Nat \ {0}
    BY <2>1
  <2> QED
    BY <2>2
<1>2. CASE h = "api" /\ ApiResp(n)
  BY <1>1, <1>2 DEF ApiResp, queue_output
<1>3. CASE h = "file" /\ get_file(n)
  <2>1. n - 1 \in Nat /\ (n = 1) \in BOOLEAN
    BY <1>1
  <2>2. /\ m_out_q' = m_out_q + 1 /\ m_evr_writeable' = TRUE /\ dry' = FALSE
        /\ m_u' = [NoResp EXCEPT !.kind = "file", !.left = n - 1, !.done = (n = 1)]
        /\ stray' = IF m_u.kind = "proxy" THEN stray + m_u.left ELSE stray
    BY <1>3 DEF get_file, queue_output, Overwrite
  <2>3. m_u' = [kind |-> "file", left |-> n - 1, done |-> (n = 1), shutdown |-> FALSE]
    BY <2>1, <2>2, NewResp
  <2> QED
    BY <1>1, <1>3, <2>2, <2>3
<1>4. CASE h = "file" /\ \E done \in BOOLEAN : get_file_dry(n, done)
  <2>1. PICK done \in BOOLEAN : get_file_dry(n, done)
    BY <1>4
  <2>2. /\ conf.faults /\ m_out_q' = m_out_q + 1
        /\ m_evr_writeable' = m_evr_writeable /\ dry' = ~m_evr_writeable
        /\ m_u' = [NoResp EXCEPT !.kind = "file", !.left = n, !.done = done]
        /\ stray' = IF m_u.kind = "proxy" THEN stray + m_u.left ELSE stray
    BY <2>1 DEF get_file_dry, NoOutput, Overwrite
  <2>3. m_u' = [kind |-> "file", left |-> n, done |-> done, shutdown |-> FALSE]
    BY <2>2, NewResp, Zenon
  <2> QED
    BY <1>1, <1>4, <2>2, <2>3
<1>5. CASE h = "proxy" /\ ProxyResp(n)
  <2>1. /\ m_out_q' = m_out_q /\ m_evr_writeable' = m_evr_writeable /\ dry' = dry
        /\ m_u' = [NoResp EXCEPT !.kind = "proxy", !.left = n]
        /\ stray' = IF m_u.kind = "proxy" THEN stray + m_u.left ELSE stray
    BY <1>5 DEF ProxyResp, Overwrite
  <2>2. m_u' = [kind |-> "proxy", left |-> n, done |-> FALSE, shutdown |-> FALSE]
    BY <1>1, <2>1, NewResp
  <2> QED
    BY <1>1, <1>5, <2>1, <2>2
<1> QED
  BY <1>2, <1>3, <1>4, <1>5 DEF Respond

\* The same in the terms of the invariant.
LEMMA RespondGives ==
  ASSUME RespType, NEW h \in conf.handlers \ {"fail"}, conf \in Conf, stray \in Nat,
         NEW n \in (IF h = "file" THEN conf.reads ELSE Size), Respond(h, n)
  PROVE  /\ m_out_q' \in Nat /\ m_out_q' >= m_out_q /\ stray' \in Nat
         /\ m_u' \in Resp /\ m_evr_writeable' \in BOOLEAN /\ dry' \in BOOLEAN
         /\ \/ /\ m_evr_writeable' = TRUE /\ dry' = FALSE /\ m_out_q' > 0
               /\ (m_u' = m_u \/ m_u'.kind = "file")
               /\ (m_u'.kind = "file" /\ ~m_u'.done => m_u' = m_u \/ m_u'.left > 0)
               /\ (Plain /\ m_u'.kind = "file" => m_u' = m_u \/ m_u'.done)
            \/ /\ ~Plain /\ m_out_q' > 0
               /\ m_evr_writeable' = m_evr_writeable /\ dry' = ~m_evr_writeable
               /\ m_u'.kind = "file" /\ (~m_u'.done => m_u'.left > 0)
            \/ /\ ~Plain /\ m_out_q' = m_out_q
               /\ m_evr_writeable' = m_evr_writeable /\ dry' = dry
               /\ m_u'.kind = "proxy" /\ ~m_u'.done
         /\ (m_u.kind # "proxy" => stray' = stray)
<1>1. /\ m_out_q \in Nat /\ m_u \in Resp /\ m_u.left \in Nat
      /\ m_evr_writeable \in BOOLEAN /\ dry \in BOOLEAN
  BY DEF RespType, Resp
<1>2. n \in Nat /\ n > 0
  BY RespondEffect
<1>3. CASE /\ h = "api" /\ m_out_q' = m_out_q + n
           /\ m_evr_writeable' = TRUE /\ dry' = FALSE
           /\ m_u' = m_u /\ stray' = stray
  <2>1. m_out_q' \in Nat /\ m_out_q' > 0 /\ m_out_q' >= m_out_q
    BY <1>1, <1>2, <1>3
  <2> QED
    BY <1>1, <1>3, <2>1
<1>4. CASE /\ h = "file" /\ m_out_q' = m_out_q + 1
           /\ m_evr_writeable' = TRUE /\ dry' = FALSE
           /\ m_u' = [kind |-> "file", left |-> n - 1, done |-> (n = 1), shutdown |-> FALSE]
           /\ stray' = IF m_u.kind = "proxy" THEN stray + m_u.left ELSE stray
  <2>1. m_u'.kind = "file" /\ m_u'.left = n - 1 /\ m_u'.done = (n = 1)
    BY <1>4
  <2>2. n - 1 \in Nat /\ (~(n = 1) => n - 1 > 0)
    BY <1>2
  <2>3. m_u' \in Resp
    BY <1>4, <2>2 DEF Resp
  <2>4. Plain => n = 1
    BY <1>4 DEF Plain
  <2>5. m_out_q' \in Nat /\ m_out_q' > 0 /\ m_out_q' >= m_out_q
    BY <1>1, <1>4
  <2>6. stray' \in Nat
    BY <1>1, <1>4
  <2>7. ~m_u'.done => m_u'.left > 0
    BY <2>1, <2>2
  <2>8. Plain => m_u'.done
    BY <2>1, <2>4
  <2> QED
    BY <1>4, <2>1, <2>3, <2>5, <2>6, <2>7, <2>8
<1>5. CASE /\ h = "file" /\ conf.faults /\ m_out_q' = m_out_q + 1
           /\ m_evr_writeable' = m_evr_writeable /\ dry' = ~m_evr_writeable
           /\ \E done \in BOOLEAN :
                m_u' = [kind |-> "file", left |-> n, done |-> done, shutdown |-> FALSE]
           /\ stray' = IF m_u.kind = "proxy" THEN stray + m_u.left ELSE stray
  <2>1. PICK done \in BOOLEAN :
           m_u' = [kind |-> "file", left |-> n, done |-> done, shutdown |-> FALSE]
    BY <1>5
  <2>2. m_u' \in Resp
    BY <1>2, <2>1 DEF Resp
  <2>3. m_u'.kind = "file" /\ m_u'.left > 0
    BY <1>2, <2>1
  <2>4. ~Plain
    BY <1>5 DEF Plain
  <2>5. m_out_q' \in Nat /\ m_out_q' > 0 /\ m_out_q' >= m_out_q
    BY <1>1, <1>5
  <2>6. stray' \in Nat /\ (m_u.kind # "proxy" => stray' = stray)
    BY <1>1, <1>5
  <2>7. m_evr_writeable' \in BOOLEAN /\ dry' \in BOOLEAN
    BY <1>1, <1>5
  <2> QED
    BY <1>5, <2>2, <2>3, <2>4, <2>5, <2>6, <2>7, Zenon
<1>6. CASE /\ h = "proxy" /\ m_out_q' = m_out_q
           /\ m_evr_writeable' = m_evr_writeable /\ dry' = dry
           /\ m_u' = [kind |-> "proxy", left |-> n, done |-> FALSE, shutdown |-> FALSE]
           /\ stray' = IF m_u.kind = "proxy" THEN stray + m_u.left ELSE stray
  <2>1. m_u'.kind = "proxy" /\ m_u'.done = FALSE
    BY <1>6
  <2>2. m_u' \in Resp
    BY <1>2, <1>6 DEF Resp
  <2>3. ~Plain
    BY <1>6 DEF Plain
  <2>4. m_out_q' \in Nat /\ m_out_q' >= m_out_q /\ stray' \in Nat
    BY <1>1, <1>6
  <2> QED
    BY <1>1, <1>6, <2>1, <2>2, <2>3, <2>4
<1> QED
  BY <1>3, <1>4, <1>5, <1>6, RespondEffect

\* A request is read whole and handled.
LEMMA ReadRqstInv ==
  ASSUME IInv, NEW k \in 1 .. Len(rcv), NEW h \in conf.handlers \ {"fail"},
         NEW n \in (IF h = "file" THEN conf.reads ELSE Size), ReadRqst(k, h, n)
  PROVE  IInv'
<1>1. /\ SockType /\ PollType /\ NcType /\ RqstType /\ RespType /\ LoopType /\ HistType
      /\ LoopInv /\ RespInv /\ StageInv /\ InputKnown /\ EofKnown /\ HandshakeArmed
      /\ OutputArmed /\ EventHasResponse /\ Logged /\ OneAtATime
  BY TypeParts DEF IInv
<1>2. /\ mode = "READ" /\ Connected
      /\ Recv(k) /\ Completes(SubSeq(rcv, 1, k))
      /\ part' = 0 /\ handled' = handled + 1
      /\ UNCHANGED <<eof, sent, conf, m_nc_state, m_tls_state, mode, ev, late,
                     bad, dones>>
  BY DEF ReadRqst, Recv, Reading, Connected, sockVars, pollVars, ncVars,
         rqstVars, respVars, loopVars, histVars
<1>3. \/ room' = room /\ m_attr_mask' = m_attr_mask /\ queued' = queued
      \/ /\ conf.expect /\ room > 0 /\ room' = room - 1
         /\ m_attr_mask' = m_attr_mask /\ queued' = queued
      \/ /\ conf.expect /\ room = 0 /\ room' = 0
         /\ m_attr_mask' = {"WRITE"} /\ queued' \in BOOLEAN /\ (queued => queued')
  BY <1>1, ContinueEffect DEF ReadRqst
<1>4. /\ m_out_q' \in Nat /\ m_out_q' >= m_out_q /\ stray' \in Nat
      /\ m_u' \in Resp /\ m_evr_writeable' \in BOOLEAN /\ dry' \in BOOLEAN
      /\ \/ /\ m_evr_writeable' = TRUE /\ dry' = FALSE /\ m_out_q' > 0
            /\ (m_u' = m_u \/ m_u'.kind = "file")
            /\ (m_u'.kind = "file" /\ ~m_u'.done => m_u' = m_u \/ m_u'.left > 0)
            /\ (Plain /\ m_u'.kind = "file" => m_u' = m_u \/ m_u'.done)
         \/ /\ ~Plain /\ m_out_q' > 0
            /\ m_evr_writeable' = m_evr_writeable /\ dry' = ~m_evr_writeable
            /\ m_u'.kind = "file" /\ (~m_u'.done => m_u'.left > 0)
         \/ /\ ~Plain /\ m_out_q' = m_out_q
            /\ m_evr_writeable' = m_evr_writeable /\ dry' = dry
            /\ m_u'.kind = "proxy" /\ ~m_u'.done
      /\ (m_u.kind # "proxy" => stray' = stray)
  <2>1. RespType /\ conf \in Conf /\ stray \in Nat /\ Respond(h, n)
    BY <1>1 DEF NcType, HistType, ReadRqst
  <2> QED
    BY <2>1, RespondGives
<1>5. ~AtRest'
  BY <1>4 DEF AtRest
<1>6. TypeOK'
  <2>1. NcType' /\ LoopType'
    BY <1>1, <1>2 DEF NcType, LoopType
  <2>2. SockType'
    <3>1. rcv' \in Seq({HsMsg, 0, 1}) /\ ssl' \in Nat
      BY <1>1, <1>2, RecvType, RecvSsl
    <3>2. room' \in 0 .. MaxRoom
      BY <1>1, <1>3, ConfigAssumption DEF SockType
    <3> QED
      BY <1>1, <1>2, <3>1, <3>2 DEF SockType
  <2>3. PollType'
    BY <1>1, <1>3 DEF PollType
  <2>4. RqstType'
    <3>1. part' \in 0 .. 2
      BY <1>2
    <3>2. keep_alive' \in BOOLEAN
      BY DEF ReadRqst
    <3> QED
      BY <3>1, <3>2 DEF RqstType
  <2>5. RespType'
    BY <1>4 DEF RespType
  <2>6. HistType'
    BY <1>1, <1>2, <1>4 DEF HistType
  <2> QED
    BY <2>1, <2>2, <2>3, <2>4, <2>5, <2>6, TypeNext
<1>7. LoopInv'
  BY <1>1, <1>2 DEF LoopInv
<1>8. RespInv'
  <2>1. m_u'.kind = "none" => m_u' = NoResp
    BY <1>1, <1>4 DEF RespInv
  <2>2. m_u'.kind = "file" /\ ~m_u'.done => m_u'.left > 0
    BY <1>1, <1>4 DEF RespInv
  <2>3. m_u'.kind = "proxy" /\ m_u'.done => m_out_q' > 0
    BY <1>1, <1>4 DEF RespInv
  <2>4. dry' => m_u'.kind # "none"
    BY <1>4
  <2> QED
    BY <2>1, <2>2, <2>3, <2>4 DEF RespInv
<1>9. StageInv'
  <2>1. ssl' <= Len(rcv') /\ (~conf.tls => ssl' = 0)
    BY <1>1, <1>2, RecvSsl
  <2> QED
    BY <1>1, <1>2, <1>3, <2>1 DEF StageInv, Accepts, Connected, Freed
<1>10. InputKnown'
  BY <1>1, <1>2 DEF InputKnown, Accepts, Connected, Freed
<1>11. EofKnown' /\ HandshakeArmed'
  BY <1>1, <1>2 DEF EofKnown, HandshakeArmed, Accepts, Connected, Freed
<1>12. OutputArmed'
  <2> SUFFICES ASSUME ~m_evr_writeable' PROVE OutputArmed'
    BY DEF OutputArmed
  <2>1. CASE dry' /\ m_u'.kind = "file" /\ m_out_q' > 0
    BY <1>2, <1>5, <2>1 DEF OutputArmed
  <2>2. CASE /\ m_out_q' = m_out_q /\ dry' = dry /\ ~m_evr_writeable
             /\ m_u'.kind = "proxy" /\ ~m_u'.done
    BY <1>1, <1>2, <1>3, <2>2 DEF OutputArmed, Accepts, Connected, Freed, AtRest, SockType
  <2> QED
    BY <1>4, <2>1, <2>2
<1>13. EventHasResponse'
  BY <1>4, <1>5 DEF EventHasResponse
<1>14. Logged'
  <2> SUFFICES ASSUME Plain PROVE Logged'
    BY <1>2 DEF Logged, Plain
  <2>1. /\ m_evr_writeable' = TRUE /\ (m_u' = m_u \/ m_u'.kind = "file")
        /\ (m_u'.kind = "file" => m_u' = m_u \/ m_u'.done) /\ m_attr_mask' = m_attr_mask
    BY <1>3, <1>4 DEF Plain
  <2>2. m_u.kind \in {"none", "file"} /\ (m_u.kind = "file" => m_u.done) /\ stray = 0
    BY <1>1 DEF Logged
  <2>3. m_u'.kind \in {"none", "file"} /\ (m_u'.kind = "file" => m_u'.done) /\ stray' = 0
    BY <1>4, <2>1, <2>2
  <2>4. One(m_evr_writeable)' = 1
    BY <2>1 DEF One, WriteDue
  <2>5. One(WriteDue)' = One(WriteDue)
    BY <1>2, <2>1 DEF One, WriteDue
  <2>6. One(m_evr_writeable) \in Nat /\ One(WriteDue) \in Nat
    BY DEF One, WriteDue
  <2>7. dones + One(m_evr_writeable) + One(WriteDue) <= handled + bad + late
    BY <1>1, <1>2 DEF Logged, Accepts, Connected
  <2>8. dones \in Nat /\ handled \in Nat /\ bad \in Nat /\ late \in 0 .. 1
    BY <1>1 DEF HistType
  <2>9. dones' + One(m_evr_writeable)' + One(WriteDue)' <= handled' + bad' + late'
    BY <1>2, <2>4, <2>5, <2>6, <2>7, <2>8
  <2> QED
    BY <1>2, <2>3, <2>9 DEF Logged, Accepts, Connected
<1>15. OneAtATime'
  <2> SUFFICES ASSUME ~conf.pipelining PROVE OneAtATime'
    BY <1>2 DEF OneAtATime
  <2>1. RqstInv /\ HalfKept /\ bad = 0 /\ stray = 0
    BY <1>1 DEF OneAtATime
  <2>2. AtRest /\ rcv' = << >> /\ sent % 2 = 0 /\ sent > 0
    BY <1>1, <1>2, <2>1, OneRequest
  <2>3. stray' = 0
    BY <1>4, <2>1, <2>2 DEF AtRest
  <2>4. sent' > 0 /\ sent' % 2 = 0
    BY <1>2, <2>2
  <2>5. RqstInv'
    BY <1>2, <2>2, <2>4 DEF RqstInv
  <2>6. HelloInv'
    BY <1>2 DEF HelloInv, Accepts, Connected
  <2>7. rcv' \notin {<<0>>, <<0, 1>>}
    BY <2>2
  <2>8. HalfKept'
    BY <1>2, <1>5, <2>4, <2>7 DEF HalfKept
  <2> QED
    BY <1>2, <2>1, <2>3, <2>5, <2>6, <2>8 DEF OneAtATime
<1> QED
  BY <1>6, <1>7, <1>8, <1>9, <1>10, <1>11, <1>12, <1>13, <1>14, <1>15 DEF IInv

\* A bad request is read.
LEMMA ReadBadInv ==
  ASSUME IInv, NEW k \in 1 .. Len(rcv), ReadBad(k)
  PROVE  IInv'
<1>1. /\ SockType /\ PollType /\ NcType /\ RqstType /\ RespType /\ LoopType /\ HistType
      /\ LoopInv /\ RespInv /\ StageInv /\ InputKnown /\ EofKnown /\ HandshakeArmed
      /\ OutputArmed /\ EventHasResponse /\ Logged /\ OneAtATime
  BY TypeParts DEF IInv
<1>2. /\ mode = "READ" /\ Connected
      /\ Recv(k) /\ ~WellFormed(SubSeq(rcv, 1, k))
      /\ part' = 2 /\ m_out_q' = m_out_q + 1 /\ m_evr_writeable' = TRUE
      /\ dry' = FALSE
      /\ bad' = bad + 1
      /\ mode' = IF "OUT" \in ev THEN "batch" ELSE "wait"
      /\ UNCHANGED <<eof, room, sent, m_attr_mask, queued, conf, m_nc_state,
                     m_tls_state, keep_alive, m_u, ev, late, stray, handled,
                     dones>>
  BY DEF ReadBad, queue_output, Recv, Reading, Return, Connected, sockVars, pollVars, ncVars,
         rqstVars, respVars, loopVars, histVars
<1>3. m_out_q' \in Nat /\ m_out_q' > 0
  BY <1>1, <1>2 DEF RespType
<1>4. TypeOK'
  <2>1. PollType' /\ NcType'
    BY <1>1, <1>2 DEF PollType, NcType
  <2>2. SockType'
    <3>1. rcv' \in Seq({HsMsg, 0, 1}) /\ ssl' \in Nat
      BY <1>1, <1>2, RecvType, RecvSsl
    <3> QED
      BY <1>1, <1>2, <3>1 DEF SockType
  <2>3. RqstType'
    <3>1. part' \in 0 .. 2
      BY <1>2
    <3> QED
      BY <1>1, <1>2, <3>1 DEF RqstType
  <2>4. RespType'
    BY <1>1, <1>2, <1>3 DEF RespType
  <2>5. LoopType'
    BY <1>1, <1>2 DEF LoopType
  <2>6. HistType'
    BY <1>1, <1>2 DEF HistType
  <2> QED
    BY <2>1, <2>2, <2>3, <2>4, <2>5, <2>6, TypeNext
<1>5. LoopInv'
  BY <1>1, <1>2 DEF LoopInv, LoopType
<1>6. RespInv'
  BY <1>1, <1>2, <1>3 DEF RespInv
<1>7. StageInv'
  <2>1. ssl' <= Len(rcv') /\ (~conf.tls => ssl' = 0) /\ bad' > 0
    BY <1>1, <1>2, RecvSsl DEF HistType
  <2> QED
    BY <1>1, <1>2, <2>1 DEF StageInv, Accepts, Connected, Freed, AtRest
<1>8. InputKnown'
  BY <1>1, <1>2 DEF InputKnown, Accepts, Connected, Freed
<1>9. EofKnown' /\ HandshakeArmed'
  BY <1>1, <1>2 DEF EofKnown, HandshakeArmed, Accepts, Connected, Freed
<1>10. OutputArmed'
  BY <1>1, <1>2 DEF OutputArmed, Accepts, Connected, Freed, AtRest
<1>11. EventHasResponse'
  BY <1>3 DEF EventHasResponse, AtRest
<1>12. Logged'
  <2> SUFFICES ASSUME Plain PROVE Logged'
    BY <1>2 DEF Logged, Plain
  <2>1. One(m_evr_writeable)' = 1
    BY <1>2 DEF One, WriteDue
  <2>2. One(WriteDue)' = One(WriteDue)
    BY <1>2 DEF One, WriteDue
  <2>3. One(m_evr_writeable) \in Nat /\ One(WriteDue) \in Nat
    BY DEF One, WriteDue
  <2>4. dones + One(m_evr_writeable) + One(WriteDue) <= handled + bad + late
    BY <1>1, <1>2 DEF Logged, Accepts, Connected
  <2>5. dones \in Nat /\ handled \in Nat /\ bad \in Nat /\ late \in 0 .. 1
    BY <1>1 DEF HistType
  <2>6. dones' + One(m_evr_writeable)' + One(WriteDue)' <= handled' + bad' + late'
    BY <1>2, <2>1, <2>2, <2>3, <2>4, <2>5
  <2> QED
    BY <1>1, <1>2, <2>6 DEF Logged, Accepts, Connected
<1>13. OneAtATime'
  <2> SUFFICES ASSUME ~conf.pipelining PROVE FALSE
    BY <1>2 DEF OneAtATime
  <2>1. RqstInv
    BY <1>1 DEF OneAtATime
  <2> QED
    BY <1>1, <1>2, <2>1, OneRequest
<1> QED
  BY <1>4, <1>5, <1>6, <1>7, <1>8, <1>9, <1>10, <1>11, <1>12, <1>13 DEF IInv

\* The socket holds no more input.
LEMMA ReadAgainInv ==
  ASSUME IInv, ReadAgain
  PROVE  IInv'
<1>1. /\ SockType /\ PollType /\ NcType /\ RqstType /\ RespType /\ LoopType /\ HistType
      /\ LoopInv /\ RespInv /\ StageInv /\ InputKnown /\ EofKnown /\ HandshakeArmed
      /\ OutputArmed /\ EventHasResponse /\ Logged /\ OneAtATime
  BY TypeParts DEF IInv
<1>2. /\ mode = "READ" /\ Connected
      /\ rcv = << >>
      /\ mode' = IF "OUT" \in ev THEN "batch" ELSE "wait"
      /\ UNCHANGED <<rcv, ssl, eof, room, sent, m_attr_mask, queued, conf,
                     m_nc_state, m_tls_state, part, keep_alive, m_out_q, m_u,
                     m_evr_writeable, dry, ev, late, stray, handled, bad,
                     dones>>
  BY DEF ReadAgain, Reading, Return, Connected, sockVars, pollVars, ncVars,
         rqstVars, respVars, loopVars, histVars
<1>3. TypeOK'
  <2>1. SockType' /\ PollType' /\ NcType' /\ RqstType' /\ RespType' /\ HistType'
    BY <1>1, <1>2 DEF SockType, PollType, NcType, RqstType, RespType, HistType
  <2>2. LoopType'
    BY <1>1, <1>2 DEF LoopType
  <2> QED
    BY <2>1, <2>2, TypeNext
<1>4. LoopInv'
  BY <1>1, <1>2 DEF LoopInv, LoopType
<1>5. RespInv'
  BY <1>1, <1>2 DEF RespInv
<1>6. StageInv'
  <2>1. ssl = 0
    BY <1>1, <1>2 DEF StageInv, SockType
  <2> QED
    BY <1>1, <1>2, <2>1 DEF StageInv, Accepts, Connected, Freed, AtRest
<1>7. InputKnown'
  BY <1>1, <1>2 DEF InputKnown, SockType
<1>8. EofKnown' /\ HandshakeArmed'
  BY <1>1, <1>2 DEF EofKnown, HandshakeArmed, Accepts, Connected, Freed
<1>9. OutputArmed'
  BY <1>1, <1>2 DEF OutputArmed, Accepts, Connected, Freed, AtRest
<1>10. EventHasResponse'
  BY <1>1, <1>2 DEF EventHasResponse, AtRest
<1>11. Logged'
  BY <1>1, <1>2 DEF Logged, Plain, One, WriteDue, Accepts
<1>12. OneAtATime'
  BY <1>1, <1>2 DEF OneAtATime, RqstInv, HelloInv, HalfKept, Accepts, Connected, Freed,
                    AtRest
<1> QED
  BY <1>3, <1>4, <1>5, <1>6, <1>7, <1>8, <1>9, <1>10, <1>11, <1>12 DEF IInv
----------------------------------------------------------------------------
(* Writing, and the upstream *)

\* Part of the response is written.
LEMMA WriteSomeInv ==
  ASSUME IInv, WriteSome
  PROVE  IInv'
<1>1. /\ SockType /\ PollType /\ NcType /\ RqstType /\ RespType /\ LoopType /\ HistType
      /\ LoopInv /\ RespInv /\ StageInv /\ InputKnown /\ EofKnown /\ HandshakeArmed
      /\ OutputArmed /\ EventHasResponse /\ Logged /\ OneAtATime
  BY TypeParts DEF IInv
<1>2. /\ mode = "WRITE" /\ Connected
      /\ m_out_q > 1 /\ room > 0
      /\ room' = room - 1 /\ m_out_q' = m_out_q - 1
      /\ UNCHANGED <<rcv, ssl, eof, sent, m_attr_mask, queued, conf, m_nc_state,
                     m_tls_state, part, keep_alive, m_u, m_evr_writeable, dry,
                     mode, ev, late, stray, handled, bad, dones>>
  BY DEF WriteSome, Writing, Connected, sockVars, pollVars, ncVars, rqstVars,
         respVars, loopVars, histVars
<1>3. m_out_q' \in Nat /\ m_out_q' > 0 /\ ~AtRest /\ ~AtRest'
  BY <1>1, <1>2 DEF RespType, AtRest
<1>4. TypeOK'
  <2>1. PollType' /\ NcType' /\ RqstType' /\ LoopType' /\ HistType'
    BY <1>1, <1>2 DEF PollType, NcType, RqstType, LoopType, HistType
  <2>2. SockType'
    <3>1. room' \in 0 .. MaxRoom
      BY <1>1, <1>2, ConfigAssumption DEF SockType
    <3> QED
      BY <1>1, <1>2, <3>1 DEF SockType
  <2>3. RespType'
    BY <1>1, <1>2, <1>3 DEF RespType
  <2> QED
    BY <2>1, <2>2, <2>3, TypeNext
<1>5. LoopInv'
  BY <1>1, <1>2 DEF LoopInv
<1>6. RespInv'
  BY <1>1, <1>2, <1>3 DEF RespInv
<1>7. StageInv'
  BY <1>1, <1>2 DEF StageInv, Accepts, Connected, Freed, AtRest
<1>8. InputKnown'
  BY <1>1, <1>2 DEF InputKnown, Accepts, Connected, Freed
<1>9. EofKnown' /\ HandshakeArmed'
  BY <1>1, <1>2 DEF EofKnown, HandshakeArmed, Accepts, Connected, Freed
<1>10. OutputArmed'
  BY <1>1, <1>2 DEF OutputArmed, Accepts, Connected, Freed, AtRest
<1>11. EventHasResponse'
  BY <1>3 DEF EventHasResponse
<1>12. Logged'
  BY <1>1, <1>2 DEF Logged, Plain, One, WriteDue, Accepts
<1>13. OneAtATime'
  <2> SUFFICES ASSUME ~conf.pipelining PROVE OneAtATime'
    BY <1>2 DEF OneAtATime
  <2>1. RqstInv /\ HalfKept /\ bad = 0 /\ stray = 0
    BY <1>1 DEF OneAtATime
  <2>2. rcv = << >> /\ part = 0 /\ sent % 2 = 0 /\ sent # 0
    BY <1>2, <1>3, <2>1 DEF RqstInv
  <2>3. RqstInv' /\ HelloInv'
    BY <1>2, <1>3, <2>2 DEF RqstInv, HelloInv, Accepts, Connected
  <2>4. rcv' \notin {<<0>>, <<0, 1>>}
    BY <1>2, <2>2
  <2>5. HalfKept'
    BY <1>2, <1>3, <2>1, <2>2, <2>4 DEF HalfKept
  <2> QED
    BY <1>2, <2>1, <2>3, <2>5 DEF OneAtATime
<1> QED
  BY <1>4, <1>5, <1>6, <1>7, <1>8, <1>9, <1>10, <1>11, <1>12, <1>13 DEF IInv

\* The last write of what is queued.
LEMMA DrainedEffect ==
  ASSUME IInv, Drained
  PROVE  /\ mode = "WRITE" /\ Connected /\ ev = {}
         /\ SockType' /\ (m_out_q = 0 => room' = room)
         /\ rcv' = rcv /\ ssl' = ssl /\ eof' = eof /\ sent' = sent
<1>1. SockType /\ LoopInv
  BY TypeParts DEF IInv
<1>2. mode = "WRITE" /\ Connected /\ rcv' = rcv /\ ssl' = ssl /\ eof' = eof /\ sent' = sent
  BY DEF Drained, Writing, Connected
<1>3. ev = {}
  BY <1>1, <1>2 DEF LoopInv
<1>4. room' \in 0 .. MaxRoom /\ (m_out_q = 0 => room' = room)
  BY <1>1, ConfigAssumption DEF Drained, SockType
<1>5. SockType'
  BY <1>1, <1>2, <1>4 DEF SockType
<1> QED
  BY <1>2, <1>3, <1>4, <1>5

\* The response ends and the connection is kept.
LEMMA FinishKeeps ==
  ASSUME IInv, Drained, Finish(FALSE), keep_alive
  PROVE  IInv'
<1>1. /\ SockType /\ PollType /\ NcType /\ RqstType /\ RespType /\ LoopType /\ HistType
      /\ LoopInv /\ RespInv /\ StageInv /\ InputKnown /\ EofKnown /\ HandshakeArmed
      /\ OutputArmed /\ EventHasResponse /\ Logged /\ OneAtATime
  BY TypeParts DEF IInv
<1>2. /\ dones' = dones + 1
      /\ m_attr_mask' = {"READ"} /\ queued' = (queued \/ Events({"READ"}) # {})
      /\ part' = 0 /\ m_out_q' = 0 /\ m_u' = NoResp /\ dry' = FALSE
      /\ mode' = IF "OUT" \in ev THEN "batch" ELSE "wait"
      /\ UNCHANGED <<rcv, ssl, eof, sent, conf, m_nc_state, m_tls_state,
                     keep_alive, m_evr_writeable, ev, late, stray, handled,
                     bad>>
  BY DEF Drained, Finish, mod_fd, Return, sockVars, pollVars, ncVars, rqstVars,
         respVars, loopVars, histVars
<1>3. /\ mode = "WRITE" /\ Connected /\ ev = {}
      /\ SockType' /\ (m_out_q = 0 => room' = room)
      /\ rcv' = rcv /\ eof' = eof /\ sent' = sent
  BY DrainedEffect DEF Drained
<1>4. /\ mode' = "wait" /\ ev' = {} /\ AtRest' /\ m_u'.kind = "none" /\ "WRITE" \notin m_attr_mask'
      /\ queued' \in BOOLEAN /\ (Len(rcv) > ssl => queued')
  <2>1. Len(rcv) > ssl => Events({"READ"}) # {}
    BY DEF Events
  <2>2. m_u'.kind = "none" /\ AtRest'
    BY <1>2 DEF NoResp, AtRest
  <2> QED
    BY <1>2, <1>3, <2>1, <2>2
<1>5. TypeOK'
  <2>1. NcType'
    BY <1>1, <1>2 DEF NcType
  <2>2. SockType'
    BY <1>3
  <2>3. PollType'
    BY <1>1, <1>2, <1>4 DEF PollType
  <2>4. RqstType'
    <3>1. part' \in 0 .. 2
      BY <1>2
    <3> QED
      BY <1>1, <1>2, <3>1 DEF RqstType
  <2>5. RespType'
    BY <1>1, <1>2 DEF RespType, Resp, NoResp
  <2>6. LoopType'
    BY <1>4 DEF LoopType
  <2>7. HistType'
    BY <1>1, <1>2 DEF HistType
  <2> QED
    BY <2>1, <2>2, <2>3, <2>4, <2>5, <2>6, <2>7, TypeNext
<1>6. LoopInv'
  BY <1>4 DEF LoopInv
<1>7. RespInv'
  BY <1>2, <1>4 DEF RespInv
<1>8. StageInv'
  BY <1>1, <1>2, <1>3, <1>4 DEF StageInv, Accepts, Connected, Freed
<1>9. InputKnown'
  BY <1>2, <1>3, <1>4 DEF InputKnown
<1>10. EofKnown' /\ HandshakeArmed'
  BY <1>2, <1>3 DEF EofKnown, HandshakeArmed, Accepts, Connected, Freed
<1>11. OutputArmed'
  BY <1>2, <1>4 DEF OutputArmed
<1>12. EventHasResponse'
  BY <1>4 DEF EventHasResponse
<1>13. Logged'
  <2> SUFFICES ASSUME Plain PROVE Logged'
    BY <1>2 DEF Logged, Plain
  <2>1. One(m_evr_writeable)' = One(m_evr_writeable)
    BY <1>2
  <2>2. One(WriteDue)' = 0
    BY <1>2, <1>4 DEF One, WriteDue
  <2>3. One(WriteDue) = 1 /\ One(m_evr_writeable) \in Nat
    BY <1>3 DEF One, WriteDue
  <2>4. dones + One(m_evr_writeable) + One(WriteDue) <= handled + bad + late
    BY <1>1, <1>3 DEF Logged, Accepts, Connected
  <2>5. dones \in Nat /\ handled \in Nat /\ bad \in Nat /\ late \in 0 .. 1
    BY <1>1 DEF HistType
  <2>6. dones' + One(m_evr_writeable)' + One(WriteDue)' <= handled' + bad' + late'
    BY <1>2, <2>1, <2>2, <2>3, <2>4, <2>5
  <2> QED
    BY <1>1, <1>2, <1>3, <1>4, <2>6 DEF Logged, Accepts, Connected
<1>14. OneAtATime'
  <2> SUFFICES ASSUME ~conf.pipelining PROVE OneAtATime'
    BY <1>2 DEF OneAtATime
  <2>1. RqstInv /\ HalfKept /\ bad = 0 /\ stray = 0
    BY <1>1 DEF OneAtATime
  <2>2. part # 1
    BY <1>3, <2>1 DEF HalfKept
  <2>3. RqstInv'
    BY <1>2, <1>3, <1>4, <2>1, <2>2 DEF RqstInv
  <2>4. HelloInv'
    BY <1>2, <1>3 DEF HelloInv, Accepts, Connected
  <2>5. rcv \in {<<0>>, <<0, 1>>} => room' > 0
    <3> HAVE rcv \in {<<0>>, <<0, 1>>}
    <3>1. rcv # << >>
      OBVIOUS
    <3>2. AtRest
      BY <1>3, <2>1, <3>1 DEF RqstInv
    <3>3. room' = room /\ room > 0
      BY <1>3, <2>1, <3>2 DEF AtRest, HalfKept
    <3> QED
      BY <3>3
  <2>6. HalfKept'
    BY <1>2, <1>3, <1>4, <2>1, <2>5 DEF HalfKept
  <2> QED
    BY <1>2, <2>1, <2>3, <2>4, <2>6 DEF OneAtATime
<1> QED
  BY <1>5, <1>6, <1>7, <1>8, <1>9, <1>10, <1>11, <1>12, <1>13, <1>14 DEF IInv

\* The response ends: the connection is kept, or torn down.
LEMMA WriteDoneInv ==
  ASSUME IInv, WriteDone
  PROVE  IInv'
<1> DEFINE end == m_u.kind # "none" /\ m_u.shutdown
<1>1. Drained /\ Finish(end)
  BY DEF WriteDone
<1>2. CASE ~end /\ keep_alive
  <2>1. Finish(FALSE)
    BY <1>1, <1>2 DEF Finish
  <2> QED
    BY <1>1, <1>2, <2>1, FinishKeeps
<1>3. CASE ~(~end /\ keep_alive)
  <2>1. /\ Teardown /\ UNCHANGED rqstVars /\ dones' = dones + 1
        /\ late' = late /\ stray' = stray /\ handled' = handled /\ bad' = bad
    BY <1>1, <1>3 DEF Finish
  <2>2. /\ mode = "WRITE" /\ Connected /\ SockType' /\ sent' = sent
        /\ ssl' <= Len(rcv') /\ (~conf.tls => ssl' = 0)
    BY <1>1, DrainedEffect DEF IInv, StageInv
  <2>3. RqstType /\ HistType /\ Logged
    BY TypeParts DEF IInv
  <2>4. RqstType' /\ keep_alive' = keep_alive
    BY <2>1, <2>3 DEF RqstType, rqstVars
  <2>5. One(WriteDue) = 1 /\ One(m_evr_writeable) \in Nat
    BY <2>2 DEF One, WriteDue
  <2>6. dones' \in Nat /\ (Plain => dones' <= handled + bad + late)
    BY <2>1, <2>2, <2>3, <2>5 DEF Logged, HistType, Accepts, Connected
  <2> QED
    BY <2>1, <2>2, <2>4, <2>6, TeardownInv
<1> QED
  BY <1>2, <1>3

\* The next part of the file is read and queued.
LEMMA WriteReadAheadInv ==
  ASSUME IInv, WriteReadAhead
  PROVE  IInv'
<1>1. /\ SockType /\ PollType /\ NcType /\ RqstType /\ RespType /\ LoopType /\ HistType
      /\ LoopInv /\ RespInv /\ StageInv /\ InputKnown /\ EofKnown /\ HandshakeArmed
      /\ OutputArmed /\ EventHasResponse /\ Logged /\ OneAtATime
  BY TypeParts DEF IInv
<1>2. /\ m_u.kind = "file" /\ ~m_u.done
      /\ m_out_q' = 1 /\ m_evr_writeable' = TRUE /\ dry' = FALSE
      /\ UNCHANGED <<rcv, ssl, eof, sent, m_attr_mask, queued, conf, m_nc_state,
                     m_tls_state, part, keep_alive, mode, ev, late, stray,
                     handled, bad, dones>>
  BY DEF WriteReadAhead, queue_output, Drained, sockVars, pollVars, ncVars, rqstVars,
         respVars, loopVars, histVars
<1>3. /\ mode = "WRITE" /\ Connected /\ ev = {}
      /\ SockType' /\ (m_out_q = 0 => room' = room)
      /\ rcv' = rcv /\ eof' = eof /\ sent' = sent
  BY DrainedEffect DEF WriteReadAhead
<1>4. /\ m_u' \in Resp /\ m_u'.kind = "file" /\ (~m_u'.done => m_u'.left > 0)
      /\ ~AtRest /\ ~AtRest'
  <2>1. m_u \in Resp /\ m_u.left \in Nat /\ m_u.left > 0 /\ m_u.shutdown \in BOOLEAN
    BY <1>1, <1>2 DEF RespType, RespInv, Resp
  <2>2. m_u' = [m_u EXCEPT !.left = m_u.left - 1, !.done = (m_u.left = 1)]
    BY DEF WriteReadAhead
  <2>3. m_u' = [kind |-> m_u.kind, left |-> m_u.left - 1, done |-> (m_u.left = 1),
                shutdown |-> m_u.shutdown]
    BY <2>1, <2>2, SetLeftDone, Zenon
  <2>4. m_u.left - 1 \in Nat /\ (~(m_u.left = 1) => m_u.left - 1 > 0)
    BY <2>1
  <2>5. m_u' \in Resp
    BY <1>2, <2>1, <2>3, <2>4 DEF Resp
  <2>6. m_u'.kind = "file" /\ m_u'.left = m_u.left - 1 /\ m_u'.done = (m_u.left = 1)
    BY <1>2, <2>3
  <2>7. ~m_u'.done => m_u'.left > 0
    BY <2>4, <2>6
  <2> QED
    BY <1>2, <2>5, <2>6, <2>7 DEF AtRest
<1>5. TypeOK'
  <2>1. PollType' /\ NcType' /\ RqstType' /\ LoopType' /\ HistType'
    BY <1>1, <1>2 DEF PollType, NcType, RqstType, LoopType, HistType
  <2>2. SockType'
    BY <1>3
  <2>3. RespType'
    BY <1>2, <1>4 DEF RespType
  <2> QED
    BY <2>1, <2>2, <2>3, TypeNext
<1>6. LoopInv'
  BY <1>1, <1>2 DEF LoopInv
<1>7. RespInv'
  BY <1>2, <1>4 DEF RespInv
<1>8. StageInv'
  BY <1>1, <1>2, <1>3 DEF StageInv, Accepts, Connected, Freed
<1>9. InputKnown'
  BY <1>1, <1>2 DEF InputKnown, Accepts, Connected, Freed
<1>10. EofKnown' /\ HandshakeArmed'
  BY <1>2, <1>3 DEF EofKnown, HandshakeArmed, Accepts, Connected, Freed
<1>11. OutputArmed'
  BY <1>2, <1>3 DEF OutputArmed
<1>12. EventHasResponse'
  BY <1>4 DEF EventHasResponse
<1>13. Logged'
  <2>1. ~Plain
    BY <1>1, <1>2 DEF Logged, Plain
  <2> QED
    BY <1>2, <2>1 DEF Logged, Plain
<1>14. OneAtATime'
  <2> SUFFICES ASSUME ~conf.pipelining PROVE OneAtATime'
    BY <1>2 DEF OneAtATime
  <2>1. RqstInv /\ HalfKept /\ bad = 0 /\ stray = 0
    BY <1>1 DEF OneAtATime
  <2>2. rcv = << >> /\ part = 0 /\ sent % 2 = 0 /\ sent # 0
    BY <1>2, <1>3, <1>4, <2>1 DEF RqstInv
  <2>3. RqstInv' /\ HelloInv'
    BY <1>2, <1>3, <1>4, <2>2 DEF RqstInv, HelloInv, Accepts, Connected
  <2>4. rcv' \notin {<<0>>, <<0, 1>>}
    BY <1>2, <2>2
  <2>5. HalfKept'
    BY <1>2, <1>3, <1>4, <2>1, <2>2, <2>4 DEF HalfKept
  <2> QED
    BY <1>2, <2>1, <2>3, <2>5 DEF OneAtATime
<1> QED
  BY <1>5, <1>6, <1>7, <1>8, <1>9, <1>10, <1>11, <1>12, <1>13, <1>14 DEF IInv

\* The file ended early.
LEMMA WriteTruncatedInv ==
  ASSUME IInv, WriteTruncated
  PROVE  IInv'
<1>1. /\ SockType /\ PollType /\ NcType /\ RqstType /\ RespType /\ LoopType /\ HistType
      /\ LoopInv /\ RespInv /\ StageInv /\ InputKnown /\ EofKnown /\ HandshakeArmed
      /\ OutputArmed /\ EventHasResponse /\ Logged /\ OneAtATime
  BY TypeParts DEF IInv
<1>2. /\ conf.faults
      /\ m_u.kind = "file" /\ ~m_u.done
      /\ m_out_q' = 0 /\ dry' = ~m_evr_writeable
      /\ m_u' = [m_u EXCEPT !.done = TRUE]
      /\ mode' = IF "OUT" \in ev THEN "batch" ELSE "wait"
      /\ UNCHANGED <<rcv, ssl, eof, sent, m_attr_mask, queued, conf, m_nc_state,
                     m_tls_state, part, keep_alive, m_evr_writeable, ev,
                     late, stray, handled, bad, dones>>
  BY DEF WriteTruncated, NoOutput, Drained, Return, sockVars, pollVars, ncVars, rqstVars,
         respVars, loopVars, histVars
<1>3. /\ mode = "WRITE" /\ Connected /\ ev = {}
      /\ SockType' /\ (m_out_q = 0 => room' = room)
      /\ rcv' = rcv /\ eof' = eof /\ sent' = sent
  BY DrainedEffect DEF WriteTruncated
<1>4. /\ m_u' \in Resp /\ m_u'.kind = "file" /\ m_u'.done /\ ~AtRest /\ ~AtRest'
      /\ mode' = "wait" /\ ev' = {}
  <2>1. m_u \in Resp
    BY <1>1 DEF RespType
  <2>2. m_u' \in Resp /\ m_u'.kind = m_u.kind /\ m_u'.done
    BY <1>2, <2>1 DEF Resp
  <2> QED
    BY <1>2, <1>3, <2>2 DEF AtRest
<1>5. TypeOK'
  <2>1. PollType' /\ NcType' /\ RqstType' /\ HistType'
    BY <1>1, <1>2 DEF PollType, NcType, RqstType, HistType
  <2>2. SockType'
    BY <1>3
  <2>3. RespType'
    BY <1>1, <1>2, <1>4 DEF RespType
  <2>4. LoopType'
    BY <1>4 DEF LoopType
  <2> QED
    BY <2>1, <2>2, <2>3, <2>4, TypeNext
<1>6. LoopInv'
  BY <1>4 DEF LoopInv
<1>7. RespInv'
  BY <1>4 DEF RespInv
<1>8. StageInv'
  BY <1>1, <1>2, <1>3 DEF StageInv, Accepts, Connected, Freed
<1>9. InputKnown'
  BY <1>1, <1>2, <1>3, <1>4 DEF InputKnown, Accepts, Connected, Freed
<1>10. EofKnown' /\ HandshakeArmed'
  BY <1>2, <1>3 DEF EofKnown, HandshakeArmed, Accepts, Connected, Freed
<1>11. OutputArmed'
  BY <1>2, <1>4 DEF OutputArmed
<1>12. EventHasResponse'
  BY <1>4 DEF EventHasResponse
<1>13. Logged'
  <2>1. ~Plain
    BY <1>2 DEF Logged, Plain
  <2> QED
    BY <1>2, <2>1 DEF Logged, Plain
<1>14. OneAtATime'
  <2> SUFFICES ASSUME ~conf.pipelining PROVE OneAtATime'
    BY <1>2 DEF OneAtATime
  <2>1. RqstInv /\ HalfKept /\ bad = 0 /\ stray = 0
    BY <1>1 DEF OneAtATime
  <2>2. rcv = << >> /\ part = 0 /\ sent % 2 = 0 /\ sent # 0
    BY <1>2, <1>3, <1>4, <2>1 DEF RqstInv
  <2>3. RqstInv' /\ HelloInv'
    BY <1>2, <1>3, <1>4, <2>2 DEF RqstInv, HelloInv, Accepts, Connected
  <2>4. rcv' \notin {<<0>>, <<0, 1>>}
    BY <1>2, <2>2
  <2>5. HalfKept'
    BY <1>2, <1>3, <1>4, <2>1, <2>2, <2>4 DEF HalfKept
  <2> QED
    BY <1>2, <2>1, <2>3, <2>5 DEF OneAtATime
<1> QED
  BY <1>5, <1>6, <1>7, <1>8, <1>9, <1>10, <1>11, <1>12, <1>13, <1>14 DEF IInv

\* A read of the file fails.
LEMMA WriteReadFailsInv ==
  ASSUME IInv, NEW some \in 0 .. 1, WriteReadFails(some)
  PROVE  IInv'
<1>1. /\ SockType /\ PollType /\ NcType /\ RqstType /\ RespType /\ LoopType /\ HistType
      /\ LoopInv /\ RespInv /\ StageInv /\ InputKnown /\ EofKnown /\ HandshakeArmed
      /\ OutputArmed /\ EventHasResponse /\ Logged /\ OneAtATime
  BY TypeParts DEF IInv
<1>2. /\ conf.faults
      /\ m_u.kind = "file" /\ ~m_u.done
      /\ m_out_q' = some /\ dry' = ~m_evr_writeable
      /\ mode' = IF "OUT" \in ev THEN "batch" ELSE "wait"
      /\ UNCHANGED <<rcv, ssl, eof, sent, m_attr_mask, queued, conf, m_nc_state,
                     m_tls_state, part, keep_alive, m_u, m_evr_writeable, ev,
                     late, stray, handled, bad, dones>>
  BY DEF WriteReadFails, NoOutput, Drained, Return, sockVars, pollVars, ncVars, rqstVars,
         respVars, loopVars, histVars
<1>3. /\ mode = "WRITE" /\ Connected /\ ev = {}
      /\ SockType' /\ (m_out_q = 0 => room' = room)
      /\ rcv' = rcv /\ eof' = eof /\ sent' = sent
  BY DrainedEffect DEF WriteReadFails
<1>4. some \in Nat /\ ~AtRest /\ ~AtRest' /\ mode' = "wait" /\ ev' = {}
  BY <1>2, <1>3 DEF AtRest
<1>5. TypeOK'
  <2>1. PollType' /\ NcType' /\ RqstType' /\ HistType'
    BY <1>1, <1>2 DEF PollType, NcType, RqstType, HistType
  <2>2. SockType'
    BY <1>3
  <2>3. RespType'
    BY <1>1, <1>2, <1>4 DEF RespType
  <2>4. LoopType'
    BY <1>4 DEF LoopType
  <2> QED
    BY <2>1, <2>2, <2>3, <2>4, TypeNext
<1>6. LoopInv'
  BY <1>4 DEF LoopInv
<1>7. RespInv'
  BY <1>1, <1>2 DEF RespInv
<1>8. StageInv'
  BY <1>1, <1>2, <1>3 DEF StageInv, Accepts, Connected, Freed
<1>9. InputKnown'
  BY <1>1, <1>2, <1>3, <1>4 DEF InputKnown, Accepts, Connected, Freed
<1>10. EofKnown' /\ HandshakeArmed'
  BY <1>2, <1>3 DEF EofKnown, HandshakeArmed, Accepts, Connected, Freed
<1>11. OutputArmed'
  BY <1>2, <1>4 DEF OutputArmed
<1>12. EventHasResponse'
  BY <1>4 DEF EventHasResponse
<1>13. Logged'
  <2>1. ~Plain
    BY <1>2 DEF Logged, Plain
  <2> QED
    BY <1>2, <2>1 DEF Logged, Plain
<1>14. OneAtATime'
  <2> SUFFICES ASSUME ~conf.pipelining PROVE OneAtATime'
    BY <1>2 DEF OneAtATime
  <2>1. RqstInv /\ HalfKept /\ bad = 0 /\ stray = 0
    BY <1>1 DEF OneAtATime
  <2>2. rcv = << >> /\ part = 0 /\ sent % 2 = 0 /\ sent # 0
    BY <1>2, <1>3, <1>4, <2>1 DEF RqstInv
  <2>3. RqstInv' /\ HelloInv'
    BY <1>2, <1>3, <1>4, <2>2 DEF RqstInv, HelloInv, Accepts, Connected
  <2>4. rcv' \notin {<<0>>, <<0, 1>>}
    BY <1>2, <2>2
  <2>5. HalfKept'
    BY <1>2, <1>3, <1>4, <2>1, <2>2, <2>4 DEF HalfKept
  <2> QED
    BY <1>2, <2>1, <2>3, <2>5 DEF OneAtATime
<1> QED
  BY <1>5, <1>6, <1>7, <1>8, <1>9, <1>10, <1>11, <1>12, <1>13, <1>14 DEF IInv

\* The upstream has not said everything yet.
LEMMA WriteDeferredInv ==
  ASSUME IInv, WriteDeferred
  PROVE  IInv'
<1>1. /\ SockType /\ PollType /\ NcType /\ RqstType /\ RespType /\ LoopType /\ HistType
      /\ LoopInv /\ RespInv /\ StageInv /\ InputKnown /\ EofKnown /\ HandshakeArmed
      /\ OutputArmed /\ EventHasResponse /\ Logged /\ OneAtATime
  BY TypeParts DEF IInv
<1>2. /\ m_u.kind = "proxy" /\ ~m_u.done
      /\ m_out_q' = 0
      /\ mode' = IF "OUT" \in ev THEN "batch" ELSE "wait"
      /\ UNCHANGED <<rcv, ssl, eof, sent, m_attr_mask, queued, conf, m_nc_state,
                     m_tls_state, part, keep_alive, m_u, m_evr_writeable, dry,
                     ev, late, stray, handled, bad, dones>>
  BY DEF WriteDeferred, Drained, Return, sockVars, pollVars, ncVars, rqstVars,
         respVars, loopVars, histVars
<1>3. /\ mode = "WRITE" /\ Connected /\ ev = {}
      /\ SockType' /\ (m_out_q = 0 => room' = room)
      /\ rcv' = rcv /\ eof' = eof /\ sent' = sent
  BY DrainedEffect DEF WriteDeferred
<1>4. ~AtRest /\ ~AtRest' /\ mode' = "wait" /\ ev' = {}
  BY <1>2, <1>3 DEF AtRest
<1>5. TypeOK'
  <2>1. PollType' /\ NcType' /\ RqstType' /\ HistType'
    BY <1>1, <1>2 DEF PollType, NcType, RqstType, HistType
  <2>2. SockType'
    BY <1>3
  <2>3. RespType'
    BY <1>1, <1>2 DEF RespType
  <2>4. LoopType'
    BY <1>4 DEF LoopType
  <2> QED
    BY <2>1, <2>2, <2>3, <2>4, TypeNext
<1>6. LoopInv'
  BY <1>4 DEF LoopInv
<1>7. RespInv'
  BY <1>1, <1>2 DEF RespInv
<1>8. StageInv'
  BY <1>1, <1>2, <1>3 DEF StageInv, Accepts, Connected, Freed
<1>9. InputKnown'
  BY <1>1, <1>2, <1>3, <1>4 DEF InputKnown, Accepts, Connected, Freed
<1>10. EofKnown' /\ HandshakeArmed'
  BY <1>2, <1>3 DEF EofKnown, HandshakeArmed, Accepts, Connected, Freed
<1>11. OutputArmed'
  BY <1>2, <1>4 DEF OutputArmed
<1>12. EventHasResponse'
  BY <1>4 DEF EventHasResponse
<1>13. Logged'
  <2>1. ~Plain
    BY <1>1, <1>2 DEF Logged, Plain
  <2> QED
    BY <1>2, <2>1 DEF Logged, Plain
<1>14. OneAtATime'
  <2> SUFFICES ASSUME ~conf.pipelining PROVE OneAtATime'
    BY <1>2 DEF OneAtATime
  <2>1. RqstInv /\ HalfKept /\ bad = 0 /\ stray = 0
    BY <1>1 DEF OneAtATime
  <2>2. rcv = << >> /\ part = 0 /\ sent % 2 = 0 /\ sent # 0
    BY <1>2, <1>3, <1>4, <2>1 DEF RqstInv
  <2>3. RqstInv' /\ HelloInv'
    BY <1>2, <1>3, <1>4, <2>2 DEF RqstInv, HelloInv, Accepts, Connected
  <2>4. rcv' \notin {<<0>>, <<0, 1>>}
    BY <1>2, <2>2
  <2>5. HalfKept'
    BY <1>2, <1>3, <1>4, <2>1, <2>2, <2>4 DEF HalfKept
  <2> QED
    BY <1>2, <2>1, <2>3, <2>5 DEF OneAtATime
<1> QED
  BY <1>5, <1>6, <1>7, <1>8, <1>9, <1>10, <1>11, <1>12, <1>13, <1>14 DEF IInv

\* The socket takes no more output.
LEMMA WriteAgainInv ==
  ASSUME IInv, WriteAgain
  PROVE  IInv'
<1>1. /\ SockType /\ PollType /\ NcType /\ RqstType /\ RespType /\ LoopType /\ HistType
      /\ LoopInv /\ RespInv /\ StageInv /\ InputKnown /\ EofKnown /\ HandshakeArmed
      /\ OutputArmed /\ EventHasResponse /\ Logged /\ OneAtATime
  BY TypeParts DEF IInv
<1>2. /\ mode = "WRITE" /\ Connected
      /\ m_out_q > 0 /\ room = 0
      /\ m_attr_mask' = {"WRITE"} /\ queued' = (queued \/ Events({"WRITE"}) # {})
      /\ mode' = IF "OUT" \in ev THEN "batch" ELSE "wait"
      /\ UNCHANGED <<rcv, ssl, eof, room, sent, conf, m_nc_state, m_tls_state,
                     part, keep_alive, m_out_q, m_u, m_evr_writeable, dry, ev,
                     late, stray, handled, bad, dones>>
  BY DEF WriteAgain, Writing, mod_fd, Return, Connected, sockVars, pollVars,
         ncVars, rqstVars, respVars, loopVars, histVars
<1>3. ~AtRest /\ ~AtRest' /\ mode' = "wait" /\ ev' = {} /\ queued' \in BOOLEAN
  BY <1>1, <1>2 DEF AtRest, LoopInv
<1>4. TypeOK'
  <2>1. SockType' /\ NcType' /\ RqstType' /\ RespType' /\ HistType'
    BY <1>1, <1>2 DEF SockType, NcType, RqstType, RespType, HistType
  <2>2. PollType'
    BY <1>2, <1>3 DEF PollType
  <2>3. LoopType'
    BY <1>3 DEF LoopType
  <2> QED
    BY <2>1, <2>2, <2>3, TypeNext
<1>5. LoopInv'
  BY <1>3 DEF LoopInv
<1>6. RespInv'
  BY <1>1, <1>2 DEF RespInv
<1>7. StageInv'
  BY <1>1, <1>2, <1>3 DEF StageInv, Accepts, Connected, Freed
<1>8. InputKnown'
  BY <1>2 DEF InputKnown
<1>9. EofKnown' /\ HandshakeArmed'
  BY <1>2 DEF EofKnown, HandshakeArmed, Accepts, Connected, Freed
<1>10. OutputArmed'
  BY <1>2, <1>3 DEF OutputArmed
<1>11. EventHasResponse'
  BY <1>3 DEF EventHasResponse
<1>12. Logged'
  <2>1. One(WriteDue)' = One(WriteDue)
    BY <1>2 DEF One, WriteDue
  <2> QED
    BY <1>1, <1>2, <2>1 DEF Logged, Plain, Accepts
<1>13. OneAtATime'
  <2> SUFFICES ASSUME ~conf.pipelining PROVE OneAtATime'
    BY <1>2 DEF OneAtATime
  <2>1. RqstInv /\ HalfKept /\ bad = 0 /\ stray = 0
    BY <1>1 DEF OneAtATime
  <2>2. rcv = << >> /\ part = 0 /\ sent % 2 = 0 /\ sent # 0
    BY <1>2, <1>3, <2>1 DEF RqstInv
  <2>3. RqstInv' /\ HelloInv'
    BY <1>2, <1>3, <2>2 DEF RqstInv, HelloInv, Accepts, Connected
  <2>4. rcv' \notin {<<0>>, <<0, 1>>}
    BY <1>2, <2>2
  <2>5. HalfKept'
    BY <1>2, <1>3, <2>1, <2>2, <2>4 DEF HalfKept
  <2> QED
    BY <1>2, <2>1, <2>3, <2>5 DEF OneAtATime
<1> QED
  BY <1>4, <1>5, <1>6, <1>7, <1>8, <1>9, <1>10, <1>11, <1>12, <1>13 DEF IInv

\* The upstream's answer is queued for the client.
LEMMA UpsReadInv ==
  ASSUME IInv, NEW d \in BOOLEAN, UpsRead(d)
  PROVE  IInv'
<1>1. /\ SockType /\ PollType /\ NcType /\ RqstType /\ RespType /\ LoopType /\ HistType
      /\ LoopInv /\ RespInv /\ StageInv /\ InputKnown /\ EofKnown /\ HandshakeArmed
      /\ OutputArmed /\ EventHasResponse /\ Logged /\ OneAtATime
  BY TypeParts DEF IInv
<1>2. /\ mode \in {"wait", "batch"}
      /\ m_u.kind = "proxy" /\ m_u.left > 0
      /\ m_out_q' = m_out_q + 1 /\ m_evr_writeable' = TRUE /\ dry' = FALSE
      /\ UNCHANGED <<rcv, ssl, eof, room, sent, m_attr_mask, queued, conf,
                     m_nc_state, m_tls_state, part, keep_alive, mode, ev, late,
                     stray, handled, bad, dones>>
  BY DEF UpsRead, queue_output, sockVars, pollVars, ncVars, rqstVars, respVars, loopVars,
         histVars
<1>3. /\ Connected /\ ~AtRest /\ ~AtRest' /\ m_out_q' \in Nat /\ m_out_q' > 0
      /\ m_u' \in Resp /\ m_u'.kind = "proxy"
  <2>1. Connected
    BY <1>1, <1>2 DEF StageInv, NcType, Accepts, Connected, Freed, AtRest
  <2>2. m_out_q' \in Nat /\ m_out_q' > 0 /\ ~AtRest /\ ~AtRest'
    BY <1>1, <1>2 DEF RespType, AtRest
  <2>3. m_u \in Resp /\ m_u.left \in Nat /\ m_u.left - 1 \in Nat /\ m_u.shutdown \in BOOLEAN
    BY <1>1, <1>2 DEF RespType, Resp
  <2>4. CASE d
    <3>1. m_u' = [m_u EXCEPT !.left = 0, !.done = TRUE, !.shutdown = TRUE]
      BY <2>4 DEF UpsRead
    <3>2. m_u' = [kind |-> m_u.kind, left |-> 0, done |-> TRUE, shutdown |-> TRUE]
      BY <2>3, <3>1, SetLeftDoneShutdown, Zenon
    <3>3. m_u' \in Resp
      BY <1>2, <3>2 DEF Resp
    <3>4. m_u'.kind = "proxy"
      BY <1>2, <3>2
    <3> QED
      BY <2>1, <2>2, <3>3, <3>4
  <2>5. CASE ~d
    <3>1. m_u' = [m_u EXCEPT !.left = m_u.left - 1, !.done = (m_u.left = 1)]
      BY <2>5 DEF UpsRead
    <3>2. m_u' = [kind |-> m_u.kind, left |-> m_u.left - 1, done |-> (m_u.left = 1),
                  shutdown |-> m_u.shutdown]
      BY <2>3, <3>1, SetLeftDone, Zenon
    <3>3. m_u' \in Resp
      BY <1>2, <2>3, <3>2 DEF Resp
    <3>4. m_u'.kind = "proxy"
      BY <1>2, <3>2
    <3> QED
      BY <2>1, <2>2, <3>3, <3>4
  <2> QED
    BY <2>4, <2>5
<1>4. TypeOK'
  <2>1. SockType' /\ PollType' /\ NcType' /\ RqstType' /\ LoopType' /\ HistType'
    BY <1>1, <1>2 DEF SockType, PollType, NcType, RqstType, LoopType, HistType
  <2>2. RespType'
    BY <1>2, <1>3 DEF RespType
  <2> QED
    BY <2>1, <2>2, TypeNext
<1>5. LoopInv'
  BY <1>1, <1>2 DEF LoopInv
<1>6. RespInv'
  BY <1>2, <1>3 DEF RespInv
<1>7. StageInv'
  BY <1>1, <1>2, <1>3 DEF StageInv, Accepts, Connected, Freed
<1>8. InputKnown'
  BY <1>1, <1>2 DEF InputKnown, Accepts, Connected, Freed
<1>9. EofKnown' /\ HandshakeArmed'
  BY <1>1, <1>2 DEF EofKnown, HandshakeArmed, Accepts, Connected, Freed
<1>10. OutputArmed'
  BY <1>2 DEF OutputArmed
<1>11. EventHasResponse'
  BY <1>3 DEF EventHasResponse
<1>12. Logged'
  <2>1. ~Plain
    BY <1>1, <1>2 DEF Logged, Plain
  <2> QED
    BY <1>2, <2>1 DEF Logged, Plain
<1>13. OneAtATime'
  <2> SUFFICES ASSUME ~conf.pipelining PROVE OneAtATime'
    BY <1>2 DEF OneAtATime
  <2>1. RqstInv /\ HalfKept /\ bad = 0 /\ stray = 0
    BY <1>1 DEF OneAtATime
  <2>2. rcv = << >> /\ part = 0 /\ sent % 2 = 0 /\ sent # 0
    BY <1>2, <1>3, <2>1 DEF RqstInv
  <2>3. RqstInv' /\ HelloInv'
    BY <1>2, <1>3, <2>2 DEF RqstInv, HelloInv, Accepts, Connected
  <2>4. rcv' \notin {<<0>>, <<0, 1>>}
    BY <1>2, <2>2
  <2>5. HalfKept'
    BY <1>2, <1>3, <2>1, <2>2, <2>4 DEF HalfKept
  <2> QED
    BY <1>2, <2>1, <2>3, <2>5 DEF OneAtATime
<1> QED
  BY <1>4, <1>5, <1>6, <1>7, <1>8, <1>9, <1>10, <1>11, <1>12, <1>13 DEF IInv

\* The rest of an answer whose record is gone.
LEMMA UpsReadStrayInv ==
  ASSUME IInv, UpsReadStray
  PROVE  IInv'
<1>1. /\ SockType /\ PollType /\ NcType /\ RqstType /\ RespType /\ LoopType /\ HistType
      /\ LoopInv /\ RespInv /\ StageInv /\ InputKnown /\ EofKnown /\ HandshakeArmed
      /\ OutputArmed /\ EventHasResponse /\ Logged /\ OneAtATime
  BY TypeParts DEF IInv
<1>2. /\ mode \in {"wait", "batch"} /\ stray > 0 /\ ~Freed
      /\ stray' = stray - 1
      /\ m_out_q' = m_out_q + 1 /\ m_evr_writeable' = TRUE /\ dry' = FALSE
      /\ UNCHANGED <<rcv, ssl, eof, room, sent, m_attr_mask, queued, conf,
                     m_nc_state, m_tls_state, part, keep_alive, m_u, mode, ev,
                     late, handled, bad, dones>>
  BY DEF UpsReadStray, queue_output, Freed, sockVars, pollVars, ncVars, rqstVars, respVars,
         loopVars, histVars
<1>3. Connected /\ m_out_q' \in Nat /\ m_out_q' > 0
  BY <1>1, <1>2 DEF StageInv, NcType, RespType, Accepts, Connected, Freed
<1>4. TypeOK'
  <2>1. SockType' /\ PollType' /\ NcType' /\ RqstType' /\ LoopType'
    BY <1>1, <1>2 DEF SockType, PollType, NcType, RqstType, LoopType
  <2>2. RespType'
    BY <1>1, <1>2, <1>3 DEF RespType
  <2>3. HistType'
    BY <1>1, <1>2 DEF HistType
  <2> QED
    BY <2>1, <2>2, <2>3, TypeNext
<1>5. LoopInv'
  BY <1>1, <1>2 DEF LoopInv
<1>6. RespInv'
  BY <1>1, <1>2, <1>3 DEF RespInv
<1>7. StageInv'
  BY <1>1, <1>2, <1>3 DEF StageInv, Accepts, Connected, Freed
<1>8. InputKnown'
  BY <1>1, <1>2 DEF InputKnown, Accepts, Connected, Freed
<1>9. EofKnown' /\ HandshakeArmed'
  BY <1>1, <1>2 DEF EofKnown, HandshakeArmed, Accepts, Connected, Freed
<1>10. OutputArmed'
  BY <1>2 DEF OutputArmed
<1>11. EventHasResponse'
  BY <1>3 DEF EventHasResponse, AtRest
<1>12. Logged'
  <2>1. ~Plain
    BY <1>1, <1>2 DEF Logged, Plain
  <2> QED
    BY <1>2, <2>1 DEF Logged, Plain
<1>13. OneAtATime'
  BY <1>1, <1>2 DEF OneAtATime
<1> QED
  BY <1>4, <1>5, <1>6, <1>7, <1>8, <1>9, <1>10, <1>11, <1>12, <1>13 DEF IInv
----------------------------------------------------------------------------
(* The theorems *)

\* Every step keeps the invariant.
LEMMA NextInv ==
  ASSUME IInv, [Next]_vars
  PROVE  IInv'
<1>1. CASE Wait \/ Dispatch \/ RunWriteable \/ Timeout
  BY <1>1, WaitInv, DispatchInv, RunWriteableInv, TimeoutInv
<1>2. CASE Accept
  BY <1>2, AcceptDoneInv, AcceptStepInv, AcceptAgainInv, AcceptErrorInv DEF Accept
<1>3. CASE Read
  <2>1. CASE ReadAgain \/ ReadEof
    BY <2>1, ReadAgainInv, ReadEofInv
  <2>2. ASSUME NEW k \in 1 .. Len(rcv), ReadPart(k) \/ ReadRqstFails(k) \/ ReadBad(k)
        PROVE  IInv'
    BY <2>2, ReadPartInv, ReadRqstFailsInv, ReadBadInv
  <2>3. ASSUME NEW k \in 1 .. Len(rcv), NEW h \in conf.handlers \ {"fail"},
               NEW n \in (IF h = "file" THEN conf.reads ELSE Size), ReadRqst(k, h, n)
        PROVE  IInv'
    BY <2>3, ReadRqstInv
  <2> QED
    BY <1>3, <2>1, <2>2, <2>3 DEF Read
<1>4. CASE Write
  BY <1>4, WriteSomeInv, WriteDoneInv, WriteReadAheadInv, WriteTruncatedInv,
     WriteReadFailsInv, WriteDeferredInv, WriteAgainInv, WriteErrorInv DEF Write
<1>5. CASE Peer
  BY <1>5, PeerSendInv, PeerCloseInv, PeerDrainInv DEF Peer
<1>6. CASE Upstream
  BY <1>6, UpsReadInv, UpsReadStrayInv DEF Upstream
<1>7. CASE UNCHANGED vars
  <2>1. UNCHANGED <<rcv, ssl, eof, room, sent, m_attr_mask, queued, conf,
                    m_nc_state, m_tls_state, part, keep_alive, m_out_q, m_u,
                    m_evr_writeable, dry, mode, ev, late, stray, handled, bad,
                    dones>>
    BY <1>7 DEF vars, sockVars, pollVars, ncVars, rqstVars, respVars, loopVars, histVars
  <2>2. TypeOK'
    BY <2>1 DEF IInv, TypeOK
  <2>3. LoopInv' /\ RespInv' /\ StageInv'
    BY <2>1 DEF IInv, LoopInv, RespInv, StageInv, Accepts, Connected, Freed, AtRest
  <2>4. InputKnown' /\ EofKnown' /\ HandshakeArmed' /\ OutputArmed' /\ EventHasResponse'
    BY <2>1 DEF IInv, InputKnown, EofKnown, HandshakeArmed, OutputArmed, EventHasResponse,
                Accepts, Connected, Freed, AtRest
  <2>5. Logged'
    BY <2>1 DEF IInv, Logged, Plain, One, WriteDue, Accepts
  <2>6. OneAtATime'
    BY <2>1 DEF IInv, OneAtATime, RqstInv, HelloInv, HalfKept, Accepts, Connected, AtRest
  <2> QED
    BY <2>2, <2>3, <2>4, <2>5, <2>6 DEF IInv
<1> QED
  BY <1>1, <1>2, <1>3, <1>4, <1>5, <1>6, <1>7 DEF Next

\* A request is handled only when the read of a whole request is.
LEMMA HandledBy ==
  ASSUME Next, handled' # handled
  PROVE  \E k \in 1 .. Len(rcv), h \in conf.handlers \ {"fail"} :
           \E n \in (IF h = "file" THEN conf.reads ELSE Size) : ReadRqst(k, h, n)
<1>1. ~(Wait \/ Dispatch \/ RunWriteable \/ Timeout)
  BY DEF Wait, Dispatch, RunWriteable, Timeout, histVars
<1>2. ~Accept
  BY DEF Accept, AcceptDone, AcceptStep, AcceptAgain, AcceptError, histVars
<1>3. ~Write
  BY DEF Write, WriteSome, WriteDone, Finish, WriteReadAhead, WriteTruncated,
         WriteReadFails, WriteDeferred, WriteAgain, WriteError, histVars
<1>4. ~Peer /\ ~Upstream
  BY DEF Peer, PeerSend, PeerClose, PeerDrain, Upstream, UpsRead, UpsReadStray, histVars
<1>5. ~(ReadAgain \/ ReadEof)
      /\ \A k \in 1 .. Len(rcv) : ~(ReadPart(k) \/ ReadRqstFails(k) \/ ReadBad(k))
  BY DEF ReadAgain, ReadEof, ReadPart, ReadRqstFails, ReadBad, histVars
<1> QED
  BY <1>1, <1>2, <1>3, <1>4, <1>5 DEF Next, Read

\* A request is only handled while no response is under way.
LEMMA HandledAtRest ==
  ASSUME IInv, Next, ~conf.pipelining, handled' # handled
  PROVE  m_u.kind = "none"
<1>1. SockType /\ RqstInv
  BY TypeParts DEF IInv, OneAtATime
<1>2. PICK k \in 1 .. Len(rcv), h \in conf.handlers \ {"fail"} :
         \E n \in (IF h = "file" THEN conf.reads ELSE Size) : ReadRqst(k, h, n)
  BY HandledBy
<1>3. Recv(k) /\ Connected
  BY <1>2 DEF ReadRqst, Recv, Reading, Connected
<1>4. AtRest
  BY <1>1, <1>3, OneRequest
<1> QED
  BY <1>4 DEF AtRest

\* The invariant holds in every state that a connection reaches.
THEOREM Invariant ==
  Spec => []IInv
<1>1. Init => IInv
  BY InitInv
<1>2. IInv /\ [Next]_vars => IInv'
  BY NextInv
<1> QED
  BY <1>1, <1>2, PTL DEF Spec

\* Edge triggering loses nothing: whenever the loop is quiet, what is left to
\* read, to write or to shake hands about in session.cc's run_state_machine()
\* has something that will wake the session for it.  Left to the idle timer are
\* a response whose file could not be read on and a failed handshake; bytes
\* stay in the SSL object only after a bad request.
THEOREM ConnAdvances ==
  Spec => []NothingStalls
BY Invariant, InvGives, PTL

\* A client that sends well-formed requests, one at a time, never gets
\* send_bad_request(): no half-read request is forgotten.
THEOREM ConnNeverRefused ==
  Spec => []NeverRefused
BY Invariant, InvGives, PTL

\* m_resp_done_cb() runs at most once for each request, or parse error, of a
\* plain connection, pipelined or not, and once more only if a TLS handshake
\* ended in a WRITE pass.
THEOREM ConnDoneOnce ==
  Spec => []DoneOnce
BY Invariant, InvGives, PTL

\* handle_req() never overwrites the deferred response of a client that waits
\* for its answers.
THEOREM ConnKeepsResponse ==
  Spec => NoOverwrite
<1>1. IInv /\ [Next]_vars => [~conf.pipelining /\ handled' > handled => m_u.kind = "none"]_vars
  <2> SUFFICES ASSUME IInv, Next, ~conf.pipelining, handled' > handled
               PROVE  m_u.kind = "none"
    BY DEF vars
  <2>1. handled \in Nat
    BY DEF IInv, TypeOK
  <2>2. handled' # handled
    BY <2>1
  <2> QED
    BY <2>2, HandledAtRest
<1> QED
  BY <1>1, Invariant, PTL DEF Spec, NoOverwrite
=============================================================================
