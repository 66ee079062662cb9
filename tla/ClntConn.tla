------------------------------ MODULE ClntConn ------------------------------
(* One client connection: the edge-triggered interest its socket has in     *)
(* epoll, the READ and WRITE passes of session.cc's run_state_machine(),    *)
(* the TLS handshake of nconn_tls::ncaccept() and the writeable event that  *)
(* the handlers queue.  The peer, the kernel and the upstream server act    *)
(* between any two system calls of a pass.                                  *)
EXTENDS Integers, Sequences, FiniteSets

CONSTANTS
  Conf,        \* the kinds of connection that are looked at, see conf
  Size,        \* the writes an api response, or an upstream's answer, takes
  MaxRoom,     \* the socket's send buffer, in writes
  MaxPieces    \* bound: the halves of requests the client sends

HandlerKinds == {"api", "file", "proxy", "fail"}

ASSUME ConfigAssumption ==
  /\ \A c \in Conf :
       /\ DOMAIN c = {"tls", "expect", "pipelining", "handlers", "reads", "faults"}
       /\ {c.tls, c.expect, c.pipelining, c.faults} \subseteq BOOLEAN
       /\ c.handlers \subseteq HandlerKinds
       /\ c.reads \subseteq Nat \ {0}
  /\ Size \subseteq Nat \ {0}
  /\ MaxRoom \in Nat \ {0} /\ MaxPieces \in Nat

VARIABLES
  \* the socket and the peer
  rcv,      \* what the peer sent and nobody read: HsMsg, 0 and 1 (the two
            \* halves of a request)
  ssl,      \* how many of the first of these the SSL object has decrypted
  eof,      \* the peer closed its side
  room,     \* free send buffer
  sent,     \* halves the client sent
  \* epoll
  m_attr_mask,  \* the READ and WRITE bits; every mask also has RD_HUP
  queued,       \* the fd is on epoll's ready list
  \* nconn
  conf,         \* what this connection is, for good: nconn_tls or nconn_tcp
                \* (tls), a client that sends "Expect: 100-continue" (expect)
                \* or the next request before the last answer (pipelining),
                \* the handlers it gets to, how many times a file is read
                \* until its end (reads), and whether a read of a file may
                \* fail or find it shorter than fstat() said (faults)
  m_nc_state, m_tls_state,
  \* session
  part,             \* the parser: halves seen of this request, 2 after an error
  keep_alive,       \* m_rqst->m_supports_keep_alives
  m_out_q,          \* writes the response still takes
  m_u,              \* the deferred response
  m_evr_writeable,  \* a writeable event is queued
  \* the event loop
  mode,     \* "wait", "batch" (events harvested), or the pass that runs
  ev,       \* the events harvested for the fd and not dispatched
  \* history
  dry,      \* a read of a file gave nothing, and no writeable event was
            \* queued then or since
  late,     \* 1 when the handshake ended in a WRITE pass
  stray,    \* reads left of upstream answers whose m_u was overwritten
  handled,  \* handle_req() calls
  bad,      \* parse errors
  dones     \* m_resp_done_cb() calls

sockVars == <<rcv, ssl, eof, room, sent>>
pollVars == <<m_attr_mask, queued>>
ncVars == <<conf, m_nc_state, m_tls_state>>
rqstVars == <<part, keep_alive>>
respVars == <<m_out_q, m_u, m_evr_writeable, dry>>
loopVars == <<mode, ev>>
histVars == <<late, stray, handled, bad, dones>>
vars == <<sockVars, pollVars, ncVars, rqstVars, respVars, loopVars, histVars>>

NoResp == [kind |-> "none", left |-> 0, done |-> FALSE, shutdown |-> FALSE]

\* A handshake message of the peer.
HsMsg == 2

\* The steps of a handshake on the server's side: the hello is read, the
\* flight written, the finished read and the last message written.
HsReads == {0, 2}
HsDone == 4
HsFailed == 5

TypeOK ==
  /\ conf \in Conf
  /\ rcv \in Seq({HsMsg, 0, 1}) /\ ssl \in Nat /\ eof \in BOOLEAN
  /\ room \in 0..MaxRoom /\ sent \in 0..MaxPieces
  /\ m_attr_mask \in SUBSET {"READ", "WRITE"} /\ queued \in BOOLEAN
  /\ m_nc_state \in {"ACCEPTING", "CONNECTED", "FREE"}
  /\ m_tls_state \in 0..HsFailed
  /\ part \in 0..2 /\ keep_alive \in BOOLEAN
  /\ m_out_q \in Nat /\ m_evr_writeable \in BOOLEAN /\ dry \in BOOLEAN
  /\ m_u \in [kind : {"none", "file", "proxy"}, left : Nat,
              done : BOOLEAN, shutdown : BOOLEAN]
  /\ mode \in {"wait", "batch", "READ", "WRITE"}
  /\ ev \in SUBSET {"IN", "OUT"}
  /\ late \in 0..1 /\ {stray, handled, bad, dones} \subseteq Nat

-----------------------------------------------------------------------------
(* epoll, edge triggered *)

\* What epoll_wait() would report of the fd: IN stands for IN, HUP and RDHUP.
\* It knows of bytes in the socket, not of those in the SSL object.
Events(mask) ==
  (IF eof \/ ("READ" \in mask /\ Len(rcv) > ssl) THEN {"IN"} ELSE {})
  \cup (IF "WRITE" \in mask /\ room > 0 THEN {"OUT"} ELSE {})

\* evr_loop::mod_fd(): epoll looks at the fd again when its mask changes.
mod_fd(mask) ==
  /\ m_attr_mask' = mask
  /\ queued' = (queued \/ Events(mask) # {})

-----------------------------------------------------------------------------
(* The peer and the kernel *)

\* The response of the last request has been received whole.
Answered ==
  /\ part = 0 /\ rcv = <<>> /\ m_out_q = 0 /\ room = MaxRoom
  /\ m_u = NoResp \/ (m_u.kind = "proxy" /\ m_u.done /\ ~m_u.shutdown)

\* A client that speaks HTTP: handshake messages first, then requests.
PeerMaySend(x) ==
  /\ ~eof /\ m_nc_state # "FREE"
  /\ IF x = HsMsg
     THEN conf.tls /\ rcv = <<>> /\ m_tls_state \in {0, 2}
     ELSE /\ m_tls_state >= 2 /\ (m_tls_state = 2 => rcv # <<>>)
          /\ sent < MaxPieces /\ x = sent % 2
          /\ x = 0 /\ sent > 0 /\ ~conf.pipelining => Answered

PeerSend(x) ==
  /\ PeerMaySend(x)
  /\ rcv' = Append(rcv, x)
  /\ sent' = IF x = HsMsg THEN sent ELSE sent + 1
  /\ queued' = (queued \/ "READ" \in m_attr_mask)
  /\ UNCHANGED <<ssl, eof, room, m_attr_mask>>
  /\ UNCHANGED <<ncVars, rqstVars, respVars, loopVars, histVars>>

PeerClose ==
  /\ ~eof /\ m_nc_state # "FREE"
  /\ eof' = TRUE /\ queued' = TRUE
  /\ UNCHANGED <<rcv, ssl, room, sent, m_attr_mask>>
  /\ UNCHANGED <<ncVars, rqstVars, respVars, loopVars, histVars>>

\* The peer receives: the send buffer has room again, an edge if it was full.
PeerDrain ==
  /\ room < MaxRoom /\ m_nc_state # "FREE"
  /\ room' = MaxRoom
  /\ queued' = (queued \/ (room = 0 /\ "WRITE" \in m_attr_mask))
  /\ UNCHANGED <<rcv, ssl, eof, sent, m_attr_mask>>
  /\ UNCHANGED <<ncVars, rqstVars, respVars, loopVars, histVars>>

-----------------------------------------------------------------------------
(* The event loop *)

\* Mutant: the wait comes before the queued events.
WaitFirst ==
  /\ mode = "wait" /\ queued
  /\ queued' = FALSE
  /\ ev' = Events(m_attr_mask)
  /\ mode' = IF ev' = {} THEN "wait" ELSE "batch"
  /\ UNCHANGED <<sockVars, m_attr_mask, ncVars, rqstVars, respVars, histVars>>

\* evr_loop::run(): the wait, reached with no event left to dequeue.
Wait ==
  /\ mode = "wait" /\ ~m_evr_writeable /\ queued
  /\ queued' = FALSE
  /\ ev' = Events(m_attr_mask)
  /\ mode' = IF ev' = {} THEN "wait" ELSE "batch"
  /\ UNCHANGED <<sockVars, m_attr_mask, ncVars, rqstVars, respVars, histVars>>

\* The read callback comes first; the write callback only if the fd still
\* has WRITE in its mask.
Dispatch ==
  /\ mode = "batch"
  /\ IF "IN" \in ev THEN mode' = "READ"
     ELSE IF "WRITE" \in m_attr_mask THEN mode' = "WRITE" ELSE mode' = "wait"
  /\ ev' = IF "IN" \in ev THEN ev \ {"IN"} ELSE {}
  /\ UNCHANGED <<sockVars, pollVars, ncVars, rqstVars, respVars, histVars>>

\* Mutant: the event is queued again until the response is written.
RunWriteableKeeps ==
  /\ mode = "wait" /\ m_evr_writeable
  /\ m_evr_writeable' = (m_out_q > 0)
  /\ mode' = "WRITE"
  /\ UNCHANGED <<sockVars, pollVars, ncVars, rqstVars, m_out_q, m_u, dry, ev, histVars>>

\* evr_event_writeable_cb()
RunWriteable ==
  /\ mode = "wait" /\ m_evr_writeable
  /\ m_evr_writeable' = FALSE
  /\ mode' = "WRITE"
  /\ UNCHANGED <<sockVars, pollVars, ncVars, rqstVars, m_out_q, m_u, dry, ev, histVars>>

\* A pass returns STATUS_OK, or fails: the rest of the events is skipped.
Return ==
  /\ mode' = IF "OUT" \in ev THEN "batch" ELSE "wait"
  /\ UNCHANGED ev

ReturnError == mode' = "wait" /\ ev' = {}

\* NC_STATE_DONE: teardown(), and the session is deleted with its events.
Teardown ==
  /\ m_nc_state' = "FREE" /\ UNCHANGED <<conf, m_tls_state>>
  /\ m_attr_mask' = {} /\ queued' = FALSE
  /\ m_out_q' = 0 /\ m_u' = NoResp /\ m_evr_writeable' = FALSE /\ dry' = FALSE
  /\ ReturnError

\* Mutant: the timer only ends sessions that got as far as a request.
TimeoutIfConnected ==
  /\ mode = "wait" /\ m_nc_state = "CONNECTED"
  /\ Teardown
  /\ UNCHANGED <<sockVars, rqstVars, histVars>>

\* EVR_MODE_TIMEOUT: the session was last active long enough ago.  Time is
\* not modelled, the timer may find so at any turn of the loop.
Timeout ==
  /\ mode = "wait" /\ m_nc_state # "FREE"
  /\ Teardown
  /\ UNCHANGED <<sockVars, rqstVars, histVars>>

-----------------------------------------------------------------------------
(* NC_STATE_ACCEPTING: ncaccept(), in either mode *)

Accepting == mode \in {"READ", "WRITE"} /\ m_nc_state = "ACCEPTING"

\* nconn_tcp::ncaccept(), or SSL_accept() has succeeded: the same pass goes
\* on in state CONNECTED.
AcceptDone ==
  /\ Accepting /\ m_tls_state = HsDone
  /\ m_nc_state' = "CONNECTED"
  /\ IF conf.tls THEN mod_fd({"READ"}) ELSE UNCHANGED pollVars
  /\ late' = IF mode = "WRITE" THEN 1 ELSE late
  /\ UNCHANGED <<sockVars, conf, m_tls_state, rqstVars, respVars, loopVars,
                 stray, handled, bad, dones>>

\* SSL_accept() reads or writes its next message.
AcceptStep ==
  /\ Accepting /\ m_tls_state < HsDone
  /\ IF m_tls_state \in HsReads
     THEN rcv # <<>> /\ rcv' = Tail(rcv) /\ UNCHANGED room
     ELSE room > 0 /\ room' = room - 1 /\ UNCHANGED rcv
  /\ m_tls_state' = m_tls_state + 1
  /\ UNCHANGED <<ssl, eof, sent, pollVars, conf, m_nc_state, rqstVars, respVars,
                 loopVars, histVars>>

\* Mutant: a blocked handshake always waits for input.
AcceptWantsRead ==
  /\ Accepting /\ m_tls_state < HsDone
  /\ IF m_tls_state \in HsReads THEN rcv = <<>> /\ ~eof ELSE room = 0
  /\ mod_fd({"READ"})
  /\ Return
  /\ UNCHANGED <<sockVars, ncVars, rqstVars, respVars, histVars>>

\* SSL_ERROR_WANT_READ and SSL_ERROR_WANT_WRITE
AcceptAgain ==
  /\ Accepting /\ m_tls_state < HsDone
  /\ IF m_tls_state \in HsReads
     THEN rcv = <<>> /\ ~eof /\ mod_fd({"READ"})
     ELSE room = 0 /\ mod_fd({"WRITE"})
  /\ Return
  /\ UNCHANGED <<sockVars, ncVars, rqstVars, respVars, histVars>>

\* Any other SSL error, then and at every later call: STATUS_ERROR, and the
\* session stays.
AcceptError ==
  /\ Accepting
  /\ \/ m_tls_state \in HsReads /\ (rcv # <<>> \/ eof)
     \/ m_tls_state = HsFailed
  /\ m_tls_state' = HsFailed
  /\ ReturnError
  /\ UNCHANGED <<sockVars, pollVars, conf, m_nc_state, rqstVars, respVars, histVars>>

-----------------------------------------------------------------------------
(* NC_STATE_CONNECTED, EVR_MODE_READ *)

Reading == mode = "READ" /\ m_nc_state = "CONNECTED"

\* The parser accepts p after the halves it has seen.
WellFormed(p) == part # 2 /\ \A i \in 1..Len(p) : p[i] = (part + i - 1) % 2
Completes(p) == \E i \in 1..Len(p) : p[i] = 1

\* SSL_read() takes a record from the socket when it has nothing left of the
\* last one, and gives k pieces of it.
Decrypted(k) ==
  IF ~conf.tls THEN UNCHANGED ssl
  ELSE IF ssl = 0 THEN ssl' \in 0..Len(rcv) - k
  ELSE k <= ssl /\ ssl' = ssl - k

\* nc_read() gets the first k pieces of what was sent.
Recv(k) ==
  /\ Reading /\ k \in 1..Len(rcv)
  /\ rcv' = SubSeq(rcv, k + 1, Len(rcv)) /\ Decrypted(k)
  /\ UNCHANGED <<eof, sent>>

\* "100 Continue" is written at once; what the socket refuses is dropped.
Continue(p) ==
  IF ~conf.expect \/ ~\E i \in 1..Len(p) : p[i] = 0 THEN UNCHANGED <<room, pollVars>>
  ELSE IF room > 0 THEN room' = room - 1 /\ UNCHANGED pollVars
  ELSE UNCHANGED room /\ mod_fd({"WRITE"})

ReadPart(k) ==
  LET p == SubSeq(rcv, 1, k) IN
  /\ Recv(k) /\ WellFormed(p) /\ ~Completes(p)
  /\ part' = 1
  /\ Continue(p)
  /\ UNCHANGED <<ncVars, keep_alive, respVars, loopVars, histVars>>

\* session::queue_output()
queue_output == m_evr_writeable' = TRUE /\ dry' = FALSE

\* Nothing is queued by a read of a file that gave nothing.
NoOutput == dry' = ~m_evr_writeable /\ UNCHANGED m_evr_writeable

\* A handler stores its response in m_u, whatever is there.
Overwrite(u) ==
  /\ m_u' = u
  /\ stray' = IF m_u.kind = "proxy" THEN stray + m_u.left ELSE stray

\* queue_api_resp(): the response is written whole.
ApiResp(n) == m_out_q' = m_out_q + n /\ queue_output /\ UNCHANGED <<m_u, stray>>

\* file_h::get_file(): the headers and the first part of the file.
get_file(n) ==
  /\ m_out_q' = m_out_q + 1 /\ queue_output
  /\ Overwrite([NoResp EXCEPT !.kind = "file", !.left = n - 1, !.done = (n = 1)])

\* The first read fails, or finds that the file has been emptied (done): the
\* headers are left in the queue.
get_file_dry(n, done) ==
  /\ conf.faults
  /\ m_out_q' = m_out_q + 1 /\ NoOutput
  /\ Overwrite([NoResp EXCEPT !.kind = "file", !.left = n, !.done = done])

\* proxy_h waits for its upstream.
ProxyResp(n) ==
  /\ Overwrite([NoResp EXCEPT !.kind = "proxy", !.left = n])
  /\ UNCHANGED <<m_out_q, m_evr_writeable, dry>>

\* The response of a handler.
Respond(h, n) ==
  \/ h = "api" /\ ApiResp(n)
  \/ h = "file" /\ (get_file(n) \/ \E done \in BOOLEAN : get_file_dry(n, done))
  \/ h = "proxy" /\ ProxyResp(n)

\* m_complete: handle_req(), and m_rqst->init() forgets what else was read.
ReadRqst(k, h, n) ==
  LET p == SubSeq(rcv, 1, k) IN
  /\ Recv(k) /\ WellFormed(p) /\ Completes(p)
  /\ Continue(p)
  /\ Respond(h, n)
  /\ handled' = handled + 1
  /\ part' = 0 /\ keep_alive' \in BOOLEAN
  /\ UNCHANGED <<ncVars, loopVars, late, bad, dones>>

\* handle_req() fails: the connection is done.
ReadRqstFails(k) ==
  LET p == SubSeq(rcv, 1, k) IN
  /\ Recv(k) /\ WellFormed(p) /\ Completes(p)
  /\ "fail" \in conf.handlers
  /\ UNCHANGED <<room, rqstVars, histVars>>
  /\ Teardown

\* A parse error: send_bad_request(), and the pass returns without reading on.
ReadBad(k) ==
  /\ Recv(k) /\ ~WellFormed(SubSeq(rcv, 1, k))
  /\ part' = 2
  /\ m_out_q' = m_out_q + 1 /\ queue_output
  /\ bad' = bad + 1
  /\ Return
  /\ UNCHANGED <<room, pollVars, ncVars, keep_alive, m_u, late, stray, handled, dones>>

\* NC_STATUS_AGAIN
ReadAgain ==
  /\ Reading /\ rcv = <<>> /\ ~eof
  /\ Return
  /\ UNCHANGED <<sockVars, pollVars, ncVars, rqstVars, respVars, histVars>>

\* NC_STATUS_EOF
ReadEof ==
  /\ Reading /\ rcv = <<>> /\ eof
  /\ Teardown
  /\ UNCHANGED <<sockVars, rqstVars, histVars>>

-----------------------------------------------------------------------------
(* NC_STATE_CONNECTED, EVR_MODE_WRITE *)

Writing == mode = "WRITE" /\ m_nc_state = "CONNECTED"

\* Mutants: the response ends and nobody asks epoll for input again; m_u is
\* not cleared; a blocked write does not change the mask.
FinishKeepMask(shutdown) ==
  /\ dones' = dones + 1
  /\ IF ~shutdown /\ keep_alive
     THEN /\ part' = 0
          /\ m_out_q' = 0 /\ m_u' = NoResp /\ dry' = FALSE
          /\ Return
          /\ UNCHANGED <<pollVars, keep_alive, m_evr_writeable, ncVars>>
     ELSE Teardown /\ UNCHANGED rqstVars
  /\ UNCHANGED <<late, stray, handled, bad>>

FinishKeepsResp(shutdown) ==
  /\ dones' = dones + 1
  /\ IF ~shutdown /\ keep_alive
     THEN /\ mod_fd({"READ"})
          /\ part' = 0
          /\ m_out_q' = 0 /\ dry' = FALSE
          /\ Return
          /\ UNCHANGED <<keep_alive, m_u, m_evr_writeable, ncVars>>
     ELSE Teardown /\ UNCHANGED rqstVars
  /\ UNCHANGED <<late, stray, handled, bad>>

WriteAgainKeepMask ==
  /\ Writing /\ m_out_q > 0 /\ room = 0
  /\ Return
  /\ UNCHANGED <<sockVars, pollVars, ncVars, rqstVars, respVars, histVars>>

\* l_done: m_resp_done_cb(), then the connection is made ready for the next
\* request, or ends.
Finish(shutdown) ==
  /\ dones' = dones + 1
  /\ IF ~shutdown /\ keep_alive
     THEN /\ mod_fd({"READ"})
          /\ part' = 0
          /\ m_out_q' = 0 /\ m_u' = NoResp /\ dry' = FALSE
          /\ Return
          /\ UNCHANGED <<keep_alive, m_evr_writeable, ncVars>>
     ELSE Teardown /\ UNCHANGED rqstVars
  /\ UNCHANGED <<late, stray, handled, bad>>

\* nc_write() takes part of the queue, and there is more.
WriteSome ==
  /\ Writing /\ m_out_q > 1 /\ room > 0
  /\ room' = room - 1 /\ m_out_q' = m_out_q - 1
  /\ UNCHANGED <<rcv, ssl, eof, sent, pollVars, ncVars, rqstVars, m_u,
                 m_evr_writeable, dry, loopVars, histVars>>

\* nc_write() leaves m_out_q empty: taken by the actions that check for the
\* end of the response.
Drained ==
  /\ Writing
  /\ \/ m_out_q = 0 /\ UNCHANGED room
     \/ m_out_q = 1 /\ room > 0 /\ room' = room - 1
  /\ UNCHANGED <<rcv, ssl, eof, sent>>

WriteDone ==
  /\ Drained
  /\ m_u.kind # "none" => m_u.done
  /\ Finish(m_u.kind # "none" /\ m_u.shutdown)

\* Mutant: the last part of a file leaves the count wrong.
ReadAheadPastEnd ==
  /\ Drained
  /\ m_u.kind = "file" /\ ~m_u.done
  /\ m_out_q' = 1 /\ queue_output
  /\ m_u' = [m_u EXCEPT !.left = @ - 1, !.done = (m_u.left = 0)]
  /\ UNCHANGED <<pollVars, ncVars, rqstVars, loopVars, histVars>>

\* file_u::ups_read_ahead(): one more part of the file, and a writeable event.
WriteReadAhead ==
  /\ Drained
  /\ m_u.kind = "file" /\ ~m_u.done
  /\ m_out_q' = 1 /\ queue_output
  /\ m_u' = [m_u EXCEPT !.left = @ - 1, !.done = (m_u.left = 1)]
  /\ UNCHANGED <<pollVars, ncVars, rqstVars, loopVars, histVars>>

\* The file ended early: ups_read_ahead() returns 0, and so does the pass.
WriteTruncated ==
  /\ conf.faults /\ Drained
  /\ m_u.kind = "file" /\ ~m_u.done
  /\ m_out_q' = 0 /\ m_u' = [m_u EXCEPT !.done = TRUE]
  /\ NoOutput
  /\ Return
  /\ UNCHANGED <<pollVars, ncVars, rqstVars, histVars>>

\* A read fails, the first or after some of the part was read: STATUS_ERROR,
\* and the pass returns with the response still to be sent.
WriteReadFails(some) ==
  /\ conf.faults /\ Drained
  /\ m_u.kind = "file" /\ ~m_u.done
  /\ m_out_q' = some
  /\ NoOutput
  /\ Return
  /\ UNCHANGED <<pollVars, ncVars, rqstVars, m_u, histVars>>

\* proxy_u::ups_read_ahead() returns 0: the upstream session queues the rest.
WriteDeferred ==
  /\ Drained
  /\ m_u.kind = "proxy" /\ ~m_u.done
  /\ m_out_q' = 0
  /\ Return
  /\ UNCHANGED <<pollVars, ncVars, rqstVars, m_u, m_evr_writeable, dry, histVars>>

\* EAGAIN: the interest becomes WRITE.
WriteAgain ==
  /\ Writing /\ m_out_q > 0 /\ room = 0
  /\ mod_fd({"WRITE"})
  /\ Return
  /\ UNCHANGED <<sockVars, ncVars, rqstVars, respVars, histVars>>

\* Any other error, which needs a peer that is gone.
WriteError ==
  /\ Writing /\ m_out_q > 0 /\ eof
  /\ Teardown
  /\ UNCHANGED <<sockVars, rqstVars, histVars>>

-----------------------------------------------------------------------------
(* The upstream session, between two callbacks of the client's *)

\* proxy_u::ups_read(), or an error response: data for the client.
UpsRead(shutdown) ==
  /\ mode \in {"wait", "batch"}
  /\ m_u.kind = "proxy" /\ m_u.left > 0
  /\ m_out_q' = m_out_q + 1 /\ queue_output
  /\ m_u' = IF shutdown
            THEN [m_u EXCEPT !.left = 0, !.done = TRUE, !.shutdown = TRUE]
            ELSE [m_u EXCEPT !.left = @ - 1, !.done = (m_u.left = 1)]
  /\ UNCHANGED <<sockVars, pollVars, ncVars, rqstVars, loopVars, histVars>>

\* The same for a response whose m_u was overwritten.
UpsReadStray ==
  /\ mode \in {"wait", "batch"} /\ stray > 0 /\ m_nc_state # "FREE"
  /\ stray' = stray - 1
  /\ m_out_q' = m_out_q + 1 /\ queue_output
  /\ UNCHANGED <<sockVars, pollVars, ncVars, rqstVars, m_u, loopVars, late,
                 handled, bad, dones>>

-----------------------------------------------------------------------------
\* lsnr's accept: ncset_accepting() registers the fd; a TLS connection asks
\* for both edges.
Init ==
  /\ conf \in Conf
  /\ rcv = <<>> /\ ssl = 0 /\ eof = FALSE /\ room = MaxRoom /\ sent = 0
  /\ m_attr_mask = (IF conf.tls THEN {"READ", "WRITE"} ELSE {"READ"})
  /\ queued = conf.tls
  /\ m_nc_state = "ACCEPTING" /\ m_tls_state = (IF conf.tls THEN 0 ELSE HsDone)
  /\ part = 0 /\ keep_alive = FALSE
  /\ m_out_q = 0 /\ m_u = NoResp /\ m_evr_writeable = FALSE /\ dry = FALSE
  /\ mode = "wait" /\ ev = {}
  /\ late = 0 /\ stray = 0 /\ handled = 0 /\ bad = 0 /\ dones = 0

Accept == AcceptDone \/ AcceptStep \/ AcceptAgain \/ AcceptError
Read == \/ \E k \in 1..Len(rcv) :
             \/ ReadPart(k) \/ ReadRqstFails(k) \/ ReadBad(k)
             \/ \E h \in conf.handlers \ {"fail"} :
                  \E n \in (IF h = "file" THEN conf.reads ELSE Size) : ReadRqst(k, h, n)
        \/ ReadAgain \/ ReadEof
Write == \/ WriteSome \/ WriteDone \/ WriteReadAhead \/ WriteTruncated
         \/ (\E some \in 0..1 : WriteReadFails(some))
         \/ WriteDeferred \/ WriteAgain \/ WriteError
Peer == (\E x \in {HsMsg, 0, 1} : PeerSend(x)) \/ PeerClose \/ PeerDrain
Upstream == (\E d \in BOOLEAN : UpsRead(d)) \/ UpsReadStray

Next == Wait \/ Dispatch \/ RunWriteable \/ Timeout \/ Accept \/ Read \/ Write
        \/ Peer \/ Upstream

Spec == Init /\ [][Next]_vars

\* The loop keeps turning, and the idle timer of a session is always armed.
FairSpec == Spec /\ WF_vars(Dispatch \/ Accept \/ Read \/ Write) /\ SF_vars(Timeout)

-----------------------------------------------------------------------------
(* Properties *)

\* Nothing will run for this connection until the peer or the upstream acts.
Quiet == mode = "wait" /\ ~queued /\ ~m_evr_writeable

\* Edge triggering loses no input: if the loop is quiet while bytes of the
\* client wait in the socket, the session has stopped reading (its interest is
\* WRITE, or it has met a bad request) and something will bring it back: the
\* full send buffer, an upstream that has more to say, or, after a read of a
\* file that gave nothing or a failed handshake, the idle timer.  Bytes wait in
\* the SSL object, of which epoll knows nothing, only after a bad request.
NoLostInput ==
  Quiet /\ m_nc_state # "FREE" =>
    /\ ssl > 0 => bad > 0
    /\ Len(rcv) > ssl =>
         \/ m_tls_state = HsFailed
         \/ "READ" \notin m_attr_mask /\ room = 0
         \/ /\ "READ" \notin m_attr_mask \/ part = 2
            /\ (m_u.kind = "proxy" /\ ~m_u.done) \/ dry

\* A response never stalls: with the loop quiet, output that is left waits
\* for the socket to drain and will be told, and an open response waits for
\* its upstream.  The exception is a read of a file that failed or found the
\* file cut short, after which nothing is queued.
ResponseAdvances ==
  Quiet /\ m_nc_state = "CONNECTED" /\ ~dry =>
    /\ m_out_q > 0 => room = 0 /\ "WRITE" \in m_attr_mask
    /\ m_u.kind # "none" => m_out_q > 0 \/ (m_u.kind = "proxy" /\ ~m_u.done)

\* A blocked handshake is always waiting for the edge it needs.
HandshakeAdvances ==
  Quiet /\ m_nc_state = "ACCEPTING" /\ m_tls_state < HsDone =>
    IF m_tls_state \in HsReads THEN "READ" \in m_attr_mask /\ rcv = <<>> /\ ~eof
    ELSE "WRITE" \in m_attr_mask /\ room = 0

\* A connection without "100 Continue" whose responses are queued whole.
Plain ==
  /\ ~conf.expect /\ ~conf.faults
  /\ conf.handlers \subseteq {"api", "file"} /\ conf.reads = {1}

\* The done callback (the access log) runs at most once for each request, or
\* parse error, of a plain connection, pipelined or not, and once more only if
\* a handshake ended in a WRITE pass, which finds nothing to write.
DoneOnce == Plain => dones <= handled + bad + late

\* A client that sends well-formed requests, one at a time, is never told
\* that its request is bad: no half-read request is forgotten.
NeverRefused == ~conf.pipelining => bad = 0

\* A client that waits for each answer never has its deferred response
\* overwritten: handle_req() stores m_u without looking whether there is one,
\* and an upstream that still answers the old one would outlive the session.
NoOverwrite == [][~conf.pipelining /\ handled' > handled => m_u.kind = "none"]_vars

\* A session whose handshake failed is torn down by the idle timer.
FailedClosed == m_tls_state = HsFailed ~> m_nc_state = "FREE"

\* Nothing stalls: whenever the loop is quiet, what is left to read, to write
\* or to shake hands about has something that will wake the session for it.
NothingStalls == TypeOK /\ NoLostInput /\ ResponseAdvances /\ HandshakeAdvances
=============================================================================
