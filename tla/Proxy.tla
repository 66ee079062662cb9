------------------------------- MODULE Proxy --------------------------------
(***************************************************************************)
(* One server thread proxying requests: the client half (session.cc, the   *)
(* accept in lsnr.cc, do_default() of proxy_h.cc), the event loop of       *)
(* evr.cc, and the main loop of t_srvr.cc, over the upstream half in       *)
(* UpsSession and the connection pool in NconnPool.                        *)
(*                                                                         *)
(* A client is taken to send its next request only after the response to   *)
(* the one before.  Any registered descriptor may be reported at any time  *)
(* and any number of times in a round: the event masks, which narrow that, *)
(* are kept only where a callback depends on them.                         *)
(***************************************************************************)
EXTENDS UpsSession

Init ==
  /\ Pool!Init
  /\ session = << >> /\ subr = << >>
  /\ nc = [c \in Conn |-> NewConn]
  /\ m_subr_list = << >> /\ jobs = {} /\ events = {}
  /\ running = "none" /\ loop = "events" /\ polled = {}

-----------------------------------------------------------------------------
(* The client session *)

\* lsnr::evr_fd_readable_cb(): a session with its idle timer.
Accept(s) ==
  /\ running = "none" /\ loop = "fds"
  /\ s \notin DOMAIN session
  /\ session' = With(session, s,
       [m_u |-> NoReq, out |-> FALSE, m_evr_timeout |-> TRUE,
        m_evr_writeable |-> FALSE, m_active |-> FALSE, blocked |-> FALSE])
  /\ events' = events \cup {SessTimeout(s)}
  /\ UNCHANGED <<poolVars, subr, nc>> /\ callbackUnchanged

OnClientFd(s) ==
  /\ running = "none" /\ loop = "fds"
  /\ s \in polled /\ s \in DOMAIN session

\* The events that teardown() and ~session() cancel, through their pointers:
\* ups_cancel() may have queued output between the two.
cancel_events(s) ==
  (IF session[s].m_evr_timeout THEN {SessTimeout(s)} ELSE {}) \cup {Writeable(s)}

\* The subrs that go when m_u is deleted.
Deleted(s) == {session[s].m_u} \ {NoReq}

\* Mutant: only cancel() releases the connection, the destructor does not.
ReleaseIfActive(s) ==
  LET conns == {subr[r].m_nconn : r \in
                  {x \in Deleted(s) : subr[x].m_state = "ACTIVE"}} \ {NoConn} IN
  /\ IF conns = {} THEN UNCHANGED poolVars ELSE \E c \in conns : Pool!release(c)
  /\ nc' = [c \in Conn |-> IF c \in conns THEN NewConn ELSE nc[c]]

\* ~ups_session() and, for an active subr, teardown(): the connection that
\* the request still has is released.
ReleaseConn(s) ==
  LET conns == {subr[r].m_nconn : r \in Deleted(s)} \ {NoConn} IN
  /\ IF conns = {} THEN UNCHANGED poolVars ELSE \E c \in conns : Pool!release(c)
  /\ nc' = [c \in Conn |-> IF c \in conns THEN NewConn ELSE nc[c]]

\* Mutant of subr::cancel(): a queued subr keeps its slot.
CancelKeepsSlot(s) ==
  LET rs == {r \in Deleted(s) : subr[r].u # "DONE"} IN
  /\ UNCHANGED m_subr_list
  /\ jobs' = jobs \ {r \in rs : subr[r].m_state = "DNS_LOOKUP" /\ subr[r].lookup}

\* ups_cancel() and subr::cancel(), for a request that is not done: a queued
\* subr leaves an empty slot, a lookup job is left without a callback.
cancel(s) ==
  LET rs == {r \in Deleted(s) : subr[r].u # "DONE"}
      queued == {r \in rs : subr[r].m_state = "QUEUED"} IN
  /\ m_subr_list' = [i \in DOMAIN m_subr_list |->
       IF m_subr_list[i] \in queued THEN NoReq ELSE m_subr_list[i]]
  /\ jobs' = jobs \ {r \in rs : subr[r].m_state = "DNS_LOOKUP" /\ subr[r].lookup}

UpsTimersOf(s) == UNION {cancel_evr_timer(r) : r \in Deleted(s)}

\* session::teardown() and ~session(); the client's nconn goes with it.
DeleteSession(s) ==
  /\ cancel(s)
  /\ ReleaseConn(s)
  /\ events' = (events \ cancel_events(s)) \ UpsTimersOf(s)
  /\ subr' = Without(subr, Deleted(s))
  /\ session' = Without(session, {s})
  /\ polled' = polled \ {s}
  /\ UNCHANGED <<running, loop>>

\* READ: end of file or an error.
ClientGone(s) == OnClientFd(s) /\ DeleteSession(s)

\* READ: nothing to read, or a part of a request.
ClientActivity(s) ==
  /\ OnClientFd(s)
  /\ session' = [session EXCEPT ![s].m_active = TRUE]
  /\ UNCHANGED <<poolVars, subr, nc, events>> /\ callbackUnchanged

\* The client has the answer to its last request.
Answered(s) == session[s].m_u = NoReq /\ ~session[s].out

\* READ, handle_req(): answered here, by a local handler or as an error.
ClientLocal(s) ==
  /\ OnClientFd(s) /\ Answered(s)
  /\ session' = [Output(s) EXCEPT ![s].m_active = TRUE]
  /\ events' = events \cup {Writeable(s)}
  /\ UNCHANGED <<poolVars, subr, nc>> /\ callbackUnchanged

\* READ, proxy_h::do_default(): a subrequest is made and queued.
do_default(s, r, l) ==
  /\ OnClientFd(s) /\ Answered(s)
  /\ r \notin DOMAIN subr
  /\ subr' = With(subr, r, [NewSubr(s, l) EXCEPT !.m_state = "QUEUED"])
  /\ session' = [session EXCEPT ![s] = [@ EXCEPT !.m_u = r, !.m_active = TRUE]]
  /\ subr_enqueue(r)
  /\ UNCHANGED <<poolVars, nc, jobs, running, loop, polled>>

\* WRITE is called for the queued event, or for the descriptor once a write
\* has made it wait for room.
OnWrite(s) ==
  \/ /\ running = "none" /\ loop \in {"events", "late"}
     /\ Writeable(s) \in events /\ s \in DOMAIN session
  \/ OnClientFd(s) /\ session[s].blocked

\* Event s of the queue is gone and its pointer cleared, when WRITE was
\* called for it.
WriteEvent(s) == IF loop = "fds" THEN {} ELSE {Writeable(s)}

Written(s) ==
  [session[s] EXCEPT !.m_active = TRUE,
                     !.m_evr_writeable = @ /\ loop = "fds"]

\* WRITE: the socket takes no more.
WriteAgain(s) ==
  /\ OnWrite(s) /\ session[s].out
  /\ session' = [session EXCEPT ![s] = [Written(s) EXCEPT !.blocked = TRUE]]
  /\ events' = events \ WriteEvent(s)
  /\ UNCHANGED <<poolVars, subr, nc>> /\ callbackUnchanged

\* WRITE: the socket failed.
WriteFails(s) == OnWrite(s) /\ session[s].out /\ DeleteSession(s)

UpsDone(s) == \A r \in Deleted(s) : subr[r].u = "DONE"

\* WRITE: all written, and the upstream response is not complete.
WritePart(s) ==
  /\ OnWrite(s) /\ ~UpsDone(s)
  /\ session' = [session EXCEPT ![s] = [Written(s) EXCEPT !.out = FALSE]]
  /\ events' = events \ WriteEvent(s)
  /\ UNCHANGED <<poolVars, subr, nc>> /\ callbackUnchanged

\* The client connection may be kept after the response.
MayKeep(s) == \A r \in Deleted(s) : ~subr[r].m_shutdown

\* WRITE: all written and the request is done: m_u is deleted, and the
\* session waits for the next request.
WriteDoneKeep(s) ==
  /\ OnWrite(s) /\ UpsDone(s) /\ MayKeep(s)
  /\ ReleaseConn(s)
  /\ subr' = Without(subr, Deleted(s))
  /\ session' = [session EXCEPT ![s] =
       [Written(s) EXCEPT !.out = FALSE, !.m_u = NoReq, !.blocked = FALSE]]
  /\ events' = (events \ WriteEvent(s)) \ UpsTimersOf(s)
  /\ callbackUnchanged

\* WRITE: the same, without keep-alive or after an upstream teardown.
WriteDoneClose(s) == OnWrite(s) /\ UpsDone(s) /\ DeleteSession(s)

\* Mutant: a session that was active is not given a new timer.
SessionRearmNothing(s) == {}

SessionRearm(s) == {SessTimeout(s)}

\* evr_event_timeout_cb(): a session that was active since its timer was
\* armed is given a new one, any other is torn down.
SessionTimedOut(s) ==
  /\ running = "none" /\ loop \in {"events", "late"}
  /\ SessTimeout(s) \in events /\ s \in DOMAIN session
  /\ \/ ~session[s].m_active /\ DeleteSession(s)
     \/ /\ session[s].m_active
        /\ session' = [session EXCEPT ![s].m_active = FALSE]
        /\ events' = (events \ {SessTimeout(s)}) \cup SessionRearm(s)
        /\ UNCHANGED <<poolVars, subr, nc>> /\ callbackUnchanged

-----------------------------------------------------------------------------
(* The main loop of the thread *)

\* evr_loop::run(): dequeue_events() has left nothing that is due, and wait()
\* reports some of the registered descriptors.
Wait ==
  /\ running = "none" /\ loop = "events" /\ Immediate = {}
  /\ loop' = "fds"
  /\ polled' = DOMAIN session \cup {c \in Conn : Registered(c)}
  /\ UNCHANGED <<poolVars, session, subr, nc, m_subr_list, jobs, events, running>>

\* wait() reports none: dequeue_events() is called once more.
WaitNothing ==
  /\ running = "none" /\ loop = "events" /\ Immediate = {}
  /\ loop' = "late"
  /\ UNCHANGED <<poolVars, session, subr, nc, m_subr_list, jobs, events, running, polled>>

\* nconn_pool::reap(), which may have nothing to do.
Reap == Pool!reap \/ (Pool!Reaping = {} /\ UNCHANGED poolVars)

\* run() returns, and t_run() reaps the pool before it runs the loop again.
EndRound ==
  /\ running = "none"
  /\ loop = "fds" \/ (loop = "late" /\ Immediate = {})
  /\ Reap
  /\ loop' = "events" /\ polled' = {}
  /\ UNCHANGED <<session, subr, nc, m_subr_list, jobs, events, running>>

-----------------------------------------------------------------------------

Dequeue ==
  \/ DequeueEnd
  \/ DequeueNull
  \/ \E r \in DOMAIN subr :
       \/ StartOnIdle(r) \/ StartOnNew(r) \/ StartAgain(r) \/ StartLookup(r)
       \/ \E told \in BOOLEAN : StartLookupFails(r, told)
       \/ \E error \in BOOLEAN : StartTeardown(r, error)
       \/ StartSetupFails(r)
       \/ \E state \in {"CONNECTING", "CONNECTED"}, out \in BOOLEAN :
            StartOk(r, state, out)

UpsCallback(c) ==
  \/ UpsActivity(c) \/ UpsConnected(c) \/ UpsConnectFails(c)
  \/ UpsWritten(c) \/ UpsWriteFails(c)
  \/ UpsEof(c) \/ UpsReadFails(c) \/ UpsReadUnavailable(c) \/ UpsPartial(c)
  \/ UpsCompleteClose(c)
  \/ \E idle \in BOOLEAN : UpsCompleteKeep(c, idle)

ClientRead(s) ==
  \/ ClientGone(s) \/ ClientActivity(s) \/ ClientLocal(s)
  \/ \E r \in Req, l \in Label : do_default(s, r, l)

ClientWrite(s) ==
  WriteAgain(s) \/ WriteFails(s) \/ WritePart(s) \/ WriteDoneKeep(s) \/ WriteDoneClose(s)

UpsTimer == \E e \in {x \in events : x.cb = "ups_timeout"} : UpsTimedOut(e)

Next ==
  \/ RunDequeue
  \/ Dequeue
  \/ \E r \in Req, found \in BOOLEAN : adns_resolved_cb(r, found)
  \/ \E c \in Conn : UpsCallback(c)
  \/ UpsTimer
  \/ \E s \in Session : Accept(s)
  \/ \E s \in Session : ClientRead(s)
  \/ \E s \in Session : ClientWrite(s)
  \/ \E s \in Session : SessionTimedOut(s)
  \/ Wait
  \/ WaitNothing
  \/ EndRound

Spec == Init /\ [][Next]_vars

(***************************************************************************)
(* The thread keeps going: events are dequeued, wait() returns and a round *)
(* ends.  The queue is ordered by time, so an event that stays in it is    *)
(* served in the end, also when callbacks keep queueing events for now:    *)
(* this is assumed of the queue's event and of the sessions' idle timers.  *)
(* Nothing is assumed of clients, upstream servers, the upstream timers    *)
(* and the resolver.                                                       *)
(***************************************************************************)
Fairness ==
  /\ WF_vars(Dequeue \/ Wait \/ WaitNothing \/ EndRound)
  /\ SF_vars(RunDequeue)
  /\ \A s \in Session : SF_vars(SessionTimedOut(s))

FairSpec == Spec /\ Fairness

-----------------------------------------------------------------------------
(* Properties *)

SubrType ==
  [m_session : Session, label : Label,
   m_state : {"NONE", "QUEUED", "DNS_LOOKUP", "ACTIVE"},
   u : {"IDLE", "SENDING", "DONE"}, m_shutdown : BOOLEAN, m_complete : BOOLEAN,
   lookup : BOOLEAN, ups : BOOLEAN, m_nconn : Conn \cup {NoConn}, m_evr_timeout : BOOLEAN,
   m_active : BOOLEAN, m_again : BOOLEAN, out : BOOLEAN]

SessionType ==
  [m_u : Req \cup {NoReq}, out : BOOLEAN, m_evr_timeout : BOOLEAN,
   m_evr_writeable : BOOLEAN, m_active : BOOLEAN, blocked : BOOLEAN]

EventType ==
  [cb : {"sess_timeout", "writeable"}, s : Session]
    \cup [cb : {"ups_timeout"}, r : Req, c : Conn]
    \cup [cb : {"subr_dequeue"}]

\* The variables keep their types.
TypeOK ==
  /\ DOMAIN session \subseteq Session /\ session \in [DOMAIN session -> SessionType]
  /\ DOMAIN subr \subseteq Req /\ subr \in [DOMAIN subr -> SubrType]
  /\ nc \in [Conn -> [m_nc_state : {"FREE", "CONNECTING", "CONNECTED"},
                      m_data : Req \cup {NoReq}]]
  /\ m_subr_list \in Seq(Req \cup {NoReq})
  /\ jobs \subseteq Req /\ events \subseteq EventType
  /\ running \in {"none", "subr_dequeue"} \cup Req
  /\ loop \in {"events", "fds", "late"}
  /\ polled \subseteq Session \cup Conn

\* Whatever a callback will be handed is alive: pending events, the round of
\* descriptors being served, queued subrs and lookup jobs refer to sessions,
\* requests and connections that have not been deleted, and a session and
\* its request refer to each other.
NoDangling ==
  /\ \A e \in events :
       /\ e.cb \in {"sess_timeout", "writeable"} => e.s \in DOMAIN session
       /\ e.cb = "ups_timeout" => e.c \in DOMAIN nconn \ closed /\ nc[e.c].m_data = e.r
  /\ polled \subseteq DOMAIN session \cup DOMAIN nconn
  /\ \A r \in jobs : r \in DOMAIN subr /\ subr[r].m_state = "DNS_LOOKUP"
  /\ \A i \in DOMAIN m_subr_list : m_subr_list[i] \in DOMAIN subr \cup {NoReq}
  /\ \A r \in DOMAIN subr : /\ subr[r].m_session \in DOMAIN session
                            /\ session[subr[r].m_session].m_u = r
  /\ \A s \in DOMAIN session : Deleted(s) \subseteq DOMAIN subr

\* No connection is shared and none is leaked: the pool's active connections
\* are exactly those of the live requests, each of one request, and the
\* m_data through which a callback finds the request is that request.  A
\* request that is active has a connection for cancel() to tear down.
ConnOwnership ==
  /\ Pool!Active = {subr[r].m_nconn : r \in DOMAIN subr} \ {NoConn}
  /\ \A c \in Conn, r \in Req :
       nc[c].m_data = r <=> r \in DOMAIN subr /\ subr[r].m_nconn = c
  /\ \A r \in DOMAIN subr : subr[r].m_state = "ACTIVE" => subr[r].m_nconn # NoConn

\* No wakeup is lost: a subr is in the list once while it is QUEUED and never
\* otherwise, and while the list is not empty subr_dequeue() is running or
\* its event is pending.
QueueWakes ==
  /\ \A r \in DOMAIN subr :
       Cardinality({i \in DOMAIN m_subr_list : m_subr_list[i] = r})
         = (IF subr[r].m_state = "QUEUED" THEN 1 ELSE 0)
  /\ m_subr_list # << >> => running # "none" \/ DequeueEvent \in events

\* Every session has its idle timer pending and every active request its
\* own, the pointers through which events are cancelled agree with the event
\* queue, and output waiting for a client is always going to be written.
TimersArmed ==
  /\ \A s \in DOMAIN session :
       /\ session[s].m_evr_timeout /\ SessTimeout(s) \in events
       /\ session[s].m_evr_writeable <=> Writeable(s) \in events
       /\ session[s].out => session[s].m_evr_writeable \/ session[s].blocked
  /\ \A r \in DOMAIN subr :
       /\ subr[r].m_evr_timeout <=> \E c \in Conn : UpsTimeout(r, c) \in events
       /\ subr[r].m_state = "ACTIVE" => subr[r].m_evr_timeout

\* The pool is used as NconnPool specifies: every step of the thread is one
\* operation of the pool, or leaves it alone.
PoolSpec == Pool!Spec

\* A client is told where an answer ends: when its request is deleted and its
\* connection is kept for the next one, the upstream answer was read to its
\* end.  An answer that an error, a timeout or the end of the connection cut
\* short ends with the client's connection, also where the teardown is one
\* that run_state_machine() counts as OK.
KeptOnlyIfWhole ==
  [][\A r \in DOMAIN subr :
       r \notin DOMAIN subr' /\ subr[r].m_session \in DOMAIN session'
         => subr[r].m_complete]_vars

\* The event loop always gets back to wait(), although a subr for which there
\* is no connection queues an event for now each time it is put back.
KeepsPolling == []<>(loop # "events")

\* Timers are enough to clean up: if from some time on no descriptor is
\* reported, every session goes, and with it its request, its connection
\* and its place in the queue.
SilenceCleansUp ==
  <>[](loop # "fds") =>
    <>[](session = << >> /\ subr = << >> /\ Pool!Active = {} /\ m_subr_list = << >>)

\* Who owns what, in parts: no event, list, job or connection leads to a
\* session or a request that was deleted, and a connection and the request on
\* it belong to each other.
Ownership == TypeOK /\ NoDangling /\ ConnOwnership
==============================================================================
