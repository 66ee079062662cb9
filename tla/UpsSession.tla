----------------------------- MODULE UpsSession -----------------------------
(***************************************************************************)
(* The upstream half of a proxied request in one server thread:            *)
(* src/srvr/ups_session.cc, src/srvr/subr.cc and the proxy_u of            *)
(* src/handler/proxy/proxy_h.cc, over the connection pool of NconnPool.    *)
(*                                                                         *)
(* A subr, its proxy_u and its ups_session are created for one request and *)
(* deleted together, so one record stands for the three; ups says whether  *)
(* the ups_session exists yet.  A connection's m_data is the ups_session   *)
(* it serves, named by its subr.                                           *)
(*                                                                         *)
(* The thread runs one callback at a time.  A callback is one action,      *)
(* except that each turn of the loop in subr_dequeue() is an action, and   *)
(* subr_start() is two: it takes a connection, then writes the request.    *)
(* One turn of the read loop in run_state_machine() is an action too: the  *)
(* callback may go on reading, which is the same connection being reported *)
(* again.                                                                  *)
(*                                                                         *)
(* Times are kept only as far as the timeouts look at them: m_active says  *)
(* that m_last_active_ms was set after the pending timer was armed.        *)
(***************************************************************************)
EXTENDS Naturals, Sequences, FiniteSets

CONSTANTS
  Conn, Label, MaxActive, MaxIdle, IdSpan, CountSpan, MaxInserts, \* of the pool
  Session,     \* addresses a client session (and its nconn) can have
  Req,         \* addresses a subr can have
  NoReq,       \* the null subr or ups_session pointer
  NoConn       \* the null nconn pointer

\* The pool's own assumption, and null is the address of nothing.
ASSUME ProxyAssumption ==
  /\ MaxActive \in Nat /\ MaxIdle \in Nat /\ MaxInserts \in Nat
  /\ IdSpan \in Nat \ {0}
  /\ CountSpan \in Nat /\ MaxActive + MaxIdle < CountSpan
  /\ NoReq \notin Req /\ NoConn \notin Conn
  /\ "none" \notin Req /\ "subr_dequeue" \notin Req

VARIABLES
  nconn, closed, m_active_conn_map, m_active_conn_map_size,       \* of the pool
  m_item_list, m_next_id, m_reap_list,
  session,     \* live client sessions: address -> record
  subr,        \* live subrequests: address -> record
  nc,          \* Conn -> m_nc_state and m_data of the nconn there
  m_subr_list, \* the thread's queue of subrs to start; NoReq is a cancelled slot
  jobs,        \* subrs that a lookup job's callback will be given
  events,      \* pending evr_events of the thread that are not cancelled
  running,     \* "none", "subr_dequeue", or the subr that subr_start() is starting
  loop,        \* where the thread's main loop is
  polled       \* what the wait() being served may have reported

Pool == INSTANCE NconnPool

poolVars == <<nconn, closed, m_active_conn_map, m_active_conn_map_size,
              m_item_list, m_next_id, m_reap_list>>
vars == <<poolVars, session, subr, nc, m_subr_list, jobs, events, running, loop, polled>>

-----------------------------------------------------------------------------
(* Objects and events *)

With(f, k, v) == [x \in DOMAIN f \cup {k} |-> IF x = k THEN v ELSE f[x]]

Without(f, S) == [x \in DOMAIN f \ S |-> f[x]]

\* The events that run_state_machine() and subr_dequeue() are called from.
\* An upstream timer is given the nconn, the other ones a client session.
SessTimeout(s) == [cb |-> "sess_timeout", s |-> s]
Writeable(s)   == [cb |-> "writeable", s |-> s]
UpsTimeout(r, c) == [cb |-> "ups_timeout", r |-> r, c |-> c]
DequeueEvent   == [cb |-> "subr_dequeue"]

\* Queued with a time of 0 ms: dequeue_events() returns only when none is left.
Immediate == {e \in events : e.cb \in {"writeable", "subr_dequeue"}}

\* The nconn constructor, and what nc_cleanup() resets.
NewConn == [m_nc_state |-> "FREE", m_data |-> NoReq]

\* Mutant: the constructor leaves a pointer uninitialized.
NewSubrUninit(s, l) ==
  [m_session |-> s, label |-> l, m_state |-> "NONE",
   u |-> "IDLE", m_shutdown |-> FALSE, m_complete |-> FALSE, lookup |-> FALSE,
   ups |-> FALSE, m_nconn |-> s, m_evr_timeout |-> FALSE,
   m_active |-> FALSE, m_again |-> FALSE, out |-> FALSE]

\* A subr and its proxy_u, as do_default() makes them.
NewSubr(s, l) ==
  [m_session |-> s, label |-> l, m_state |-> "NONE",
   u |-> "IDLE", m_shutdown |-> FALSE, m_complete |-> FALSE, lookup |-> FALSE,
   ups |-> FALSE, m_nconn |-> NoConn, m_evr_timeout |-> FALSE,
   m_active |-> FALSE, m_again |-> FALSE, out |-> FALSE]

\* What session::queue_output() leaves, with a response in m_out_q.
Output(s) == [session EXCEPT ![s] = [@ EXCEPT !.out = TRUE, !.m_evr_writeable = TRUE]]

\* Mutant: the timer of a finished request is left in the event queue.
CancelNoTimer(r) == {}

\* cancel_evr_timer(): the event is found through the pointer that is kept.
cancel_evr_timer(r) ==
  IF subr[r].m_evr_timeout THEN {e \in events : e.cb = "ups_timeout" /\ e.r = r} ELSE {}

-----------------------------------------------------------------------------
(* Teardown *)

\* Mutant: the ups_session keeps the pointer to its connection.
DetachedKeepsConn(u) == [u EXCEPT !.m_active = FALSE, !.m_again = FALSE, !.out = FALSE]

\* An ups_session that lost its connection.  What only callbacks of the
\* connection look at is not kept.
Detached(u) ==
  [u EXCEPT !.m_nconn = NoConn, !.m_active = FALSE, !.m_again = FALSE, !.out = FALSE]

\* Mutant: the client is not told to shut down.
TornDownOpen(u) ==
  [Detached(u) EXCEPT !.m_state = "NONE", !.u = "DONE", !.m_evr_timeout = FALSE]

\* The subrequest after teardown(): done, and the client is to be shut down.
TornDown(u) ==
  [Detached(u) EXCEPT !.m_state = "NONE", !.u = "DONE", !.m_shutdown = TRUE,
                      !.m_evr_timeout = FALSE]

\* teardown(): a status that is not OK goes to the client through s_error_cb();
\* any other end of the request is not announced to it.
teardown(r, c, error) ==
  /\ Pool!release(c)
  /\ nc' = [nc EXCEPT ![c] = NewConn]
  /\ IF r = NoReq
     THEN UNCHANGED <<session, subr, events>>
     ELSE LET s == subr[r].m_session IN
          /\ subr' = [subr EXCEPT ![r] = TornDown(@)]
          /\ session' = IF error THEN Output(s) ELSE session
          /\ events' = (events \ cancel_evr_timer(r))
                         \cup (IF error THEN {Writeable(s)} ELSE {})

-----------------------------------------------------------------------------
(* The queue of subrequests *)

\* Mutant: the subr is queued, and nobody is told.
SubrEnqueueSilent(r) ==
  /\ m_subr_list' = Append(m_subr_list, r)
  /\ UNCHANGED events

\* subr_enqueue(), the change of m_state aside: at the back of the list, with
\* an event to run subr_dequeue() at once.
subr_enqueue(r) ==
  /\ m_subr_list' = Append(m_subr_list, r)
  /\ events' = events \cup {DequeueEvent}

\* adns_resolved_cb(): the lookup job's callback.  An answer queues the subr
\* again; a failure is sent to the client and leaves the subr as it is.  It is
\* called from the event loop; that lookup_async() may make the call itself is
\* in Nresolver.
adns_resolved_cb(r, found) ==
  /\ running = "none"
  /\ r \in jobs
  /\ jobs' = jobs \ {r}
  /\ IF found
     THEN /\ subr' = [subr EXCEPT ![r] = [@ EXCEPT !.lookup = FALSE, !.m_state = "QUEUED"]]
          /\ subr_enqueue(r)
          /\ UNCHANGED session
     ELSE /\ subr' = [subr EXCEPT ![r].lookup = FALSE]
          /\ session' = Output(subr[r].m_session)
          /\ events' = events \cup {Writeable(subr[r].m_session)}
          /\ UNCHANGED m_subr_list
  /\ UNCHANGED <<poolVars, nc, running, loop, polled>>

\* The event queue calls subr_dequeue().
RunDequeue ==
  /\ running = "none" /\ loop \in {"events", "late"}
  /\ DequeueEvent \in events
  /\ events' = events \ {DequeueEvent}
  /\ running' = "subr_dequeue"
  /\ UNCHANGED <<poolVars, session, subr, nc, m_subr_list, jobs, loop, polled>>

\* subr_dequeue(): the list is empty, and the callback returns.
DequeueEnd ==
  /\ running = "subr_dequeue" /\ m_subr_list = << >>
  /\ running' = "none"
  /\ UNCHANGED <<poolVars, session, subr, nc, m_subr_list, jobs, events, loop, polled>>

\* subr_dequeue(): a slot whose subr was cancelled.
DequeueNull ==
  /\ running = "subr_dequeue" /\ m_subr_list # << >> /\ Head(m_subr_list) = NoReq
  /\ m_subr_list' = Tail(m_subr_list)
  /\ UNCHANGED <<poolVars, session, subr, nc, jobs, events, running, loop, polled>>

-----------------------------------------------------------------------------
(* subr_start(), called for the subr at the front of the list *)

AtFront(r) ==
  /\ running = "subr_dequeue" /\ m_subr_list # << >> /\ Head(m_subr_list) = r
  /\ r # NoReq

NoIdle(r) == Pool!IdsOf(subr[r].label) = {}

\* The new ups_session takes the connection.
Attach(r, c) ==
  /\ subr' = [subr EXCEPT ![r] = [@ EXCEPT !.m_state = "NONE", !.ups = TRUE,
                                           !.m_nconn = c, !.out = TRUE]]
  /\ nc' = [nc EXCEPT ![c].m_data = r]
  /\ m_subr_list' = Tail(m_subr_list)
  /\ running' = r
  /\ UNCHANGED <<session, jobs, events, loop, polled>>

\* An idle connection of the subr's label is used first, whatever the limit.
StartOnIdle(r) ==
  /\ AtFront(r)
  /\ Pool!get_idle(subr[r].label)
  /\ \E c \in Pool!Active' \ Pool!Active : Attach(r, c)

\* Its address is known: a new connection, unless the limit is reached.
\* set_opt() knows all the options that a TLS upstream is given, and cannot
\* fail.
StartOnNew(r) ==
  /\ AtFront(r) /\ NoIdle(r)
  /\ Pool!get_active_available # 0
  /\ Pool!get_new_active(subr[r].label)
  /\ \E c \in Pool!Active' \ Pool!Active : Attach(r, c)

\* STATUS_AGAIN: no connection is available, or get_new_active() gave none.
\* The subr goes to the back of the list and the loop is left.
StartAgain(r) ==
  /\ AtFront(r) /\ NoIdle(r)
  /\ Pool!get_active_available = 0 \/ m_active_conn_map_size >= MaxActive
  /\ subr' = [subr EXCEPT ![r].m_state = "QUEUED"]
  /\ m_subr_list' = Append(Tail(m_subr_list), r)
  /\ events' = events \cup {DequeueEvent}
  /\ running' = "none"
  /\ UNCHANGED <<poolVars, session, nc, jobs, loop, polled>>

\* The address is not known, and has to be looked up: synchronously or not,
\* as m_dns_use_sync is when subr_start() reads it.  set_dns_use_sync() may
\* change it at any time.
NeedsLookup(r) == AtFront(r) /\ NoIdle(r) /\ Pool!get_active_available # 0

\* STATUS_QUEUED_ASYNC_DNS: a lookup job was submitted.
StartLookup(r) ==
  /\ NeedsLookup(r)
  /\ subr' = [subr EXCEPT ![r] = [@ EXCEPT !.m_state = "DNS_LOOKUP", !.lookup = TRUE]]
  /\ jobs' = jobs \cup {r}
  /\ m_subr_list' = Tail(m_subr_list)
  /\ UNCHANGED <<poolVars, session, nc, events, running, loop, polled>>

\* STATUS_ERROR: the job could not be submitted, and nobody is told; or the
\* lookup was synchronous and failed, and the client is (told).
StartLookupFails(r, told) ==
  /\ NeedsLookup(r)
  /\ subr' = [subr EXCEPT ![r].m_state = "NONE"]
  /\ m_subr_list' = Tail(m_subr_list)
  /\ IF told
     THEN /\ session' = Output(subr[r].m_session)
          /\ events' = events \cup {Writeable(subr[r].m_session)}
     ELSE UNCHANGED <<session, events>>
  /\ UNCHANGED <<poolVars, nc, jobs, running, loop, polled>>

\* The rest of subr_start(): create_request(), the timer, and the first write.
Starting(r) == running = r /\ r \in DOMAIN subr

\* create_request() or connect() failed; a write error is not an error status.
StartTeardown(r, error) ==
  /\ Starting(r)
  /\ teardown(r, subr[r].m_nconn, error)
  /\ running' = "subr_dequeue"
  /\ UNCHANGED <<m_subr_list, jobs, loop, polled>>

\* STATUS_ERROR: ncsetup() failed.  The timer is armed, the connection stays
\* with the ups_session, and the subr does not become active.
StartSetupFails(r) ==
  LET c == subr[r].m_nconn IN
  /\ Starting(r)
  /\ nc[c].m_nc_state = "FREE"
  /\ subr' = [subr EXCEPT ![r] = [@ EXCEPT !.m_evr_timeout = TRUE, !.m_active = TRUE]]
  /\ events' = events \cup {UpsTimeout(r, c)}
  /\ running' = "subr_dequeue"
  /\ UNCHANGED <<poolVars, session, nc, m_subr_list, jobs, loop, polled>>

\* STATUS_OK: connecting, or connected with the request written or not yet.
StartOk(r, state, out) ==
  LET c == subr[r].m_nconn IN
  /\ Starting(r)
  /\ nc[c].m_nc_state = "CONNECTED" => state = "CONNECTED"
  /\ state = "CONNECTING" => out
  /\ nc' = [nc EXCEPT ![c].m_nc_state = state]
  /\ subr' = [subr EXCEPT ![r] = [@ EXCEPT !.m_state = "ACTIVE", !.m_evr_timeout = TRUE,
                                           !.m_active = TRUE, !.out = out]]
  /\ events' = events \cup {UpsTimeout(r, c)}
  /\ running' = "subr_dequeue"
  /\ UNCHANGED <<poolVars, session, m_subr_list, jobs, loop, polled>>

-----------------------------------------------------------------------------
(* run_state_machine(): callbacks for a connection that wait() reported.   *)
(* One that another callback closed meanwhile has CONN_STATUS_CANCELLED    *)
(* and is left alone; the descriptor of a FREE one is not registered.      *)

Registered(c) == c \in DOMAIN nconn \ closed /\ nc[c].m_nc_state # "FREE"

OnFd(c) ==
  /\ running = "none" /\ loop = "fds"
  /\ c \in polled /\ Registered(c)

Connected(c) == OnFd(c) /\ nc[c].m_nc_state = "CONNECTED"

\* A read that is not skipped because m_again is set.
Readable(c) ==
  /\ Connected(c)
  /\ nc[c].m_data # NoReq => ~subr[nc[c].m_data].m_again

callbackUnchanged == UNCHANGED <<m_subr_list, jobs, running, loop, polled>>

\* Nothing to do, or the socket is not ready: the activity is noted.
UpsActivity(c) ==
  LET r == nc[c].m_data IN
  /\ OnFd(c) /\ r # NoReq
  /\ subr' = [subr EXCEPT ![r].m_active = TRUE]
  /\ UNCHANGED <<poolVars, session, nc, events>> /\ callbackUnchanged

\* CONNECTING: ncconnect() has finished.
UpsConnected(c) ==
  LET r == nc[c].m_data IN
  /\ OnFd(c) /\ nc[c].m_nc_state = "CONNECTING" /\ r # NoReq
  /\ nc' = [nc EXCEPT ![c].m_nc_state = "CONNECTED"]
  /\ subr' = [subr EXCEPT ![r].m_active = TRUE]
  /\ UNCHANGED <<poolVars, session, events>> /\ callbackUnchanged

\* CONNECTING: ncconnect() failed.
UpsConnectFails(c) ==
  /\ OnFd(c) /\ nc[c].m_nc_state = "CONNECTING"
  /\ teardown(nc[c].m_data, c, TRUE)
  /\ callbackUnchanged

\* WRITE: the request has been written.
UpsWritten(c) ==
  LET r == nc[c].m_data IN
  /\ Connected(c) /\ r # NoReq /\ subr[r].out
  /\ subr' = [subr EXCEPT ![r] = [@ EXCEPT !.out = FALSE, !.m_active = TRUE]]
  /\ UNCHANGED <<poolVars, session, nc, events>> /\ callbackUnchanged

\* WRITE: an error makes the connection DONE, which is torn down as OK.
UpsWriteFails(c) ==
  LET r == nc[c].m_data IN
  /\ Connected(c) /\ r # NoReq /\ subr[r].out
  /\ teardown(r, c, FALSE)
  /\ callbackUnchanged

\* READ: end of file, of an upstream session or of an idle connection.
UpsEof(c) ==
  /\ Readable(c)
  /\ teardown(nc[c].m_data, c, FALSE)
  /\ callbackUnchanged

\* READ: an error, or a response that does not parse.
UpsReadFails(c) ==
  /\ Readable(c)
  /\ teardown(nc[c].m_data, c, TRUE)
  /\ callbackUnchanged

\* READ: READ_UNAVAILABLE, the client's m_out_q has no room.  Nothing resets
\* m_again.
UpsReadUnavailable(c) ==
  LET r == nc[c].m_data IN
  /\ Readable(c) /\ r # NoReq
  /\ session[subr[r].m_session].out
  /\ subr' = [subr EXCEPT ![r] = [@ EXCEPT !.m_again = TRUE, !.m_active = TRUE]]
  /\ UNCHANGED <<poolVars, session, nc, events>> /\ callbackUnchanged

\* READ: a part of the response, handed to the client by ups_read().
UpsPartial(c) ==
  LET r == nc[c].m_data IN
  /\ Readable(c) /\ r # NoReq
  /\ subr' = [subr EXCEPT ![r] = [@ EXCEPT !.u = "SENDING", !.m_active = TRUE]]
  /\ session' = Output(subr[r].m_session)
  /\ events' = events \cup {Writeable(subr[r].m_session)}
  /\ UNCHANGED <<poolVars, nc>> /\ callbackUnchanged

\* The subrequest after its response is complete and the connection is kept.
Completed(u) ==
  [Detached(u) EXCEPT !.m_state = "NONE", !.u = "DONE", !.m_complete = TRUE,
                      !.m_evr_timeout = FALSE]

\* hp_on_message_complete() was called for the response.
Whole(u) == [u EXCEPT !.m_complete = TRUE]

\* READ: the response is complete and the connection is not to be reused:
\* it is DONE, and torn down as OK.
UpsCompleteClose(c) ==
  LET r == nc[c].m_data IN
  /\ Readable(c) /\ r # NoReq
  /\ Pool!release(c)
  /\ nc' = [nc EXCEPT ![c] = NewConn]
  /\ subr' = [subr EXCEPT ![r] = TornDown(Whole(@))]
  /\ session' = Output(subr[r].m_session)
  /\ events' = (events \ cancel_evr_timer(r)) \cup {Writeable(subr[r].m_session)}
  /\ callbackUnchanged

\* Mutant: the idle connection keeps its m_data.
IdleKeepsData(c) == nc' = [nc EXCEPT ![c].m_nc_state = "CONNECTED"]

\* The connection goes idle with no m_data; one that add_idle() evicted to
\* make room, which may be the same, has been cleaned up.
IdleData(c) ==
  nc' = [d \in Conn |-> IF d \in closed' \ closed THEN NewConn
                        ELSE IF d = c THEN [nc[d] EXCEPT !.m_data = NoReq]
                        ELSE nc[d]]

\* READ: the response is complete and the connection is kept.  Reading goes
\* on without an upstream session: NC_STATUS_AGAIN parks the connection,
\* end of file or an error (idle = FALSE) releases it.
UpsCompleteKeep(c, idle) ==
  LET r == nc[c].m_data IN
  /\ Readable(c) /\ r # NoReq
  /\ idle => m_next_id < MaxInserts
  /\ subr' = [subr EXCEPT ![r] = Completed(@)]
  /\ session' = Output(subr[r].m_session)
  /\ events' = (events \ cancel_evr_timer(r)) \cup {Writeable(subr[r].m_session)}
  /\ IF idle
     THEN Pool!add_idle(c) /\ IdleData(c)
     ELSE Pool!release(c) /\ nc' = [nc EXCEPT ![c] = NewConn]
  /\ callbackUnchanged

\* Mutant: a request that was active is not given a new timer.
RearmNothing(r, c) == {}

\* The event of a timer that was armed again with the time that is left.
Rearm(r, c) == {UpsTimeout(r, c)}

\* evr_event_timeout_cb(): clears the pointer in the ups_session that the
\* connection has now.  A closed or FREE connection is ignored, an upstream
\* session that was active since is given a new timer, any other torn down.
UpsTimedOut(e) ==
  LET c == e.c
      r == nc[c].m_data IN
  /\ running = "none" /\ loop \in {"events", "late"}
  /\ e \in events /\ e.cb = "ups_timeout"
  /\ \/ /\ r # NoReq /\ Registered(c) /\ ~subr[r].m_active
        /\ Pool!release(c)
        /\ nc' = [nc EXCEPT ![c] = NewConn]
        /\ subr' = [subr EXCEPT ![r] = TornDown(@)]
        /\ session' = Output(subr[r].m_session)
        /\ events' = (events \ {e}) \cup {Writeable(subr[r].m_session)}
     \/ /\ r # NoReq /\ Registered(c) /\ subr[r].m_active
        /\ events' = (events \ {e}) \cup Rearm(r, c)
        /\ subr' = [subr EXCEPT ![r].m_active = FALSE]
        /\ UNCHANGED <<poolVars, session, nc>>
     \/ /\ r = NoReq \/ ~Registered(c)
        /\ events' = events \ {e}
        /\ subr' = [x \in DOMAIN subr |->
                     [subr[x] EXCEPT !.m_evr_timeout = @ /\ x # r]]
        /\ UNCHANGED <<poolVars, session, nc>>
  /\ callbackUnchanged
==============================================================================
