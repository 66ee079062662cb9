----------------------------- MODULE Nresolver -----------------------------
(***************************************************************************)
(* The asynchronous lookups of one server thread: nresolver.cc's           *)
(* lookup_async(), its two event callbacks and dns_a4_cb(), with the       *)
(* queries of the udns resolver underneath (udns_resolver.c) and the subr  *)
(* that asked above (subr_start(), adns_resolved_cb(), subr::cancel()).    *)
(*                                                                         *)
(* A job is named by the subr that asked for it.  Time is counted in       *)
(* seconds to go: a query's deadline and the timer are counted down by     *)
(* Tick, so that no clock value is kept.  Servers are asked in order, and  *)
(* their answers may be lost, late, repeated or in any order.              *)
(***************************************************************************)
EXTENDS Integers, FiniteSets, Sequences, SequencesExt

CONSTANTS
  Job,            \* the subrs, and the jobs that look their hosts up
  BadName,        \* the jobs whose host dns_submit_a4() refuses
  NServ,          \* dnsc_nserv: name servers
  NSrch,          \* domain names still to try after the first
  m_timeout_s, m_retries, m_max_parallel,
  SendMayFail     \* whether sendto() may fail ten times over

ASSUME NresolverAssumption ==
  /\ BadName \subseteq Job /\ IsFiniteSet(Job)
  /\ NServ \in Nat \ {0} /\ NSrch \in Nat /\ SendMayFail \in BOOLEAN
  /\ m_timeout_s \in Nat \ {0} /\ m_retries \in Nat \ {0} /\ m_max_parallel \in Nat \ {0}

VARIABLES
  m_job_q,       \* jobs waiting for a free slot
  query,         \* the active queries, by job
  m_job_pq,      \* jobs that were submitted and are not deleted
  age,           \* seconds since the job of an active query was submitted, up
                 \* to Old
  m_timer_obj,   \* "none", "armed", or "ripe" when its second has passed
  m_cb,          \* jobs whose callback is set
  subr,          \* the askers
  io,            \* dns_ioevent() is reading answers
  \* history
  refused,       \* askers whose own call of lookup_async() failed
  failed         \* the last call of lookup_async() failed

histVars == <<refused, failed>>
vars == <<m_job_q, query, m_job_pq, age, m_timer_obj, m_cb, subr, io, histVars>>

Server == 0 .. NServ - 1

\* The age at which lookup_async() means to delete a job, and the first past it.
Expire == m_timeout_s * m_retries * 2
Old == Expire + 1

SubrStart == [m_state |-> "NONE", m_lookup_job |-> FALSE, told |-> 0]

Init ==
  /\ m_job_q = << >> /\ query = << >> /\ m_job_pq = {} /\ m_cb = {}
  /\ age = [j \in Job |-> 0]
  /\ m_timer_obj = "none" /\ io = FALSE
  /\ subr = [j \in Job |-> SubrStart]
  /\ refused = {} /\ failed = FALSE

----------------------------------------------------------------------------
(* udns: a query asks the servers in turn, for m_retries rounds. *)

\* dns_newid(): nothing is kept of the name asked before.
dns_newid(srch) ==
  [try |-> 0, servi |-> 0, wait |-> {}, skip |-> {}, noedns |-> {},
   srch |-> srch, due |-> 0]

\* A query that is over: it has no round left.
Ended == [dns_newid(0) EXCEPT !.try = m_retries]

\* dns_find_serv(): step over the servers that answered with an error.
dns_find_serv(q) ==
  [q EXCEPT !.servi = CHOOSE s \in q.servi .. NServ :
     /\ s = NServ \/ s \notin q.skip
     /\ \A t \in q.servi .. s - 1 : t \in q.skip]

Found(q) == dns_find_serv(q).servi < NServ

\* dnsc_timeout << try
Shifted[n \in 0 .. m_retries] == IF n = 0 THEN m_timeout_s ELSE 2 * Shifted[n - 1]

\* dns_send_this(): one second if a server is left in this round, and the
\* doubled timeout if none is.
dns_send_this(q, s, fails) ==
  IF fails THEN Ended
  ELSE [dns_find_serv(q) EXCEPT !.wait = @ \cup {s},
          !.due = IF Found(q) THEN 1 ELSE Shifted[q.try]]

\* Mutants: one round too many; the rounds are not counted.
RoundsOffByOne(q, fails) ==
  LET r == IF Found(q) THEN dns_find_serv(q)
           ELSE dns_find_serv([q EXCEPT !.servi = 0, !.try = @ + 1]) IN
  IF r.try > m_retries \/ ~Found(r) THEN Ended
  ELSE dns_send_this([r EXCEPT !.servi = @ + 1], r.servi, fails)

RoundNotCounted(q, fails) ==
  LET r == dns_find_serv(IF Found(q) THEN q ELSE [q EXCEPT !.servi = 0]) IN
  IF ~Found(r) THEN Ended ELSE dns_send_this([r EXCEPT !.servi = @ + 1], r.servi, fails)

\* dns_send(): the next server, or the next round, or the end.
dns_send(q, fails) ==
  LET r == IF Found(q) THEN dns_find_serv(q)
           ELSE dns_find_serv([q EXCEPT !.servi = 0, !.try = @ + 1]) IN
  IF r.try >= m_retries \/ ~Found(r) THEN Ended
  ELSE dns_send_this([r EXCEPT !.servi = @ + 1], r.servi, fails)

\* dns_ioevent() on an answer of server s, which is awaited.
Answered(q, s, rcode, fails) ==
  LET p == [q EXCEPT !.wait = @ \ {s}]
      skipped == [p EXCEPT !.skip = @ \cup {s}] IN
  CASE rcode \in {"found", "unusable"} -> Ended
    [] rcode = "nodata" ->
         IF q.srch = 0 THEN Ended ELSE dns_send(dns_newid(q.srch - 1), fails)
    [] rcode = "formerr" /\ s \notin q.noedns ->
         dns_send_this([p EXCEPT !.noedns = @ \cup {s}], s, fails)
    [] OTHER -> IF skipped.wait = {} THEN dns_send(skipped, fails) ELSE skipped

\* dns_end_query(): the ended queries leave the active list.
dns_end_query(qs) == [j \in {i \in DOMAIN qs : qs[i] # Ended} |-> qs[j]]

----------------------------------------------------------------------------
(* dns_a4_cb() and adns_resolved_cb(): the asker hears of it, unless it    *)
(* cancelled.  A failure leaves its m_state as it is.                      *)

Failed(s, js, cbs) ==
  [j \in Job |-> IF j \in js \cap cbs
                 THEN [s[j] EXCEPT !.m_lookup_job = FALSE, !.told = @ + 1]
                 ELSE s[j]]

Resolved(j) ==
  IF j \in m_cb
  THEN [subr EXCEPT ![j] = [@ EXCEPT !.m_state = "QUEUED", !.m_lookup_job = FALSE]]
  ELSE subr

----------------------------------------------------------------------------
(* lookup_async(), with the job of the asker or none, and the timer object *)

\* dns_submit_a4(): the new queries are due at once.
dns_submit_a4(js) ==
  [j \in DOMAIN query \cup js |-> IF j \in js THEN dns_newid(NSrch) ELSE query[j]]

\* dns_timeouts(): every query that is due is sent to its next server.
dns_timeouts(qs, fails) ==
  [j \in DOMAIN qs |-> IF qs[j].due = 0 THEN dns_send(qs[j], j \in fails) ELSE qs[j]]

\* Mutant: the first condition of the loop is put right.
DeleteOld(pq) == {j \in pq : age[j] < Old}

\* The loop under "Check for expires": its first condition is inverted, and
\* lets it run on an empty queue only.
DeleteExpired(pq) == pq

\* Mutant: the timer is armed for the first query only.
ArmIfFirst(timer, qs) ==
  IF query = << >> /\ qs # << >> /\ timer = "none" THEN "armed" ELSE timer

\* "Add timer to handle timeouts"
Armed(timer, qs) == IF qs # << >> /\ timer = "none" THEN "armed" ELSE timer

\* Mutant: the active queries are not counted.
SubmitLimit == m_max_parallel

\* The slots that lookup_async() may fill.
l_submit == m_max_parallel - Cardinality(DOMAIN query)

\* What the submission loop takes off the queue if no name is refused.
Taken(q) == SubSeq(q, 1, IF l_submit < Len(q) THEN l_submit ELSE Len(q))

\* All names were accepted: what is due is sent, and the timer is armed.
SubmitAll(q, new, timer) ==
  LET taken == ToSet(Taken(q))
      qs == dns_submit_a4(taken)
      cbs == m_cb \cup ToSet(new) IN
  /\ taken \cap BadName = {}
  /\ \E fails \in SUBSET {j \in DOMAIN qs : SendMayFail /\ qs[j].due = 0} :
       LET sent == dns_timeouts(qs, fails)
           heard == Failed(subr, {j \in DOMAIN sent : sent[j] = Ended}, cbs) IN
       /\ query' = dns_end_query(sent)
       /\ subr' = [j \in Job |->
            IF j \in ToSet(new)
            THEN [heard[j] EXCEPT !.m_state = "DNS_LOOKUP", !.m_lookup_job = TRUE]
            ELSE heard[j]]
  /\ m_job_q' = SubSeq(q, Len(Taken(q)) + 1, Len(q))
  /\ m_job_pq' = DeleteExpired(m_job_pq \cup taken)
  /\ m_timer_obj' = Armed(timer, query')

\* Mutant: the rest of the queue is dropped.
RefusedDropsQueue(q, timer) ==
  LET n == SelectInSeq(Taken(q), LAMBDA j : j \in BadName)
      taken == ToSet(SubSeq(q, 1, n - 1)) IN
  /\ n # 0
  /\ query' = dns_submit_a4(taken)
  /\ m_job_q' = << >>
  /\ m_job_pq' = m_job_pq \cup taken
  /\ m_timer_obj' = timer
  /\ UNCHANGED subr

\* A name was refused: STATUS_ERROR, with that job off the queue, the rest of
\* the queue as it was, nothing sent and no timer.  The asker is the one that
\* called, whosever name it was, and its m_state stays NONE.
SubmitRefused(q, timer) ==
  LET n == SelectInSeq(Taken(q), LAMBDA j : j \in BadName)
      taken == ToSet(SubSeq(q, 1, n - 1)) IN
  /\ n # 0
  /\ query' = dns_submit_a4(taken)
  /\ m_job_q' = SubSeq(q, n + 1, Len(q))
  /\ m_job_pq' = m_job_pq \cup taken
  /\ m_timer_obj' = timer
  /\ UNCHANGED subr

AgeWhileActive == age' = [j \in Job |-> IF j \in DOMAIN query' THEN age[j] ELSE 0]

lookup_async(new, timer) ==
  /\ m_cb' = m_cb \cup ToSet(new)
  /\ \/ SubmitAll(m_job_q \o new, new, timer) /\ failed' = FALSE
     \/ SubmitRefused(m_job_q \o new, timer) /\ failed' = TRUE
  /\ refused' = IF failed' THEN refused \cup ToSet(new) ELSE refused
  /\ AgeWhileActive

----------------------------------------------------------------------------
(* The steps of the thread *)

\* subr_start() finds no address at hand and asks for one.
subr_start(j) ==
  /\ ~io
  /\ subr[j] = SubrStart /\ j \notin m_cb
  /\ lookup_async(<<j>>, m_timer_obj)
  /\ UNCHANGED io

\* evr_fd_timeout_cb()
evr_fd_timeout_cb ==
  /\ ~io
  /\ m_timer_obj = "ripe"
  /\ UNCHANGED io
  /\ lookup_async(<< >>, "none")

\* evr_fd_readable_cb(): a datagram has come.  dns_ioevent() reads until none
\* is left, and lookup_async() follows.
Readable ==
  /\ ~io
  /\ m_job_pq # {}
  /\ io' = TRUE
  /\ UNCHANGED <<m_job_q, query, m_job_pq, age, m_timer_obj, m_cb, subr, histVars>>

\* An answer to query j from a server that is awaited.  Any other, late or
\* repeated, is passed over.
dns_ioevent(j, s, rcode) ==
  /\ io
  /\ j \in DOMAIN query /\ s \in query[j].wait
  /\ \E fails \in {FALSE, SendMayFail} :
       LET q == Answered(query[j], s, rcode, fails) IN
       /\ query' = dns_end_query([query EXCEPT ![j] = q])
       /\ subr' = IF q # Ended THEN subr
                  ELSE IF rcode = "found" THEN Resolved(j)
                  ELSE Failed(subr, {j}, m_cb)
  /\ AgeWhileActive
  /\ UNCHANGED <<m_job_q, m_job_pq, m_timer_obj, m_cb, io, histVars>>

ReadableDone ==
  /\ io
  /\ io' = FALSE
  /\ lookup_async(<< >>, m_timer_obj)

\* Mutant: the job keeps its callback.
CancelKeepsCb(j) ==
  /\ ~io
  /\ j \in m_cb /\ subr[j].m_state # "gone"
  /\ subr' = [subr EXCEPT ![j] = [@ EXCEPT !.m_state = "gone", !.m_lookup_job = FALSE]]
  /\ UNCHANGED <<m_job_q, query, m_job_pq, age, m_timer_obj, m_cb, io, histVars>>

\* The session of the asker ends: subr::cancel(), and the subr is deleted.
cancel(j) ==
  /\ ~io
  /\ j \in m_cb /\ subr[j].m_state # "gone"
  /\ m_cb' = IF subr[j].m_state = "DNS_LOOKUP" /\ subr[j].m_lookup_job THEN m_cb \ {j} ELSE m_cb
  /\ subr' = [subr EXCEPT ![j] = [@ EXCEPT !.m_state = "gone", !.m_lookup_job = FALSE]]
  /\ UNCHANGED <<m_job_q, query, m_job_pq, age, m_timer_obj, io, histVars>>

\* A second passes.
Tick ==
  /\ ~io
  /\ UNCHANGED <<m_job_q, m_job_pq, m_cb, subr, io, histVars>>
  /\ query' = [j \in DOMAIN query |->
       [query[j] EXCEPT !.due = IF @ = 0 THEN 0 ELSE @ - 1]]
  /\ age' = [j \in Job |-> IF j \in DOMAIN query /\ age[j] < Old THEN age[j] + 1 ELSE age[j]]
  /\ m_timer_obj' = IF m_timer_obj = "armed" THEN "ripe" ELSE m_timer_obj

\* An answer with addresses, one that cannot be parsed, none of the type asked
\* for or no such name, and two kinds of error.
Rcode == {"found", "unusable", "nodata", "formerr", "servfail"}

Next ==
  \/ \E j \in Job : subr_start(j) \/ cancel(j)
  \/ evr_fd_timeout_cb
  \/ Readable
  \/ \E j \in Job, s \in Server, rcode \in Rcode : dns_ioevent(j, s, rcode)
  \/ ReadableDone
  \/ Tick

\* Seconds pass, the event loop serves a timer that has run out, and
\* dns_ioevent() comes to an end.
Spec == Init /\ [][Next]_vars
FairSpec == Spec /\ SF_vars(Tick) /\ SF_vars(evr_fd_timeout_cb) /\ WF_vars(ReadableDone)

----------------------------------------------------------------------------
(* Properties *)

Query == [try : 0 .. m_retries - 1, servi : 0 .. NServ, wait : SUBSET Server,
          skip : SUBSET Server, noedns : SUBSET Server, srch : 0 .. NSrch, due : Nat]

\* Every variable keeps its type; an active query has rounds left, and no job
\* is queued twice.
TypeOK ==
  /\ m_job_q \in Seq(Job) /\ IsInjective(m_job_q)
  /\ DOMAIN query \subseteq Job /\ \A j \in DOMAIN query : query[j] \in Query
  /\ m_job_pq \subseteq Job /\ m_cb \subseteq Job
  /\ age \in [Job -> 0 .. Old]
  /\ m_timer_obj \in {"none", "armed", "ripe"} /\ io \in BOOLEAN
  /\ subr \in [Job -> [m_state : {"NONE", "DNS_LOOKUP", "QUEUED", "gone"},
                       m_lookup_job : BOOLEAN, told : 0 .. 1]]
  /\ refused \subseteq Job /\ failed \in BOOLEAN

\* The lookups in progress never exceed m_max_parallel, whatever order
\* answers, timeouts and new askers come in.
ActiveBound == Cardinality(DOMAIN query) <= m_max_parallel

\* A job whose query is still active is not deleted: dns_a4_cb() is given it.
JobOutlivesQuery == DOMAIN query \subseteq m_job_pq

\* A subr in DNS_LOOKUP is waiting for a job that is queued or active, or it
\* has been told of a failure.  Only the asker of a refused name may wait for
\* nothing: a refusal costs no other asker its job.  (A queued job calls
\* nobody while no call of lookup_async() submits it.)
WaitersServed ==
  \A j \in Job \ BadName : subr[j].m_state = "DNS_LOOKUP" =>
    \/ subr[j].told > 0
    \/ j \in m_cb \cap (DOMAIN query \cup ToSet(m_job_q))

\* subr::cancel() writes to the job behind the handle.  The handle is that of
\* a job that was not deleted (a refused one is leaked); when dns_timeouts()
\* failed the query inside lookup_async() it is stale, and the subr was told.
HandleSafe ==
  \A j \in Job \ BadName : subr[j].m_lookup_job =>
    /\ j \in m_job_pq \cup ToSet(m_job_q)
    /\ j \in DOMAIN query \cup ToSet(m_job_q) \/ subr[j].told > 0

\* subr.cc on cancel(): "Cancel active or remove pending subrequest".  No job
\* calls a subr that was cancelled and deleted, unless its own call failed.
CancelRemoves ==
  \A j \in Job \ refused : subr[j].m_state = "gone" =>
    j \notin m_cb \/ j \notin DOMAIN query \cup ToSet(m_job_q)

\* "Add timer to handle timeouts": between events, a query in progress has the
\* timer that will resend or end it, unless the last call failed.
TimerArmed == query # << >> /\ ~failed => m_timer_obj # "none"

\* Every query that was submitted ends, however many datagrams are lost, by an
\* answer or when its rounds are used up: as every asker asks once, the
\* resolver comes to rest, again and again, or a call has failed.
QueriesEnd == []<>(query = << >> \/ failed)

\* Pointers between jobs, queries and askers: a query's job is not deleted, a
\* handle leads to a live job, and a job leads to no deleted asker.
PointersSafe == TypeOK /\ JobOutlivesQuery /\ HandleSafe /\ CancelRemoves
=============================================================================
