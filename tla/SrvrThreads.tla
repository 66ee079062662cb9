----------------------------- MODULE SrvrThreads -----------------------------
(***************************************************************************)
(* The threads of a server: srvr::run(), stop() and wait_till_stopped()    *)
(* of src/srvr/srvr.cc against t_run() of src/srvr/t_srvr.cc, and the      *)
(* statistics that the threads publish and get_stat() adds up.             *)
(*                                                                         *)
(* stop() is called by some other thread or by a signal handler, at any    *)
(* time after srvr::init() has made the t_srvr objects.  Each access to a  *)
(* variable that threads share is an action of its own; what is done with  *)
(* a mutex held is one action.                                             *)
(*                                                                         *)
(* What a round of the event loop does is left to module Proxy: here it    *)
(* counts requests.  The wait has no timeout unless a timer is pending,    *)
(* and then it is woken by a descriptor or by the control descriptor.      *)
(***************************************************************************)
EXTENDS Integers

CONSTANTS
  NumThreads,      \* m_num_threads, at least 1
  MaxReqs          \* bound on the requests a thread counts

ASSUME ThreadsAssumption == NumThreads \in Nat \ {0} /\ MaxReqs \in Nat

Thread == 1 .. NumThreads    \* m_t_srvr_list, in its order

VARIABLES
  m_stat_update, \* whether m_stat_update_ms is not 0: a timer is always pending
  main,          \* what the caller of run() and wait_till_stopped() does
  stopper,       \* what the caller of stop() does
  pc,            \* where each t_run() is
  m_stopped,     \* the flag of each t_srvr
  ctrl,          \* the control eventfd has an edge that no wait() reported
  m_stat,        \* m_reqs of each thread's own counters
  m_stat_cache,  \* the copy of it that other threads read
  reader,        \* what get_stat() is doing, with m_stat_mutex held
  m_stat_last    \* m_reqs of the totals of the last get_stat()

vars == <<m_stat_update, main, stopper, pc, m_stopped, ctrl, m_stat, m_stat_cache, reader,
          m_stat_last>>

statVars == <<m_stat, m_stat_cache, reader, m_stat_last>>

Init ==
  /\ m_stat_update \in BOOLEAN
  /\ main = [call |-> "run", at |-> 1]
  /\ stopper = [call |-> "none", at |-> 1]
  /\ pc = [t \in Thread |-> "none"]
  /\ m_stopped = [t \in Thread |-> TRUE]
  /\ ctrl = [t \in Thread |-> FALSE]
  /\ m_stat = [t \in Thread |-> 0]
  /\ m_stat_cache = [t \in Thread |-> 0]
  /\ reader = [at |-> 0, ao_stat |-> 0]
  /\ m_stat_last = 0

-----------------------------------------------------------------------------
(* The caller of run() and wait_till_stopped() *)

\* t_srvr::run(): pthread_create() for the next t_srvr of the list.
run ==
  /\ main.call = "run"
  /\ pc' = [pc EXCEPT ![main.at] = "t_run"]
  /\ main' = IF main.at = NumThreads THEN [call |-> "join", at |-> 1]
             ELSE [main EXCEPT !.at = @ + 1]
  /\ UNCHANGED <<m_stat_update, stopper, m_stopped, ctrl, statVars>>

\* wait_till_stopped(): pthread_join() of the next thread returns.
wait_till_stopped ==
  /\ main.call = "join"
  /\ pc[main.at] = "exited"
  /\ main' = IF main.at = NumThreads THEN [call |-> "done", at |-> 1]
             ELSE [main EXCEPT !.at = @ + 1]
  /\ UNCHANGED <<m_stat_update, stopper, pc, m_stopped, ctrl, statVars>>

-----------------------------------------------------------------------------
(* The caller of stop() *)

\* Mutant: the event loop is signalled before the flag is set.
SignalFirst == [first |-> "signal", last |-> "flag"]

\* The two steps of t_srvr::stop(), in their order.
StopOrder == [first |-> "flag", last |-> "signal"]

\* srvr::stop() is called.
stop ==
  /\ stopper.call = "none"
  /\ stopper' = [call |-> StopOrder.first, at |-> 1]
  /\ UNCHANGED <<m_stat_update, main, pc, m_stopped, ctrl, statVars>>

\* The second step, or the first one for the next t_srvr of the list.
stopNext ==
  stopper' =
    IF stopper.call = StopOrder.first THEN [stopper EXCEPT !.call = StopOrder.last]
    ELSE IF stopper.at = NumThreads THEN [call |-> "done", at |-> 1]
    ELSE [call |-> StopOrder.first, at |-> stopper.at + 1]

\* t_srvr::stop() sets m_stopped,
StopFlag ==
  /\ stopper.call = "flag"
  /\ m_stopped' = [m_stopped EXCEPT ![stopper.at] = TRUE]
  /\ stopNext
  /\ UNCHANGED <<m_stat_update, main, pc, ctrl, statVars>>

\* and signal() writes to the control descriptor, which nobody reads: each
\* write is an edge for the edge-triggered wait.
StopSignal ==
  /\ stopper.call = "signal"
  /\ ctrl' = [ctrl EXCEPT ![stopper.at] = TRUE]
  /\ stopNext
  /\ UNCHANGED <<m_stat_update, main, pc, m_stopped, statVars>>

-----------------------------------------------------------------------------
(* t_run() *)

\* init() has been done by add_lsnr() or srvr::init(); m_stopped is reset
\* here, in the new thread, and the counters are cleared.
Start(t) ==
  /\ pc[t] = "t_run"
  /\ pc' = [pc EXCEPT ![t] = "while"]
  /\ m_stopped' = [m_stopped EXCEPT ![t] = FALSE]
  /\ m_stat' = [m_stat EXCEPT ![t] = 0]
  /\ UNCHANGED <<m_stat_update, main, stopper, ctrl, m_stat_cache, reader, m_stat_last>>

\* The condition of the loop: run_loop() is called, or the thread ends.
While(t) ==
  /\ pc[t] = "while"
  /\ pc' = [pc EXCEPT ![t] = IF m_stopped[t] THEN "end" ELSE "wait"]
  /\ UNCHANGED <<m_stat_update, main, stopper, m_stopped, ctrl, statVars>>

\* wait() reports the control descriptor, alone or with others; its event has
\* no evr_fd and is ignored.
Signalled(t) ==
  /\ pc[t] = "wait" /\ ctrl[t]
  /\ ctrl' = [ctrl EXCEPT ![t] = FALSE]
  /\ pc' = [pc EXCEPT ![t] = "while"]
  /\ UNCHANGED <<m_stat_update, main, stopper, m_stopped, statVars>>

\* wait() reports descriptors, and a request is served.
Serve(t) ==
  /\ pc[t] = "wait"
  /\ m_stat[t] < MaxReqs
  /\ m_stat' = [m_stat EXCEPT ![t] = @ + 1]
  /\ pc' = [pc EXCEPT ![t] = "while"]
  /\ UNCHANGED <<m_stat_update, main, stopper, m_stopped, ctrl, m_stat_cache, reader, m_stat_last>>

\* Mutant: the counters start again from 0 once they are published.
StatUpdateResets(t) ==
  /\ m_stat_cache' = [m_stat_cache EXCEPT ![t] = m_stat[t]]
  /\ m_stat' = [m_stat EXCEPT ![t] = 0]

\* stat_update() publishes the counters.
stat_update(t) ==
  /\ m_stat_cache' = [m_stat_cache EXCEPT ![t] = m_stat[t]]
  /\ UNCHANGED m_stat

\* wait() reports nothing, and the timer of s_stat_update() has expired; it is
\* set again.
s_stat_update(t) ==
  /\ pc[t] = "wait" /\ m_stat_update
  /\ stat_update(t)
  /\ pc' = [pc EXCEPT ![t] = "while"]
  /\ UNCHANGED <<m_stat_update, main, stopper, m_stopped, ctrl, reader, m_stat_last>>

\* After the loop.
End(t) ==
  /\ pc[t] = "end"
  /\ m_stopped' = [m_stopped EXCEPT ![t] = TRUE]
  /\ pc' = [pc EXCEPT ![t] = "exited"]
  /\ UNCHANGED <<m_stat_update, main, stopper, ctrl, statVars>>

-----------------------------------------------------------------------------
(* srvr::get_stat(), by one caller at a time: m_stat_mutex is held.  A call *)
(* that is answered from the last totals changes nothing.                   *)

\* Mutant: the totals are added to what the last call found.
StatNotCleared == m_stat_last

\* ao_stat.clear()
ClearedStat == 0

get_stat ==
  /\ reader.at = 0
  /\ reader' = [at |-> 1, ao_stat |-> ClearedStat]
  /\ UNCHANGED <<m_stat_update, main, stopper, pc, m_stopped, ctrl, m_stat, m_stat_cache, m_stat_last>>

\* t_srvr::get_stat() of the next thread, and aggregate_stat().
aggregate_stat ==
  /\ reader.at \in Thread
  /\ reader' = [at |-> reader.at + 1,
                ao_stat |-> reader.ao_stat + m_stat_cache[reader.at]]
  /\ UNCHANGED <<m_stat_update, main, stopper, pc, m_stopped, ctrl, m_stat, m_stat_cache, m_stat_last>>

\* The rates are computed from m_req_delta, the difference to the last totals,
\* which are then replaced.
get_stat_done ==
  /\ reader.at = NumThreads + 1
  /\ m_stat_last' = reader.ao_stat
  /\ reader' = [at |-> 0, ao_stat |-> 0]
  /\ UNCHANGED <<m_stat_update, main, stopper, pc, m_stopped, ctrl, m_stat, m_stat_cache>>

-----------------------------------------------------------------------------

Stopper == StopFlag \/ StopSignal

t_run(t) == Start(t) \/ While(t) \/ Signalled(t) \/ s_stat_update(t) \/ End(t)

Next ==
  \/ run \/ wait_till_stopped
  \/ stop \/ Stopper
  \/ \E t \in Thread : t_run(t)
  \/ \E t \in Thread : Serve(t)
  \/ get_stat \/ aggregate_stat \/ get_stat_done

Spec == Init /\ [][Next]_vars

\* Threads run, and a wait() that has something to report returns.  Nobody
\* has to call stop() or get_stat(), or to send a request.
FairSpec ==
  /\ Spec
  /\ WF_vars(run \/ wait_till_stopped) /\ WF_vars(Stopper)
  /\ \A t \in Thread : WF_vars(t_run(t))

-----------------------------------------------------------------------------
(* Properties *)

\* srvr::is_running()
is_running == \E t \in Thread : ~m_stopped[t]

\* t_run() is past its start.
Running(t) == pc[t] \in {"while", "wait", "end"}

\* A thread that is past the start of t_run() when stop() sets its flag ends,
\* also one that is waiting with no timer pending and no traffic.
StopIsHeard == \A t \in Thread : (Running(t) /\ m_stopped[t]) ~> (pc[t] = "exited")

\* stop() called when every thread is past its start makes wait_till_stopped()
\* return, with is_running() false.
StopJoins ==
  (/\ stopper.call = "flag" /\ stopper.at = 1
   /\ \A t \in Thread : Running(t))
     ~> (main.call = "done" /\ ~is_running)

\* The totals that get_stat() reports never go back, so that m_req_delta, an
\* unsigned difference, is the number of requests since the last call.
StatsGrow == [][m_stat_last' >= m_stat_last]_vars

\* What the first n threads of the list have together, and all of them.
Sums(f) == LET sum[n \in 0 .. NumThreads] == IF n = 0 THEN 0 ELSE sum[n - 1] + f[n] IN sum
Total(f) == Sums(f)[NumThreads]

\* get_stat() never reports, nor has added up so far, more requests than the
\* threads have served, although each cache is read at another time.
StatsHonest == m_stat_last <= Total(m_stat) /\ reader.ao_stat <= Total(m_stat)

\* t_srvr::stop() is heard, and wait_till_stopped() returns.
StopWorks == StopIsHeard /\ StopJoins
==============================================================================
