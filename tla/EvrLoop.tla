------------------------------- MODULE EvrLoop -------------------------------
(***************************************************************************)
(* The timer events of one server thread: src/evr/evr.cc.  add_event()     *)
(* puts an event into a priority queue ordered by the time it is due,      *)
(* cancel_event() only marks it, and run() calls dequeue_events(), which   *)
(* serves what is due and tells how long to wait for descriptors.          *)
(*                                                                         *)
(* An event is an object on the heap, named here by its address.  The      *)
(* callbacks of events and descriptors are any program that adds and       *)
(* cancels events; modules UpsSession and Proxy model the real ones.       *)
(*                                                                         *)
(* get_time_ms() reads CLOCK_REALTIME, which an administrator or NTP may   *)
(* set forward and back, while the kernel counts the timeout of wait() on  *)
(* a clock that only advances.  A millisecond passes between any two steps *)
(* or not at all: the time from reading the clock to entering wait() is    *)
(* below that.                                                             *)
(***************************************************************************)
EXTENDS Integers

CONSTANTS
  Event,     \* heap addresses an evr_event can have
  Delay,     \* the values of a_time_ms that callers ask for
  UintSpan,  \* how many values the uint32_t that holds a timeout has (2^32)
  NoEvent,   \* a NULL pointer
  MaxTime,   \* bound on the clock
  Jumps      \* the ways the clock may be set, once each: "forward", "back"

ASSUME EvrAssumption ==
  /\ Delay \subseteq Nat
  /\ UintSpan \in Nat \ {0, 1}
  /\ NoEvent \notin Event
  /\ MaxTime \in Nat
  /\ Jumps \subseteq {"forward", "back"}

\* EVR_DEFAULT_TIME_WAIT_MS, and every other negative timeout.
Forever == -1

VARIABLES
  now,         \* what get_time_ms() returns
  jumped,      \* the ways the clock has been set so far
  evr_event,   \* live evr_event objects: address -> record
  m_event_pq,  \* the addresses in the priority queue
  l_event,     \* the event whose callback is running, or NoEvent
  loop,        \* where the thread is
  timeout,     \* what is left of the timeout while in wait(), or Forever
  served       \* history: the m_time_ms of the callback run last

vars == <<now, jumped, evr_event, m_event_pq, l_event, loop, timeout, served>>

-----------------------------------------------------------------------------
(* Derived state *)

\* far is history: how far in the future the event has ever been.
EventRecord == [m_time_ms : Nat, m_state : {"ACTIVE", "CANCELLED"}, far : Int]

\* Mutant: the comparison of the priority queue is the other way round.
TopsMaxHeap ==
  {e \in m_event_pq : \A f \in m_event_pq :
     evr_event[f].m_time_ms <= evr_event[e].m_time_ms}

\* What m_event_pq.top() may return: std::priority_queue promises nothing
\* about events that are due at the same time.
Tops ==
  {e \in m_event_pq : \A f \in m_event_pq :
     evr_event[e].m_time_ms <= evr_event[f].m_time_ms}

\* Mutant: the difference is kept in one bit less.
WaitTimeNarrow(e) ==
  LET diff == (evr_event[e].m_time_ms - now) % (UintSpan \div 2)
  IN IF diff < UintSpan \div 4 THEN diff ELSE Forever

\* The timeout for the wait when e is at the top and not due: the uint64_t
\* difference kept in a uint32_t and passed as an int, negative from half of
\* its span on, which epoll_wait takes for no timeout.
WaitTime(e) ==
  LET diff == (evr_event[e].m_time_ms - now) % UintSpan
  IN IF 2 * diff < UintSpan THEN diff ELSE Forever

\* Callbacks run here: before the loop starts (t_run() arms the statistics
\* timer), from the queue, and for descriptors.
UserCode == l_event # NoEvent \/ loop \in {"setup", "fds"}

\* The thread is in one of the two calls of dequeue_events() in run().
Dequeuing == l_event = NoEvent /\ loop \in {"first", "second"}

-----------------------------------------------------------------------------
(* What callbacks do *)

Init ==
  /\ now = 0 /\ jumped = {}
  /\ evr_event = << >> /\ m_event_pq = {}
  /\ l_event = NoEvent /\ loop = "setup"
  /\ timeout = Forever /\ served = 0

\* Mutant: the delay is taken off the time.
AddEventBackwards(a_time_ms) ==
  /\ UserCode
  /\ \E e \in Event \ DOMAIN evr_event :
       /\ evr_event' = [f \in DOMAIN evr_event \cup {e} |->
            IF f = e THEN [m_time_ms |-> now - a_time_ms, m_state |-> "ACTIVE",
                           far |-> a_time_ms]
                     ELSE evr_event[f]]
       /\ m_event_pq' = m_event_pq \cup {e}
  /\ UNCHANGED <<now, jumped, l_event, loop, timeout, served>>

\* add_event(): a new event at some free address, pushed on the queue.
add_event(a_time_ms) ==
  /\ UserCode
  /\ \E e \in Event \ DOMAIN evr_event :
       /\ evr_event' = [f \in DOMAIN evr_event \cup {e} |->
            IF f = e THEN [m_time_ms |-> now + a_time_ms, m_state |-> "ACTIVE",
                           far |-> a_time_ms]
                     ELSE evr_event[f]]
       /\ m_event_pq' = m_event_pq \cup {e}
  /\ UNCHANGED <<now, jumped, l_event, loop, timeout, served>>

\* cancel_event(): the event is only marked; the queue keeps it.  Callers
\* forget an event they cancelled; one may cancel the event being served.
cancel_event(e) ==
  /\ UserCode
  /\ evr_event[e].m_state = "ACTIVE"
  /\ evr_event' = [evr_event EXCEPT ![e].m_state = "CANCELLED"]
  /\ UNCHANGED <<now, jumped, m_event_pq, l_event, loop, timeout, served>>

-----------------------------------------------------------------------------
(* The loop *)

\* delete of an event.
Delete(e) == evr_event' = [f \in DOMAIN evr_event \ {e} |-> evr_event[f]]

\* What dequeue_events() leads to when it returns: the first call to wait(),
\* the second, whose result is not used, to the end of run() and, since
\* t_run() calls it again, to the first call.
Return(l_time_diff_ms) ==
  IF loop = "first"
  THEN loop' = "wait" /\ timeout' = l_time_diff_ms
  ELSE loop' = "first" /\ UNCHANGED timeout

\* The loop starts.
Start ==
  /\ loop = "setup" /\ loop' = "first"
  /\ UNCHANGED <<now, jumped, evr_event, m_event_pq, l_event, timeout, served>>

\* A cancelled event at the top is deleted, whether or not it is due.
DropCancelled ==
  /\ Dequeuing
  /\ \E e \in Tops :
       /\ evr_event[e].m_state = "CANCELLED"
       /\ m_event_pq' = m_event_pq \ {e}
       /\ Delete(e)
  /\ UNCHANGED <<now, jumped, l_event, loop, timeout, served>>

\* An event that is due leaves the queue and its callback runs.
Service ==
  /\ Dequeuing
  /\ \E e \in Tops :
       /\ evr_event[e].m_state = "ACTIVE" /\ now >= evr_event[e].m_time_ms
       /\ m_event_pq' = m_event_pq \ {e}
       /\ l_event' = e
       /\ served' = evr_event[e].m_time_ms
  /\ UNCHANGED <<now, jumped, evr_event, loop, timeout>>

\* Mutant: an event is forgotten, not deleted.
ServiceEndLeaks ==
  /\ l_event # NoEvent
  /\ l_event' = NoEvent
  /\ UNCHANGED <<now, jumped, evr_event, m_event_pq, loop, timeout, served>>

\* The callback has returned: the event is deleted.
ServiceEnd ==
  /\ l_event # NoEvent
  /\ Delete(l_event)
  /\ l_event' = NoEvent
  /\ UNCHANGED <<now, jumped, m_event_pq, loop, timeout, served>>

\* Mutant: the time to wait is computed only for an empty queue.
NotDueDefault ==
  /\ Dequeuing
  /\ \E e \in Tops :
       /\ evr_event[e].m_state = "ACTIVE" /\ now < evr_event[e].m_time_ms
       /\ Return(Forever)
  /\ UNCHANGED <<now, jumped, evr_event, m_event_pq, l_event, served>>

\* The event at the top is not due: the time until then is the timeout.
NotDue ==
  /\ Dequeuing
  /\ \E e \in Tops :
       /\ evr_event[e].m_state = "ACTIVE" /\ now < evr_event[e].m_time_ms
       /\ Return(WaitTime(e))
  /\ UNCHANGED <<now, jumped, evr_event, m_event_pq, l_event, served>>

\* The queue is empty.
Empty ==
  /\ Dequeuing
  /\ m_event_pq = {}
  /\ Return(Forever)
  /\ UNCHANGED <<now, jumped, evr_event, m_event_pq, l_event, served>>

\* wait() returns no event at its timeout: dequeue_events() is called again.
TimedOut ==
  /\ loop = "wait" /\ timeout = 0
  /\ loop' = "second" /\ timeout' = Forever
  /\ UNCHANGED <<now, jumped, evr_event, m_event_pq, l_event, served>>

\* wait() returns descriptors, whose callbacks run, or fails, which ends
\* run(); t_run() calls it again whatever it returned.
WaitReturns ==
  /\ loop = "wait"
  /\ loop' \in {"fds", "first"} /\ timeout' = Forever
  /\ UNCHANGED <<now, jumped, evr_event, m_event_pq, l_event, served>>

\* The last descriptor has been served, and run() returns and is called again.
FdsServed ==
  /\ loop = "fds"
  /\ loop' = "first"
  /\ UNCHANGED <<now, jumped, evr_event, m_event_pq, l_event, timeout, served>>

-----------------------------------------------------------------------------
(* The clocks *)

\* A millisecond passes.  At the bound the clock stands still, and the
\* kernel's timeouts go on.
Tick ==
  /\ now < MaxTime \/ timeout > 0
  /\ now' = IF now < MaxTime THEN now + 1 ELSE now
  /\ timeout' = IF timeout > 0 THEN timeout - 1 ELSE timeout
  /\ UNCHANGED <<jumped, evr_event, m_event_pq, l_event, loop, served>>

\* The real-time clock is set to another time.
SetClock ==
  /\ \E t \in 0..MaxTime :
       LET way == IF t > now THEN "forward" ELSE "back" IN
       /\ t # now /\ way \in Jumps \ jumped
       /\ jumped' = jumped \cup {way}
       /\ now' = t
       /\ evr_event' = [e \in DOMAIN evr_event |-> [evr_event[e] EXCEPT !.far =
            IF @ < evr_event[e].m_time_ms - t THEN evr_event[e].m_time_ms - t ELSE @]]
  /\ UNCHANGED <<m_event_pq, l_event, loop, timeout, served>>

-----------------------------------------------------------------------------

\* The steps the thread takes by itself.
LoopStep ==
  \/ Start \/ DropCancelled \/ Service \/ ServiceEnd \/ NotDue \/ Empty
  \/ TimedOut \/ FdsServed

Next ==
  \/ \E a_time_ms \in Delay : add_event(a_time_ms)
  \/ \E e \in m_event_pq \cup ({l_event} \ {NoEvent}) : cancel_event(e)
  \/ LoopStep
  \/ WaitReturns
  \/ Tick
  \/ SetClock

Spec == Init /\ [][Next]_vars

\* The thread is scheduled and its callbacks return; time passes.  Nothing is
\* assumed of descriptors.
FairSpec == Spec /\ WF_vars(LoopStep) /\ WF_vars(Tick)

-----------------------------------------------------------------------------
(* Properties *)

\* Events that are to be served.
Pending == {e \in m_event_pq : evr_event[e].m_state = "ACTIVE"}

\* Those whose distance always fitted the int that wait() is given.
Timely == {e \in Pending : 2 * evr_event[e].far < UintSpan}

\* The variables keep their types.
TypeOK ==
  /\ now \in Nat /\ served \in Nat
  /\ jumped \subseteq Jumps
  /\ DOMAIN evr_event \subseteq Event
  /\ evr_event \in [DOMAIN evr_event -> EventRecord]
  /\ m_event_pq \subseteq Event
  /\ l_event \in Event \cup {NoEvent}
  /\ loop \in {"setup", "first", "wait", "second", "fds"}
  /\ timeout \in Nat \cup {Forever}

\* Every event add_event() created is deleted once, after its callback ran or
\* it was cancelled: the queue holds live events only, and a live event is in
\* the queue or is the one being served.
QueueOwnsEvents ==
  /\ DOMAIN evr_event = m_event_pq \cup ({l_event} \ {NoEvent})
  /\ l_event \notin m_event_pq

\* dequeue_events() runs callbacks in the order of the times that were asked
\* for, across calls, waits and events added meanwhile, unless the real-time
\* clock is set back.
ServedInOrder ==
  "back" \notin jumped =>
    \A e \in m_event_pq : served <= evr_event[e].m_time_ms

\* run() never sleeps past a timer, whatever else is queued, cancelled or too
\* far away for an int, unless the real-time clock is set forward.
WakesInTime ==
  loop = "wait" /\ "forward" \notin jumped =>
    \A e \in Timely :
      /\ timeout # Forever
      /\ timeout > 0 => now + timeout <= evr_event[e].m_time_ms

\* A timer fires in the end, or is cancelled, though callbacks queue events for
\* now again and again, descriptors stay silent and the clock is set: no event
\* starves in dequeue_events() or behind a wait() without timeout.
TimersFire ==
  \A e \in Event :
    (e \in Timely /\ evr_event[e].m_time_ms < MaxTime) ~> (e \notin Timely)
==============================================================================
