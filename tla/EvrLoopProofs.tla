---------------------------- MODULE EvrLoopProofs ----------------------------
(***************************************************************************)
(* Proofs about the timer events, for any number of events, any delays,    *)
(* any width of the timeout and any bound on the clock.                    *)
(***************************************************************************)
EXTENDS EvrLoop, TLAPS

-----------------------------------------------------------------------------
(* Type correctness *)

\* The timeout that dequeue_events() computes for an event that is not due is
\* the time until then as long as an int holds that, and it is a timeout in
\* any case.
LEMMA WaitTimeFits ==
  ASSUME NEW e, evr_event[e].m_time_ms \in Nat, now \in Nat
  PROVE  /\ WaitTime(e) \in Nat \cup {Forever}
         /\ LET diff == evr_event[e].m_time_ms - now IN
            diff >= 0 /\ 2 * diff < UintSpan => WaitTime(e) = diff
<1> DEFINE diff == evr_event[e].m_time_ms - now
<1>1. diff \in Int /\ UintSpan \in Nat /\ UintSpan > 0
  BY EvrAssumption
<1>2. diff % UintSpan \in 0 .. UintSpan - 1
  BY <1>1
<1>3. diff >= 0 /\ diff < UintSpan => diff % UintSpan = diff
  BY <1>1
<1>4. WaitTime(e) = IF 2 * (diff % UintSpan) < UintSpan THEN diff % UintSpan ELSE Forever
  BY DEF WaitTime
<1> HIDE DEF diff
<1>5. WaitTime(e) \in Nat \cup {Forever}
  BY <1>1, <1>2, <1>4
<1>6. diff >= 0 /\ 2 * diff < UintSpan => WaitTime(e) = diff
  BY <1>1, <1>2, <1>3, <1>4
<1> QED
  BY <1>5, <1>6 DEF diff

\* No operation of evr_loop leaves the types of its state.
LEMMA TypeStep ==
  ASSUME TypeOK, QueueOwnsEvents, [Next]_vars
  PROVE  TypeOK'
<1> USE EvrAssumption DEF TypeOK, EventRecord
<1>1. ASSUME NEW d \in Delay, add_event(d)
      PROVE  TypeOK'
  <2>1. d \in Nat
    OBVIOUS
  <2>2. PICK e \in Event \ DOMAIN evr_event :
          /\ evr_event' = [f \in DOMAIN evr_event \cup {e} |->
               IF f = e THEN [m_time_ms |-> now + d, m_state |-> "ACTIVE", far |-> d]
                        ELSE evr_event[f]]
          /\ m_event_pq' = m_event_pq \cup {e}
    BY <1>1 DEF add_event
  <2>3. DOMAIN evr_event' = DOMAIN evr_event \cup {e}
    BY <2>2
  <2>4. evr_event' \in [DOMAIN evr_event' -> EventRecord]
    BY <2>1, <2>2, <2>3
  <2> QED
    BY <1>1, <2>2, <2>3, <2>4 DEF add_event
<1>2. ASSUME NEW e \in m_event_pq \cup ({l_event} \ {NoEvent}), cancel_event(e)
      PROVE  TypeOK'
  BY <1>2 DEF cancel_event, QueueOwnsEvents
<1>3. CASE LoopStep
  <2>1. CASE Start
    BY <2>1 DEF Start
  <2>2. CASE DropCancelled
    BY <2>2 DEF DropCancelled, Delete, Tops
  <2>3. CASE Service
    BY <2>3 DEF Service, Tops, QueueOwnsEvents
  <2>4. CASE ServiceEnd
    BY <2>4 DEF ServiceEnd, Delete
  <2>5. CASE NotDue
    <3>1. PICK e \in Tops : Return(WaitTime(e))
      BY <2>5 DEF NotDue
    <3>2. WaitTime(e) \in Nat \cup {Forever}
      BY <3>1, WaitTimeFits DEF Tops, QueueOwnsEvents
    <3> QED
      BY <2>5, <3>1, <3>2 DEF NotDue, Return
  <2>6. CASE Empty
    BY <2>6 DEF Empty, Return
  <2>7. CASE TimedOut
    BY <2>7 DEF TimedOut
  <2>8. CASE FdsServed
    BY <2>8 DEF FdsServed
  <2> QED
    BY <1>3, <2>1, <2>2, <2>3, <2>4, <2>5, <2>6, <2>7, <2>8 DEF LoopStep
<1>4. CASE WaitReturns
  BY <1>4 DEF WaitReturns
<1>5. CASE Tick
  BY <1>5 DEF Tick, Forever
<1>6. CASE SetClock
  <2>1. PICK t \in 0..MaxTime :
          /\ now' = t
          /\ jumped' \subseteq Jumps
          /\ evr_event' = [e \in DOMAIN evr_event |-> [evr_event[e] EXCEPT !.far =
               IF @ < evr_event[e].m_time_ms - t THEN evr_event[e].m_time_ms - t ELSE @]]
    BY <1>6 DEF SetClock
  <2>2. evr_event' \in [DOMAIN evr_event' -> EventRecord]
    BY <2>1
  <2> QED
    BY <1>6, <2>1, <2>2 DEF SetClock
<1>7. CASE UNCHANGED vars
  BY <1>7 DEF vars
<1> QED
  BY <1>1, <1>2, <1>3, <1>4, <1>5, <1>6, <1>7 DEF Next

-----------------------------------------------------------------------------
(* Ownership *)

\* No operation of evr_loop leaks an event or keeps a deleted one queued.
LEMMA OwnsStep ==
  ASSUME TypeOK, QueueOwnsEvents, [Next]_vars
  PROVE  QueueOwnsEvents'
<1> USE EvrAssumption DEF TypeOK, QueueOwnsEvents
<1>1. ASSUME NEW d \in Delay, add_event(d)
      PROVE  QueueOwnsEvents'
  BY <1>1 DEF add_event
<1>2. ASSUME NEW e \in m_event_pq \cup ({l_event} \ {NoEvent}), cancel_event(e)
      PROVE  QueueOwnsEvents'
  BY <1>2 DEF cancel_event
<1>3. CASE LoopStep
  <2>1. CASE DropCancelled
    BY <2>1 DEF DropCancelled, Delete, Tops, Dequeuing
  <2>2. CASE Service
    BY <2>2 DEF Service, Tops, Dequeuing
  <2>3. CASE ServiceEnd
    BY <2>3 DEF ServiceEnd, Delete
  <2>4. CASE Start \/ NotDue \/ Empty \/ TimedOut \/ FdsServed
    BY <2>4 DEF Start, NotDue, Empty, TimedOut, FdsServed
  <2> QED
    BY <1>3, <2>1, <2>2, <2>3, <2>4 DEF LoopStep
<1>4. CASE WaitReturns \/ Tick \/ UNCHANGED vars
  BY <1>4 DEF WaitReturns, Tick, vars
<1>5. CASE SetClock
  BY <1>5 DEF SetClock
<1> QED
  BY <1>1, <1>2, <1>3, <1>4, <1>5 DEF Next

\* Type correctness of evr_loop, and its ownership of events: the queue holds
\* live events only and none is lost before it is deleted.
THEOREM EventOwnership == Spec => [](TypeOK /\ QueueOwnsEvents)
<1>1. Init => TypeOK /\ QueueOwnsEvents
  BY EvrAssumption, DOMAIN << >> = {} DEF Init, TypeOK, QueueOwnsEvents
<1>2. TypeOK /\ QueueOwnsEvents /\ [Next]_vars => (TypeOK /\ QueueOwnsEvents)'
  BY TypeStep, OwnsStep
<1> QED
  BY <1>1, <1>2, PTL DEF Spec

\* evr_loop's members keep their types, whatever the callbacks add and cancel.
THEOREM EventTypes == Spec => []TypeOK
BY EventOwnership, PTL

-----------------------------------------------------------------------------
(* Order and wake-up *)

\* An event keeps its time for as long as it is in the queue; what it has in
\* the way of distance only grows; and an event that joins the queue is due
\* its delay from now.
KeepsTimes ==
  \A e \in m_event_pq' :
    IF e \in m_event_pq
    THEN /\ evr_event'[e].m_time_ms = evr_event[e].m_time_ms
         /\ evr_event[e].far <= evr_event'[e].far
         /\ evr_event'[e].m_state = "ACTIVE" => evr_event[e].m_state = "ACTIVE"
    ELSE now <= evr_event'[e].m_time_ms

\* No distance that the clock has had from an event is forgotten.
FarBounds ==
  \A e \in m_event_pq : evr_event[e].m_time_ms - now <= evr_event[e].far

\* Every operation of evr_loop leaves the times in the queue alone.
LEMMA KeepsTimesStep ==
  ASSUME TypeOK, QueueOwnsEvents, [Next]_vars
  PROVE  KeepsTimes
<1> USE EvrAssumption DEF TypeOK, QueueOwnsEvents, EventRecord, KeepsTimes
<1>1. ASSUME NEW d \in Delay, add_event(d)
      PROVE  KeepsTimes
  BY <1>1 DEF add_event
<1>2. ASSUME NEW e \in m_event_pq \cup ({l_event} \ {NoEvent}), cancel_event(e)
      PROVE  KeepsTimes
  BY <1>2 DEF cancel_event
<1>3. CASE LoopStep
  <2>1. CASE DropCancelled
    BY <2>1 DEF DropCancelled, Delete, Tops
  <2>2. CASE Service
    BY <2>2 DEF Service, Tops
  <2>3. CASE ServiceEnd
    BY <2>3 DEF ServiceEnd, Delete
  <2>4. CASE Start \/ NotDue \/ Empty \/ TimedOut \/ FdsServed
    BY <2>4 DEF Start, NotDue, Empty, TimedOut, FdsServed
  <2> QED
    BY <1>3, <2>1, <2>2, <2>3, <2>4 DEF LoopStep
<1>4. CASE WaitReturns \/ Tick \/ UNCHANGED vars
  BY <1>4 DEF WaitReturns, Tick, vars
<1>5. CASE SetClock
  BY <1>5 DEF SetClock
<1> QED
  BY <1>1, <1>2, <1>3, <1>4, <1>5 DEF Next

\* How the clock moves: on, unless it is set back.
LEMMA ClockStep ==
  ASSUME TypeOK, [Next]_vars
  PROVE  /\ jumped \subseteq jumped'
         /\ "back" \notin jumped' => now <= now'
         /\ "forward" \notin jumped' /\ ~Tick => now' <= now
<1>1. CASE UNCHANGED <<now, jumped>>
  BY <1>1 DEF TypeOK
<1>2. CASE Tick
  BY <1>2 DEF TypeOK, Tick
<1>3. CASE SetClock
  BY <1>3, EvrAssumption DEF TypeOK, SetClock
<1> QED
  BY <1>1, <1>2, <1>3 DEF Next, LoopStep, add_event, cancel_event, Start,
     DropCancelled, Service, ServiceEnd, NotDue, Empty, TimedOut, FdsServed,
     WaitReturns, vars

\* The order made inductive: what was served last was due, too.
InOrder == ServedInOrder /\ ("back" \notin jumped => served <= now)

\* No operation serves an event out of order.
LEMMA InOrderStep ==
  ASSUME TypeOK, QueueOwnsEvents, InOrder, [Next]_vars
  PROVE  InOrder'
<1> SUFFICES ASSUME "back" \notin jumped'
             PROVE  /\ served' <= now'
                    /\ \A e \in m_event_pq' : served' <= evr_event'[e].m_time_ms
  BY DEF InOrder, ServedInOrder
<1>1. "back" \notin jumped /\ now <= now'
  BY ClockStep
<1>2. /\ served <= now
      /\ \A e \in m_event_pq : served <= evr_event[e].m_time_ms
  BY <1>1 DEF InOrder, ServedInOrder
<1>3. now \in Nat /\ now' \in Nat /\ served \in Nat
      /\ \A e \in m_event_pq' : evr_event'[e].m_time_ms \in Nat
  BY TypeStep, OwnsStep DEF TypeOK, QueueOwnsEvents, EventRecord
<1>4. KeepsTimes
  BY KeepsTimesStep
<1>5. CASE Service
  <2>1. PICK e \in Tops : /\ evr_event[e].m_time_ms <= now
                          /\ m_event_pq' = m_event_pq \ {e}
                          /\ served' = evr_event[e].m_time_ms
    BY <1>5, <1>3 DEF Service, Tops, TypeOK, QueueOwnsEvents, EventRecord
  <2>2. \A f \in m_event_pq : evr_event[e].m_time_ms <= evr_event[f].m_time_ms
    BY <2>1 DEF Tops
  <2> QED
    BY <1>1, <1>3, <1>4, <1>5, <2>1, <2>2 DEF KeepsTimes, Service
<1>6. CASE served' = served
  BY <1>1, <1>2, <1>3, <1>4, <1>6 DEF KeepsTimes
<1> QED
  BY <1>5, <1>6 DEF Next, LoopStep, add_event, cancel_event, Start, DropCancelled,
     ServiceEnd, NotDue, Empty, TimedOut, FdsServed, WaitReturns, Tick, SetClock, vars

\* dequeue_events() runs callbacks in the order of the times asked for, unless
\* the real-time clock is set back.
THEOREM CallbackOrder == Spec => []ServedInOrder
<1>1. Init => InOrder
  BY DEF Init, InOrder, ServedInOrder
<1>2. TypeOK /\ QueueOwnsEvents /\ InOrder /\ [Next]_vars => InOrder'
  BY InOrderStep
<1>3. InOrder => ServedInOrder
  BY DEF InOrder
<1> QED
  BY <1>1, <1>2, <1>3, EventOwnership, PTL DEF Spec

\* The wake-up made inductive: no callback runs while the thread waits, and
\* far is as far as it says.
Wakes ==
  /\ WakesInTime
  /\ loop = "wait" => l_event = NoEvent
  /\ FarBounds

\* The distance kept with an event bounds the distance it has after any step.
LEMMA FarBoundsStep ==
  ASSUME TypeOK, QueueOwnsEvents, FarBounds, [Next]_vars
  PROVE  FarBounds'
<1> SUFFICES ASSUME NEW e \in m_event_pq'
             PROVE  evr_event'[e].m_time_ms - now' <= evr_event'[e].far
  BY DEF FarBounds
<1> DEFINE r == evr_event[e]
           s == evr_event'[e]
<1>1. /\ now \in Nat /\ now' \in Nat
      /\ s.m_time_ms \in Nat /\ s.far \in Int
      /\ e \in m_event_pq => r.m_time_ms \in Nat /\ r.far \in Int
  BY TypeStep, OwnsStep DEF TypeOK, QueueOwnsEvents, EventRecord
<1>2. e \in m_event_pq => /\ s.m_time_ms = r.m_time_ms
                          /\ r.far <= s.far
                          /\ r.m_time_ms - now <= r.far
  BY KeepsTimesStep DEF KeepsTimes, FarBounds
<1>3. ASSUME NEW d \in Delay, add_event(d)
      PROVE  s.m_time_ms - now' <= s.far
  <2>1. d \in Nat /\ now' = now
    BY <1>3, EvrAssumption DEF add_event
  <2>2. e \notin m_event_pq => s.m_time_ms = now + d /\ s.far = d
    BY <1>3 DEF add_event
  <2> QED
    BY <1>1, <1>2, <2>1, <2>2
<1>4. CASE now <= now' /\ e \in m_event_pq
  BY <1>1, <1>2, <1>4
<1>5. CASE SetClock
  <2>1. PICK t \in 0..MaxTime :
          /\ now' = t
          /\ evr_event' = [f \in DOMAIN evr_event |-> [evr_event[f] EXCEPT !.far =
               IF @ < evr_event[f].m_time_ms - t THEN evr_event[f].m_time_ms - t ELSE @]]
    BY <1>5 DEF SetClock
  <2>2. e \in m_event_pq /\ e \in DOMAIN evr_event
    BY <1>5 DEF SetClock, QueueOwnsEvents
  <2>3. /\ s.far = IF r.far < r.m_time_ms - t THEN r.m_time_ms - t ELSE r.far
        /\ s.m_time_ms = r.m_time_ms
    BY <2>1, <2>2 DEF TypeOK, EventRecord
  <2> QED
    BY <1>1, <2>1, <2>2, <2>3
<1>6. ASSUME ~SetClock, \A d \in Delay : ~add_event(d)
      PROVE  now <= now' /\ e \in m_event_pq
  BY <1>1, <1>6 DEF Next, LoopStep, cancel_event, Start, DropCancelled, Service,
     ServiceEnd, NotDue, Empty, TimedOut, FdsServed, WaitReturns, Tick, vars
<1> QED
  BY <1>3, <1>4, <1>5, <1>6

\* dequeue_events() enters the wait with a timeout that ends by the time of
\* every event whose distance fits, since none is earlier than the top.
LEMMA NotDueWakes ==
  ASSUME TypeOK, QueueOwnsEvents, FarBounds, NotDue, loop' = "wait",
         NEW f \in Timely
  PROVE  timeout' # Forever /\ now + timeout' <= evr_event[f].m_time_ms
<1>1. loop = "first"
  BY DEF NotDue, Dequeuing, Return
<1>2. PICK e \in Tops : /\ now < evr_event[e].m_time_ms
                        /\ timeout' = WaitTime(e)
  BY <1>1 DEF NotDue, Return
<1>3. /\ e \in m_event_pq /\ f \in m_event_pq
      /\ evr_event[e].m_time_ms <= evr_event[f].m_time_ms
      /\ evr_event[f].m_time_ms - now <= evr_event[f].far
      /\ 2 * evr_event[f].far < UintSpan
  BY <1>2 DEF Tops, Timely, Pending, FarBounds
<1>4. /\ now \in Nat /\ evr_event[e].m_time_ms \in Nat
      /\ evr_event[f].m_time_ms \in Nat /\ evr_event[f].far \in Int
      /\ UintSpan \in Nat
  BY <1>3, EvrAssumption DEF TypeOK, QueueOwnsEvents, EventRecord
<1> DEFINE diff == evr_event[e].m_time_ms - now
<1>5. diff \in Int /\ diff > 0 /\ 2 * diff < UintSpan
  BY <1>2, <1>3, <1>4
<1>6. WaitTime(e) = diff
  BY <1>4, <1>5, WaitTimeFits
<1> QED
  BY <1>2, <1>3, <1>4, <1>5, <1>6 DEF Forever

\* No operation lets the thread sleep past a timer.
LEMMA WakesStep ==
  ASSUME TypeOK, QueueOwnsEvents, Wakes, [Next]_vars
  PROVE  Wakes'
<1>1. FarBounds'
  BY FarBoundsStep DEF Wakes
<1>2. loop' = "wait" => l_event' = NoEvent
  BY DEF Wakes, Next, LoopStep, add_event, cancel_event, Start, DropCancelled,
     Service, ServiceEnd, NotDue, Empty, TimedOut, FdsServed, WaitReturns, Tick,
     SetClock, vars, Dequeuing
<1>3. ASSUME loop' = "wait", "forward" \notin jumped', NEW e \in Timely'
      PROVE  /\ timeout' # Forever
             /\ timeout' > 0 => now' + timeout' <= evr_event'[e].m_time_ms
  <2>1. /\ now \in Nat /\ now' \in Nat /\ UintSpan \in Nat
        /\ timeout \in Nat \cup {Forever} /\ timeout' \in Nat \cup {Forever}
        /\ e \in m_event_pq'
        /\ e \in m_event_pq => evr_event[e].far \in Int /\ evr_event'[e].far \in Int
                                /\ evr_event[e].m_time_ms \in Nat
    BY <1>3, TypeStep, OwnsStep, EvrAssumption
       DEF TypeOK, QueueOwnsEvents, EventRecord, Timely, Pending
  <2>2. e \in m_event_pq => e \in Timely /\ evr_event'[e].m_time_ms = evr_event[e].m_time_ms
    BY <1>3, <2>1, KeepsTimesStep DEF KeepsTimes, Timely, Pending
  <2>3. "forward" \notin jumped /\ (~Tick => now' <= now)
    BY <1>3, ClockStep
  <2>4. CASE NotDue
    BY <1>3, <2>1, <2>2, <2>4, NotDueWakes DEF NotDue, Wakes
  <2>5. CASE Empty
    BY <2>1, <2>5 DEF Empty
  <2>6. CASE loop = "wait"
    <3>1. /\ m_event_pq' = m_event_pq
          /\ Tick \/ timeout' = timeout
      BY <1>3, <2>6 DEF Wakes, UserCode, Next, LoopStep, add_event, cancel_event,
         Start, DropCancelled, Service, ServiceEnd, NotDue, Empty, TimedOut,
         FdsServed, WaitReturns, SetClock, Tick, vars, Dequeuing
    <3>2. /\ timeout # Forever
          /\ timeout > 0 => now + timeout <= evr_event[e].m_time_ms
      BY <2>1, <2>2, <2>3, <2>6, <3>1 DEF Wakes, WakesInTime
    <3>3. CASE Tick
      BY <2>1, <2>2, <3>1, <3>2, <3>3 DEF Tick, Forever
    <3> QED
      BY <2>1, <2>2, <2>3, <3>1, <3>2, <3>3 DEF Forever
  <2>7. loop = "wait" \/ NotDue \/ Empty
    BY <1>3 DEF Next, LoopStep, add_event, cancel_event, Start, DropCancelled,
       Service, ServiceEnd, TimedOut, FdsServed, WaitReturns, Tick, SetClock, vars
  <2> QED
    BY <2>4, <2>5, <2>6, <2>7
<1> QED
  BY <1>1, <1>2, <1>3 DEF Wakes, WakesInTime

\* run() never sleeps past a timer that an int can express the distance of,
\* unless the real-time clock is set forward.
THEOREM WakeUp == Spec => []WakesInTime
<1>1. Init => Wakes
  BY DEF Init, Wakes, WakesInTime, FarBounds
<1>2. TypeOK /\ QueueOwnsEvents /\ Wakes /\ [Next]_vars => Wakes'
  BY WakesStep
<1>3. Wakes => WakesInTime
  BY DEF Wakes
<1> QED
  BY <1>1, <1>2, <1>3, EventOwnership, PTL DEF Spec
==============================================================================
