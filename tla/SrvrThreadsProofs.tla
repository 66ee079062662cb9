------------------------- MODULE SrvrThreadsProofs -------------------------
(***************************************************************************)
(* Proofs about the threads of a server, for any number of threads and     *)
(* requests: the totals that get_stat() reports, and that a thread does    *)
(* not sleep through stop().                                               *)
(***************************************************************************)
EXTENDS SrvrThreads, WellFoundedInduction, TLAPS

----------------------------------------------------------------------------
(* The natural numbers *)

\* A set of natural numbers that is not empty has a least element.
LEMMA LeastElement ==
  ASSUME NEW S \in SUBSET Nat, S # {}
  PROVE  \E x \in S : \A y \in S : x <= y
<1>1. PICK x \in S : \A y \in S : ~(<<y, x>> \in OpToRel(<, Nat))
  BY NatLessThanWellFounded, WFMin
<1>2. \A y \in S : ~(y < x)
  BY <1>1, Zenon DEF OpToRel
<1> QED
  BY <1>2

\* Induction on the natural numbers, for a set: what holds of 0 and of each
\* number's successor holds of all, since there is no least exception.
LEMMA SetInduction ==
  ASSUME NEW S \in SUBSET Nat, 0 \in S, \A n \in S : n + 1 \in S
  PROVE  S = Nat
<1> SUFFICES ASSUME Nat \ S # {} PROVE FALSE
  OBVIOUS
<1>1. PICK x \in Nat \ S : \A y \in Nat \ S : x <= y
  BY LeastElement
<1>2. x - 1 \in Nat /\ x - 1 < x
  OBVIOUS
<1>3. x - 1 \in S
  BY <1>1, <1>2
<1>4. (x - 1) + 1 \in S
  BY <1>3
<1>5. (x - 1) + 1 = x
  OBVIOUS
<1> QED
  BY <1>4, <1>5

----------------------------------------------------------------------------
(* Sums *)

\* The equation that defines the sums has a solution.
LEMMA SumsEquation ==
  ASSUME NEW f
  PROVE  Sums(f) = [n \in 0 .. NumThreads |-> IF n = 0 THEN 0 ELSE Sums(f)[n - 1] + f[n]]
<1> DEFINE Solves(s, m) == s = [n \in 0 .. m |-> IF n = 0 THEN 0 ELSE s[n - 1] + f[n]]
           S == {m \in Nat : \E s : Solves(s, m)}
<1>1. 0 \in S
  <2>1. Solves([n \in 0 .. 0 |-> 0], 0)
    OBVIOUS
  <2> QED
    BY <2>1
<1>2. ASSUME NEW m \in S PROVE m + 1 \in S
  <2>1. PICK s : Solves(s, m)
    OBVIOUS
  <2> DEFINE r == [n \in 0 .. m + 1 |-> IF n = m + 1 THEN s[m] + f[m + 1] ELSE s[n]]
  <2>2. \A n \in 0 .. m : r[n] = s[n]
    OBVIOUS
  <2>3. ASSUME NEW n \in 0 .. m + 1
        PROVE  r[n] = IF n = 0 THEN 0 ELSE r[n - 1] + f[n]
    <3>1. CASE n = m + 1
      BY <2>2, <3>1
    <3>2. CASE n \in 0 .. m
      <4>1. s[n] = IF n = 0 THEN 0 ELSE s[n - 1] + f[n]
        BY <2>1, <3>2
      <4> QED
        BY <2>2, <3>2, <4>1
    <3> QED
      BY <3>1, <3>2
  <2>4. Solves(r, m + 1)
    <3>1. r = [n \in 0 .. m + 1 |-> r[n]]
      OBVIOUS
    <3> HIDE DEF r
    <3> QED
      BY <2>3, <3>1
  <2>5. m + 1 \in Nat
    OBVIOUS
  <2> HIDE DEF r, Solves
  <2> QED
    BY <2>4, <2>5
<1>3. NumThreads \in S
  <2> HIDE DEF S
  <2>1. S \in SUBSET Nat
    BY DEF S
  <2> QED
    BY <1>1, <1>2, <2>1, SetInduction, ThreadsAssumption
<1>4. \E s : Solves(s, NumThreads)
  BY <1>3
<1> QED
  BY <1>4 DEF Sums

\* The sum of the first n threads, step by step.
LEMMA SumsStep ==
  ASSUME NEW f
  PROVE  /\ Sums(f)[0] = 0
         /\ \A n \in 1 .. NumThreads : Sums(f)[n] = Sums(f)[n - 1] + f[n]
<1> HIDE DEF Sums
<1>1. \A n \in 0 .. NumThreads : Sums(f)[n] = IF n = 0 THEN 0 ELSE Sums(f)[n - 1] + f[n]
  BY SumsEquation
<1> QED
  BY <1>1, ThreadsAssumption

\* Sums of counters are counters.
LEMMA SumsNat ==
  ASSUME NEW f \in [Thread -> Nat]
  PROVE  \A n \in 0 .. NumThreads : Sums(f)[n] \in Nat
<1> HIDE DEF Sums
<1> DEFINE S == {n \in Nat : n <= NumThreads => Sums(f)[n] \in Nat}
<1>1. 0 \in S
  BY SumsStep
<1>2. ASSUME NEW n \in S PROVE n + 1 \in S
  <2>1. SUFFICES ASSUME n + 1 <= NumThreads PROVE Sums(f)[n + 1] \in Nat
    OBVIOUS
  <2>2. Sums(f)[n + 1] = Sums(f)[(n + 1) - 1] + f[n + 1]
    BY <2>1, SumsStep, ThreadsAssumption
  <2>3. Sums(f)[n] \in Nat /\ f[n + 1] \in Nat
    BY <2>1, ThreadsAssumption DEF Thread
  <2>4. (n + 1) - 1 = n
    OBVIOUS
  <2> QED
    BY <2>2, <2>3, <2>4
<1>3. S = Nat
  <2>1. S \in SUBSET Nat
    OBVIOUS
  <2> HIDE DEF S
  <2> QED
    BY <1>1, <1>2, <2>1, SetInduction
<1> QED
  BY <1>3, ThreadsAssumption

\* A sum is at most another one when each of its counters is.
LEMMA SumsMonotonic ==
  ASSUME NEW f \in [Thread -> Nat], NEW g \in [Thread -> Nat], NEW m \in 0 .. NumThreads,
         \A t \in 1 .. m : f[t] <= g[t]
  PROVE  Sums(f)[m] <= Sums(g)[m]
<1> HIDE DEF Sums
<1> DEFINE S == {n \in Nat : n <= m => Sums(f)[n] <= Sums(g)[n]}
<1>1. 0 \in S
  BY SumsStep
<1>2. ASSUME NEW n \in S PROVE n + 1 \in S
  <2>1. SUFFICES ASSUME n + 1 <= m PROVE Sums(f)[n + 1] <= Sums(g)[n + 1]
    OBVIOUS
  <2>2. n + 1 \in 1 .. NumThreads /\ (n + 1) - 1 = n /\ n \in 0 .. NumThreads /\ n <= m
    BY <2>1, ThreadsAssumption
  <2>3. Sums(f)[n + 1] = Sums(f)[n] + f[n + 1] /\ Sums(g)[n + 1] = Sums(g)[n] + g[n + 1]
    BY <2>2, SumsStep
  <2>4. Sums(f)[n] \in Nat /\ Sums(g)[n] \in Nat
    BY <2>2, SumsNat
  <2>5. f[n + 1] \in Nat /\ g[n + 1] \in Nat /\ f[n + 1] <= g[n + 1]
    BY <2>1, <2>2 DEF Thread
  <2>6. Sums(f)[n] <= Sums(g)[n]
    BY <2>2
  <2> QED
    BY <2>3, <2>4, <2>5, <2>6
<1>3. S = Nat
  <2>1. S \in SUBSET Nat
    OBVIOUS
  <2> HIDE DEF S
  <2> QED
    BY <1>1, <1>2, <2>1, SetInduction
<1> QED
  BY <1>3

\* A sum over fewer threads is at most that over all.
LEMMA SumsGrow ==
  ASSUME NEW f \in [Thread -> Nat], NEW m \in 0 .. NumThreads
  PROVE  Sums(f)[m] <= Total(f)
<1> HIDE DEF Sums
<1> DEFINE S == {n \in Nat : n \in m .. NumThreads => Sums(f)[m] <= Sums(f)[n]}
<1>1. \A n \in 0 .. NumThreads : Sums(f)[n] \in Nat
  BY SumsNat
<1>2. 0 \in S
  BY <1>1
<1>3. ASSUME NEW n \in S PROVE n + 1 \in S
  <2>1. SUFFICES ASSUME n + 1 \in m .. NumThreads PROVE Sums(f)[m] <= Sums(f)[n + 1]
    OBVIOUS
  <2>2. CASE n + 1 = m
    BY <1>1, <2>2
  <2>3. CASE n + 1 # m
    <3>1. n \in m .. NumThreads /\ n + 1 \in 1 .. NumThreads /\ (n + 1) - 1 = n
      BY <2>1, <2>3, ThreadsAssumption
    <3>2. Sums(f)[n + 1] = Sums(f)[n] + f[n + 1] /\ f[n + 1] \in Nat
      BY <3>1, SumsStep DEF Thread
    <3>3. Sums(f)[m] <= Sums(f)[n] /\ Sums(f)[m] \in Nat /\ Sums(f)[n] \in Nat
      BY <1>1, <3>1
    <3> QED
      BY <3>2, <3>3
  <2> QED
    BY <2>2, <2>3
<1>4. S = Nat
  <2>1. S \in SUBSET Nat
    OBVIOUS
  <2> HIDE DEF S
  <2> QED
    BY <1>2, <1>3, <2>1, SetInduction
<1>5. NumThreads \in S /\ NumThreads \in m .. NumThreads
  BY <1>4, ThreadsAssumption
<1> QED
  BY <1>5 DEF Total

----------------------------------------------------------------------------
(* Statistics *)

\* Where the threads are, and that run() has not started the rest of its list.
Started ==
  /\ pc \in [Thread -> {"none", "t_run", "while", "wait", "end", "exited"}]
  /\ main \in [call : {"run", "join", "done"}, at : Thread]
  /\ main.call = "run" => \A t \in Thread : main.at <= t => pc[t] = "none"

\* The counters and their copies: a copy is never ahead, and a thread that has
\* not started has counted nothing.
Counted ==
  /\ m_stat \in [Thread -> Nat]
  /\ m_stat_cache \in [Thread -> Nat]
  /\ \A t \in Thread : m_stat_cache[t] <= m_stat[t]
  /\ \A t \in Thread : pc[t] \in {"none", "t_run"} => m_stat[t] = 0

\* The caller of get_stat().
Reader == reader \in [at : 0 .. NumThreads + 1, ao_stat : Nat] /\ m_stat_last \in Nat

StatsType == Started /\ Counted /\ Reader

\* What get_stat() has read: last, the copies that the last totals were added
\* up from, and cur, those of the call in progress.  Copies only grow, so a
\* thread's copy is at least what was read of it, and what the call in
\* progress has read is at least what the one before had.
ReadBy(last, cur) ==
  /\ m_stat_last = Total(last)
  /\ \A t \in Thread : last[t] <= m_stat_cache[t]
  /\ reader.at # 0 =>
       /\ reader.ao_stat = Sums(cur)[reader.at - 1]
       /\ \A t \in 1 .. reader.at - 1 : cur[t] <= m_stat_cache[t] /\ last[t] <= cur[t]
  /\ reader.at = 0 => reader.ao_stat = 0

StatsInv == StatsType /\ \E last, cur \in [Thread -> Nat] : ReadBy(last, cur)

\* run() and join() go through the list, and the threads through t_run().
LEMMA StartedStep ==
  ASSUME Started, [Next]_vars
  PROVE  /\ Started'
         /\ \A t \in Thread : pc'[t] \in {"none", "t_run"} => pc[t] \in {"none", "t_run"}
<1> DEFINE Old == \A t \in Thread : pc'[t] \in {"none", "t_run"} => pc[t] \in {"none", "t_run"}
<1>1. CASE run
  <2>1. main.at \in Thread /\ pc[main.at] = "none" /\ NumThreads \in Nat
    BY <1>1, ThreadsAssumption DEF run, Started, Thread
  <2>2. /\ pc' \in [Thread -> {"none", "t_run", "while", "wait", "end", "exited"}]
        /\ \A t \in Thread : t # main.at => pc'[t] = pc[t]
    BY <1>1, <2>1 DEF run, Started
  <2>3. CASE main.at = NumThreads
    <3>1. main' = [call |-> "join", at |-> 1] /\ 1 \in Thread
      BY <1>1, <2>3, ThreadsAssumption DEF run, Thread
    <3> QED
      BY <2>1, <2>2, <3>1 DEF Started
  <2>4. CASE main.at # NumThreads
    <3>1. /\ main' \in [call : {"run", "join", "done"}, at : Thread]
          /\ main'.at = main.at + 1 /\ main.at + 1 \in Thread
      BY <1>1, <2>1, <2>4 DEF run, Started, Thread
    <3>2. \A t \in Thread : main.at + 1 <= t => main.at <= t /\ t # main.at
      BY <2>1 DEF Thread
    <3>3. \A t \in Thread : main.at + 1 <= t => pc'[t] = "none"
      BY <1>1, <2>2, <3>2 DEF run, Started
    <3> QED
      BY <2>1, <2>2, <3>1, <3>3 DEF Started
  <2> QED
    BY <2>3, <2>4
<1>2. CASE wait_till_stopped
  <2>1. main' \in [call : {"join", "done"}, at : Thread]
    BY <1>2, ThreadsAssumption DEF wait_till_stopped, Started, Thread
  <2> QED
    BY <1>2, <2>1 DEF wait_till_stopped, Started
<1>3. ASSUME NEW t \in Thread, t_run(t) \/ Serve(t)
      PROVE  Started' /\ Old
  <2>1. /\ main' = main /\ pc[t] \in {"t_run", "while", "wait", "end"}
        /\ \E p \in {"while", "wait", "end", "exited"} : pc' = [pc EXCEPT ![t] = p]
    BY <1>3 DEF t_run, Start, While, Signalled, s_stat_update, End, Serve
  <2> QED
    BY <2>1 DEF Started
<1>4. CASE UNCHANGED <<main, pc>>
  BY <1>4 DEF Started
<1> QED
  BY <1>1, <1>2, <1>3, <1>4
     DEF Next, vars, stop, Stopper, StopFlag, StopSignal, get_stat, aggregate_stat, get_stat_done

\* Counters go up, and copies follow them.
LEMMA CountedStep ==
  ASSUME Started, Counted, [Next]_vars
  PROVE  Counted' /\ \A t \in Thread : m_stat_cache[t] <= m_stat_cache'[t]
<1>1. \A t \in Thread : pc'[t] \in {"none", "t_run"} => pc[t] \in {"none", "t_run"}
  BY StartedStep
<1>2. \A t \in Thread : m_stat_cache[t] <= m_stat_cache[t]
  BY DEF Counted
<1>3. ASSUME NEW t \in Thread, Start(t)
      PROVE  Counted' /\ m_stat_cache' = m_stat_cache
  <2>1. m_stat[t] = 0
    BY <1>3 DEF Start, Counted
  <2> QED
    BY <1>1, <1>3, <2>1 DEF Start, Counted
<1>4. ASSUME NEW t \in Thread, Serve(t)
      PROVE  Counted' /\ m_stat_cache' = m_stat_cache
  <2>1. /\ m_stat' \in [Thread -> Nat] /\ m_stat'[t] = m_stat[t] + 1 /\ m_stat_cache' = m_stat_cache
        /\ \A u \in Thread : u # t => m_stat'[u] = m_stat[u]
        /\ pc'[t] = "while"
    BY <1>4 DEF Serve, Counted, Started
  <2>2. \A u \in Thread : m_stat_cache[u] <= m_stat'[u]
    BY <2>1 DEF Counted
  <2> QED
    BY <1>1, <2>1, <2>2 DEF Counted
<1>5. ASSUME NEW t \in Thread, s_stat_update(t)
      PROVE  Counted' /\ \A u \in Thread : m_stat_cache[u] <= m_stat_cache'[u]
  <2>1. m_stat' = m_stat /\ m_stat_cache' = [m_stat_cache EXCEPT ![t] = m_stat[t]]
    BY <1>5 DEF s_stat_update, stat_update
  <2>2. /\ m_stat_cache' \in [Thread -> Nat]
        /\ \A u \in Thread : m_stat_cache'[u] <= m_stat[u] /\ m_stat_cache[u] <= m_stat_cache'[u]
    BY <2>1 DEF Counted
  <2> QED
    BY <1>1, <2>1, <2>2 DEF Counted
<1>6. CASE UNCHANGED <<m_stat, m_stat_cache>>
  BY <1>1, <1>2, <1>6 DEF Counted
<1> QED
  BY <1>2, <1>3, <1>4, <1>5, <1>6
     DEF Next, vars, statVars, run, wait_till_stopped, stop, Stopper, StopFlag, StopSignal, t_run,
         While, Signalled, End, get_stat, aggregate_stat, get_stat_done

\* get_stat() stays within its list.
LEMMA ReaderStep ==
  ASSUME Counted, Reader, [Next]_vars
  PROVE  Reader'
<1>1. CASE get_stat
  BY <1>1, ThreadsAssumption DEF get_stat, ClearedStat, Reader
<1>2. CASE aggregate_stat
  <2>1. reader.at \in 1 .. NumThreads /\ m_stat_cache[reader.at] \in Nat /\ reader.ao_stat \in Nat
    BY <1>2 DEF aggregate_stat, Thread, Counted, Reader
  <2> QED
    BY <1>2, <2>1, ThreadsAssumption DEF aggregate_stat, Reader
<1>3. CASE get_stat_done
  BY <1>3, ThreadsAssumption DEF get_stat_done, Reader
<1>4. CASE UNCHANGED <<reader, m_stat_last>>
  BY <1>4 DEF Reader
<1> QED
  BY <1>1, <1>2, <1>3, <1>4
     DEF Next, vars, statVars, run, wait_till_stopped, stop, Stopper, StopFlag, StopSignal, t_run,
         Start, While, Signalled, s_stat_update, End, Serve

\* Every step keeps what get_stat() has read in order, and the last totals are
\* replaced by totals that are no less.
LEMMA ReadStep ==
  ASSUME StatsType, [Next]_vars,
         NEW last \in [Thread -> Nat], NEW cur \in [Thread -> Nat], ReadBy(last, cur)
  PROVE  /\ \E l, c \in [Thread -> Nat] : ReadBy(l, c)'
         /\ m_stat_last' >= m_stat_last
<1> HIDE DEF Sums
<1>1. \A t \in Thread : m_stat_cache[t] <= m_stat_cache'[t]
  BY CountedStep DEF StatsType
<1>2. /\ m_stat_cache \in [Thread -> Nat] /\ m_stat_cache' \in [Thread -> Nat]
      /\ m_stat_last \in Nat /\ reader \in [at : 0 .. NumThreads + 1, ao_stat : Nat]
      /\ NumThreads \in Nat
  BY CountedStep, ThreadsAssumption DEF StatsType, Counted, Reader
<1>3. \A t \in Thread : last[t] <= m_stat_cache'[t]
  BY <1>1, <1>2 DEF ReadBy
<1>4. CASE get_stat
  <2>1. /\ reader' = [at |-> 1, ao_stat |-> 0] /\ m_stat_last' = m_stat_last
    BY <1>4 DEF get_stat, ClearedStat
  <2>2. Sums(cur)[0] = 0 /\ 1 - 1 = 0 /\ 1 .. 0 = {}
    BY SumsStep
  <2>3. ReadBy(last, cur)'
    BY <1>3, <2>1, <2>2 DEF ReadBy
  <2> QED
    BY <1>2, <2>1, <2>3
<1>5. CASE aggregate_stat
  <2> DEFINE a == reader.at
  <2>1. /\ reader' = [at |-> a + 1, ao_stat |-> reader.ao_stat + m_stat_cache[a]]
        /\ m_stat_last' = m_stat_last /\ m_stat_cache' = m_stat_cache
        /\ a \in 1 .. NumThreads /\ a # 0
    BY <1>5 DEF aggregate_stat, Thread
  <2>2. PICK new \in [Thread -> Nat] :
          /\ new[a] = m_stat_cache[a]
          /\ \A t \in 1 .. a - 1 : t \in Thread /\ new[t] = cur[t]
    <3> DEFINE new == [cur EXCEPT ![a] = m_stat_cache[a]]
    <3>1. /\ new \in [Thread -> Nat] /\ new[a] = m_stat_cache[a]
          /\ \A t \in 1 .. a - 1 : t \in Thread /\ new[t] = cur[t]
      BY <1>2, <2>1 DEF Thread
    <3> HIDE DEF new
    <3> QED
      BY <3>1
  <2>3. a - 1 \in 0 .. NumThreads /\ \A t \in 1 .. a - 1 : new[t] <= cur[t] /\ cur[t] <= new[t]
    BY <1>2, <2>1, <2>2
  <2>4. Sums(new)[a - 1] = Sums(cur)[a - 1]
    <3>1. Sums(new)[a - 1] <= Sums(cur)[a - 1] /\ Sums(cur)[a - 1] <= Sums(new)[a - 1]
      BY <2>2, <2>3, SumsMonotonic
    <3>2. Sums(new)[a - 1] \in Nat /\ Sums(cur)[a - 1] \in Nat
      BY <2>2, <2>3, SumsNat
    <3> QED
      BY <3>1, <3>2
  <2>5. Sums(new)[a] = reader.ao_stat + m_stat_cache[a]
    BY <2>1, <2>2, <2>4, SumsStep DEF ReadBy
  <2>6. (a + 1) - 1 = a /\ a + 1 # 0
    BY <1>2
  <2>7. \A t \in 1 .. a : new[t] <= m_stat_cache[t] /\ last[t] <= new[t]
    <3>1. \A t \in 1 .. a : t = a \/ t \in 1 .. a - 1
      BY <2>1
    <3>2. a \in Thread /\ m_stat_cache[a] \in Nat /\ last[a] <= m_stat_cache[a]
      BY <1>2, <2>1 DEF ReadBy, Thread
    <3> QED
      BY <2>1, <2>2, <3>1, <3>2 DEF ReadBy
  <2>8. ReadBy(last, new)'
    BY <1>3, <2>1, <2>5, <2>6, <2>7 DEF ReadBy
  <2> QED
    BY <1>2, <2>1, <2>2, <2>8
<1>6. CASE get_stat_done
  <2>1. /\ reader.at = NumThreads + 1 /\ reader.at # 0 /\ reader.at - 1 = NumThreads
        /\ reader' = [at |-> 0, ao_stat |-> 0]
        /\ m_stat_last' = reader.ao_stat /\ m_stat_cache' = m_stat_cache
    BY <1>2, <1>6 DEF get_stat_done
  <2>2. reader.ao_stat = Total(cur)
    BY <2>1 DEF ReadBy, Total
  <2>3. \A t \in Thread : cur[t] <= m_stat_cache[t] /\ last[t] <= cur[t]
    BY <2>1 DEF ReadBy, Thread
  <2>4. ReadBy(cur, cur)'
    <3>1. m_stat_last' = Total(cur) /\ reader'.at = 0 /\ reader'.ao_stat = 0
      BY <2>1, <2>2
    <3>2. \A t \in Thread : cur[t] <= m_stat_cache'[t]
      BY <2>1, <2>3
    <3> QED
      BY <3>1, <3>2 DEF ReadBy
  <2>5. Total(last) <= Total(cur)
    <3>1. NumThreads \in 0 .. NumThreads /\ \A t \in 1 .. NumThreads : last[t] <= cur[t]
      BY <1>2, <2>3 DEF Thread
    <3> QED
      BY <3>1, SumsMonotonic DEF Total
  <2>6. Total(last) \in Nat /\ Total(cur) \in Nat
    BY <1>2, SumsNat DEF Total
  <2> QED
    BY <2>1, <2>2, <2>4, <2>5, <2>6 DEF ReadBy
<1>7. CASE UNCHANGED <<reader, m_stat_last>>
  <2>1. \A t \in 1 .. reader.at - 1 : t \in Thread
    BY <1>2 DEF Thread
  <2>2. reader.at # 0 => \A t \in 1 .. reader.at - 1 : cur[t] <= m_stat_cache'[t]
    BY <1>1, <1>2, <2>1 DEF ReadBy
  <2>3. ReadBy(last, cur)'
    BY <1>3, <1>7, <2>2 DEF ReadBy
  <2> QED
    BY <1>2, <1>7, <2>3
<1> QED
  BY <1>4, <1>5, <1>6, <1>7
     DEF Next, vars, statVars, run, wait_till_stopped, stop, Stopper, StopFlag, StopSignal, t_run,
         Start, While, Signalled, s_stat_update, End, Serve

\* The statistics are in order in every state.
LEMMA StatsInvHolds == Spec => []StatsInv
<1> HIDE DEF Sums
<1>1. Init => StatsInv
  <2> SUFFICES ASSUME Init PROVE StatsInv
    OBVIOUS
  <2> DEFINE zero == [t \in Thread |-> 0]
  <2>1. Started
    BY ThreadsAssumption DEF Init, Started, Thread
  <2>2. Counted /\ Reader
    BY ThreadsAssumption DEF Init, Counted, Reader
  <2>3. zero \in [Thread -> Nat] /\ \A t \in Thread : zero[t] = 0
    OBVIOUS
  <2>4. Total(zero) = 0
    <3> HIDE DEF zero
    <3> DEFINE S == {n \in Nat : n <= NumThreads => Sums(zero)[n] = 0}
    <3>1. 0 \in S
      BY SumsStep
    <3>2. ASSUME NEW n \in S PROVE n + 1 \in S
      <4>1. SUFFICES ASSUME n + 1 <= NumThreads PROVE Sums(zero)[n + 1] = 0
        OBVIOUS
      <4>2. n + 1 \in 1 .. NumThreads /\ (n + 1) - 1 = n /\ n <= NumThreads
        BY <4>1, ThreadsAssumption
      <4>3. Sums(zero)[n] = 0 /\ zero[n + 1] = 0
        BY <2>3, <4>2 DEF Thread
      <4> QED
        BY <4>2, <4>3, SumsStep
    <3>3. S = Nat
      <4>1. S \in SUBSET Nat
        OBVIOUS
      <4> HIDE DEF S
      <4> QED
        BY <3>1, <3>2, <4>1, SetInduction
    <3> QED
      BY <3>3, ThreadsAssumption DEF Total
  <2>5. ReadBy(zero, zero)
    BY <2>3, <2>4 DEF Init, ReadBy
  <2> HIDE DEF zero
  <2> QED
    BY <2>1, <2>2, <2>3, <2>5 DEF StatsInv, StatsType
<1>2. StatsInv /\ [Next]_vars => StatsInv'
  <2> SUFFICES ASSUME StatsInv, [Next]_vars PROVE StatsInv'
    OBVIOUS
  <2>1. StatsType'
    BY StartedStep, CountedStep, ReaderStep DEF StatsInv, StatsType
  <2>2. PICK last, cur \in [Thread -> Nat] : ReadBy(last, cur)
    BY DEF StatsInv
  <2>3. \E l, c \in [Thread -> Nat] : ReadBy(l, c)'
    BY <2>2, ReadStep DEF StatsInv
  <2> QED
    BY <2>1, <2>3 DEF StatsInv
<1> QED
  BY <1>1, <1>2, PTL DEF Spec

\* get_stat() never reports more requests than the threads have served,
\* although it reads each thread's copy at another time.
THEOREM TotalsHonest == Spec => []StatsHonest
<1> HIDE DEF Sums
<1>1. ASSUME StatsInv PROVE StatsHonest
  <2>1. PICK last, cur \in [Thread -> Nat] : ReadBy(last, cur)
    BY <1>1 DEF StatsInv
  <2>2. /\ m_stat \in [Thread -> Nat] /\ m_stat_cache \in [Thread -> Nat] /\ NumThreads \in Nat
        /\ reader \in [at : 0 .. NumThreads + 1, ao_stat : Nat]
    BY <1>1, ThreadsAssumption DEF StatsInv, StatsType, Counted, Reader
  <2>3. \A t \in Thread : m_stat_cache[t] <= m_stat[t] /\ m_stat_cache[t] \in Nat /\ m_stat[t] \in Nat
    BY <1>1, <2>2 DEF StatsInv, StatsType, Counted
  <2>4. m_stat_last <= Total(m_stat)
    <3>1. \A t \in 1 .. NumThreads : last[t] <= m_stat[t]
      BY <2>1, <2>2, <2>3 DEF ReadBy, Thread
    <3> QED
      BY <2>1, <2>2, <3>1, SumsMonotonic DEF ReadBy, Total
  <2>5. CASE reader.at = 0
    <3>1. Total(m_stat) \in Nat
      BY <2>2, SumsNat DEF Total
    <3> QED
      BY <2>1, <2>4, <2>5, <3>1 DEF StatsHonest, ReadBy
  <2>6. CASE reader.at # 0
    <3> DEFINE m == reader.at - 1
    <3>1. m \in 0 .. NumThreads /\ \A t \in 1 .. m : t \in Thread
      BY <2>2, <2>6 DEF Thread
    <3>2. \A t \in 1 .. m : cur[t] <= m_stat[t]
      BY <2>1, <2>3, <2>6, <3>1 DEF ReadBy
    <3>3. reader.ao_stat = Sums(cur)[m]
      BY <2>1, <2>6 DEF ReadBy
    <3> HIDE DEF m
    <3>4. Sums(cur)[m] <= Sums(m_stat)[m] /\ Sums(m_stat)[m] <= Total(m_stat)
      BY <2>2, <3>1, <3>2, SumsMonotonic, SumsGrow
    <3>5. Sums(cur)[m] \in Nat /\ Sums(m_stat)[m] \in Nat /\ Total(m_stat) \in Nat
      BY <2>2, <3>1, SumsNat DEF Total
    <3> QED
      BY <2>4, <3>3, <3>4, <3>5 DEF StatsHonest
  <2> QED
    BY <2>5, <2>6
<1> QED
  BY <1>1, StatsInvHolds, PTL

\* The totals of successive calls of get_stat() never go back: m_req_delta,
\* an unsigned difference, does not wrap.
THEOREM TotalsGrow == Spec => StatsGrow
<1>1. StatsInv /\ [Next]_vars => [m_stat_last' >= m_stat_last]_vars
  BY ReadStep DEF StatsInv
<1> QED
  BY <1>1, StatsInvHolds, PTL DEF Spec, StatsGrow

----------------------------------------------------------------------------
(* Stop *)

\* A thread that waits after stop() has set its flag is about to be woken: the
\* control descriptor has an edge, or the write to it is the stopper's next
\* step.  This is the safety part of StopIsHeard: no order of flag, check,
\* wait and signal leaves a stopped thread asleep.
StopNotMissed ==
  \A t \in Thread : pc[t] = "wait" /\ m_stopped[t] =>
    ctrl[t] \/ (stopper.call = "signal" /\ stopper.at = t)

StopInv ==
  /\ pc \in [Thread -> {"none", "t_run", "while", "wait", "end", "exited"}]
  /\ m_stopped \in [Thread -> BOOLEAN]
  /\ ctrl \in [Thread -> BOOLEAN]
  /\ stopper \in [call : {"none", "flag", "signal", "done"}, at : Thread]
  /\ StopNotMissed

\* No step of the threads and of stop() leaves a stopped thread asleep.
LEMMA StopStep ==
  ASSUME Started, StopInv, [Next]_vars
  PROVE  StopInv'
<1>1. CASE run
  <2>1. main.at \in Thread
    BY DEF Started
  <2> QED
    BY <1>1, <2>1 DEF run, StopInv, StopNotMissed
<1>2. CASE stop
  <2>1. stopper' = [call |-> "flag", at |-> 1] /\ 1 \in Thread /\ stopper.call = "none"
    BY <1>2, ThreadsAssumption DEF stop, StopOrder, Thread
  <2> QED
    BY <1>2, <2>1 DEF stop, StopInv, StopNotMissed
<1>3. CASE StopFlag
  <2>1. /\ stopper.call = "flag" /\ stopper.at \in Thread
        /\ stopper' = [stopper EXCEPT !.call = "signal"]
        /\ m_stopped' = [m_stopped EXCEPT ![stopper.at] = TRUE]
        /\ UNCHANGED <<pc, ctrl>>
    BY <1>3 DEF StopFlag, stopNext, StopOrder, StopInv
  <2>2. stopper' = [call |-> "signal", at |-> stopper.at]
    BY <2>1 DEF StopInv
  <2> QED
    BY <2>1, <2>2 DEF StopInv, StopNotMissed
<1>4. CASE StopSignal
  <2>1. /\ stopper.call = "signal" /\ stopper.at \in Thread
        /\ ctrl' = [ctrl EXCEPT ![stopper.at] = TRUE]
        /\ UNCHANGED <<pc, m_stopped>>
    BY <1>4 DEF StopSignal, StopInv
  <2>2. stopper' = IF stopper.at = NumThreads THEN [call |-> "done", at |-> 1]
                   ELSE [call |-> "flag", at |-> stopper.at + 1]
    BY <1>4, <2>1 DEF StopSignal, stopNext, StopOrder
  <2>3. /\ stopper' \in [call : {"none", "flag", "signal", "done"}, at : Thread]
        /\ stopper'.call # "signal"
    BY <2>1, <2>2, ThreadsAssumption DEF Thread
  <2> QED
    BY <2>1, <2>3 DEF StopInv, StopNotMissed
<1>5. ASSUME NEW t \in Thread, t_run(t) \/ Serve(t)
      PROVE  StopInv'
  BY <1>5 DEF t_run, Start, While, Signalled, s_stat_update, End, Serve, StopInv, StopNotMissed
<1>6. CASE UNCHANGED <<pc, m_stopped, ctrl, stopper>>
  BY <1>6 DEF StopInv, StopNotMissed
<1> QED
  BY <1>1, <1>2, <1>3, <1>4, <1>5, <1>6
     DEF Next, vars, Stopper, wait_till_stopped, get_stat, aggregate_stat, get_stat_done

\* t_srvr::stop() is not missed by a thread that is about to wait, whatever
\* the number of threads and the order of their steps.
THEOREM NoMissedStop == Spec => []StopNotMissed
<1>1. Init => StopInv
  <2> SUFFICES ASSUME Init PROVE StopInv
    OBVIOUS
  <2>1. 1 \in Thread
    BY ThreadsAssumption DEF Thread
  <2> QED
    BY <2>1 DEF Init, StopInv, StopNotMissed
<1>2. StopInv /\ StatsInv /\ [Next]_vars => StopInv'
  BY StopStep DEF StatsInv, StatsType
<1>3. StopInv => StopNotMissed
  BY DEF StopInv
<1> QED
  BY <1>1, <1>2, <1>3, StatsInvHolds, PTL DEF Spec

=============================================================================
