-------------------------- MODULE NresolverProofs --------------------------
(***************************************************************************)
(* Proofs about the lookups of one server thread, for any jobs, name       *)
(* servers, rounds and limits: pointers, the bound on the lookups in       *)
(* progress, the askers that are served, and the timer.                    *)
(***************************************************************************)
EXTENDS Nresolver, FiniteSetTheorems, WellFoundedInduction, TLAPS

----------------------------------------------------------------------------
(* The natural numbers *)

\* A set of natural numbers that is not empty has a least element.
LEMMA LeastElement ==
  ASSUME NEW S \in SUBSET Nat, S # {}
  PROVE  \E x \in S : \A y \in S : x <= y
<1>1. PICK x \in S : \A y \in S : ~(<<y, x>> \in OpToRel(<, Nat))
  BY NatLessThanWellFounded, WFMin
<1>2. \A y \in S : ~(y < x)
  BY <1>1, Zenon DEF OpToRel
<1> QED
  BY <1>2

\* Induction on the natural numbers, for a set: what holds of 0 and of each
\* number's successor holds of all, since there is no least exception.
LEMMA SetInduction ==
  ASSUME NEW S \in SUBSET Nat, 0 \in S, \A n \in S : n + 1 \in S
  PROVE  S = Nat
<1> SUFFICES ASSUME Nat \ S # {} PROVE FALSE
  OBVIOUS
<1>1. PICK x \in Nat \ S : \A y \in Nat \ S : x <= y
  BY LeastElement
<1>2. x - 1 \in Nat /\ x - 1 < x
  OBVIOUS
<1>3. x - 1 \in S
  BY <1>1, <1>2
<1>4. (x - 1) + 1 \in S
  BY <1>3
<1>5. (x - 1) + 1 = x
  OBVIOUS
<1> QED
  BY <1>4, <1>5

----------------------------------------------------------------------------
(* Queries *)

\* The shifted timeout of every round is a natural number: the function's
\* equation has a solution, and every value follows from the one before.
LEMMA ShiftedNat ==
  \A n \in 0 .. m_retries : Shifted[n] \in Nat
<1> USE NresolverAssumption
<1> DEFINE Solves(f, m) == f = [n \in 0 .. m |-> IF n = 0 THEN m_timeout_s ELSE 2 * f[n - 1]]
           S == {m \in Nat : \E f : Solves(f, m)}
<1>1. 0 \in S
  <2>1. Solves([n \in 0 .. 0 |-> m_timeout_s], 0)
    OBVIOUS
  <2> QED
    BY <2>1
<1>2. ASSUME NEW m \in S PROVE m + 1 \in S
  <2>1. PICK f : Solves(f, m)
    OBVIOUS
  <2> DEFINE g == [n \in 0 .. m + 1 |-> IF n = m + 1 THEN 2 * f[m] ELSE f[n]]
  <2>2. \A n \in 0 .. m : g[n] = f[n]
    OBVIOUS
  <2>3. ASSUME NEW n \in 0 .. m + 1
        PROVE  g[n] = IF n = 0 THEN m_timeout_s ELSE 2 * g[n - 1]
    <3>1. CASE n = m + 1
      BY <2>2, <3>1
    <3>2. CASE n \in 0 .. m
      <4>1. f[n] = IF n = 0 THEN m_timeout_s ELSE 2 * f[n - 1]
        BY <2>1, <3>2
      <4> QED
        BY <2>2, <3>2, <4>1
    <3> QED
      BY <3>1, <3>2
  <2>4. Solves(g, m + 1)
    BY <2>3
  <2>5. m + 1 \in Nat
    OBVIOUS
  <2> HIDE DEF g, Solves
  <2> QED
    BY <2>4, <2>5
<1>3. S = Nat
  <2> HIDE DEF S
  <2>1. S \in SUBSET Nat
    BY DEF S
  <2> QED
    BY <1>1, <1>2, <2>1, SetInduction
<1>4. \E f : Solves(f, m_retries)
  BY <1>3
<1>5. Solves(Shifted, m_retries)
  BY <1>4, Zenon DEF Shifted
<1> DEFINE P == {n \in Nat : n \in 0 .. m_retries => Shifted[n] \in Nat}
<1>6. 0 \in P
  BY <1>5
<1>7. ASSUME NEW n \in P PROVE n + 1 \in P
  <2> SUFFICES ASSUME n + 1 \in 0 .. m_retries PROVE Shifted[n + 1] \in Nat
    OBVIOUS
  <2>1. n \in 0 .. m_retries /\ n + 1 # 0 /\ (n + 1) - 1 = n
    OBVIOUS
  <2>2. Shifted[n + 1] = 2 * Shifted[(n + 1) - 1]
    BY <1>5, <2>1
  <2>3. Shifted[n] \in Nat
    BY <2>1
  <2> QED
    BY <2>1, <2>2, <2>3
<1>8. P = Nat
  <2> HIDE DEF P
  <2>1. P \in SUBSET Nat
    BY DEF P
  <2> QED
    BY <1>6, <1>7, <2>1, SetInduction
<1> QED
  BY <1>8

\* A query that may have used its last round.
AnyQuery ==
  [try : Nat, servi : 0 .. NServ, wait : SUBSET Server,
   skip : SUBSET Server, noedns : SUBSET Server, srch : 0 .. NSrch, due : Nat]

\* dns_find_serv() stops at a server or behind the last one, and changes
\* nothing else of the query.
LEMMA FindServ ==
  ASSUME NEW q \in AnyQuery
  PROVE  \E s \in 0 .. NServ : dns_find_serv(q) = [q EXCEPT !.servi = s]
<1> USE NresolverAssumption
<1> DEFINE S == {s \in q.servi .. NServ : s = NServ \/ s \notin q.skip}
<1>1. q.servi \in 0 .. NServ
  BY DEF AnyQuery
<1>2. S \in SUBSET Nat /\ NServ \in S
  BY <1>1
<1>3. PICK s \in S : \A y \in S : s <= y
  BY <1>2, LeastElement
<1>4. ASSUME NEW t \in q.servi .. s - 1 PROVE t \in q.skip
  BY <1>1, <1>3
<1>5. \E x \in q.servi .. NServ :
        (x = NServ \/ x \notin q.skip) /\ \A t \in q.servi .. x - 1 : t \in q.skip
  BY <1>3, <1>4
<1> DEFINE c == CHOOSE x \in q.servi .. NServ :
             (x = NServ \/ x \notin q.skip) /\ \A t \in q.servi .. x - 1 : t \in q.skip
<1>6. c \in q.servi .. NServ
  BY <1>5
<1>7. dns_find_serv(q) = [q EXCEPT !.servi = c]
  BY DEF dns_find_serv
<1>8. c \in 0 .. NServ
  <2> HIDE DEF c
  <2> QED
    BY <1>1, <1>6
<1> QED
  BY <1>7, <1>8

\* A sent query is active or over.
LEMMA SendThis ==
  ASSUME NEW q \in Query, NEW s \in Server, NEW fails
  PROVE  dns_send_this(q, s, fails) \in Query \cup {Ended}
<1> USE NresolverAssumption
<1>1. q \in AnyQuery
  BY DEF Query, AnyQuery
<1>2. PICK t \in 0 .. NServ : dns_find_serv(q) = [q EXCEPT !.servi = t]
  BY <1>1, FindServ
<1> DEFINE d == IF Found(q) THEN 1 ELSE Shifted[q.try]
<1>3. d \in Nat
  BY ShiftedNat DEF Query
<1>4. CASE fails
  BY <1>4 DEF dns_send_this
<1>5. CASE ~fails
  <2>1. dns_send_this(q, s, fails) = [[q EXCEPT !.servi = t] EXCEPT !.wait = @ \cup {s}, !.due = d]
    BY <1>2, <1>5 DEF dns_send_this
  <2>2. dns_send_this(q, s, fails) =
          [try |-> q.try, servi |-> t, wait |-> q.wait \cup {s}, skip |-> q.skip,
           noedns |-> q.noedns, srch |-> q.srch, due |-> d]
    BY <2>1 DEF Query
  <2> HIDE DEF d
  <2>3. q.wait \cup {s} \in SUBSET Server
    BY DEF Query
  <2> QED
    BY <1>3, <2>2, <2>3 DEF Query
<1> QED
  BY <1>4, <1>5

\* dns_send() leaves an active query, or one that is over.
LEMMA Sent ==
  ASSUME NEW q \in Query, NEW fails
  PROVE  dns_send(q, fails) \in Query \cup {Ended}
<1> USE NresolverAssumption
<1> DEFINE n == [q EXCEPT !.servi = 0, !.try = @ + 1]
           r == IF Found(q) THEN dns_find_serv(q) ELSE dns_find_serv(n)
<1>1. q \in AnyQuery /\ n \in AnyQuery
  <2> DEFINE z == [q EXCEPT !.servi = 0]
  <2>1. z \in Query /\ z.try = q.try
    BY DEF Query
  <2>2. n = [z EXCEPT !.try = q.try + 1]
    OBVIOUS
  <2>3. q.try + 1 \in Nat
    BY DEF Query
  <2> HIDE DEF z, n
  <2> QED
    BY <2>1, <2>2, <2>3 DEF Query, AnyQuery
<1>2. r \in AnyQuery
  <2>1. PICK s \in 0 .. NServ : dns_find_serv(q) = [q EXCEPT !.servi = s]
    BY <1>1, FindServ
  <2>2. PICK t \in 0 .. NServ : dns_find_serv(n) = [n EXCEPT !.servi = t]
    BY <1>1, FindServ
  <2>3. dns_find_serv(q) \in AnyQuery
    BY <1>1, <2>1 DEF AnyQuery
  <2>4. dns_find_serv(n) \in AnyQuery
    <3> HIDE DEF n
    <3> QED
      BY <1>1, <2>2 DEF AnyQuery
  <2> QED
    BY <2>3, <2>4
<1>3. dns_send(q, fails) =
        IF r.try >= m_retries \/ ~Found(r) THEN Ended
        ELSE dns_send_this([r EXCEPT !.servi = @ + 1], r.servi, fails)
  BY DEF dns_send
<1> HIDE DEF r
<1>4. CASE r.try >= m_retries \/ ~Found(r)
  BY <1>3, <1>4
<1>5. CASE ~(r.try >= m_retries \/ ~Found(r))
  <2>1. r.try \in 0 .. m_retries - 1
    BY <1>2, <1>5 DEF AnyQuery
  <2>2. r.servi < NServ
    <3>1. r.servi # NServ
      <4> SUFFICES ASSUME r.servi = NServ PROVE FALSE
        OBVIOUS
      <4>1. \A x \in r.servi .. NServ : x = NServ
        OBVIOUS
      <4>2. PICK t \in 0 .. NServ : dns_find_serv(r) = [r EXCEPT !.servi = t]
        BY <1>2, FindServ
      <4>3. t < NServ
        BY <1>2, <1>5, <4>2 DEF Found, AnyQuery
      <4>4. dns_find_serv(r) = [r EXCEPT !.servi = NServ]
        <5>1. NServ \in r.servi .. NServ /\ \A u \in r.servi .. NServ - 1 : u \in r.skip
          OBVIOUS
        <5>2. (CHOOSE x \in r.servi .. NServ :
                (x = NServ \/ x \notin r.skip) /\ \A u \in r.servi .. x - 1 : u \in r.skip) = NServ
          BY <4>1, <5>1
        <5> QED
          BY <5>2 DEF dns_find_serv
      <4> QED
        BY <1>2, <4>2, <4>3, <4>4 DEF AnyQuery
    <3> QED
      BY <1>2, <3>1 DEF AnyQuery
  <2> DEFINE m == [r EXCEPT !.servi = @ + 1]
  <2>3. m \in Query
    BY <1>2, <2>1, <2>2 DEF AnyQuery, Query
  <2>4. r.servi \in Server
    BY <1>2, <2>2 DEF AnyQuery, Server
  <2> HIDE DEF m
  <2>5. dns_send_this(m, r.servi, fails) \in Query \cup {Ended}
    BY <2>3, <2>4, SendThis
  <2> QED
    BY <1>3, <1>5, <2>5 DEF m
<1> QED
  BY <1>4, <1>5

\* A new query is active.
LEMMA NewQuery ==
  ASSUME NEW k \in 0 .. NSrch
  PROVE  dns_newid(k) \in Query
BY NresolverAssumption DEF dns_newid, Query

\* A query that is over is not an active one.
LEMMA EndedNotActive ==
  Ended \notin Query
BY NresolverAssumption DEF Ended, Query, dns_newid

\* An answer leaves the query active, or ends it.
LEMMA AnsweredQuery ==
  ASSUME NEW q \in Query, NEW s \in Server, NEW rcode, NEW fails
  PROVE  Answered(q, s, rcode, fails) \in Query \cup {Ended}
<1> USE NresolverAssumption
<1> DEFINE p == [q EXCEPT !.wait = @ \ {s}]
           skipped == [p EXCEPT !.skip = @ \cup {s}]
           asked == [p EXCEPT !.noedns = @ \cup {s}]
<1>1. p \in Query /\ skipped \in Query /\ asked \in Query
  BY DEF Query
<1>2. dns_send(skipped, fails) \in Query \cup {Ended}
  <2> HIDE DEF skipped
  <2> QED
    BY <1>1, Sent
<1>3. dns_send_this(asked, s, fails) \in Query \cup {Ended}
  <2> HIDE DEF asked
  <2> QED
    BY <1>1, SendThis
<1>4. q.srch # 0 => dns_send(dns_newid(q.srch - 1), fails) \in Query \cup {Ended}
  <2> SUFFICES ASSUME q.srch # 0 PROVE dns_send(dns_newid(q.srch - 1), fails) \in Query \cup {Ended}
    OBVIOUS
  <2>1. q.srch - 1 \in 0 .. NSrch
    BY DEF Query
  <2>2. dns_newid(q.srch - 1) \in Query
    BY <2>1, NewQuery
  <2> QED
    BY <2>2, Sent
<1>5. Answered(q, s, rcode, fails) \in
        {Ended, dns_send(skipped, fails), dns_send_this(asked, s, fails), skipped}
      \/ (q.srch # 0 /\ Answered(q, s, rcode, fails) = dns_send(dns_newid(q.srch - 1), fails))
  <2>1. CASE rcode \in {"found", "unusable"}
    BY <2>1, Zenon DEF Answered
  <2>2. CASE rcode = "nodata"
    BY <2>2 DEF Answered
  <2>3. CASE rcode \notin {"found", "unusable", "nodata"} /\ rcode = "formerr" /\ s \notin q.noedns
    BY <2>3 DEF Answered
  <2>4. CASE rcode \notin {"found", "unusable", "nodata"} /\ ~(rcode = "formerr" /\ s \notin q.noedns)
    BY <2>4 DEF Answered
  <2> QED
    BY <2>1, <2>2, <2>3, <2>4
<1> QED
  BY <1>1, <1>2, <1>3, <1>4, <1>5
----------------------------------------------------------------------------
(* The queue of jobs *)

\* The first jobs of a queue without repetitions, and the jobs behind them.
LEMMA Split ==
  ASSUME NEW s \in Seq(Job), IsInjective(s),
         NEW k \in 0 .. Len(s), NEW l \in k .. Len(s)
  PROVE  /\ ToSet(SubSeq(s, 1, k)) = {s[i] : i \in 1 .. k}
         /\ ToSet(SubSeq(s, l + 1, Len(s))) = {s[i] : i \in l + 1 .. Len(s)}
         /\ ToSet(SubSeq(s, 1, k)) \cap ToSet(SubSeq(s, l + 1, Len(s))) = {}
         /\ SubSeq(s, l + 1, Len(s)) \in Seq(Job) /\ IsInjective(SubSeq(s, l + 1, Len(s)))
         /\ ToSet(SubSeq(s, 1, k)) \subseteq Job
         /\ Cardinality(ToSet(SubSeq(s, 1, k))) <= k
<1> DEFINE F == SubSeq(s, 1, k)
           R == SubSeq(s, l + 1, Len(s))
<1>1. Len(s) \in Nat /\ DOMAIN s = 1 .. Len(s) /\ \A i \in 1 .. Len(s) : s[i] \in Job
  OBVIOUS
<1>2. DOMAIN F = 1 .. k /\ \A i \in 1 .. k : F[i] = s[i]
  BY <1>1
<1>3. DOMAIN R = 1 .. Len(s) - l /\ \A i \in 1 .. Len(s) - l : R[i] = s[l + i]
  BY <1>1
<1>4. R \in Seq(Job) /\ F \in Seq(Job)
  BY <1>1
<1>5. \A i, j \in 1 .. Len(s) : s[i] = s[j] => i = j
  BY <1>1 DEF IsInjective
<1> HIDE DEF F, R
<1>6. ToSet(F) = {s[i] : i \in 1 .. k}
  BY <1>2 DEF ToSet
<1>7. ToSet(R) = {s[i] : i \in l + 1 .. Len(s)}
  <2>1. ASSUME NEW x \in ToSet(R) PROVE x \in {s[i] : i \in l + 1 .. Len(s)}
    <3>1. PICK i \in 1 .. Len(s) - l : x = s[l + i]
      BY <1>3 DEF ToSet
    <3>2. l + i \in l + 1 .. Len(s)
      BY <1>1
    <3> QED
      BY <3>1, <3>2
  <2>2. ASSUME NEW x \in {s[i] : i \in l + 1 .. Len(s)} PROVE x \in ToSet(R)
    <3>1. PICK i \in l + 1 .. Len(s) : x = s[i]
      OBVIOUS
    <3>2. i - l \in 1 .. Len(s) - l /\ l + (i - l) = i
      BY <1>1
    <3>3. R[i - l] = s[l + (i - l)]
      BY <1>3, <3>2
    <3>4. R[i - l] = x
      BY <3>1, <3>2, <3>3
    <3> QED
      BY <1>3, <3>2, <3>4 DEF ToSet
  <2> QED
    BY <2>1, <2>2
<1>8. ToSet(F) \cap ToSet(R) = {}
  <2> SUFFICES ASSUME NEW i \in 1 .. k, NEW j \in l + 1 .. Len(s), s[i] = s[j] PROVE FALSE
    BY <1>6, <1>7
  <2>1. i \in 1 .. Len(s) /\ j \in 1 .. Len(s) /\ i # j
    BY <1>1
  <2> QED
    BY <1>5, <2>1
<1>9. IsInjective(R)
  <2> SUFFICES ASSUME NEW i \in 1 .. Len(s) - l, NEW j \in 1 .. Len(s) - l, R[i] = R[j] PROVE i = j
    BY <1>3 DEF IsInjective
  <2>1. s[l + i] = s[l + j]
    BY <1>3
  <2>2. l + i \in 1 .. Len(s) /\ l + j \in 1 .. Len(s)
    BY <1>1
  <2>3. l + i = l + j
    BY <1>5, <2>1, <2>2
  <2> QED
    BY <2>3
<1>10. ToSet(F) \subseteq Job
  BY <1>1, <1>6
<1>11. Cardinality(ToSet(F)) <= k
  <2>1. F \in [1 .. k -> ToSet(F)]
    BY <1>2, <1>4 DEF ToSet
  <2>2. F \in Surjection(1 .. k, ToSet(F))
    BY <1>2, <2>1 DEF Surjection, ToSet
  <2>3. ExistsSurjection(1 .. k, ToSet(F))
    BY <2>2 DEF ExistsSurjection
  <2> QED
    BY <2>3, FS_SurjCardinalityBound
<1> QED
  BY <1>4, <1>6, <1>7, <1>8, <1>9, <1>10, <1>11 DEF F, R

\* A queue to which the asker's job, if there is one, is added.
LEMMA Joined ==
  ASSUME NEW s \in Seq(Job), IsInjective(s),
         NEW new \in Seq(Job), Len(new) <= 1, ToSet(s) \cap ToSet(new) = {}
  PROVE  /\ s \o new \in Seq(Job) /\ IsInjective(s \o new)
         /\ ToSet(s \o new) = ToSet(s) \cup ToSet(new)
<1> DEFINE q == s \o new
<1>1. /\ q \in Seq(Job) /\ Len(q) = Len(s) + Len(new)
      /\ DOMAIN s = 1 .. Len(s) /\ DOMAIN new = 1 .. Len(new) /\ DOMAIN q = 1 .. Len(q)
      /\ Len(s) \in Nat /\ Len(new) \in Nat
  OBVIOUS
<1>2. \A i \in 1 .. Len(s) : q[i] = s[i]
  OBVIOUS
<1>3. \A i \in 1 .. Len(new) : q[Len(s) + i] = new[i]
  OBVIOUS
<1>4. \A i \in 1 .. Len(q) : i \in 1 .. Len(s) \/ (Len(new) = 1 /\ i = Len(s) + 1)
  BY <1>1
<1>5. ASSUME Len(new) = 1 PROVE q[Len(s) + 1] = new[1]
  <2>1. 1 \in 1 .. Len(new)
    BY <1>5
  <2> HIDE DEF q
  <2> QED
    BY <1>3, <2>1
<1> HIDE DEF q
<1>6. IsInjective(q)
  <2> SUFFICES ASSUME NEW i \in 1 .. Len(q), NEW j \in 1 .. Len(q), q[i] = q[j] PROVE i = j
    BY <1>1 DEF IsInjective
  <2>1. CASE i \in 1 .. Len(s) /\ j \in 1 .. Len(s)
    BY <1>1, <1>2, <2>1 DEF IsInjective
  <2>2. CASE i \in 1 .. Len(s) /\ Len(new) = 1 /\ j = Len(s) + 1
    <3>1. s[i] \in ToSet(s) /\ new[1] \in ToSet(new) /\ s[i] = new[1]
      BY <1>1, <1>2, <1>5, <2>2 DEF ToSet
    <3> QED
      BY <3>1
  <2>3. CASE j \in 1 .. Len(s) /\ Len(new) = 1 /\ i = Len(s) + 1
    <3>1. s[j] \in ToSet(s) /\ new[1] \in ToSet(new) /\ s[j] = new[1]
      BY <1>1, <1>2, <1>5, <2>3 DEF ToSet
    <3> QED
      BY <3>1
  <2> QED
    BY <1>4, <2>1, <2>2, <2>3
<1>7. ASSUME NEW x \in ToSet(q) PROVE x \in ToSet(s) \cup ToSet(new)
  <2>1. PICK i \in 1 .. Len(q) : x = q[i]
    BY <1>1 DEF ToSet
  <2>2. CASE i \in 1 .. Len(s)
    BY <1>1, <1>2, <2>1, <2>2 DEF ToSet
  <2>3. CASE Len(new) = 1 /\ i = Len(s) + 1
    BY <1>1, <1>5, <2>1, <2>3 DEF ToSet
  <2> QED
    BY <1>4, <2>2, <2>3
<1>8. ASSUME NEW x \in ToSet(s) PROVE x \in ToSet(q)
  <2>1. PICK i \in 1 .. Len(s) : x = s[i]
    BY <1>1 DEF ToSet
  <2>2. i \in 1 .. Len(q)
    BY <1>1
  <2> QED
    BY <1>1, <1>2, <2>1, <2>2 DEF ToSet
<1>9. ASSUME NEW x \in ToSet(new) PROVE x \in ToSet(q)
  <2>1. PICK i \in 1 .. Len(new) : x = new[i]
    BY <1>1 DEF ToSet
  <2>2. Len(s) + i \in 1 .. Len(q)
    BY <1>1
  <2> QED
    BY <1>1, <1>3, <2>1, <2>2 DEF ToSet
<1> QED
  BY <1>1, <1>6, <1>7, <1>8, <1>9 DEF q
----------------------------------------------------------------------------
(* The invariant *)

\* A job is queued or its query is active, never both.
Queued(j) == j \in ToSet(m_job_q)
Active(j) == j \in DOMAIN query
Live(j) == Queued(j) \/ Active(j)

\* What is true of each job and its asker.  A live job has told nobody yet,
\* and is known to its asker unless that was cancelled; a handle is that of
\* a job with its callback; and an asker whose own call did not fail and whose
\* live job will call it is in DNS_LOOKUP with a handle, so that cancel() finds
\* the job.
JobInv(j) ==
  /\ ~(Queued(j) /\ Active(j))
  /\ Active(j) => j \in m_job_pq
  /\ Live(j) => subr[j].told = 0 /\ (j \in m_cb \/ subr[j].m_state = "gone")
  /\ subr[j].m_lookup_job => j \in m_cb
  /\ Live(j) /\ j \in m_cb \ refused =>
       subr[j].m_state = "DNS_LOOKUP" /\ subr[j].m_lookup_job
  /\ j \notin BadName /\ subr[j].m_lookup_job =>
       /\ j \in m_job_pq \/ Queued(j)
       /\ Live(j) \/ subr[j].told > 0
  /\ j \notin BadName /\ subr[j].m_state = "DNS_LOOKUP" =>
       subr[j].told > 0 \/ (j \in m_cb /\ Live(j))

\* The active queries are a function: the type invariant speaks of its domain
\* and its values only.
QueryFcn == query \in [DOMAIN query -> Query]

IInv ==
  /\ TypeOK /\ QueryFcn
  /\ \A j \in Job : JobInv(j)
  /\ ActiveBound /\ TimerArmed

Subr == [m_state : {"NONE", "DNS_LOOKUP", "QUEUED", "gone"},
         m_lookup_job : BOOLEAN, told : 0 .. 1]

\* Two fields of an asker's record are set at once: here by the callback of
\* an answer, by cancel() or by subr_start(), below by that of a failure.
LEMMA SetBoth ==
  ASSUME NEW s \in Subr, NEW m, NEW b
  PROVE  [s EXCEPT !.m_state = m, !.m_lookup_job = b] =
           [m_state |-> m, m_lookup_job |-> b, told |-> s.told]
<1> DEFINE t == [s EXCEPT !.m_state = m]
<1>1. t = [m_state |-> m, m_lookup_job |-> s.m_lookup_job, told |-> s.told]
  BY DEF Subr
<1>2. [s EXCEPT !.m_state = m, !.m_lookup_job = b] = [t EXCEPT !.m_lookup_job = b]
  OBVIOUS
<1> HIDE DEF t
<1> QED
  BY <1>1, <1>2

\* The handle is dropped and the failure counted.
LEMMA SetTold ==
  ASSUME NEW s \in Subr, NEW n, NEW b
  PROVE  [s EXCEPT !.m_lookup_job = b, !.told = n] =
           [m_state |-> s.m_state, m_lookup_job |-> b, told |-> n]
<1> DEFINE t == [s EXCEPT !.m_lookup_job = b]
<1>1. t = [m_state |-> s.m_state, m_lookup_job |-> b, told |-> s.told]
  BY DEF Subr
<1>2. [s EXCEPT !.m_lookup_job = b, !.told = n] = [t EXCEPT !.told = n]
  OBVIOUS
<1> HIDE DEF t
<1> QED
  BY <1>1, <1>2

\* A function with nothing in its domain is the empty one.
LEMMA NoQueries ==
  ASSUME NEW f, f = [j \in DOMAIN f |-> f[j]]
  PROVE  f = << >> <=> DOMAIN f = {}
OBVIOUS

\* The oldest age of a job is a number.
LEMMA OldNat ==
  Old \in Nat
BY NresolverAssumption DEF Old, Expire

\* The initial state.
LEMMA InitInv ==
  Init => IInv
<1> SUFFICES ASSUME Init PROVE IInv
  OBVIOUS
<1> USE NresolverAssumption DEF Init
<1>1. DOMAIN query = {} /\ ToSet(m_job_q) = {}
  BY DEF ToSet
<1>2. IsInjective(m_job_q) /\ m_job_q \in Seq(Job)
  BY DEF IsInjective
<1>3. subr \in [Job -> Subr]
  BY DEF SubrStart, Subr
<1>4. age \in [Job -> 0 .. Old]
  BY OldNat
<1>5. TypeOK
  BY <1>1, <1>2, <1>3, <1>4 DEF TypeOK, Subr
<1>6. QueryFcn
  BY <1>1 DEF QueryFcn
<1>7. ASSUME NEW j \in Job PROVE JobInv(j)
  BY <1>1 DEF JobInv, Live, Queued, Active, SubrStart
<1>8. ActiveBound
  BY <1>1, FS_EmptySet DEF ActiveBound
<1>9. TimerArmed
  BY DEF TimerArmed
<1> QED
  BY <1>5, <1>6, <1>7, <1>8, <1>9 DEF IInv

\* The invariant gives what the runs check.
LEMMA InvGives ==
  IInv => PointersSafe /\ ActiveBound /\ WaitersServed /\ TimerArmed
<1> SUFFICES ASSUME IInv PROVE PointersSafe /\ ActiveBound /\ WaitersServed /\ TimerArmed
  OBVIOUS
<1>1. TypeOK /\ ActiveBound /\ TimerArmed /\ \A j \in Job : JobInv(j)
  BY DEF IInv
<1>2. DOMAIN query \subseteq Job
  BY <1>1 DEF TypeOK
<1>3. JobOutlivesQuery
  BY <1>1, <1>2 DEF JobOutlivesQuery, JobInv, Active
<1>4. HandleSafe
  BY <1>1 DEF HandleSafe, JobInv, Live, Queued, Active
<1>5. CancelRemoves
  BY <1>1 DEF CancelRemoves, JobInv, Live, Queued, Active
<1>6. WaitersServed
  BY <1>1 DEF WaitersServed, JobInv, Live, Queued, Active
<1> QED
  BY <1>1, <1>3, <1>4, <1>5, <1>6 DEF PointersSafe
----------------------------------------------------------------------------
(* The steps *)

\* Ended queries leave the active list, and the others stay as they are.
LEMMA EndedLeave ==
  ASSUME NEW D, NEW qs \in [D -> Query \cup {Ended}]
  PROVE  /\ DOMAIN dns_end_query(qs) = {j \in D : qs[j] # Ended}
         /\ dns_end_query(qs) \in [{j \in D : qs[j] # Ended} -> Query]
BY DEF dns_end_query

\* With fewer active queries the bound still holds.
LEMMA Fewer ==
  ASSUME NEW D, IsFiniteSet(D), NEW n \in Int, Cardinality(D) <= n, NEW E \in SUBSET D
  PROVE  Cardinality(E) <= n
<1>1. Cardinality(E) <= Cardinality(D) /\ IsFiniteSet(E)
  BY FS_Subset
<1>2. Cardinality(E) \in Nat /\ Cardinality(D) \in Nat
  BY <1>1, FS_CardinalityType
<1> QED
  BY <1>1, <1>2

\* A second passes.
LEMMA TickInv ==
  ASSUME IInv, Tick
  PROVE  IInv'
<1> USE NresolverAssumption
<1>1. TypeOK /\ QueryFcn /\ ActiveBound /\ TimerArmed /\ \A j \in Job : JobInv(j)
  BY DEF IInv
<1>2. DOMAIN query' = DOMAIN query
  BY DEF Tick
<1>3. ASSUME NEW j \in DOMAIN query PROVE query'[j] \in Query
  <2>1. query[j] \in Query
    BY <1>1 DEF TypeOK
  <2> DEFINE d == IF query[j].due = 0 THEN 0 ELSE query[j].due - 1
  <2>2. d \in Nat
    BY <2>1 DEF Query
  <2>3. query'[j] = [query[j] EXCEPT !.due = d]
    BY DEF Tick
  <2> HIDE DEF d
  <2> QED
    BY <2>1, <2>2, <2>3 DEF Query
<1>4. QueryFcn'
  <2>1. query' = [j \in DOMAIN query |-> query'[j]]
    BY DEF Tick
  <2> QED
    BY <1>2, <1>3, <2>1 DEF QueryFcn
<1>5. age' \in [Job -> 0 .. Old]
  <2>1. age \in [Job -> 0 .. Old]
    BY <1>1 DEF TypeOK
  <2>2. ASSUME NEW j \in Job
        PROVE  (IF j \in DOMAIN query /\ age[j] < Old THEN age[j] + 1 ELSE age[j]) \in 0 .. Old
    BY <2>1, OldNat
  <2>3. age' = [j \in Job |-> IF j \in DOMAIN query /\ age[j] < Old THEN age[j] + 1 ELSE age[j]]
    BY DEF Tick
  <2> QED
    BY <2>2, <2>3
<1>6. /\ UNCHANGED <<m_job_q, m_job_pq, m_cb, subr, io, refused, failed>>
      /\ m_timer_obj' = IF m_timer_obj = "armed" THEN "ripe" ELSE m_timer_obj
  BY DEF Tick, histVars
<1>7. TypeOK'
  BY <1>1, <1>2, <1>3, <1>5, <1>6 DEF TypeOK
<1>8. ASSUME NEW j \in Job PROVE JobInv(j)'
  <2>1. JobInv(j)
    BY <1>1
  <2> QED
    BY <1>2, <1>6, <2>1 DEF JobInv, Live, Queued, Active
<1>9. ActiveBound'
  BY <1>1, <1>2 DEF ActiveBound
<1>10. TimerArmed'
  <2>1. query = [j \in DOMAIN query |-> query[j]] /\ query' = [j \in DOMAIN query' |-> query'[j]]
    BY <1>1, <1>4 DEF QueryFcn
  <2>2. (query = << >> <=> DOMAIN query = {}) /\ (query' = << >> <=> DOMAIN query' = {})
    BY <2>1, NoQueries
  <2> QED
    BY <1>1, <1>2, <1>6, <2>2 DEF TimerArmed
<1> QED
  BY <1>4, <1>7, <1>8, <1>9, <1>10 DEF IInv

\* A datagram has come.
LEMMA ReadableInv ==
  ASSUME IInv, Readable
  PROVE  IInv'
<1>1. TypeOK /\ QueryFcn /\ ActiveBound /\ TimerArmed /\ \A j \in Job : JobInv(j)
  BY DEF IInv
<1>2. /\ UNCHANGED <<m_job_q, query, m_job_pq, age, m_timer_obj, m_cb, subr, refused, failed>>
      /\ io' = TRUE
  BY DEF Readable, histVars
<1>3. TypeOK'
  BY <1>1, <1>2 DEF TypeOK
<1>4. ASSUME NEW j \in Job PROVE JobInv(j)'
  <2>1. JobInv(j)
    BY <1>1
  <2> QED
    BY <1>2, <2>1 DEF JobInv, Live, Queued, Active
<1> QED
  BY <1>1, <1>2, <1>3, <1>4 DEF IInv, QueryFcn, ActiveBound, TimerArmed

\* An asker is cancelled and deleted.
LEMMA CancelInv ==
  ASSUME IInv, NEW i \in Job, cancel(i)
  PROVE  IInv'
<1>1. TypeOK /\ QueryFcn /\ ActiveBound /\ TimerArmed /\ \A j \in Job : JobInv(j)
  BY DEF IInv
<1>2. subr \in [Job -> Subr] /\ m_cb \subseteq Job
  BY <1>1 DEF TypeOK, Subr
<1>3. /\ m_cb' = IF subr[i].m_state = "DNS_LOOKUP" /\ subr[i].m_lookup_job THEN m_cb \ {i} ELSE m_cb
      /\ UNCHANGED <<m_job_q, query, m_job_pq, age, m_timer_obj, io, refused, failed>>
  BY DEF cancel, histVars
<1>4. subr' = [subr EXCEPT ![i] = [m_state |-> "gone", m_lookup_job |-> FALSE, told |-> subr[i].told]]
  <2> DEFINE r == [subr[i] EXCEPT !.m_state = "gone", !.m_lookup_job = FALSE]
  <2>1. r = [m_state |-> "gone", m_lookup_job |-> FALSE, told |-> subr[i].told]
    BY <1>2, SetBoth
  <2>2. subr' = [subr EXCEPT ![i] = r]
    BY DEF cancel
  <2> HIDE DEF r
  <2> QED
    BY <2>1, <2>2
<1>5. subr' \in [Job -> Subr]
  BY <1>2, <1>4 DEF Subr
<1>6. TypeOK'
  BY <1>1, <1>2, <1>3, <1>5 DEF TypeOK, Subr
<1>7. ASSUME NEW j \in Job PROVE JobInv(j)'
  <2>1. JobInv(j)
    BY <1>1
  <2>2. (Queued(j)' <=> Queued(j)) /\ (Active(j)' <=> Active(j)) /\ (Live(j)' <=> Live(j))
    BY <1>3 DEF Live, Queued, Active
  <2>3. CASE j # i
    <3>1. subr'[j] = subr[j] /\ (j \in m_cb' <=> j \in m_cb)
      BY <1>2, <1>3, <1>4, <2>3
    <3> QED
      BY <1>3, <2>1, <2>2, <3>1 DEF JobInv
  <2>4. CASE j = i
    <3>1. /\ subr'[j].m_state = "gone" /\ subr'[j].m_lookup_job = FALSE
          /\ subr'[j].told = subr[j].told
      BY <1>2, <1>4, <2>4
    <3>2. Live(j) /\ j \in m_cb \ refused => j \notin m_cb'
      BY <1>3, <2>1, <2>4 DEF JobInv
    <3>3. j \in m_cb' => j \in m_cb
      BY <1>3
    <3> QED
      BY <1>3, <2>1, <2>2, <3>1, <3>2, <3>3 DEF JobInv
  <2> QED
    BY <2>3, <2>4
<1> QED
  BY <1>1, <1>3, <1>6, <1>7 DEF IInv, QueryFcn, ActiveBound, TimerArmed

\* dns_a4_cb() tells the askers of failed queries that have their callback.
LEMMA FailedTells ==
  ASSUME NEW s \in [Job -> Subr], NEW js, NEW cbs
  PROVE  /\ Failed(s, js, cbs) = [j \in Job |-> Failed(s, js, cbs)[j]]
         /\ \A j \in Job : Failed(s, js, cbs)[j] =
              IF j \in js /\ j \in cbs
              THEN [m_state |-> s[j].m_state, m_lookup_job |-> FALSE, told |-> s[j].told + 1]
              ELSE s[j]
<1>1. ASSUME NEW j \in Job
      PROVE  [s[j] EXCEPT !.m_lookup_job = FALSE, !.told = s[j].told + 1] =
               [m_state |-> s[j].m_state, m_lookup_job |-> FALSE, told |-> s[j].told + 1]
  <2>1. s[j] \in Subr
    OBVIOUS
  <2> QED
    BY <2>1, SetTold
<1> DEFINE tell(j) == [s[j] EXCEPT !.m_lookup_job = FALSE, !.told = s[j].told + 1]
<1>2. Failed(s, js, cbs) = [j \in Job |-> IF j \in js \cap cbs THEN tell(j) ELSE s[j]]
  BY DEF Failed
<1> HIDE DEF tell
<1>3. \A j \in Job : Failed(s, js, cbs)[j] = IF j \in js \cap cbs THEN tell(j) ELSE s[j]
  BY <1>2
<1>4. Failed(s, js, cbs) = [j \in Job |-> Failed(s, js, cbs)[j]]
  BY <1>2
<1> QED
  BY <1>1, <1>3, <1>4 DEF tell

\* An answer arrives.
LEMMA IoeventInv ==
  ASSUME IInv, NEW i \in Job, NEW s \in Server, NEW rcode \in Rcode, dns_ioevent(i, s, rcode)
  PROVE  IInv'
<1> USE NresolverAssumption
<1>1. TypeOK /\ QueryFcn /\ ActiveBound /\ TimerArmed /\ \A j \in Job : JobInv(j)
  BY DEF IInv
<1>2. /\ subr \in [Job -> Subr] /\ m_cb \subseteq Job /\ DOMAIN query \subseteq Job
      /\ i \in DOMAIN query
      /\ age \in [Job -> 0 .. Old]
  BY <1>1 DEF TypeOK, Subr, dns_ioevent
<1>3. PICK fails \in {FALSE, SendMayFail} :
        LET q == Answered(query[i], s, rcode, fails) IN
        /\ query' = dns_end_query([query EXCEPT ![i] = q])
        /\ subr' = IF q # Ended THEN subr
                   ELSE IF rcode = "found" THEN Resolved(i)
                   ELSE Failed(subr, {i}, m_cb)
  BY DEF dns_ioevent
<1> DEFINE q == Answered(query[i], s, rcode, fails)
           qs == [query EXCEPT ![i] = q]
<1>4. /\ UNCHANGED <<m_job_q, m_job_pq, m_timer_obj, m_cb, io, refused, failed>>
      /\ age' = [j \in Job |-> IF j \in DOMAIN query' THEN age[j] ELSE 0]
  BY DEF dns_ioevent, histVars, AgeWhileActive
<1>5. q \in Query \cup {Ended}
  <2>1. query[i] \in Query
    BY <1>1, <1>2 DEF TypeOK
  <2> QED
    BY <2>1, AnsweredQuery
<1>6. /\ query' = dns_end_query(qs)
      /\ subr' = IF q # Ended THEN subr
                 ELSE IF rcode = "found" THEN Resolved(i)
                 ELSE Failed(subr, {i}, m_cb)
  BY <1>3
<1> HIDE DEF q
<1>7. qs \in [DOMAIN query -> Query \cup {Ended}]
  BY <1>1, <1>2, <1>5 DEF QueryFcn
<1>8. \A j \in DOMAIN query : qs[j] # Ended <=> j # i \/ q # Ended
  <2>1. \A j \in DOMAIN query : query[j] # Ended
    BY <1>1, EndedNotActive DEF TypeOK
  <2> QED
    BY <1>1, <1>2, <2>1 DEF QueryFcn
<1> HIDE DEF qs
<1>9. /\ DOMAIN query' = {j \in DOMAIN query : j # i \/ q # Ended}
      /\ query' \in [DOMAIN query' -> Query]
  BY <1>6, <1>7, <1>8, EndedLeave
<1>10. ASSUME NEW j \in Job
       PROVE  subr'[j] =
                IF j # i \/ q # Ended \/ j \notin m_cb THEN subr[j]
                ELSE IF rcode = "found"
                THEN [m_state |-> "QUEUED", m_lookup_job |-> FALSE, told |-> subr[j].told]
                ELSE [m_state |-> subr[j].m_state, m_lookup_job |-> FALSE, told |-> subr[j].told + 1]
  <2>1. CASE q # Ended
    BY <1>6, <2>1
  <2>2. CASE q = Ended /\ rcode = "found"
    <3> DEFINE r == [subr[i] EXCEPT !.m_state = "QUEUED", !.m_lookup_job = FALSE]
    <3>1. r = [m_state |-> "QUEUED", m_lookup_job |-> FALSE, told |-> subr[i].told]
      BY <1>2, SetBoth
    <3>2. Resolved(i) = IF i \in m_cb THEN [subr EXCEPT ![i] = r] ELSE subr
      BY DEF Resolved
    <3> HIDE DEF r
    <3> QED
      BY <1>2, <1>6, <2>2, <3>1, <3>2
  <2>3. CASE q = Ended /\ rcode # "found"
    <3>1. subr' = Failed(subr, {i}, m_cb)
      BY <1>6, <2>3
    <3>2. subr'[j] = IF j \in {i} /\ j \in m_cb
              THEN [m_state |-> subr[j].m_state, m_lookup_job |-> FALSE, told |-> subr[j].told + 1]
              ELSE subr[j]
      BY <1>2, <3>1, FailedTells
    <3> QED
      BY <2>3, <3>2
  <2> QED
    BY <2>1, <2>2, <2>3
<1>11. subr' = [j \in Job |-> subr'[j]]
  <2>1. CASE q # Ended
    BY <1>2, <1>6, <2>1
  <2>2. CASE q = Ended /\ rcode = "found"
    BY <1>2, <1>6, <2>2 DEF Resolved
  <2>3. CASE q = Ended /\ rcode # "found"
    <3>1. subr' = Failed(subr, {i}, m_cb)
      BY <1>6, <2>3
    <3> QED
      BY <3>1 DEF Failed
  <2> QED
    BY <2>1, <2>2, <2>3
<1>12. subr[i].told = 0 /\ Active(i) /\ ~Queued(i)
  BY <1>1, <1>2 DEF JobInv, Live, Active
<1>13. ASSUME NEW j \in Job PROVE subr'[j] \in Subr
  <2>1. subr[j] \in Subr
    BY <1>2
  <2>2. CASE j # i \/ q # Ended \/ j \notin m_cb
    BY <1>10, <2>1, <2>2
  <2>3. CASE j = i /\ q = Ended /\ j \in m_cb /\ rcode = "found"
    <3>1. subr'[j] = [m_state |-> "QUEUED", m_lookup_job |-> FALSE, told |-> subr[j].told]
      BY <1>10, <2>3
    <3> QED
      BY <2>1, <3>1 DEF Subr
  <2>4. CASE j = i /\ q = Ended /\ j \in m_cb /\ rcode # "found"
    <3>1. subr'[j] = [m_state |-> subr[j].m_state, m_lookup_job |-> FALSE, told |-> subr[j].told + 1]
      BY <1>10, <2>4
    <3>2. subr[j].told + 1 \in 0 .. 1
      BY <1>12, <2>4
    <3> QED
      BY <2>1, <3>1, <3>2 DEF Subr
  <2> QED
    BY <2>2, <2>3, <2>4
<1>14. subr' \in [Job -> Subr]
  BY <1>11, <1>13
<1>15. age' \in [Job -> 0 .. Old]
  BY <1>2, <1>4, OldNat
<1>16. TypeOK'
  <2>1. DOMAIN query' \subseteq Job /\ \A j \in DOMAIN query' : query'[j] \in Query
    BY <1>2, <1>9
  <2> QED
    BY <1>1, <1>4, <1>14, <1>15, <2>1 DEF TypeOK, Subr
<1>17. QueryFcn'
  BY <1>9 DEF QueryFcn
<1>18. ASSUME NEW j \in Job PROVE JobInv(j)'
  <2>1. JobInv(j)
    BY <1>1
  <2>2. Queued(j)' <=> Queued(j)
    BY <1>4 DEF Queued
  <2>3. CASE j # i \/ q # Ended
    <3>1. Active(j)' <=> Active(j)
      BY <1>9, <2>3 DEF Active
    <3>2. subr'[j] = subr[j]
      BY <1>10, <2>3
    <3> QED
      BY <1>4, <2>1, <2>2, <3>1, <3>2 DEF JobInv, Live
  <2>4. CASE j = i /\ q = Ended
    <3>1. ~Active(j)' /\ ~Queued(j)' /\ ~Live(j)'
      BY <1>9, <1>12, <2>2, <2>4 DEF Active, Live
    <3>2. CASE j \notin m_cb
      <4>1. subr'[j] = subr[j]
        BY <1>10, <3>2
      <4> QED
        BY <1>4, <1>12, <2>1, <2>4, <3>1, <3>2, <4>1 DEF JobInv
    <3>3. CASE j \in m_cb /\ rcode = "found"
      <4>1. subr'[j] = [m_state |-> "QUEUED", m_lookup_job |-> FALSE, told |-> subr[j].told]
        BY <1>10, <2>4, <3>3
      <4>2. subr'[j].m_state = "QUEUED" /\ subr'[j].m_lookup_job = FALSE
        BY <4>1
      <4> QED
        BY <1>4, <3>1, <4>2 DEF JobInv
    <3>4. CASE j \in m_cb /\ rcode # "found"
      <4>1. subr'[j] = [m_state |-> subr[j].m_state, m_lookup_job |-> FALSE, told |-> subr[j].told + 1]
        BY <1>10, <2>4, <3>4
      <4>2. subr'[j].told = 1 /\ subr'[j].m_lookup_job = FALSE
        BY <1>12, <2>4, <4>1
      <4> QED
        BY <1>4, <3>1, <4>2 DEF JobInv
    <3> QED
      BY <3>2, <3>3, <3>4
  <2> QED
    BY <2>3, <2>4
<1>19. ActiveBound'
  <2>1. DOMAIN query' \in SUBSET DOMAIN query
    BY <1>9
  <2>2. IsFiniteSet(DOMAIN query)
    BY <1>2, FS_Subset
  <2> QED
    BY <1>1, <2>1, <2>2, Fewer DEF ActiveBound
<1>20. TimerArmed'
  <2>1. query # << >>
    BY <1>2
  <2> QED
    BY <1>1, <1>4, <2>1 DEF TimerArmed
<1> QED
  BY <1>16, <1>17, <1>18, <1>19, <1>20 DEF IInv

----------------------------------------------------------------------------
(* lookup_async() *)

\* The asker, if there is one, comes for the first time.
Asks(new) ==
  /\ new \in Seq(Job) /\ Len(new) <= 1
  /\ \A j \in ToSet(new) : subr[j] = SubrStart /\ j \notin m_cb

\* The queue with the asker's job has no repetitions, and the new job is
\* neither queued nor active.
LEMMA NewQueue ==
  ASSUME IInv, NEW new, Asks(new)
  PROVE  /\ m_job_q \o new \in Seq(Job) /\ IsInjective(m_job_q \o new)
         /\ ToSet(m_job_q \o new) = ToSet(m_job_q) \cup ToSet(new)
         /\ ToSet(new) \subseteq Job
         /\ \A j \in ToSet(new) : ~Live(j)
<1>1. m_job_q \in Seq(Job) /\ IsInjective(m_job_q) /\ \A j \in Job : JobInv(j)
  BY DEF IInv, TypeOK
<1>2. ToSet(new) \subseteq Job
  BY DEF Asks, ToSet
<1>3. \A j \in ToSet(new) : ~Live(j)
  BY <1>1, <1>2 DEF Asks, JobInv, SubrStart
<1>4. ToSet(m_job_q) \cap ToSet(new) = {}
  BY <1>3 DEF Live, Queued
<1> QED
  BY <1>1, <1>2, <1>3, <1>4, Joined DEF Asks

\* The slots that are free.
LEMMA Slots ==
  ASSUME IInv, NEW q \in Seq(Job)
  PROVE  \E k \in 0 .. Len(q) :
           k <= l_submit /\ Taken(q) = SubSeq(q, 1, k) /\ Len(Taken(q)) = k
<1> USE NresolverAssumption
<1>1. DOMAIN query \subseteq Job /\ Cardinality(DOMAIN query) <= m_max_parallel
  BY DEF IInv, TypeOK, ActiveBound
<1>2. Cardinality(DOMAIN query) \in Nat
  BY <1>1, FS_Subset, FS_CardinalityType
<1> DEFINE k == IF l_submit < Len(q) THEN l_submit ELSE Len(q)
<1>3. l_submit \in Nat
  BY <1>1, <1>2 DEF l_submit
<1>4. k \in 0 .. Len(q) /\ k <= l_submit
  BY <1>3
<1>5. Taken(q) = SubSeq(q, 1, k)
  BY DEF Taken
<1> HIDE DEF k
<1>6. Len(SubSeq(q, 1, k)) = k
  BY <1>4
<1> QED
  BY <1>4, <1>5, <1>6

\* Filling free slots keeps the bound.
LEMMA Filled ==
  ASSUME IInv, NEW T \in SUBSET Job, Cardinality(T) <= l_submit
  PROVE  /\ Cardinality(DOMAIN query \cup T) <= m_max_parallel
         /\ IsFiniteSet(DOMAIN query \cup T)
<1> USE NresolverAssumption
<1>1. DOMAIN query \subseteq Job
  BY DEF IInv, TypeOK
<1>2. IsFiniteSet(DOMAIN query) /\ IsFiniteSet(T) /\ IsFiniteSet(DOMAIN query \cap T)
  BY <1>1, FS_Subset
<1>3. /\ Cardinality(DOMAIN query) \in Nat /\ Cardinality(T) \in Nat
      /\ Cardinality(DOMAIN query \cap T) \in Nat
  BY <1>2, FS_CardinalityType
<1>4. /\ IsFiniteSet(DOMAIN query \cup T)
      /\ Cardinality(DOMAIN query \cup T) =
           Cardinality(DOMAIN query) + Cardinality(T) - Cardinality(DOMAIN query \cap T)
  BY <1>2, FS_Union
<1> QED
  BY <1>3, <1>4 DEF l_submit

\* New queries join the active ones.
LEMMA Submitted ==
  ASSUME IInv, NEW T \in SUBSET Job
  PROVE  dns_submit_a4(T) \in [DOMAIN query \cup T -> Query]
<1>1. dns_newid(NSrch) \in Query
  BY NresolverAssumption, NewQuery
<1>2. \A j \in DOMAIN query : query[j] \in Query
  BY DEF IInv, TypeOK
<1> QED
  BY <1>1, <1>2 DEF dns_submit_a4

\* Names are all accepted.
LEMMA SubmitAllInv ==
  ASSUME IInv, NEW new, Asks(new), NEW timer \in {"none", "armed", "ripe"},
         SubmitAll(m_job_q \o new, new, timer),
         m_cb' = m_cb \cup ToSet(new), failed' = FALSE, refused' = refused,
         AgeWhileActive, io' \in BOOLEAN
  PROVE  IInv'
<1> USE NresolverAssumption
<1> DEFINE q == m_job_q \o new
           N == ToSet(new)
           T == ToSet(Taken(q))
           A == DOMAIN query \cup T
           cbs == m_cb \cup N
           qs == dns_submit_a4(T)
<1>1. TypeOK /\ QueryFcn /\ ActiveBound /\ TimerArmed /\ \A j \in Job : JobInv(j)
  BY DEF IInv
<1>2. /\ subr \in [Job -> Subr] /\ m_cb \subseteq Job /\ DOMAIN query \subseteq Job
      /\ age \in [Job -> 0 .. Old] /\ m_job_pq \subseteq Job /\ refused \subseteq Job
  BY <1>1 DEF TypeOK, Subr
<1>3. /\ q \in Seq(Job) /\ IsInjective(q) /\ ToSet(q) = ToSet(m_job_q) \cup N
      /\ N \subseteq Job /\ \A j \in N : ~Live(j)
  BY NewQueue
<1>4. PICK fails :
        LET sent == dns_timeouts(qs, fails)
            heard == Failed(subr, {j \in DOMAIN sent : sent[j] = Ended}, cbs) IN
        /\ query' = dns_end_query(sent)
        /\ subr' = [j \in Job |->
             IF j \in N
             THEN [heard[j] EXCEPT !.m_state = "DNS_LOOKUP", !.m_lookup_job = TRUE]
             ELSE heard[j]]
  BY DEF SubmitAll
<1> DEFINE sent == dns_timeouts(qs, fails)
           E == {j \in A : sent[j] = Ended}
           heard == Failed(subr, E, cbs)
<1>5. /\ m_job_q' = SubSeq(q, Len(Taken(q)) + 1, Len(q))
      /\ m_job_pq' = m_job_pq \cup T
      /\ m_timer_obj' = Armed(timer, query')
      /\ m_cb' = cbs
  BY DEF SubmitAll, DeleteExpired
<1>6. PICK k \in 0 .. Len(q) : k <= l_submit /\ Taken(q) = SubSeq(q, 1, k) /\ Len(Taken(q)) = k
  <2> HIDE DEF q
  <2> QED
    BY <1>3, Slots
<1>7. /\ T = {q[i] : i \in 1 .. k} /\ ToSet(m_job_q') = {q[i] : i \in k + 1 .. Len(q)}
      /\ T \cap ToSet(m_job_q') = {} /\ T \subseteq Job
      /\ m_job_q' \in Seq(Job) /\ IsInjective(m_job_q')
      /\ Cardinality(T) <= k
  <2> HIDE DEF q
  <2>1. k \in k .. Len(q)
    BY <1>3
  <2> QED
    BY <1>3, <1>5, <1>6, <2>1, Split
<1>8. T \cup ToSet(m_job_q') = ToSet(m_job_q) \cup N
  <2> HIDE DEF q, T
  <2>1. ToSet(q) = {q[i] : i \in 1 .. Len(q)}
    BY <1>3 DEF ToSet
  <2>2. 1 .. Len(q) = 1 .. k \cup k + 1 .. Len(q)
    BY <1>3
  <2> QED
    BY <1>3, <1>7, <2>1, <2>2
<1>9. qs \in [A -> Query]
  <2> HIDE DEF T
  <2> QED
    BY <1>7, Submitted
<1>10. sent \in [A -> Query \cup {Ended}]
  <2> HIDE DEF qs, A
  <2>1. ASSUME NEW j \in A
        PROVE  (IF qs[j].due = 0 THEN dns_send(qs[j], j \in fails) ELSE qs[j]) \in Query \cup {Ended}
    BY <1>9, Sent
  <2> QED
    BY <1>9, <2>1 DEF dns_timeouts
<1>11. DOMAIN sent = A
  BY <1>10
<1>12. /\ query' = dns_end_query(sent)
       /\ subr' = [j \in Job |->
            IF j \in N
            THEN [heard[j] EXCEPT !.m_state = "DNS_LOOKUP", !.m_lookup_job = TRUE]
            ELSE heard[j]]
  <2> HIDE DEF N, cbs, qs
  <2> QED
    BY <1>4, <1>11
<1> HIDE DEF q, T, sent
<1>13. /\ DOMAIN query' = A \ E
       /\ query' \in [DOMAIN query' -> Query]
  <2> HIDE DEF A
  <2>1. /\ DOMAIN query' = {j \in A : sent[j] # Ended}
        /\ query' \in [{j \in A : sent[j] # Ended} -> Query]
    BY <1>10, <1>12, EndedLeave
  <2>2. {j \in A : sent[j] # Ended} = A \ E
    OBVIOUS
  <2> QED
    BY <2>1, <2>2
<1>14. ASSUME NEW j \in Job
       PROVE  heard[j] = IF j \in E /\ j \in cbs
              THEN [m_state |-> subr[j].m_state, m_lookup_job |-> FALSE, told |-> subr[j].told + 1]
              ELSE subr[j]
  <2> HIDE DEF E, cbs
  <2> QED
    BY <1>2, FailedTells
<1>15. \A j \in E : j \in Job /\ subr[j].told = 0
  <2> SUFFICES ASSUME NEW j \in E PROVE j \in Job /\ subr[j].told = 0
    OBVIOUS
  <2>1. j \in Job /\ (Live(j) \/ j \in N)
    BY <1>2, <1>7, <1>8 DEF Live, Active, Queued
  <2>2. CASE Live(j)
    BY <1>1, <2>1, <2>2 DEF JobInv
  <2>3. CASE j \in N
    BY <2>1, <2>3 DEF Asks, SubrStart
  <2> QED
    BY <2>1, <2>2, <2>3
<1>16. ASSUME NEW j \in Job PROVE heard[j] \in Subr
  <2>1. subr[j] \in Subr
    BY <1>2
  <2>2. CASE ~(j \in E /\ j \in cbs)
    BY <1>14, <2>1, <2>2
  <2>3. CASE j \in E /\ j \in cbs
    <3>1. heard[j] =
            [m_state |-> subr[j].m_state, m_lookup_job |-> FALSE, told |-> subr[j].told + 1]
      BY <1>14, <2>3
    <3>2. subr[j].told + 1 \in 0 .. 1
      BY <1>15, <2>3
    <3> HIDE DEF heard
    <3> QED
      BY <2>1, <3>1, <3>2 DEF Subr
  <2> QED
    BY <2>2, <2>3
<1> HIDE DEF heard
<1>17. ASSUME NEW j \in Job
       PROVE  subr'[j] =
                IF j \in N
                THEN [m_state |-> "DNS_LOOKUP", m_lookup_job |-> TRUE, told |-> heard[j].told]
                ELSE heard[j]
  <2>1. [heard[j] EXCEPT !.m_state = "DNS_LOOKUP", !.m_lookup_job = TRUE] =
          [m_state |-> "DNS_LOOKUP", m_lookup_job |-> TRUE, told |-> heard[j].told]
    BY <1>16, SetBoth
  <2>2. subr'[j] = IF j \in N
          THEN [heard[j] EXCEPT !.m_state = "DNS_LOOKUP", !.m_lookup_job = TRUE]
          ELSE heard[j]
    BY <1>12, Zenon
  <2> QED
    BY <2>1, <2>2
<1>18. ASSUME NEW j \in Job PROVE subr'[j] \in Subr
  <2>1. CASE j \in N
    <3>1. subr'[j] = [m_state |-> "DNS_LOOKUP", m_lookup_job |-> TRUE, told |-> heard[j].told]
      BY <1>17, <2>1
    <3>2. heard[j].told \in 0 .. 1
      BY <1>16 DEF Subr
    <3> QED
      BY <3>1, <3>2 DEF Subr
  <2>2. CASE j \notin N
    BY <1>16, <1>17, <2>2
  <2> QED
    BY <2>1, <2>2
<1>19. subr' \in [Job -> Subr]
  <2>1. subr' = [j \in Job |-> subr'[j]]
    BY <1>12
  <2> QED
    BY <1>18, <2>1
<1>20. age' \in [Job -> 0 .. Old]
  BY <1>2, OldNat DEF AgeWhileActive
<1>21. m_timer_obj' \in {"none", "armed", "ripe"} /\ TimerArmed'
  BY <1>5 DEF Armed, TimerArmed
<1>22. TypeOK'
  <2>1. DOMAIN query' \subseteq Job /\ \A j \in DOMAIN query' : query'[j] \in Query
    BY <1>2, <1>7, <1>13
  <2>2. m_job_pq' \subseteq Job /\ m_cb' \subseteq Job /\ refused' \subseteq Job
    BY <1>2, <1>3, <1>5, <1>7
  <2> QED
    BY <1>7, <1>19, <1>20, <1>21, <2>1, <2>2 DEF TypeOK, Subr
<1>23. QueryFcn'
  BY <1>13 DEF QueryFcn
<1>24. ActiveBound'
  <2>1. T \in SUBSET Job /\ Cardinality(T) <= l_submit
    <3>1. IsFiniteSet(T) /\ IsFiniteSet(DOMAIN query)
      BY <1>2, <1>7, FS_Subset
    <3>2. Cardinality(T) \in Nat /\ Cardinality(DOMAIN query) \in Nat
      BY <3>1, FS_CardinalityType
    <3> QED
      BY <1>6, <1>7, <3>2 DEF l_submit
  <2>2. Cardinality(A) <= m_max_parallel /\ IsFiniteSet(A)
    BY <2>1, Filled
  <2>3. DOMAIN query' \in SUBSET A
    BY <1>13
  <2> HIDE DEF A
  <2> QED
    BY <2>2, <2>3, Fewer DEF ActiveBound
<1>25. ASSUME NEW j \in Job PROVE JobInv(j)'
  <2>1. JobInv(j)
    BY <1>1
  <2>2. (j \in T \/ Queued(j)') <=> (Queued(j) \/ j \in N)
    BY <1>8 DEF Queued
  <2>3. ~(j \in T /\ Queued(j)')
    BY <1>7 DEF Queued
  <2>4. Active(j)' <=> (Active(j) \/ j \in T) /\ j \notin E
    BY <1>13 DEF Active
  <2>5. j \in E => Active(j) \/ j \in T
    BY DEF Active
  <2>6. (j \in m_job_pq' <=> j \in m_job_pq \/ j \in T) /\ (j \in m_cb' <=> j \in m_cb \/ j \in N)
    BY <1>5
  <2>7. j \in N => ~Queued(j) /\ ~Active(j) /\ j \notin m_cb /\ subr[j].told = 0
    BY <1>3 DEF Live, Asks, SubrStart
  <2>8. CASE j \in N
    <3>1. /\ subr'[j].m_state = "DNS_LOOKUP" /\ subr'[j].m_lookup_job
          /\ subr'[j].told = heard[j].told
      <4>1. subr'[j] = [m_state |-> "DNS_LOOKUP", m_lookup_job |-> TRUE, told |-> heard[j].told]
        BY <1>17, <2>8
      <4> QED
        BY <4>1
    <3>2. heard[j].told = IF j \in E THEN 1 ELSE 0
      <4>1. CASE j \in E
        <5>1. heard[j] =
                [m_state |-> subr[j].m_state, m_lookup_job |-> FALSE, told |-> subr[j].told + 1]
          BY <1>14, <2>8, <4>1
        <5> QED
          BY <2>7, <2>8, <4>1, <5>1
      <4>2. CASE j \notin E
        BY <1>14, <2>7, <2>8, <4>2
      <4> QED
        BY <4>1, <4>2
    <3> HIDE DEF N, E
    <3> QED
      BY <2>2, <2>3, <2>4, <2>5, <2>6, <2>7, <2>8, <3>1, <3>2 DEF JobInv, Live
  <2>9. CASE j \notin N /\ j \in E /\ j \in m_cb
    <3>1. subr'[j] =
            [m_state |-> subr[j].m_state, m_lookup_job |-> FALSE, told |-> subr[j].told + 1]
      BY <1>14, <1>17, <2>9
    <3>2. subr'[j].m_lookup_job = FALSE /\ subr'[j].told = 1
      BY <1>15, <2>9, <3>1
    <3>3. ~Live(j)'
      BY <2>1, <2>2, <2>3, <2>4, <2>5, <2>9 DEF JobInv, Live
    <3> QED
      BY <3>2, <3>3 DEF JobInv, Live
  <2>10. CASE j \notin N /\ ~(j \in E /\ j \in m_cb)
    <3>1. subr'[j] = subr[j]
      BY <1>14, <1>17, <2>10
    <3>2. CASE j \in E
      <4>1. ~Live(j)' /\ Live(j)
        BY <2>1, <2>2, <2>3, <2>4, <2>5, <2>10, <3>2 DEF JobInv, Live
      <4>2. j \notin m_cb' /\ j \notin m_cb
        BY <2>6, <2>10, <3>2
      <4> QED
        BY <2>1, <3>1, <4>1, <4>2 DEF JobInv, Live
    <3>3. CASE j \notin E
      <4>1. /\ Live(j)' <=> Live(j)
            /\ ~(Queued(j)' /\ Active(j)')
            /\ Queued(j) => Queued(j)' \/ j \in T
            /\ j \in m_cb' <=> j \in m_cb
        BY <2>1, <2>2, <2>3, <2>4, <2>6, <2>10, <3>3 DEF JobInv, Live
      <4>2. Active(j)' => j \in m_job_pq'
        BY <2>1, <2>4, <2>6 DEF JobInv
      <4> QED
        BY <2>1, <2>6, <3>1, <4>1, <4>2 DEF JobInv
    <3> QED
      BY <3>2, <3>3
  <2> QED
    BY <2>8, <2>9, <2>10
<1> QED
  BY <1>21, <1>22, <1>23, <1>24, <1>25 DEF IInv

\* The first refused name, if there is one, is among the jobs taken.
LEMMA FirstRefused ==
  ASSUME NEW s \in Seq(Job), SelectInSeq(s, LAMBDA j : j \in BadName) # 0
  PROVE  /\ SelectInSeq(s, LAMBDA j : j \in BadName) \in 1 .. Len(s)
         /\ s[SelectInSeq(s, LAMBDA j : j \in BadName)] \in BadName
<1> DEFINE I == {i \in 1 .. Len(s) : s[i] \in BadName}
<1>1. SelectInSeq(s, LAMBDA j : j \in BadName) = IF I # {} THEN Min(I) ELSE 0
  BY DEF SelectInSeq
<1>2. I # {} /\ SelectInSeq(s, LAMBDA j : j \in BadName) = Min(I)
  BY <1>1
<1>3. I \in SUBSET Nat
  OBVIOUS
<1>4. PICK x \in I : \A y \in I : x <= y
  <2> HIDE DEF I
  <2> QED
    BY <1>2, <1>3, LeastElement
<1>5. Min(I) \in I
  <2> HIDE DEF I
  <2> QED
    BY <1>4 DEF Min
<1> QED
  BY <1>2, <1>5

\* A name was refused.
LEMMA SubmitRefusedInv ==
  ASSUME IInv, NEW new, Asks(new), NEW timer \in {"none", "armed", "ripe"},
         SubmitRefused(m_job_q \o new, timer),
         m_cb' = m_cb \cup ToSet(new), failed' = TRUE, refused' = refused \cup ToSet(new),
         AgeWhileActive, io' \in BOOLEAN
  PROVE  IInv'
<1> USE NresolverAssumption
<1> DEFINE q == m_job_q \o new
           N == ToSet(new)
           n == SelectInSeq(Taken(q), LAMBDA j : j \in BadName)
           T == ToSet(SubSeq(q, 1, n - 1))
<1>1. TypeOK /\ QueryFcn /\ ActiveBound /\ TimerArmed /\ \A j \in Job : JobInv(j)
  BY DEF IInv
<1>2. /\ subr \in [Job -> Subr] /\ m_cb \subseteq Job /\ DOMAIN query \subseteq Job
      /\ age \in [Job -> 0 .. Old] /\ m_job_pq \subseteq Job /\ refused \subseteq Job
  BY <1>1 DEF TypeOK, Subr
<1>3. /\ q \in Seq(Job) /\ IsInjective(q) /\ ToSet(q) = ToSet(m_job_q) \cup N
      /\ N \subseteq Job /\ \A j \in N : ~Live(j)
  BY NewQueue
<1>4. /\ n # 0
      /\ query' = dns_submit_a4(T)
      /\ m_job_q' = SubSeq(q, n + 1, Len(q))
      /\ m_job_pq' = m_job_pq \cup T
      /\ m_timer_obj' = timer
      /\ subr' = subr
  BY DEF SubmitRefused
<1>5. PICK k \in 0 .. Len(q) : k <= l_submit /\ Taken(q) = SubSeq(q, 1, k) /\ Len(Taken(q)) = k
  <2> HIDE DEF q
  <2> QED
    BY <1>3, Slots
<1>6. n \in 1 .. k /\ q[n] \in BadName
  <2>1. Taken(q) \in Seq(Job)
    <3> HIDE DEF q
    <3> QED
      BY <1>3, <1>5
  <2>2. n \in 1 .. Len(Taken(q)) /\ Taken(q)[n] \in BadName
    BY <1>4, <2>1, FirstRefused
  <2> HIDE DEF q, n
  <2>3. n \in 1 .. k /\ Taken(q)[n] = q[n]
    BY <1>3, <1>5, <2>2
  <2> QED
    BY <2>2, <2>3
<1> HIDE DEF n
<1>7. /\ T = {q[i] : i \in 1 .. n - 1} /\ ToSet(m_job_q') = {q[i] : i \in n + 1 .. Len(q)}
      /\ T \cap ToSet(m_job_q') = {} /\ T \subseteq Job
      /\ m_job_q' \in Seq(Job) /\ IsInjective(m_job_q')
      /\ Cardinality(T) <= n - 1
  <2> HIDE DEF q
  <2>1. n - 1 \in 0 .. Len(q) /\ n \in n - 1 .. Len(q)
    BY <1>3, <1>5, <1>6
  <2> QED
    BY <1>3, <1>4, <2>1, Split
<1>8. T \cup ToSet(m_job_q') \cup {q[n]} = ToSet(m_job_q) \cup N
  <2> HIDE DEF q, T, N
  <2>1. ToSet(q) = {q[i] : i \in 1 .. Len(q)}
    BY <1>3 DEF ToSet
  <2>2. 1 .. Len(q) = 1 .. n - 1 \cup n + 1 .. Len(q) \cup {n}
    BY <1>3, <1>5, <1>6
  <2>3. ToSet(q) = {q[i] : i \in 1 .. n - 1} \cup {q[i] : i \in n + 1 .. Len(q)} \cup {q[n]}
    BY <2>1, <2>2, Zenon
  <2> QED
    BY <1>3, <1>7, <2>3
<1>9. query' \in [DOMAIN query \cup T -> Query]
  <2> HIDE DEF T
  <2> QED
    BY <1>4, <1>7, Submitted
<1> HIDE DEF q, T
<1>10. DOMAIN query' = DOMAIN query \cup T
  BY <1>9
<1>11. age' \in [Job -> 0 .. Old]
  BY <1>2, OldNat DEF AgeWhileActive
<1>12. TypeOK'
  <2>1. DOMAIN query' \subseteq Job /\ \A j \in DOMAIN query' : query'[j] \in Query
    BY <1>2, <1>7, <1>9, <1>10
  <2>2. m_job_pq' \subseteq Job /\ m_cb' \subseteq Job /\ refused' \subseteq Job
    BY <1>2, <1>3, <1>4, <1>7
  <2>3. subr' \in [Job -> Subr] /\ m_timer_obj' \in {"none", "armed", "ripe"}
    BY <1>2, <1>4
  <2> QED
    BY <1>7, <1>11, <2>1, <2>2, <2>3 DEF TypeOK, Subr
<1>13. QueryFcn'
  BY <1>9, <1>10 DEF QueryFcn
<1>14. ActiveBound'
  <2>1. T \in SUBSET Job /\ Cardinality(T) <= l_submit
    <3>1. IsFiniteSet(T) /\ IsFiniteSet(DOMAIN query)
      BY <1>2, <1>7, FS_Subset
    <3>2. Cardinality(T) \in Nat /\ Cardinality(DOMAIN query) \in Nat
      BY <3>1, FS_CardinalityType
    <3> QED
      BY <1>5, <1>6, <1>7, <3>2 DEF l_submit
  <2>2. Cardinality(DOMAIN query \cup T) <= m_max_parallel
    BY <2>1, Filled
  <2> QED
    BY <1>10, <2>2 DEF ActiveBound
<1>15. TimerArmed'
  BY DEF TimerArmed
<1>16. ASSUME NEW j \in Job PROVE JobInv(j)'
  <2>1. JobInv(j)
    BY <1>1
  <2>2. (j \in T \/ Queued(j)') \/ j \in BadName <=> (Queued(j) \/ j \in N) \/ j \in BadName
    BY <1>6, <1>8 DEF Queued
  <2>3. (j \in T \/ Queued(j)') => Queued(j) \/ j \in N
    BY <1>8 DEF Queued
  <2>4. ~(j \in T /\ Queued(j)')
    BY <1>7 DEF Queued
  <2>5. Active(j)' <=> (Active(j) \/ j \in T)
    BY <1>10 DEF Active
  <2>6. /\ j \in m_job_pq' <=> j \in m_job_pq \/ j \in T
        /\ j \in m_cb' <=> j \in m_cb \/ j \in N
        /\ j \in refused' <=> j \in refused \/ j \in N
        /\ subr'[j] = subr[j]
    BY <1>4
  <2>7. j \in N => /\ ~Queued(j) /\ ~Active(j) /\ j \notin m_cb /\ subr[j].told = 0
                   /\ subr[j].m_lookup_job = FALSE /\ subr[j].m_state = "NONE"
    BY <1>3 DEF Live, Asks, SubrStart
  <2> HIDE DEF N
  <2>8. CASE j \in N
    BY <2>3, <2>4, <2>5, <2>6, <2>7, <2>8 DEF JobInv, Live
  <2>9. CASE j \notin N
    <3>1. /\ Live(j)' => Live(j)
          /\ j \notin BadName => (Live(j)' <=> Live(j))
          /\ ~(Queued(j)' /\ Active(j)')
          /\ j \notin BadName /\ Queued(j) => Queued(j)' \/ j \in T
          /\ Active(j)' => j \in m_job_pq'
      BY <2>1, <2>2, <2>3, <2>4, <2>5, <2>6, <2>9 DEF JobInv, Live
    <3> QED
      BY <2>1, <2>6, <2>9, <3>1 DEF JobInv
  <2> QED
    BY <2>8, <2>9
<1> QED
  BY <1>12, <1>13, <1>14, <1>15, <1>16 DEF IInv

\* lookup_async() as a whole.
LEMMA LookupInv ==
  ASSUME IInv, NEW new, Asks(new), NEW timer \in {"none", "armed", "ripe"},
         lookup_async(new, timer), io' \in BOOLEAN
  PROVE  IInv'
<1>1. m_cb' = m_cb \cup ToSet(new) /\ AgeWhileActive
  BY DEF lookup_async
<1>2. CASE SubmitAll(m_job_q \o new, new, timer) /\ failed' = FALSE
  <2>1. refused' = refused
    BY <1>2 DEF lookup_async
  <2> QED
    BY <1>1, <1>2, <2>1, SubmitAllInv
<1>3. CASE SubmitRefused(m_job_q \o new, timer) /\ failed' = TRUE
  <2>1. refused' = refused \cup ToSet(new)
    BY <1>3 DEF lookup_async
  <2> QED
    BY <1>1, <1>3, <2>1, SubmitRefusedInv
<1> QED
  BY <1>2, <1>3 DEF lookup_async

\* Every step keeps the invariant.
LEMMA NextInv ==
  ASSUME IInv, [Next]_vars
  PROVE  IInv'
<1>1. m_timer_obj \in {"none", "armed", "ripe"} /\ io \in BOOLEAN
  BY DEF IInv, TypeOK
<1>2. Asks(<< >>)
  BY DEF Asks, ToSet
<1>3. ASSUME NEW j \in Job, subr_start(j) PROVE IInv'
  <2>1. subr[j] = SubrStart /\ j \notin m_cb /\ lookup_async(<<j>>, m_timer_obj) /\ io' = io
    BY <1>3 DEF subr_start
  <2>2. Asks(<<j>>)
    BY <2>1 DEF Asks, ToSet
  <2> QED
    BY <1>1, <2>1, <2>2, LookupInv
<1>4. CASE evr_fd_timeout_cb
  BY <1>1, <1>2, <1>4, LookupInv DEF evr_fd_timeout_cb
<1>5. CASE ReadableDone
  BY <1>1, <1>2, <1>5, LookupInv DEF ReadableDone
<1>6. CASE UNCHANGED vars
  <2>1. UNCHANGED <<m_job_q, query, m_job_pq, age, m_timer_obj, m_cb, subr, io, refused, failed>>
    BY <1>6 DEF vars, histVars
  <2>2. TypeOK' /\ QueryFcn' /\ ActiveBound' /\ TimerArmed'
    BY <2>1 DEF IInv, TypeOK, QueryFcn, ActiveBound, TimerArmed
  <2>3. ASSUME NEW j \in Job PROVE JobInv(j)'
    <3>1. JobInv(j)
      BY DEF IInv
    <3> QED
      BY <2>1, <3>1 DEF JobInv, Live, Queued, Active
  <2> QED
    BY <2>2, <2>3 DEF IInv
<1> QED
  BY <1>3, <1>4, <1>5, <1>6, CancelInv, ReadableInv, IoeventInv, TickInv DEF Next

----------------------------------------------------------------------------
(* Theorems *)

\* The invariant holds throughout.
LEMMA Invariant ==
  Spec => []IInv
BY InitInv, NextInv, PTL DEF Spec

\* Whatever answers are lost, late or repeated and whoever is cancelled, every
\* active query has its job, every handle that subr::cancel() writes through
\* leads to a job that was not deleted, and no job calls back a deleted subr
\* unless its own lookup_async() had failed.
THEOREM LookupPointers == Spec => []PointersSafe
BY Invariant, InvGives, PTL

\* lookup_async() never has more than m_max_parallel lookups in progress.
THEOREM LookupBound == Spec => []ActiveBound
BY Invariant, InvGives, PTL

\* A subr in DNS_LOOKUP has a job that will call it, or was told of a failure,
\* unless its own name was refused.
THEOREM LookupServes == Spec => []WaitersServed
BY Invariant, InvGives, PTL

\* After a lookup_async() that did not fail, active queries have a timer.
THEOREM LookupTimer == Spec => []TimerArmed
BY Invariant, InvGives, PTL
=============================================================================
