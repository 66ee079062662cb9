------------------------------ MODULE NbqProofs ------------------------------
(***************************************************************************)
(* Proofs about the block queue, for any size of the blocks and any number *)
(* of bytes: the offset and the cursors are right, and the blocks are a    *)
(* string of bytes with a position.                                        *)
(*                                                                         *)
(* The operations of nbq.cc are taken one by one: each is given a queue    *)
(* that is Good (its blocks, its write cursor and its read cursor agree)   *)
(* and shown to leave one, with the bytes that it should.  A loop is shown *)
(* to end because every round moves a byte or more.  The last two sections *)
(* put the operations together as the owners of the queues do.             *)
(***************************************************************************)
EXTENDS Nbq, SequenceTheorems, WellFoundedInduction, TLAPS

-----------------------------------------------------------------------------
(* The natural numbers *)

\* A set of natural numbers that is not empty has a least element.
LEMMA LeastElement ==
  ASSUME NEW S \in SUBSET Nat, S # {}
  PROVE  \E x \in S : \A y \in S : x <= y
<1>1. PICK x \in S : \A y \in S : ~(<<y, x>> \in OpToRel(<, Nat))
  BY NatLessThanWellFounded, WFMin
<1>2. \A y \in S : ~(y < x)
  BY <1>1, Zenon DEF OpToRel
<1> QED
  BY <1>2

\* Induction on the natural numbers, for a set: what holds of 0 and of each
\* number's successor holds of all, since there is no least exception.
LEMMA SetInduction ==
  ASSUME NEW S \in SUBSET Nat, 0 \in S, \A n \in S : n + 1 \in S
  PROVE  S = Nat
<1> SUFFICES ASSUME Nat \ S # {} PROVE FALSE
  OBVIOUS
<1>1. PICK x \in Nat \ S : \A y \in Nat \ S : x <= y
  BY LeastElement
<1>2. x - 1 \in Nat /\ x - 1 < x
  OBVIOUS
<1>3. x - 1 \in S
  BY <1>1, <1>2
<1>4. (x - 1) + 1 \in S
  BY <1>3
<1>5. (x - 1) + 1 = x
  OBVIOUS
<1> QED
  BY <1>4, <1>5

-----------------------------------------------------------------------------
(* Recursive functions and sums *)

\* Induction up to a bound.
LEMMA UpTo ==
  ASSUME NEW n \in Nat, NEW S, 0 \in S, \A k \in 1..n : k - 1 \in S => k \in S
  PROVE  \A k \in 0..n : k \in S
<1> DEFINE T == {k \in Nat : k <= n => k \in S}
<1>1. 0 \in T
  OBVIOUS
<1>2. ASSUME NEW k \in T PROVE k + 1 \in T
  <2>1. k \in Nat /\ (k <= n => k \in S)
    OBVIOUS
  <2>2. CASE k + 1 <= n
    <3>1. k + 1 \in 1..n /\ (k + 1) - 1 = k
      BY <2>1, <2>2
    <3>2. k + 1 \in S
      BY <3>1, <2>1, <2>2
    <3> QED
      BY <3>2, <2>1
  <2> QED
    BY <2>1, <2>2
<1>3. T = Nat
  <2> HIDE DEF T
  <2>1. T \in SUBSET Nat
    BY DEF T
  <2> QED
    BY <1>1, <1>2, <2>1, SetInduction
<1> QED
  BY <1>3

\* There is a function with values in V that is x at 0 and at each k up to n
\* what G[k] makes of its value one place below.
Computed(V, x, n, G) ==
  \E f \in [0..n -> V] : f[0] = x /\ \A k \in 1..n : f[k] = G[k][f[k - 1]]

\* A function that is defined from its value one place below exists.
LEMMA Recursion ==
  ASSUME NEW V, NEW x \in V, NEW n \in Nat, NEW G \in [1..n -> [V -> V]]
  PROVE  Computed(V, x, n, G)
<1> DEFINE Upto(f, j) == f[0] = x /\ \A k \in 1..j : f[k] = G[k][f[k - 1]]
           S == {j \in 0..n : \E f \in [0..j -> V] : Upto(f, j)}
<1>1. 0 \in S
  <2> DEFINE g == [k \in 0..0 |-> x]
  <2>1. g \in [0..0 -> V] /\ Upto(g, 0)
    OBVIOUS
  <2>2. 0 \in 0..n
    OBVIOUS
  <2> HIDE DEF g
  <2>3. \E f \in [0..0 -> V] : Upto(f, 0)
    BY <2>1
  <2> QED
    BY <2>2, <2>3
<1>2. ASSUME NEW j \in 1..n, j - 1 \in S PROVE j \in S
  <2>1. PICK f \in [0..(j - 1) -> V] : Upto(f, j - 1)
    BY <1>2
  <2> DEFINE g == [k \in 0..j |-> IF k = j THEN G[j][f[j - 1]] ELSE f[k]]
  <2>2. f[j - 1] \in V /\ G[j] \in [V -> V]
    OBVIOUS
  <2>3. g \in [0..j -> V]
    BY <2>2
  <2>4. g[0] = x /\ g[j] = G[j][f[j - 1]]
    BY <2>1
  <2>5. \A k \in 0..j - 1 : g[k] = f[k]
    OBVIOUS
  <2> HIDE DEF g
  <2>6. ASSUME NEW k \in 1..j PROVE g[k] = G[k][g[k - 1]]
    <3>1. CASE k = j
      BY <3>1, <2>4, <2>5
    <3>2. CASE k # j
      BY <3>2, <2>1, <2>5
    <3> QED
      BY <3>1, <3>2
  <2> QED
    BY <2>3, <2>4, <2>6, SMTT(60)
<1>3. n \in S
  <2> HIDE DEF S
  <2>1. \A k \in 1..n : k - 1 \in S => k \in S
    BY <1>2
  <2>2. \A k \in 0..n : k \in S
    BY <1>1, <2>1, UpTo
  <2>3. n \in 0..n
    OBVIOUS
  <2> QED
    BY <2>2, <2>3
<1> QED
  BY <1>3 DEF Computed

\* The sum of the first numbers of a sequence, place by place.
LEMMA SumSteps ==
  ASSUME NEW s \in Seq(Int)
  PROVE  /\ SumTo(s, 0) = 0
         /\ \A i \in 1..Len(s) : SumTo(s, i) = SumTo(s, i - 1) + s[i]
         /\ \A i \in 0..Len(s) : SumTo(s, i) \in Int
<1> DEFINE n == Len(s)
           sum == CHOOSE f : f = [k \in 0..n |-> IF k = 0 THEN 0 ELSE f[k - 1] + s[k]]
           G == [k \in 1..n |-> [v \in Int |-> v + s[k]]]
<1>0. n \in Nat /\ s \in [1..n -> Int]
  BY LenProperties
<1>1. G \in [1..n -> [Int -> Int]]
  BY <1>0
<1> HIDE DEF n
<1>2. PICK f \in [0..n -> Int] : f[0] = 0 /\ \A k \in 1..n : f[k] = G[k][f[k - 1]]
  <2> HIDE DEF G
  <2>0. 0 \in Int
    OBVIOUS
  <2>1. Computed(Int, 0, n, G)
    BY <1>0, <1>1, <2>0, Recursion, Zenon
  <2> QED
    BY <2>1 DEF Computed
<1>3. ASSUME NEW k \in 1..n PROVE G[k][f[k - 1]] = f[k - 1] + s[k]
  <2>1. k - 1 \in 0..n
    BY <1>0
  <2>2. f[k - 1] \in Int
    BY <2>1
  <2> QED
    BY <2>2
<1> HIDE DEF G
<1>4. f = [k \in 0..n |-> IF k = 0 THEN 0 ELSE f[k - 1] + s[k]]
  BY <1>2, <1>3, <1>0
<1>5. sum = [k \in 0..n |-> IF k = 0 THEN 0 ELSE sum[k - 1] + s[k]]
  BY <1>4
<1>6. \A i : SumTo(s, i) = sum[i]
  BY DEF SumTo, n
<1> HIDE DEF sum
<1>7. sum[0] = 0 /\ \A i \in 1..n : sum[i] = sum[i - 1] + s[i]
  BY <1>0, <1>5
<1> DEFINE S == {k \in 0..n : sum[k] \in Int}
<1>8. 0 \in S /\ \A k \in 1..n : k - 1 \in S => k \in S
  BY <1>7, <1>0, SMTT(60)
<1>9. \A k \in 0..n : k \in S
  <2> HIDE DEF S
  <2> QED
    BY <1>8, <1>0, UpTo
<1> QED
  BY <1>6, <1>7, <1>9 DEF n

-----------------------------------------------------------------------------
(* The bytes written to the blocks of a list *)

Byte == 0..MaxBytes
Block == [len : Nat, written : Nat, read : Nat, ref : BOOLEAN, data : Seq(Byte)]

\* The blocks of a list and their fields.
LEMMA BlockTypes ==
  ASSUME NEW m \in Seq(Block)
  PROVE  /\ Len(m) \in Nat /\ DOMAIN m = 1..Len(m) /\ m \in [1..Len(m) -> Block]
         /\ \A i \in 1..Len(m) :
              /\ m[i] \in Block
              /\ m[i].len \in Nat /\ m[i].written \in Nat /\ m[i].read \in Nat
              /\ m[i].ref \in BOOLEAN /\ m[i].data \in Seq(Byte)
<1>1. Len(m) \in Nat /\ DOMAIN m = 1..Len(m) /\ m \in [1..Len(m) -> Block]
  BY LenProperties
<1>2. ASSUME NEW i \in 1..Len(m)
      PROVE  /\ m[i] \in Block
             /\ m[i].len \in Nat /\ m[i].written \in Nat /\ m[i].read \in Nat
             /\ m[i].ref \in BOOLEAN /\ m[i].data \in Seq(Byte)
  <2>1. m[i] \in Block
    BY <1>1
  <2> QED
    BY <2>1 DEF Block
<1> QED
  BY <1>1, <1>2

\* What the first blocks hold, block by block.
LEMMA WrittenSteps ==
  ASSUME NEW m \in Seq(Block)
  PROVE  /\ WrittenTo(m, 0) = 0
         /\ \A i \in 1..Len(m) : WrittenTo(m, i) = WrittenTo(m, i - 1) + m[i].written
         /\ \A i \in 0..Len(m) : WrittenTo(m, i) \in Nat
<1> DEFINE s == [k \in DOMAIN m |-> m[k].written]
<1>1. /\ Len(m) \in Nat /\ DOMAIN m = 1..Len(m)
      /\ \A i \in 1..Len(m) : m[i] \in Block /\ m[i].written \in Nat
  BY BlockTypes
<1>2. /\ s \in Seq(Int) /\ Len(s) = Len(m)
      /\ \A i \in 1..Len(m) : s[i] = m[i].written /\ s[i] \in Nat
  BY <1>1
<1> HIDE DEF s
<1>3. \A i : WrittenTo(m, i) = SumTo(s, i)
  BY DEF WrittenTo, s
<1>4. /\ SumTo(s, 0) = 0
      /\ \A i \in 1..Len(m) : SumTo(s, i) = SumTo(s, i - 1) + s[i]
      /\ \A i \in 0..Len(m) : SumTo(s, i) \in Int
  BY <1>2, SumSteps
<1>5. WrittenTo(m, 0) = 0
  BY <1>3, <1>4
<1>6. \A i \in 1..Len(m) : WrittenTo(m, i) = WrittenTo(m, i - 1) + m[i].written
  BY <1>2, <1>3, <1>4
<1> DEFINE S == {i \in 0..Len(m) : WrittenTo(m, i) \in Nat}
<1>7. 0 \in S /\ \A i \in 1..Len(m) : i - 1 \in S => i \in S
  BY <1>1, <1>5, <1>6
<1>8. \A i \in 0..Len(m) : i \in S
  <2> HIDE DEF S
  <2> QED
    BY <1>1, <1>7, UpTo
<1> QED
  BY <1>5, <1>6, <1>8

\* More blocks hold no less.
LEMMA WrittenGrows ==
  ASSUME NEW m \in Seq(Block), NEW i \in 0..Len(m), NEW j \in i..Len(m)
  PROVE  WrittenTo(m, i) <= WrittenTo(m, j)
<1>1. Len(m) \in Nat /\ \A k \in 1..Len(m) : m[k].written \in Nat
  BY BlockTypes
<1> DEFINE S == {k \in 0..Len(m) : i <= k => WrittenTo(m, i) <= WrittenTo(m, k)}
<1>2. 0 \in S
  BY <1>1, WrittenSteps
<1>3. ASSUME NEW k \in 1..Len(m), k - 1 \in S PROVE k \in S
  <2>1. WrittenTo(m, k) = WrittenTo(m, k - 1) + m[k].written
    BY WrittenSteps
  <2>2. /\ WrittenTo(m, k - 1) \in Nat /\ m[k].written \in Nat
        /\ WrittenTo(m, k) \in Nat /\ WrittenTo(m, i) \in Nat
    BY <1>1, WrittenSteps
  <2> QED
    BY <1>3, <2>1, <2>2
<1>4. \A k \in 0..Len(m) : k \in S
  <2> HIDE DEF S
  <2> QED
    BY <1>1, <1>2, <1>3, UpTo
<1> QED
  BY <1>1, <1>4

\* Part of a list, counted from where it starts.
LEMMA WrittenPart ==
  ASSUME NEW m \in Seq(Block), NEW p \in Seq(Block), NEW k \in 0..Len(m),
         NEW l \in 0..Len(p), k + l <= Len(m),
         \A j \in 1..l : p[j].written = m[k + j].written
  PROVE  \A j \in 0..l : WrittenTo(p, j) = WrittenTo(m, k + j) - WrittenTo(m, k)
<1>1. /\ Len(m) \in Nat /\ \A j \in 1..Len(m) : m[j].written \in Nat
      /\ Len(p) \in Nat /\ \A j \in 1..Len(p) : p[j].written \in Nat
  BY BlockTypes
<1> DEFINE S == {j \in 0..l : WrittenTo(p, j) = WrittenTo(m, k + j) - WrittenTo(m, k)}
<1>2. 0 \in S
  <2>1. k + 0 = k
    BY <1>1
  <2> QED
    BY <1>1, <2>1, WrittenSteps
<1>3. ASSUME NEW j \in 1..l, j - 1 \in S PROVE j \in S
  <2>1. /\ k + j \in 1..Len(m) /\ k + j - 1 = k + (j - 1) /\ k + (j - 1) \in 0..Len(m)
        /\ j \in 1..Len(p) /\ j - 1 \in 0..Len(p)
    BY <1>1
  <2>2. WrittenTo(m, k + j) = WrittenTo(m, k + (j - 1)) + m[k + j].written
    <3> DEFINE y == k + j
    <3>1. y \in 1..Len(m) /\ y - 1 = k + (j - 1)
      BY <2>1
    <3> HIDE DEF y
    <3>2. WrittenTo(m, y) = WrittenTo(m, y - 1) + m[y].written
      BY <3>1, WrittenSteps
    <3> QED
      BY <3>1, <3>2 DEF y
  <2>3. WrittenTo(p, j) = WrittenTo(p, j - 1) + p[j].written
    BY <2>1, WrittenSteps
  <2>4. /\ WrittenTo(m, k) \in Nat /\ WrittenTo(m, k + (j - 1)) \in Nat
        /\ m[k + j].written \in Nat
    BY <1>1, <2>1, WrittenSteps
  <2> QED
    BY <1>3, <2>2, <2>3, <2>4, SMTT(60)
<1>4. \A j \in 0..l : j \in S
  <2>1. l \in Nat
    BY <1>1
  <2> HIDE DEF S
  <2> QED
    BY <1>2, <1>3, <2>1, UpTo
<1> QED
  BY <1>4

\* The same blocks hold the same.
LEMMA WrittenSame ==
  ASSUME NEW m \in Seq(Block), NEW p \in Seq(Block), NEW l \in 0..Len(p), l <= Len(m),
         \A j \in 1..l : p[j].written = m[j].written
  PROVE  \A j \in 0..l : WrittenTo(p, j) = WrittenTo(m, j)
<1>1. Len(m) \in Nat /\ Len(p) \in Nat
  BY LenProperties
<1>2. \A j \in 1..l : p[j].written = m[0 + j].written
  BY <1>1
<1>3. \A j \in 0..l : WrittenTo(p, j) = WrittenTo(m, 0 + j) - WrittenTo(m, 0)
  BY <1>1, <1>2, WrittenPart
<1>4. ASSUME NEW j \in 0..l PROVE WrittenTo(p, j) = WrittenTo(m, j)
  <2>1. 0 + j = j /\ j \in 0..Len(m)
    BY <1>1
  <2>2. WrittenTo(m, j) \in Nat /\ WrittenTo(m, 0) = 0
    BY <2>1, WrittenSteps
  <2> QED
    BY <1>3, <2>1, <2>2
<1> QED
  BY <1>4

\* One block holds n bytes more.
LEMMA WrittenMore ==
  ASSUME NEW m \in Seq(Block), NEW p \in Seq(Block), Len(p) = Len(m),
         NEW w \in 1..Len(m), NEW n \in Int, p[w].written = m[w].written + n,
         \A j \in 1..Len(m) : j # w => p[j].written = m[j].written
  PROVE  /\ \A j \in 0..Len(m) : j < w => WrittenTo(p, j) = WrittenTo(m, j)
         /\ \A j \in 0..Len(m) : j >= w => WrittenTo(p, j) = WrittenTo(m, j) + n
<1>1. /\ Len(m) \in Nat /\ \A j \in 1..Len(m) : m[j].written \in Nat
      /\ \A j \in 1..Len(m) : p[j].written \in Nat
  BY BlockTypes
<1> DEFINE S == {j \in 0..Len(m) : /\ j < w => WrittenTo(p, j) = WrittenTo(m, j)
                                   /\ j >= w => WrittenTo(p, j) = WrittenTo(m, j) + n}
<1>2. 0 \in S
  BY <1>1, WrittenSteps
<1>3. ASSUME NEW j \in 1..Len(m), j - 1 \in S PROVE j \in S
  <2>1. /\ WrittenTo(m, j) = WrittenTo(m, j - 1) + m[j].written
        /\ WrittenTo(p, j) = WrittenTo(p, j - 1) + p[j].written
    BY WrittenSteps
  <2>2. WrittenTo(m, j - 1) \in Nat /\ m[j].written \in Nat
    BY <1>1, WrittenSteps, SMTT(60)
  <2>3. CASE j = w
    BY <1>3, <2>1, <2>2, <2>3
  <2>4. CASE j # w
    BY <1>3, <2>1, <2>2, <2>4
  <2> QED
    BY <2>3, <2>4
<1>4. \A j \in 0..Len(m) : j \in S
  <2> HIDE DEF S
  <2> QED
    BY <1>1, <1>2, <1>3, UpTo
<1> QED
  BY <1>4

\* Empty blocks add nothing.
LEMMA WrittenEmpty ==
  ASSUME NEW m \in Seq(Block), NEW k \in 0..Len(m),
         \A j \in 1..Len(m) : j > k => m[j].written = 0
  PROVE  \A j \in k..Len(m) : WrittenTo(m, j) = WrittenTo(m, k)
<1>1. Len(m) \in Nat /\ \A i \in 0..Len(m) : WrittenTo(m, i) \in Nat
  BY LenProperties, WrittenSteps
<1> DEFINE S == {j \in 0..Len(m) : j >= k => WrittenTo(m, j) = WrittenTo(m, k)}
<1>2. 0 \in S
  BY <1>1
<1>3. ASSUME NEW j \in 1..Len(m), j - 1 \in S PROVE j \in S
  <2>1. WrittenTo(m, j) = WrittenTo(m, j - 1) + m[j].written
    BY WrittenSteps
  <2>2. WrittenTo(m, j - 1) \in Nat
    BY <1>1
  <2>3. CASE j > k
    <3>1. m[j].written = 0
      BY <2>3
    <3>2. WrittenTo(m, j) = WrittenTo(m, j - 1)
      BY <2>1, <2>2, <3>1
    <3> QED
      BY <1>3, <2>3, <3>2
  <2>4. CASE ~(j > k)
    BY <2>4
  <2> QED
    BY <2>3, <2>4
<1>4. \A j \in 0..Len(m) : j \in S
  <2> HIDE DEF S
  <2> QED
    BY <1>1, <1>2, <1>3, UpTo
<1> QED
  BY <1>1, <1>4

\* Where bytes follow, some block has them.
LEMMA WrittenSome ==
  ASSUME NEW m \in Seq(Block), NEW k \in 0..Len(m), Written(m) # WrittenTo(m, k)
  PROVE  \E j \in 1..Len(m) : j > k /\ m[j].written > 0
<1>1. Len(m) \in Nat /\ \A j \in 1..Len(m) : m[j].written \in Nat
  BY BlockTypes
<1>2. ASSUME \A j \in 1..Len(m) : j > k => m[j].written = 0 PROVE FALSE
  <2>1. \A j \in k..Len(m) : WrittenTo(m, j) = WrittenTo(m, k)
    BY <1>2, WrittenEmpty
  <2>2. Len(m) \in k..Len(m)
    BY <1>1
  <2> QED
    BY <2>1, <2>2 DEF Written
<1> QED
  BY <1>1, <1>2

\* The block of a byte, and its place there.
LEMMA ByteAt ==
  ASSUME NEW m \in Seq(Block), NEW x \in 1..Written(m)
  PROVE  \E i \in 1..Len(m) : \E j \in 1..m[i].written : x = WrittenTo(m, i - 1) + j
<1>1. Len(m) \in Nat /\ \A i \in 0..Len(m) : WrittenTo(m, i) \in Nat
  BY LenProperties, WrittenSteps
<1>2. \A i \in 1..Len(m) : m[i].written \in Nat
  BY BlockTypes
<1> DEFINE L == {i \in 0..Len(m) : x <= WrittenTo(m, i)}
<1>3. Len(m) \in L /\ L \in SUBSET Nat
  BY <1>1 DEF Written
<1>4. PICK i \in L : \A k \in L : i <= k
  <2> HIDE DEF L
  <2> QED
    BY <1>3, LeastElement
<1>5. i # 0
  BY <1>1, WrittenSteps
<1>6. i \in 1..Len(m) /\ i - 1 \in 0..Len(m)
  BY <1>1, <1>5
<1>7. ~(x <= WrittenTo(m, i - 1))
  <2>1. i - 1 \notin L
    BY <1>1, <1>4, <1>6
  <2> QED
    BY <2>1, <1>6
<1>8. WrittenTo(m, i) = WrittenTo(m, i - 1) + m[i].written
  BY <1>6, WrittenSteps
<1>9. x - WrittenTo(m, i - 1) \in 1..m[i].written
  BY <1>1, <1>2, <1>4, <1>6, <1>7, <1>8
<1>10. x = WrittenTo(m, i - 1) + (x - WrittenTo(m, i - 1))
  BY <1>1, <1>6
<1> QED
  BY <1>6, <1>9, <1>10

\* What a list holds in all, and up to some block of it.
LEMMA WrittenAll ==
  ASSUME NEW m \in Seq(Block)
  PROVE  Written(m) \in Nat /\ \A i \in 0..Len(m) : WrittenTo(m, i) <= Written(m)
<1>1. Len(m) \in Nat
  BY BlockTypes
<1>2. Len(m) \in 0..Len(m) /\ \A i \in 0..Len(m) : Len(m) \in i..Len(m)
  BY <1>1
<1> QED
  BY <1>2, WrittenSteps, WrittenGrows DEF Written

-----------------------------------------------------------------------------
(* The bytes of a list of blocks *)

\* c is s followed by t; c is s from a to b.
IsJoin(c, s, t) ==
  /\ Len(c) = Len(s) + Len(t)
  /\ \A x \in 1..Len(s) : c[x] = s[x]
  /\ \A x \in 1..Len(t) : c[Len(s) + x] = t[x]
IsPart(c, s, a, b) ==
  Len(c) = b - a + 1 /\ \A x \in 1..b - a + 1 : c[x] = s[a + x - 1]

\* What concatenation gives, place by place.
LEMMA Concat ==
  ASSUME NEW A, NEW s \in Seq(A), NEW t \in Seq(A)
  PROVE  s \o t \in Seq(A) /\ IsJoin(s \o t, s, t)
<1>1. Len(s) \in Nat /\ Len(t) \in Nat
  BY LenProperties
<1>2. /\ s \o t \in Seq(A) /\ Len(s \o t) = Len(s) + Len(t)
      /\ \A i \in 1..Len(s) + Len(t) :
           (s \o t)[i] = IF i <= Len(s) THEN s[i] ELSE t[i - Len(s)]
  BY ConcatProperties
<1> QED
  BY <1>1, <1>2 DEF IsJoin

\* What a part of a sequence is, place by place.
LEMMA Part ==
  ASSUME NEW A, NEW s \in Seq(A), NEW a \in Nat, NEW b \in 0..Len(s), a <= b + 1, a >= 1
  PROVE  SubSeq(s, a, b) \in Seq(A) /\ IsPart(SubSeq(s, a, b), s, a, b)
<1>1. Len(s) \in Nat
  BY LenProperties
<1>2. a \in 1..Len(s) + 1 /\ b \in a - 1..Len(s)
  BY <1>1
<1>3. /\ SubSeq(s, a, b) \in Seq(A) /\ Len(SubSeq(s, a, b)) = b - a + 1
      /\ \A i \in 1..b - a + 1 : SubSeq(s, a, b)[i] = s[a + i - 1]
  BY <1>2, SubSeqProperties
<1> QED
  BY <1>3 DEF IsPart

Holds(m) == \A i \in 1..Len(m) : m[i].written <= Len(m[i].data)

\* The bytes of the first blocks, block by block.
LEMMA ContentSteps ==
  ASSUME NEW m \in Seq(Block), Holds(m)
  PROVE  /\ ContentTo(m, 0) = << >>
         /\ \A i \in 1..Len(m) :
              ContentTo(m, i) = ContentTo(m, i - 1) \o SubSeq(m[i].data, 1, m[i].written)
         /\ \A i \in 0..Len(m) : ContentTo(m, i) \in Seq(Byte)
<1> DEFINE n == Len(m)
           part(k) == SubSeq(m[k].data, 1, m[k].written)
           more(v, k) == v \o part(k)
           joined == CHOOSE f : f = [k \in 0..n |-> IF k = 0 THEN << >> ELSE more(f[k - 1], k)]
           G == [k \in 1..n |-> [v \in Seq(Byte) |-> more(v, k)]]
<1>0. n \in Nat /\ \A k \in 1..n : part(k) \in Seq(Byte)
  <2>1. n \in Nat
    BY BlockTypes
  <2>2. ASSUME NEW k \in 1..n PROVE part(k) \in Seq(Byte)
    <3>1. m[k].data \in Seq(Byte) /\ m[k].written \in Nat /\ m[k].written <= Len(m[k].data)
      BY BlockTypes DEF Holds
    <3>2. 1 \in 1..Len(m[k].data) + 1 /\ m[k].written \in 1 - 1..Len(m[k].data)
      BY <3>1, LenProperties
    <3> QED
      BY <3>1, <3>2, SubSeqProperties
  <2> QED
    BY <2>1, <2>2
<1>6. \A i : ContentTo(m, i) = joined[i]
  BY DEF ContentTo
<1>a. \A k \in 1..n, v \in Seq(Byte) : more(v, k) \in Seq(Byte)
  BY <1>0, Concat
<1> HIDE DEF n, part, more
<1>1. G \in [1..n -> [Seq(Byte) -> Seq(Byte)]]
  BY <1>a
<1>2. PICK f \in [0..n -> Seq(Byte)] : f[0] = << >> /\ \A k \in 1..n : f[k] = G[k][f[k - 1]]
  <2> HIDE DEF G
  <2>0. << >> \in Seq(Byte)
    OBVIOUS
  <2>1. Computed(Seq(Byte), << >>, n, G)
    BY <1>0, <1>1, <2>0, Recursion, Zenon
  <2> QED
    BY <2>1 DEF Computed
<1>3. ASSUME NEW k \in 1..n PROVE G[k][f[k - 1]] = more(f[k - 1], k)
  <2>1. k - 1 \in 0..n
    BY <1>0
  <2>2. f[k - 1] \in Seq(Byte)
    BY <2>1
  <2> QED
    BY <2>2
<1> HIDE DEF G
<1>4. f = [k \in 0..n |-> IF k = 0 THEN << >> ELSE more(f[k - 1], k)]
  BY <1>2, <1>3, <1>0
<1>5. joined = [k \in 0..n |-> IF k = 0 THEN << >> ELSE more(joined[k - 1], k)]
  BY <1>4
<1> HIDE DEF joined
<1>7. joined[0] = << >> /\ \A i \in 1..n : joined[i] = more(joined[i - 1], i)
  BY <1>0, <1>5
<1> DEFINE S == {k \in 0..n : joined[k] \in Seq(Byte)}
<1>8. 0 \in S /\ \A k \in 1..n : k - 1 \in S => k \in S
  <2>1. 0 \in S
    <3>1. 0 \in 0..n
      BY <1>0
    <3>2. << >> \in Seq(Byte)
      OBVIOUS
    <3> QED
      BY <1>7, <3>1, <3>2, Zenon
  <2>2. ASSUME NEW k \in 1..n, k - 1 \in S PROVE k \in S
    <3>1. joined[k - 1] \in Seq(Byte) /\ joined[k] = more(joined[k - 1], k) /\ k \in 0..n
      BY <2>2, <1>7, <1>0
    <3>2. joined[k] \in Seq(Byte)
      BY <3>1, <1>a, Zenon
    <3> QED
      BY <3>1, <3>2
  <2> QED
    BY <2>1, <2>2
<1>9. \A k \in 0..n : k \in S
  <2> HIDE DEF S
  <2> QED
    BY <1>8, <1>0, UpTo
<1> QED
  BY <1>6, <1>7, <1>9 DEF n, part, more

\* Each byte of a block is where the blocks before it end.
LEMMA ContentBytes ==
  ASSUME NEW m \in Seq(Block), Holds(m)
  PROVE  /\ ContentTo(m, Len(m)) \in Seq(Byte)
         /\ Len(ContentTo(m, Len(m))) = Written(m)
         /\ \A i \in 1..Len(m) : \A j \in 1..m[i].written :
              ContentTo(m, Len(m))[WrittenTo(m, i - 1) + j] = m[i].data[j]
<1> DEFINE C(k) == ContentTo(m, k)
           W(k) == WrittenTo(m, k)
<1>1. /\ Len(m) \in Nat /\ \A i \in 0..Len(m) : W(i) \in Nat
      /\ W(0) = 0 /\ \A i \in 1..Len(m) : W(i) = W(i - 1) + m[i].written
  BY BlockTypes, WrittenSteps
<1>2. \A i \in 1..Len(m) : m[i].data \in Seq(Byte) /\ m[i].written \in Nat
  BY BlockTypes
<1>3. /\ C(0) = << >> /\ \A i \in 0..Len(m) : C(i) \in Seq(Byte)
      /\ \A i \in 1..Len(m) : C(i) = C(i - 1) \o SubSeq(m[i].data, 1, m[i].written)
  BY ContentSteps
<1>4. ASSUME NEW k \in 1..Len(m)
      PROVE  /\ Len(SubSeq(m[k].data, 1, m[k].written)) = m[k].written
             /\ SubSeq(m[k].data, 1, m[k].written) \in Seq(Byte)
             /\ \A j \in 1..m[k].written : SubSeq(m[k].data, 1, m[k].written)[j] = m[k].data[j]
  <2>1. m[k].data \in Seq(Byte) /\ m[k].written \in Nat /\ m[k].written <= Len(m[k].data)
    BY <1>2 DEF Holds
  <2> QED
    BY <2>1
<1>W. \A i, j \in 0..Len(m) : i <= j => W(i) <= W(j)
  BY <1>1, WrittenGrows
<1> HIDE DEF C, W
<1> DEFINE S == {k \in 0..Len(m) : /\ Len(C(k)) = W(k)
                                   /\ \A i \in 1..k : \A j \in 1..m[i].written :
                                        C(k)[W(i - 1) + j] = m[i].data[j]}
<1>5. 0 \in S
  BY <1>1, <1>3
<1>6. ASSUME NEW k \in 1..Len(m), k - 1 \in S PROVE k \in S
  <2> DEFINE s == SubSeq(m[k].data, 1, m[k].written)
  <2>1. /\ C(k) = C(k - 1) \o s /\ C(k - 1) \in Seq(Byte) /\ s \in Seq(Byte)
        /\ Len(s) = m[k].written /\ \A j \in 1..m[k].written : s[j] = m[k].data[j]
        /\ Len(C(k - 1)) = W(k - 1)
    BY <1>3, <1>4, <1>6, <1>1
  <2>2. W(k - 1) \in Nat /\ m[k].written \in Nat /\ W(k) = W(k - 1) + m[k].written
    BY <1>1, <1>2
  <2> HIDE DEF s
  <2>c. IsJoin(C(k), C(k - 1), s)
    BY <2>1, Concat, Zenon
  <2>3. Len(C(k)) = W(k)
    BY <2>1, <2>2, <2>c DEF IsJoin
  <2>4. \A x \in 1..W(k - 1) : C(k)[x] = C(k - 1)[x]
    BY <2>1, <2>c DEF IsJoin
  <2>5. \A j \in 1..m[k].written : C(k)[W(k - 1) + j] = s[j]
    BY <2>1, <2>c DEF IsJoin
  <2>6. ASSUME NEW i \in 1..k, NEW j \in 1..m[i].written
        PROVE  C(k)[W(i - 1) + j] = m[i].data[j]
    <3>1. CASE i = k
      BY <3>1, <2>1, <2>5
    <3>2. CASE i # k
      <4>1. i \in 1..k - 1 /\ i \in 1..Len(m) /\ i - 1 \in 0..Len(m) /\ k - 1 \in 0..Len(m)
        BY <3>2, <1>1
      <4>2. W(i) <= W(k - 1)
        BY <4>1, <1>1, <1>W
      <4>3. W(i - 1) + j \in 1..W(k - 1)
        <5>1. /\ W(i - 1) \in Nat /\ W(i) \in Nat /\ W(k - 1) \in Nat /\ m[i].written \in Nat
              /\ W(i) = W(i - 1) + m[i].written
          BY <4>1, <1>1, <1>2
        <5> QED
          BY <4>2, <5>1, SMTT(60)
      <4>4. C(k - 1)[W(i - 1) + j] = m[i].data[j]
        BY <4>1, <1>6
      <4> QED
        BY <4>3, <4>4, <2>4
    <3> QED
      BY <3>1, <3>2
  <2> QED
    BY <2>3, <2>6
<1>7. \A k \in 0..Len(m) : k \in S
  <2> HIDE DEF S
  <2> QED
    BY <1>1, <1>5, <1>6, UpTo
<1>8. Len(m) \in 0..Len(m)
  BY <1>1
<1>9. Len(m) \in S /\ C(Len(m)) \in Seq(Byte)
  BY <1>3, <1>7, <1>8
<1> QED
  BY <1>9 DEF C, W, Written

\* Two sequences with the same elements are the same.
LEMMA SameSeq ==
  ASSUME NEW A, NEW s \in Seq(A), NEW t \in Seq(A), Len(s) = Len(t),
         \A x \in 1..Len(t) : s[x] = t[x]
  PROVE  s = t
BY SeqEqual

\* So a sequence that has every byte of every block there is the content.
LEMMA ContentIs ==
  ASSUME NEW m \in Seq(Block), Holds(m), NEW s \in Seq(Byte), Len(s) = Written(m),
         \A i \in 1..Len(m) : \A j \in 1..m[i].written :
           s[WrittenTo(m, i - 1) + j] = m[i].data[j]
  PROVE  ContentTo(m, Len(m)) = s
<1> DEFINE C == ContentTo(m, Len(m))
<1>1. /\ C \in Seq(Byte) /\ Len(C) = Written(m)
      /\ \A i \in 1..Len(m) : \A j \in 1..m[i].written : C[WrittenTo(m, i - 1) + j] = m[i].data[j]
  BY ContentBytes
<1> HIDE DEF C
<1>2. ASSUME NEW x \in 1..Len(s) PROVE C[x] = s[x]
  <2>1. PICK i \in 1..Len(m) : \E j \in 1..m[i].written : x = WrittenTo(m, i - 1) + j
    BY ByteAt
  <2>2. PICK j \in 1..m[i].written : x = WrittenTo(m, i - 1) + j
    BY <2>1
  <2> QED
    BY <1>1, <2>2
<1>3. C = s
  BY <1>1, <1>2, SameSeq
<1> QED
  BY <1>3 DEF C

-----------------------------------------------------------------------------
(* The inductive invariant of a queue *)

Queue == [m_q : Seq(Block), wr : Nat, rd : Nat, off : Int, avail : Nat]

GoodBlock(b) ==
  b.read <= b.written /\ b.written <= b.len /\ Len(b.data) = b.len /\ (~b.ref => b.len = BSize)

\* No block without bytes stands before one that has some.
Contig(m) ==
  \A i, j \in 1..Len(m) : i < j /\ m[j].written > 0 => m[i].written > 0

\* Blocks of which the read part does not matter.
RoughBlock(b) == b.written <= b.len /\ Len(b.data) = b.len /\ (~b.ref => b.len = BSize)
RoughBlocks(m) == (\A i \in 1..Len(m) : RoughBlock(m[i])) /\ Contig(m)

GoodBlocks(m) == (\A i \in 1..Len(m) : GoodBlock(m[i])) /\ Contig(m)

\* The blocks, and the write cursor behind which they are empty.
Shape(q) ==
  /\ q \in Queue /\ GoodBlocks(q.m_q)
  /\ q.wr \in 0..Len(q.m_q)
  /\ q.wr # End => \A i \in 1..Len(q.m_q) : i > q.wr => q.m_q[i].written = 0

\* The read cursor: what is before it has been read, what is after it has not.
ReadPos(q) == IF q.rd = End THEN 0 ELSE WrittenTo(q.m_q, q.rd - 1) + q.m_q[q.rd].read

Reader(q) ==
  /\ q.rd \in 0..Len(q.m_q) /\ (q.rd = End <=> Len(q.m_q) = 0)
  /\ q.wr # End => q.rd <= q.wr
  /\ \A i \in 1..Len(q.m_q) : i < q.rd => q.m_q[i].read = q.m_q[i].written
  /\ \A i \in 1..Len(q.m_q) : i > q.rd => q.m_q[i].read = 0
  /\ q.avail = Written(q.m_q) - ReadPos(q)
  /\ q.avail > 0 => q.m_q[q.rd].read < q.m_q[q.rd].written

Good(q) == Shape(q) /\ Reader(q)

\* A queue that can be written to owns its blocks, full up to the write cursor.
Full(q) ==
  q.wr # End => \A i \in 1..Len(q.m_q) :
    ~q.m_q[i].ref /\ (i < q.wr => q.m_q[i].written = q.m_q[i].len)
Usable(q) == q.wr # End \/ Len(q.m_q) = 0

NoEmpty(q) == \A i \in 1..Len(q.m_q) : q.m_q[i].written > 0

\* The fields of a queue.
LEMMA QueueTypes ==
  ASSUME NEW q \in Queue
  PROVE  /\ q.m_q \in Seq(Block) /\ q.wr \in Nat /\ q.rd \in Nat
         /\ q.off \in Int /\ q.avail \in Nat
BY DEF Queue

\* The data of the blocks of a queue cover what was written.
LEMMA GoodHolds ==
  ASSUME NEW m \in Seq(Block), GoodBlocks(m)
  PROVE  Holds(m)
BY BlockTypes DEF GoodBlocks, GoodBlock, Holds

\* The same where the read part does not matter.
LEMMA RoughHolds ==
  ASSUME NEW m \in Seq(Block), RoughBlocks(m)
  PROVE  Holds(m)
BY BlockTypes DEF RoughBlocks, RoughBlock, Holds

\* Good blocks are a special case.
LEMMA GoodRough ==
  ASSUME NEW m, GoodBlocks(m)
  PROVE  RoughBlocks(m)
BY DEF RoughBlocks, RoughBlock, GoodBlocks, GoodBlock

\* An empty list has no bytes.
LEMMA NoBlocks ==
  ASSUME NEW m \in Seq(Block), Len(m) = 0
  PROVE  Written(m) = 0 /\ ContentTo(m, Len(m)) = << >> /\ GoodBlocks(m)
<1>1. GoodBlocks(m)
  BY DEF GoodBlocks, Contig
<1>2. Holds(m)
  BY <1>1, GoodHolds
<1>3. WrittenTo(m, 0) = 0 /\ ContentTo(m, 0) = << >>
  BY <1>2, WrittenSteps, ContentSteps
<1> QED
  BY <1>1, <1>3 DEF Written

\* A new block.
LEMMA NewBlockGood ==
  /\ NewBlock \in Block /\ GoodBlock(NewBlock)
  /\ NewBlock.written = 0 /\ NewBlock.read = 0 /\ NewBlock.len = BSize /\ NewBlock.ref = FALSE
<1> DEFINE d == [i \in 1..BSize |-> Junk]
<1>1. d \in Seq(Byte) /\ Len(d) = BSize
  BY BSizeAssumption, OffsetsAssumption DEF Junk, Byte
<1> HIDE DEF d
<1>2. NewBlock = [len |-> BSize, written |-> 0, read |-> 0, ref |-> FALSE, data |-> d]
  BY DEF NewBlock, d
<1> QED
  BY <1>1, <1>2, BSizeAssumption DEF Block, GoodBlock

\* A new block at the end adds room and no byte.
LEMMA AddBlock ==
  ASSUME NEW m \in Seq(Block), GoodBlocks(m), NEW p, p = Append(m, NewBlock)
  PROVE  /\ p \in Seq(Block) /\ Len(p) = Len(m) + 1
         /\ \A i \in 1..Len(m) : p[i] = m[i]
         /\ p[Len(m) + 1] = NewBlock
         /\ GoodBlocks(p)
         /\ \A i \in 0..Len(m) : WrittenTo(p, i) = WrittenTo(m, i)
         /\ Written(p) = Written(m)
         /\ ContentTo(p, Len(p)) = ContentTo(m, Len(m))
<1>1. /\ p \in Seq(Block) /\ Len(p) = Len(m) + 1 /\ Len(m) \in Nat
      /\ \A i \in 1..Len(m) : p[i] = m[i]
      /\ p[Len(m) + 1] = NewBlock
  <2>1. NewBlock \in Block
    BY NewBlockGood
  <2> QED
    BY <2>1, AppendProperties, LenProperties
<1>2. \A i \in 1..Len(p) : i = Len(m) + 1 \/ i \in 1..Len(m)
  BY <1>1
<1>3. GoodBlocks(p)
  <2>1. \A i \in 1..Len(p) : GoodBlock(p[i])
    BY <1>1, <1>2, NewBlockGood DEF GoodBlocks
  <2>2. ASSUME NEW i \in 1..Len(p), NEW j \in 1..Len(p), i < j, p[j].written > 0
        PROVE  p[i].written > 0
    <3>1. j # Len(m) + 1
      BY <1>1, <2>2, NewBlockGood
    <3>2. i \in 1..Len(m) /\ j \in 1..Len(m)
      BY <1>1, <2>2, <3>1
    <3> QED
      BY <1>1, <2>2, <3>2 DEF GoodBlocks, Contig
  <2> QED
    BY <2>1, <2>2 DEF GoodBlocks, Contig
<1>4. \A i \in 0..Len(m) : WrittenTo(p, i) = WrittenTo(m, i)
  <2>1. Len(m) \in 0..Len(p) /\ Len(m) <= Len(m)
    BY <1>1
  <2>2. \A j \in 1..Len(m) : p[j].written = m[j].written
    BY <1>1
  <2> QED
    BY <1>1, <2>1, <2>2, WrittenSame
<1>5. Written(p) = Written(m)
  <2>1. Len(p) \in 1..Len(p) /\ Len(p) - 1 = Len(m) /\ Len(m) \in 0..Len(m)
    BY <1>1
  <2>2. WrittenTo(p, Len(p)) = WrittenTo(p, Len(m)) + p[Len(p)].written
    BY <1>1, <2>1, WrittenSteps
  <2>3. p[Len(p)].written = 0 /\ WrittenTo(p, Len(m)) = WrittenTo(m, Len(m))
    BY <1>1, <1>4, <2>1, NewBlockGood
  <2>4. WrittenTo(m, Len(m)) \in Nat
    BY <2>1, WrittenSteps
  <2> QED
    BY <2>2, <2>3, <2>4 DEF Written
<1>6. ContentTo(p, Len(p)) = ContentTo(m, Len(m))
  <2> DEFINE s == ContentTo(m, Len(m))
  <2>1. /\ s \in Seq(Byte) /\ Len(s) = Written(p)
        /\ \A i \in 1..Len(m) : \A j \in 1..m[i].written : s[WrittenTo(m, i - 1) + j] = m[i].data[j]
    BY <1>5, GoodHolds, ContentBytes
  <2> HIDE DEF s
  <2>2. ASSUME NEW i \in 1..Len(p), NEW j \in 1..p[i].written
        PROVE  s[WrittenTo(p, i - 1) + j] = p[i].data[j]
    <3>1. i # Len(m) + 1
      BY <1>1, NewBlockGood
    <3>2. i \in 1..Len(m) /\ i - 1 \in 0..Len(m)
      BY <1>1, <1>2, <3>1
    <3> QED
      BY <1>1, <1>4, <2>1, <3>2
  <2>3. Holds(p)
    BY <1>1, <1>3, GoodHolds
  <2>4. ContentTo(p, Len(p)) = s
    BY <1>1, <2>1, <2>2, <2>3, ContentIs
  <2> QED
    BY <2>4 DEF s
<1> QED
  BY <1>1, <1>3, <1>4, <1>5, <1>6

-----------------------------------------------------------------------------
(* Writing *)

\* A queue with the same bytes, of which as many are left to read.
SameBytes(p, q) ==
  /\ p.avail = q.avail /\ p.off = q.off
  /\ Written(p.m_q) = Written(q.m_q)
  /\ Content(p) = Content(q)

\* A block at the end of a queue whose write cursor is on a full block, or of
\* an empty one.
LEMMA AddAvail ==
  ASSUME NEW q, Good(q), Full(q), Usable(q), b_write_avail(q) = 0,
         NEW a, a = b_write_add_avail(q)
  PROVE  /\ Good(a) /\ Full(a) /\ SameBytes(a, q)
         /\ a.wr # End /\ a.m_q[a.wr].written = 0
         /\ NoEmpty(q) => \A i \in 1..Len(a.m_q) : i # a.wr => a.m_q[i].written > 0
<1> DEFINE m == q.m_q
           p == Append(m, NewBlock)
<1>1. /\ q \in Queue /\ m \in Seq(Block) /\ GoodBlocks(m)
      /\ q.wr \in Nat /\ q.rd \in Nat /\ q.off \in Int /\ q.avail \in Nat
  BY QueueTypes DEF Good, Shape
<1>2. /\ p \in Seq(Block) /\ Len(p) = Len(m) + 1
      /\ \A i \in 1..Len(m) : p[i] = m[i]
      /\ p[Len(m) + 1] = NewBlock
      /\ GoodBlocks(p)
      /\ \A i \in 0..Len(m) : WrittenTo(p, i) = WrittenTo(m, i)
      /\ Written(p) = Written(m)
      /\ ContentTo(p, Len(p)) = ContentTo(m, Len(m))
  <2> HIDE DEF m
  <2> QED
    BY <1>1, AddBlock
<1>3. Len(m) \in Nat /\ \A i \in 1..Len(m) : m[i] \in Block /\ m[i].written \in Nat
  BY <1>1, BlockTypes
<1> DEFINE added == [q EXCEPT !.m_q = p]
<1>4. /\ added \in Queue /\ added.m_q = p /\ added.wr = q.wr /\ added.rd = q.rd
      /\ added.off = q.off /\ added.avail = q.avail
  <2> HIDE DEF p
  <2> QED
    BY <1>1, <1>2 DEF Queue
<1>5. a = IF Len(added.m_q) = 1 THEN [added EXCEPT !.rd = 1, !.wr = 1] ELSE AdvanceWrite(added)
  BY DEF b_write_add_avail
<1> HIDE DEF m, p, added
<1>6. CASE q.wr = End
  <2>1. Len(m) = 0 /\ Len(p) = 1
    BY <1>2, <1>3, <1>6 DEF Usable, m
  <2>2. /\ a \in Queue /\ a.m_q = p /\ a.wr = 1 /\ a.rd = 1
        /\ a.off = q.off /\ a.avail = q.avail
    <3> DEFINE one == 1
    <3>1. a = [added EXCEPT !.rd = one, !.wr = one] /\ one \in Nat
      BY <1>4, <1>5, <2>1
    <3> HIDE DEF one
    <3>2. a \in Queue /\ a.m_q = p /\ a.wr = one /\ a.rd = one
      BY <1>4, <3>1 DEF Queue
    <3>3. a.off = q.off /\ a.avail = q.avail
      BY <1>4, <3>1 DEF Queue
    <3> QED
      BY <3>2, <3>3 DEF one
  <2>3. a.m_q[1] = NewBlock /\ \A i \in 1..Len(p) : i = 1
    BY <1>2, <2>1, <2>2
  <2>4. q.avail = 0 /\ Written(p) = 0 /\ WrittenTo(p, 0) = 0
    <3>1. Written(m) = 0
      BY <1>1, <2>1, NoBlocks
    <3>2. q.rd = End /\ q.avail = Written(m) - 0
      BY <2>1 DEF Good, Reader, ReadPos, m
    <3> QED
      BY <1>2, <3>1, <3>2, WrittenSteps
  <2>5. Shape(a)
    <3>1. \A i \in 1..Len(p) : ~(i > 1)
      BY <2>3
    <3>2. a.wr \in 0..Len(p) /\ \A i \in 1..Len(p) : ~(i > a.wr)
      BY <2>1, <2>2, <3>1
    <3> QED
      BY <1>2, <2>2, <3>2 DEF Shape
  <2>6. Reader(a)
    <3>1. ReadPos(a) = 0
      BY <2>2, <2>3, <2>4, NewBlockGood DEF ReadPos, End
    <3>2. \A i \in 1..Len(p) : ~(i > a.rd) /\ ~(i < a.rd)
      BY <2>2, <2>3
    <3>3. ~(a.avail > 0) /\ a.avail = Written(a.m_q) - ReadPos(a)
      BY <2>2, <2>4, <3>1
    <3>4. a.rd \in 0..Len(p) /\ a.rd # End /\ Len(p) # 0 /\ a.rd <= a.wr
      BY <2>1, <2>2 DEF End
    <3> QED
      BY <2>2, <3>2, <3>3, <3>4 DEF Reader
  <2>7. Full(a)
    BY <2>2, <2>3, NewBlockGood DEF Full
  <2>8. SameBytes(a, q)
    BY <1>2, <2>2 DEF SameBytes, Content, m
  <2>9. a.wr # End /\ a.m_q[a.wr].written = 0 /\ \A i \in 1..Len(a.m_q) : i = a.wr
    BY <2>2, <2>3, NewBlockGood DEF End
  <2> QED
    BY <2>5, <2>6, <2>7, <2>8, <2>9 DEF Good
<1>7. CASE q.wr # End
  <2>1. /\ q.wr \in 1..Len(m) /\ q.rd \in 1..Len(m) /\ q.rd <= q.wr
        /\ \A i \in 1..Len(m) : i > q.wr => m[i].written = 0
    BY <1>1, <1>3, <1>7 DEF Good, Shape, Reader, m, End
  <2>2. m[q.wr].len - m[q.wr].written = 0
    BY <1>7 DEF b_write_avail, write_avail, m
  <2>3. /\ a \in Queue /\ a.m_q = p /\ a.wr = q.wr + 1 /\ a.rd = q.rd
        /\ a.off = q.off /\ a.avail = q.avail
    <3>1. Len(added.m_q) # 1 /\ p[q.wr] = m[q.wr] /\ q.wr # Len(p)
      BY <1>2, <1>3, <1>4, <2>1
    <3>2. a = [added EXCEPT !.wr = @ + 1]
      BY <1>4, <1>5, <2>2, <3>1 DEF AdvanceWrite, write_avail, LastPos
    <3> QED
      BY <1>1, <1>4, <3>2, SMTT(60) DEF Queue
  <2>4. \A i \in 1..Len(p) : i > q.wr => p[i].written = 0
    <3>1. \A i \in 1..Len(p) : i \in 1..Len(m) \/ i = Len(m) + 1
      BY <1>2, <1>3
    <3> QED
      BY <1>2, <2>1, <3>1, NewBlockGood
  <2>5. Shape(a)
    BY <1>2, <1>3, <2>1, <2>3, <2>4 DEF Shape, End
  <2>6. Reader(a)
    <3>1. /\ q.avail = Written(m) - ReadPos(q)
          /\ q.avail > 0 => m[q.rd].read < m[q.rd].written
          /\ \A i \in 1..Len(m) : i < q.rd => m[i].read = m[i].written
          /\ \A i \in 1..Len(m) : i > q.rd => m[i].read = 0
      BY DEF Good, Reader, m
    <3>2. p[q.rd] = m[q.rd] /\ WrittenTo(p, q.rd - 1) = WrittenTo(m, q.rd - 1)
      BY <1>2, <1>3, <2>1
    <3>3. ReadPos(a) = ReadPos(q)
      BY <2>1, <2>3, <3>2 DEF ReadPos, End, m
    <3>4. \A i \in 1..Len(p) : i \in 1..Len(m) \/ i = Len(m) + 1
      BY <1>2, <1>3
    <3>5. \A i \in 1..Len(p) : i > q.rd => p[i].read = 0
      BY <1>2, <3>1, <3>4, NewBlockGood
    <3>6. \A i \in 1..Len(p) : i < q.rd => p[i].read = p[i].written
      BY <1>2, <1>3, <2>1, <3>1, <3>4
    <3> QED
      BY <1>2, <1>3, <2>1, <2>3, <3>1, <3>2, <3>3, <3>5, <3>6 DEF Reader, End
  <2>7. Full(a)
    <3>1. \A i \in 1..Len(m) : ~m[i].ref /\ (i < q.wr => m[i].written = m[i].len)
      BY <1>7 DEF Full, m
    <3>2. m[q.wr].written = m[q.wr].len
      BY <1>1, <2>1, <2>2, BlockTypes
    <3>3. ASSUME NEW i \in 1..Len(p)
          PROVE  ~p[i].ref /\ (i < q.wr + 1 => p[i].written = p[i].len)
      <4>1. CASE i \in 1..Len(m)
        <5>1. i < q.wr + 1 => i < q.wr \/ i = q.wr
          BY <1>1, <4>1, <1>3
        <5> QED
          BY <1>2, <3>1, <3>2, <4>1, <5>1
      <4>2. CASE i = Len(m) + 1
        BY <1>2, <1>3, <2>1, <4>2, NewBlockGood
      <4> QED
        BY <1>2, <1>3, <4>1, <4>2
    <3> QED
      BY <2>3, <3>3 DEF Full
  <2>8. SameBytes(a, q)
    BY <1>2, <2>3 DEF SameBytes, Content, m
  <2>9. a.wr # End /\ a.m_q[a.wr].written = 0
    BY <1>2, <1>3, <2>1, <2>3, <2>4 DEF End
  <2>10. ASSUME NoEmpty(q), NEW i \in 1..Len(p), i # q.wr + 1 PROVE p[i].written > 0
    <3>1. \A k \in 1..Len(m) : m[k].written > 0
      BY <2>10 DEF NoEmpty, m
    <3>2. q.wr = Len(m)
      <4>1. ASSUME q.wr # Len(m) PROVE FALSE
        <5>1. q.wr + 1 \in 1..Len(m) /\ q.wr + 1 > q.wr
          BY <1>3, <2>1, <4>1
        <5>2. m[q.wr + 1].written = 0
          BY <2>1, <5>1
        <5> QED
          BY <3>1, <5>1, <5>2
      <4> QED
        BY <4>1
    <3>3. i \in 1..Len(m)
      BY <1>2, <1>3, <2>10, <3>2
    <3> QED
      BY <1>2, <3>1, <3>3
  <2> QED
    BY <2>3, <2>5, <2>6, <2>7, <2>8, <2>9, <2>10 DEF Good
<1> QED
  BY <1>6, <1>7

\* What write(), write_fd(), write_q() and nc_read() do first: afterwards there
\* is room in the block of the write cursor.
LEMMA Space ==
  ASSUME NEW q, Good(q), Full(q), Usable(q), NEW a, a = WithSpace(q)
  PROVE  /\ Good(a) /\ Full(a) /\ SameBytes(a, q) /\ a.wr # End
         /\ b_write_avail(a) \in Nat \ {0}
         /\ NoEmpty(q) => \A i \in 1..Len(a.m_q) : i # a.wr => a.m_q[i].written > 0
<1>1. ASSUME NEW b, Good(b), b.wr # End
      PROVE  /\ b_write_avail(b) = b.m_q[b.wr].len - b.m_q[b.wr].written
             /\ b_write_avail(b) \in Nat /\ b.m_q[b.wr] \in Block /\ b.wr \in 1..Len(b.m_q)
  <2>1. b.m_q \in Seq(Block) /\ b.wr \in 1..Len(b.m_q) /\ GoodBlock(b.m_q[b.wr])
    BY <1>1, QueueTypes, BlockTypes DEF Good, Shape, GoodBlocks, End
  <2>2. /\ b.m_q[b.wr] \in Block /\ b.m_q[b.wr].len \in Nat /\ b.m_q[b.wr].written \in Nat
        /\ b.m_q[b.wr].written <= b.m_q[b.wr].len
    BY <2>1, BlockTypes DEF GoodBlock
  <2>3. b_write_avail(b) = b.m_q[b.wr].len - b.m_q[b.wr].written
    BY <1>1 DEF b_write_avail, write_avail
  <2> QED
    BY <2>1, <2>2, <2>3
<1>2. CASE b_write_avail(q) = 0
  <2>1. a = b_write_add_avail(q)
    BY <1>2 DEF WithSpace
  <2>2. /\ Good(a) /\ Full(a) /\ SameBytes(a, q)
        /\ a.wr # End /\ a.m_q[a.wr].written = 0
        /\ NoEmpty(q) => \A i \in 1..Len(a.m_q) : i # a.wr => a.m_q[i].written > 0
    BY <1>2, <2>1, AddAvail
  <2>3. b_write_avail(a) = a.m_q[a.wr].len - a.m_q[a.wr].written
    BY <1>1, <2>2
  <2>4. a.m_q[a.wr].len = BSize
    <3>1. a.wr \in 1..Len(a.m_q)
      BY <1>1, <2>2
    <3>2. ~a.m_q[a.wr].ref /\ GoodBlock(a.m_q[a.wr])
      BY <2>2, <3>1 DEF Full, Good, Shape, GoodBlocks
    <3> QED
      BY <3>2 DEF GoodBlock
  <2>5. b_write_avail(a) \in Nat \ {0}
    BY <2>2, <2>3, <2>4, BSizeAssumption
  <2> QED
    BY <2>2, <2>5
<1>3. CASE b_write_avail(q) # 0
  <2>1. a = q /\ q.wr # End
    BY <1>3 DEF WithSpace, b_write_avail
  <2>2. b_write_avail(a) \in Nat \ {0}
    BY <1>1, <1>3, <2>1
  <2>3. SameBytes(a, q)
    BY <2>1 DEF SameBytes
  <2>4. NoEmpty(q) => \A i \in 1..Len(a.m_q) : i # a.wr => a.m_q[i].written > 0
    BY <2>1 DEF NoEmpty
  <2> QED
    BY <2>1, <2>2, <2>3, <2>4
<1> QED
  BY <1>2, <1>3

\* The write cursor w has room for n bytes, at the end of all; the list p has
\* them.
RoomAt(m, w, n) ==
  /\ n \in Nat \ {0} /\ n <= m[w].len - m[w].written
  /\ \A i \in 1..Len(m) : i > w => m[i].written = 0
  /\ \A i \in 1..Len(m) : i < w => m[i].written > 0
Filled(m, p, w, bytes) ==
  /\ Len(p) = Len(m) /\ \A i \in 1..Len(m) : i # w => p[i] = m[i]
  /\ p[w].len = m[w].len /\ p[w].ref = m[w].ref /\ p[w].read = m[w].read
  /\ p[w].written = m[w].written + Len(bytes) /\ Len(p[w].data) = Len(m[w].data)
  /\ \A i \in 1..m[w].written : p[w].data[i] = m[w].data[i]
  /\ \A i \in 1..Len(bytes) : p[w].data[m[w].written + i] = bytes[i]
FillsUp(m, p, w, bytes) ==
  /\ GoodBlocks(p)
  /\ \A j \in 0..Len(m) : j < w => WrittenTo(p, j) = WrittenTo(m, j)
  /\ Written(p) = Written(m) + Len(bytes)
  /\ ContentTo(p, Len(p)) = ContentTo(m, Len(m)) \o bytes

\* The block at the write cursor with more bytes in it.
LEMMA FillBlock ==
  ASSUME NEW m \in Seq(Block), GoodBlocks(m), NEW w \in 1..Len(m), NEW bytes \in Seq(Byte),
         RoomAt(m, w, Len(bytes)), NEW p \in Seq(Block), Filled(m, p, w, bytes)
  PROVE  FillsUp(m, p, w, bytes)
<1> DEFINE n == Len(bytes)
<1>0. /\ n \in Nat \ {0} /\ n <= m[w].len - m[w].written /\ Len(bytes) = n
      /\ \A i \in 1..Len(m) : i > w => m[i].written = 0
      /\ \A i \in 1..Len(m) : i < w => m[i].written > 0
      /\ Len(p) = Len(m) /\ \A i \in 1..Len(m) : i # w => p[i] = m[i]
      /\ p[w].len = m[w].len /\ p[w].ref = m[w].ref /\ p[w].read = m[w].read
      /\ p[w].written = m[w].written + n /\ Len(p[w].data) = Len(m[w].data)
      /\ \A i \in 1..m[w].written : p[w].data[i] = m[w].data[i]
      /\ \A i \in 1..n : p[w].data[m[w].written + i] = bytes[i]
  BY DEF RoomAt, Filled
<1> HIDE DEF n
<1> USE <1>0
<1>1. /\ Len(m) \in Nat
      /\ \A i \in 1..Len(m) : m[i].written \in Nat /\ m[i].read \in Nat /\ m[i].len \in Nat
  BY BlockTypes
<1>2. \A i \in 1..Len(p) : i = w \/ i \in 1..Len(m)
  OBVIOUS
<1>3. GoodBlocks(p)
  <2>1. \A i \in 1..Len(p) : GoodBlock(p[i])
    <3>1. GoodBlock(m[w])
      BY DEF GoodBlocks
    <3>2. GoodBlock(p[w])
      BY <1>1, <3>1, SMTT(60) DEF GoodBlock
    <3> QED
      BY <3>2 DEF GoodBlocks
  <2>2. ASSUME NEW i \in 1..Len(p), NEW j \in 1..Len(p), i < j, p[j].written > 0
        PROVE  p[i].written > 0
    <3>1. CASE i < w
      BY <1>1, <3>1
    <3>2. CASE i = w
      <4>1. m[w].written \in Nat
        BY <1>1
      <4> QED
        BY <3>2, <4>1
    <3>3. CASE i > w
      <4>1. j > w /\ j # w
        BY <1>1, <2>2, <3>3
      <4>2. p[j].written = 0
        BY <4>1
      <4> QED
        BY <2>2, <4>2
    <3> QED
      BY <1>1, <3>1, <3>2, <3>3
  <2> QED
    BY <2>1, <2>2 DEF GoodBlocks, Contig
<1>4. /\ \A j \in 0..Len(m) : j < w => WrittenTo(p, j) = WrittenTo(m, j)
      /\ \A j \in 0..Len(m) : j >= w => WrittenTo(p, j) = WrittenTo(m, j) + n
  <2>1. \A j \in 1..Len(m) : j # w => p[j].written = m[j].written
    OBVIOUS
  <2>2. n \in Int
    OBVIOUS
  <2> QED
    BY <2>1, <2>2, WrittenMore
<1>5. Written(p) = Written(m) + n
  <2>1. Len(m) \in 0..Len(m) /\ Len(m) >= w
    BY <1>1
  <2> QED
    BY <1>4, <2>1 DEF Written
<1>6. Written(m) = WrittenTo(m, w - 1) + m[w].written /\ WrittenTo(m, w - 1) \in Nat
  <2>1. w \in 0..Len(m) /\ w - 1 \in 0..Len(m) /\ Len(m) \in w..Len(m)
    BY <1>1
  <2>2. \A j \in w..Len(m) : WrittenTo(m, j) = WrittenTo(m, w)
    BY <2>1, WrittenEmpty
  <2>3. WrittenTo(m, w) = WrittenTo(m, w - 1) + m[w].written /\ WrittenTo(m, w - 1) \in Nat
    BY <2>1, WrittenSteps
  <2> QED
    BY <2>1, <2>2, <2>3 DEF Written
<1>7. ContentTo(p, Len(p)) = ContentTo(m, Len(m)) \o bytes
  <2> DEFINE c == ContentTo(m, Len(m))
             s == c \o bytes
  <2>1. /\ c \in Seq(Byte) /\ Len(c) = Written(m)
        /\ \A i \in 1..Len(m) : \A j \in 1..m[i].written : c[WrittenTo(m, i - 1) + j] = m[i].data[j]
    BY GoodHolds, ContentBytes
  <2> HIDE DEF c
  <2>2. s \in Seq(Byte) /\ IsJoin(s, c, bytes)
    BY <2>1, Concat
  <2> HIDE DEF s
  <2>3. /\ Len(s) = Written(p)
        /\ \A x \in 1..Written(m) : s[x] = c[x]
        /\ \A x \in 1..n : s[Written(m) + x] = bytes[x]
    BY <1>5, <2>1, <2>2 DEF IsJoin
  <2>4. ASSUME NEW i \in 1..Len(m), NEW j \in 1..m[i].written
        PROVE  s[WrittenTo(m, i - 1) + j] = m[i].data[j]
    <3>1. /\ i \in 0..Len(m) /\ i - 1 \in 0..Len(m) /\ Len(m) \in i..Len(m)
      BY <1>1
    <3>2. /\ WrittenTo(m, i) = WrittenTo(m, i - 1) + m[i].written
          /\ WrittenTo(m, i - 1) \in Nat /\ WrittenTo(m, i) \in Nat
          /\ m[i].written \in Nat
      BY <1>1, <3>1, WrittenSteps
    <3>w. Written(m) \in Nat
      BY WrittenAll
    <3>3. WrittenTo(m, i) <= Written(m)
      BY <3>1, WrittenGrows DEF Written
    <3>4. WrittenTo(m, i - 1) + j \in 1..Written(m)
      BY <3>2, <3>3, <3>w, SMTT(60)
    <3> QED
      BY <2>1, <2>3, <3>4
  <2>5. ASSUME NEW i \in 1..Len(p), NEW j \in 1..p[i].written
        PROVE  s[WrittenTo(p, i - 1) + j] = p[i].data[j]
    <3>1. CASE i < w
      <4>1. i - 1 \in 0..Len(m) /\ i - 1 < w /\ i # w
        BY <1>1, <3>1
      <4> QED
        BY <1>4, <2>4, <4>1
    <3>2. CASE i = w
      <4>1. WrittenTo(p, w - 1) = WrittenTo(m, w - 1) /\ m[w].written \in Nat
        BY <1>1, <1>4
      <4>2. CASE j \in 1..m[w].written
        BY <2>4, <3>2, <4>1, <4>2
      <4>3. CASE j > m[w].written
        <5>0. j \in Nat /\ j <= m[w].written + n
          BY <3>2, <4>1
        <5>a. j - m[w].written \in 1..n /\ m[w].written + (j - m[w].written) = j
          BY <4>1, <4>3, <5>0, SMTT(60)
        <5>b. Written(m) + (j - m[w].written) = WrittenTo(m, w - 1) + j
          BY <1>6, <4>1, <5>0
        <5>1. /\ j - m[w].written \in 1..n
              /\ m[w].written + (j - m[w].written) = j
              /\ Written(m) + (j - m[w].written) = WrittenTo(m, w - 1) + j
          BY <5>a, <5>b
        <5>2. s[Written(m) + (j - m[w].written)] = bytes[j - m[w].written]
          BY <2>3, <5>1
        <5>3. p[w].data[m[w].written + (j - m[w].written)] = bytes[j - m[w].written]
          BY <5>1
        <5> QED
          BY <3>2, <4>1, <5>1, <5>2, <5>3
      <4> QED
        BY <3>2, <4>1, <4>2, <4>3
    <3>3. CASE i > w
      <4>1. p[i].written = 0
        BY <3>3, SMTT(60)
      <4> QED
        BY <4>1
    <3> QED
      BY <1>1, <3>1, <3>2, <3>3
  <2>6. Holds(p)
    BY <1>3, GoodHolds
  <2>7. ContentTo(p, Len(p)) = s
    BY <2>2, <2>3, <2>5, <2>6, ContentIs
  <2> QED
    BY <2>7 DEF s, c
<1> QED
  BY <1>3, <1>4, <1>5, <1>7 DEF FillsUp, n

\* A queue that has n bytes more at its end.
Grown(r, q, bytes) ==
  /\ r.avail = q.avail + Len(bytes) /\ r.off = q.off + Len(bytes)
  /\ Written(r.m_q) = Written(q.m_q) + Len(bytes)
  /\ Content(r) = Content(q) \o bytes

\* Where everything has been read, the write cursor is on the block of the read
\* cursor or on the next.
LEMMA AllRead ==
  ASSUME NEW q, Good(q), Full(q), q.wr # End, q.avail = 0
  PROVE  /\ q.rd \in 1..Len(q.m_q) /\ q.wr \in {q.rd, q.rd + 1}
         /\ q.m_q[q.rd].read = q.m_q[q.rd].written
         /\ WrittenTo(q.m_q, q.rd) = Written(q.m_q)
<1> DEFINE m == q.m_q
           R == q.rd
           w == q.wr
<1>1. /\ m \in Seq(Block) /\ w \in 1..Len(m) /\ R \in 1..Len(m) /\ R <= w /\ Len(m) \in Nat
      /\ GoodBlocks(m)
  BY QueueTypes, BlockTypes DEF Good, Shape, Reader, End
<1>2. 0 = Written(m) - (WrittenTo(m, R - 1) + m[R].read)
  BY <1>1 DEF Good, Reader, ReadPos, End
<1>3. \A i \in 1..Len(m) : ~m[i].ref /\ (i < w => m[i].written = m[i].len)
  BY DEF Full
<1> HIDE DEF m, R, w
<1>4. m[R].read <= m[R].written /\ m[R].read \in Nat /\ m[R].written \in Nat
  BY <1>1, BlockTypes DEF GoodBlocks, GoodBlock
<1>5. /\ Written(m) \in Nat /\ WrittenTo(m, R) <= Written(m)
      /\ WrittenTo(m, R) = WrittenTo(m, R - 1) + m[R].written
      /\ WrittenTo(m, R - 1) \in Nat
  <2>1. R \in 0..Len(m) /\ R - 1 \in 0..Len(m)
    BY <1>1
  <2> QED
    BY <1>1, <2>1, WrittenAll, WrittenSteps
<1>6. m[R].read = m[R].written /\ WrittenTo(m, R) = Written(m)
  BY <1>2, <1>4, <1>5
<1>7. ~(w > R + 1)
  <2> SUFFICES ASSUME w > R + 1 PROVE FALSE
    OBVIOUS
  <2>1. R + 1 \in 1..Len(m) /\ R + 1 < w /\ (R + 1) - 1 = R /\ R + 1 \in 0..Len(m)
    BY <1>1
  <2>2. m[R + 1].written = BSize
    BY <1>1, <1>3, <2>1 DEF GoodBlocks, GoodBlock
  <2>3. WrittenTo(m, R + 1) = WrittenTo(m, R) + m[R + 1].written
    BY <1>1, <2>1, WrittenSteps
  <2>4. WrittenTo(m, R + 1) <= Written(m)
    BY <1>1, <2>1, WrittenAll
  <2> QED
    BY <1>5, <1>6, <2>2, <2>3, <2>4, BSizeAssumption
<1>8. w \in {R, R + 1}
  BY <1>1, <1>7
<1> QED
  BY <1>1, <1>6, <1>8 DEF m, R, w

\* Store() puts the bytes at the end, and the cursors stay right.
LEMMA StoreGood ==
  ASSUME NEW a, Good(a), Full(a), a.wr # End, NEW bytes \in Seq(Byte),
         Len(bytes) \in Nat \ {0}, Len(bytes) <= b_write_avail(a),
         NEW r, r = Store(a, bytes)
  PROVE  /\ Good(r) /\ Full(r) /\ r.wr # End /\ Grown(r, a, bytes)
         /\ (\A i \in 1..Len(a.m_q) : i # a.wr => a.m_q[i].written > 0) => NoEmpty(r)
<1> DEFINE m == a.m_q
           w == a.wr
           R == a.rd
           n == Len(bytes)
           b == m[w]
           d == [i \in DOMAIN b.data |-> IF i - b.written \in 1..n THEN bytes[i - b.written]
                                         ELSE b.data[i]]
           x == [a EXCEPT !.m_q[a.wr].data = d]
           y == [x EXCEPT !.off = @ + n, !.avail = @ + n, !.m_q[x.wr].written = @ + n]
           z == AdvanceWrite(y)
           p == y.m_q
<1>1. /\ a \in Queue /\ m \in Seq(Block) /\ w \in 1..Len(m) /\ R \in 1..Len(m) /\ R <= w
      /\ Len(m) \in Nat /\ GoodBlocks(m) /\ a.off \in Int /\ a.avail \in Nat
  BY QueueTypes, BlockTypes DEF Good, Shape, Reader, End
<1>2. /\ b \in Block /\ b.len \in Nat /\ b.written \in Nat /\ b.read \in Nat
      /\ b.data \in Seq(Byte) /\ GoodBlock(b) /\ ~b.ref /\ b.ref \in BOOLEAN
  BY <1>1, BlockTypes DEF GoodBlocks, Full
<1>3. n \in Nat \ {0} /\ n <= b.len - b.written
  BY SMTT(60) DEF b_write_avail, write_avail
<1>4. r = IF n > 0 /\ block_read_avail(z.m_q[z.rd]) = 0 THEN [z EXCEPT !.rd = Succ(z, @)] ELSE z
  BY Zenon DEF Store, b_write_incr
<1> HIDE DEF n
<1>5. /\ d \in Seq(Byte) /\ Len(d) = Len(b.data)
      /\ \A i \in 1..b.written : d[i] = b.data[i]
      /\ \A i \in 1..n : d[b.written + i] = bytes[i]
  <2>1. DOMAIN b.data = 1..Len(b.data) /\ Len(b.data) = b.len /\ \A i \in 1..b.len : b.data[i] \in Byte
    BY <1>2, LenProperties, ElementOfSeq DEF GoodBlock
  <2>2. \A i \in 1..n : bytes[i] \in Byte
    BY ElementOfSeq DEF n
  <2> HIDE DEF b
  <2>3. d \in [1..b.len -> Byte]
    BY <2>1, <2>2
  <2>4. d \in Seq(Byte) /\ Len(d) = b.len
    <3> HIDE DEF d
    <3> QED
      BY <1>2, <2>3
  <2>5. ASSUME NEW i \in 1..b.written PROVE d[i] = b.data[i]
    <3>1. i \in 1..b.len /\ i - b.written \notin 1..n
      BY <1>2, <1>3
    <3> QED
      BY <2>1, <3>1
  <2>6. ASSUME NEW i \in 1..n PROVE d[b.written + i] = bytes[i]
    <3>1. b.written + i \in 1..b.len /\ (b.written + i) - b.written = i
      BY <1>2, <1>3
    <3> QED
      BY <2>1, <3>1
  <2> QED
    BY <2>1, <2>4, <2>5, <2>6
<1> HIDE DEF d
<1>6. /\ x \in Queue /\ x.wr = w /\ x.rd = R /\ x.off = a.off /\ x.avail = a.avail
      /\ x.m_q = [m EXCEPT ![w] = [b EXCEPT !.data = d]]
      /\ x.m_q \in Seq(Block)
  <2>1. [b EXCEPT !.data = d] \in Block
    BY <1>2, <1>5 DEF Block
  <2>2. x = [a EXCEPT !.m_q = [m EXCEPT ![w] = [b EXCEPT !.data = d]]]
    OBVIOUS
  <2>3. [m EXCEPT ![w] = [b EXCEPT !.data = d]] \in Seq(Block)
    BY <1>1, <2>1, ExceptSeq
  <2> HIDE DEF x, m, b, w
  <2> QED
    BY <1>1, <2>2, <2>3 DEF Queue, w
<1>7. /\ Len(x.m_q) = Len(m) /\ \A i \in 1..Len(m) : i # w => x.m_q[i] = m[i]
      /\ x.m_q[w] = [b EXCEPT !.data = d]
  <2> HIDE DEF x, m, b, w
  <2> QED
    BY <1>1, <1>6
<1> DEFINE b1 == [b EXCEPT !.data = d]
           b2 == [b1 EXCEPT !.written = @ + n]
<1>8. /\ y \in Queue /\ y.wr = w /\ y.rd = R /\ y.off = a.off + n /\ y.avail = a.avail + n
      /\ p = [x.m_q EXCEPT ![w] = b2] /\ p \in Seq(Block)
  <2>1. b1 \in Block
    BY <1>2, <1>5 DEF Block
  <2>2. b2 \in Block
    <3> HIDE DEF b1
    <3> QED
      BY <1>3, <2>1 DEF Block
  <2>3. x.m_q[x.wr] = b1 /\ x.wr = w
    BY <1>6, <1>7
  <2> HIDE DEF x, m, b, w, R, b1
  <2>4. y = [x EXCEPT !.off = @ + n, !.avail = @ + n, !.m_q = [x.m_q EXCEPT ![w] = b2]]
    BY <2>3
  <2> HIDE DEF b2
  <2>5. [x.m_q EXCEPT ![w] = b2] \in Seq(Block)
    BY <1>1, <1>6, <1>7, <2>2, ExceptSeq
  <2>6. /\ x.off + n \in Int /\ x.avail + n \in Nat
    BY <1>1, <1>3, <1>6
  <2> HIDE DEF y
  <2> QED
    BY <1>6, <2>4, <2>5, <2>6 DEF Queue
<1>9. /\ Len(p) = Len(m) /\ \A i \in 1..Len(m) : i # w => p[i] = m[i]
      /\ p[w] = b2
  <2> HIDE DEF x, y, m, b, w, b2, p
  <2> QED
    BY <1>1, <1>6, <1>7, <1>8
<1>10. /\ b2.len = b.len /\ b2.ref = b.ref /\ b2.read = b.read
       /\ b2.written = b.written + n /\ b2.data = d
  <2> HIDE DEF b
  <2> QED
    BY <1>2, <1>3, <1>5 DEF Block
<1> HIDE DEF x, y, b1, b2, p
<1>11. /\ \A i \in 1..Len(m) : i > w => m[i].written = 0
       /\ \A i \in 1..Len(m) : ~m[i].ref /\ (i < w => m[i].written = m[i].len)
       /\ \A i \in 1..Len(m) : i < R => m[i].read = m[i].written
       /\ \A i \in 1..Len(m) : i > R => m[i].read = 0
       /\ a.avail = Written(m) - (WrittenTo(m, R - 1) + m[R].read)
       /\ a.avail > 0 => m[R].read < m[R].written
  BY <1>1 DEF Good, Shape, Reader, Full, ReadPos, End
<1>12. \A i \in 1..Len(m) : i < w => m[i].written > 0
  <2>1. \A i \in 1..Len(m) : ~m[i].ref => m[i].len = BSize
    BY <1>1 DEF GoodBlocks, GoodBlock
  <2> HIDE DEF m, w
  <2> QED
    BY <1>11, <2>1, BSizeAssumption
<1> HIDE DEF m, w, R, b
<1>13. /\ GoodBlocks(p)
       /\ \A j \in 0..Len(m) : j < w => WrittenTo(p, j) = WrittenTo(m, j)
       /\ Written(p) = Written(m) + n
       /\ ContentTo(p, Len(p)) = ContentTo(m, Len(m)) \o bytes
  <2>1. RoomAt(m, w, n)
    BY <1>3, <1>11, <1>12 DEF RoomAt, b
  <2>2. /\ Len(p) = Len(m) /\ \A i \in 1..Len(m) : i # w => p[i] = m[i]
        /\ p[w].len = m[w].len /\ p[w].ref = m[w].ref /\ p[w].read = m[w].read
        /\ p[w].written = m[w].written + n /\ p[w].data = d
    BY <1>9, <1>10 DEF b
  <2>3. /\ Len(d) = Len(m[w].data)
        /\ \A i \in 1..m[w].written : d[i] = m[w].data[i]
        /\ \A i \in 1..n : d[m[w].written + i] = bytes[i]
    BY <1>5 DEF b
  <2>4. Filled(m, p, w, bytes)
    BY <2>2, <2>3 DEF Filled, n
  <2>5. /\ m \in Seq(Block) /\ GoodBlocks(m) /\ w \in 1..Len(m) /\ p \in Seq(Block)
        /\ RoomAt(m, w, Len(bytes))
    BY <1>1, <1>8, <2>1 DEF n
  <2>6. FillsUp(m, p, w, bytes)
    BY <2>4, <2>5, FillBlock, Zenon
  <2> QED
    BY <2>6 DEF FillsUp, n
<1>14. /\ z \in Queue /\ z.m_q = p /\ z.rd = R /\ z.off = a.off + n /\ z.avail = a.avail + n
       /\ z.wr \in {w, w + 1} /\ z.wr \in 1..Len(m)
       /\ z.wr = w + 1 => p[w].written = p[w].len
  <2>1. p[w].len \in Nat /\ p[w].written \in Nat
    BY <1>1, <1>8, <1>9, BlockTypes
  <2>2. CASE write_avail(y.m_q[y.wr]) = 0 /\ y.wr # LastPos(y)
    <3>1. z = [y EXCEPT !.wr = @ + 1]
      BY <2>2 DEF AdvanceWrite
    <3>2. p[w].len - p[w].written = 0 /\ w # Len(m)
      BY <1>8, <1>9, <2>2 DEF write_avail, LastPos, p
    <3>3. w + 1 \in 1..Len(m) /\ w + 1 \in Nat
      BY <1>1, <3>2
    <3>4. z \in Queue /\ z.m_q = y.m_q /\ z.rd = R /\ z.off = a.off + n /\ z.avail = a.avail + n /\ z.wr = w + 1
      BY <1>8, <3>1, <3>3 DEF Queue
    <3>5. p[w].written = p[w].len
      BY <2>1, <3>2
    <3> QED
      BY <3>3, <3>4, <3>5 DEF p
  <2>3. CASE ~(write_avail(y.m_q[y.wr]) = 0 /\ y.wr # LastPos(y))
    <3>1. z = y
      BY <2>3 DEF AdvanceWrite
    <3> QED
      BY <1>1, <1>8, <3>1 DEF p
  <2> QED
    BY <2>2, <2>3
<1> HIDE DEF z
<1>15. p[R].read = m[R].read /\ p[R].read \in Nat /\ p[R].written \in Nat /\ m[R].written \in Nat
  <2>1. p[w].read = m[w].read
    BY <1>9, <1>10 DEF b
  <2>2. p[R].read = m[R].read
    BY <1>1, <1>9, <2>1
  <2>3. R \in 1..Len(p)
    BY <1>1, <1>9
  <2> QED
    BY <1>1, <1>8, <2>2, <2>3, BlockTypes
<1>16. WrittenTo(p, R - 1) = WrittenTo(m, R - 1) /\ WrittenTo(m, R - 1) \in Nat /\ Written(m) \in Nat
  <2>1. R - 1 \in 0..Len(m) /\ R - 1 < w
    BY <1>1
  <2> QED
    BY <1>1, <1>13, <2>1, WrittenSteps, WrittenAll
<1>17. \A i \in 1..Len(m) : p[i].read = m[i].read /\ (i # w => p[i] = m[i])
  BY <1>9, <1>10 DEF b
<1> DEFINE Cursors == /\ r \in Queue /\ r.m_q = p /\ r.wr = z.wr
                      /\ r.off = a.off + n /\ r.avail = a.avail + n
           Reading == /\ r.rd \in 1..w
                      /\ \A i \in 1..Len(m) : i < r.rd => p[i].read = p[i].written
                      /\ \A i \in 1..Len(m) : i > r.rd => p[i].read = 0
                      /\ r.avail = Written(p) - (WrittenTo(p, r.rd - 1) + p[r.rd].read)
                      /\ p[r.rd].read < p[r.rd].written
\* The read cursor stays where there is something to read.
<1>18. ASSUME block_read_avail(p[R]) # 0 PROVE Cursors /\ Reading
  <2>1. r = z
    BY <1>4, <1>14, <1>18
  <2>2. Cursors /\ r.rd = R
    BY <1>14, <2>1
  <2>3. p[R].read < p[R].written
    <3>1. GoodBlock(p[R])
      BY <1>1, <1>9, <1>13 DEF GoodBlocks
    <3> QED
      BY <1>15, <1>18, <3>1 DEF GoodBlock, block_read_avail
  <2>4. a.avail + n = Written(p) - (WrittenTo(p, R - 1) + p[R].read)
    <3>1. /\ a.avail = Written(m) - (WrittenTo(m, R - 1) + m[R].read)
          /\ Written(p) = Written(m) + n /\ n \in Nat
      BY <1>3, <1>11, <1>13
    <3> QED
      BY <1>15, <1>16, <3>1
  <2>5. \A i \in 1..Len(m) : i < R => p[i].read = p[i].written
    <3>1. ASSUME NEW i \in 1..Len(m), i < R PROVE p[i].read = p[i].written
      <4>1. i # w
        BY <1>1, <3>1
      <4>2. p[i] = m[i]
        BY <1>17, <4>1
      <4>3. m[i].read = m[i].written
        BY <1>11, <3>1
      <4> QED
        BY <4>2, <4>3
    <3> QED
      BY <3>1
  <2>6. \A i \in 1..Len(m) : i > R => p[i].read = 0
    BY <1>11, <1>17
  <2>7. R \in 1..w
    BY <1>1
  <2>8. Reading
    BY <2>2, <2>3, <2>4, <2>5, <2>6, <2>7
  <2> QED
    BY <2>2, <2>8
\* It moves on to the block that was written to.
<1>19. ASSUME block_read_avail(p[R]) = 0 PROVE Cursors /\ Reading
  <2>1. p[R].written - p[R].read = 0
    BY <1>19 DEF block_read_avail
  <2>2. R # w
    <3>1. ASSUME R = w PROVE FALSE
      <4>1. p[R].written = m[R].written + n /\ m[R].read <= m[R].written /\ m[R].read \in Nat
        BY <1>2, <1>9, <1>10, <3>1 DEF b, GoodBlock
      <4> QED
        BY <1>3, <1>15, <2>1, <4>1
    <3> QED
      BY <3>1
  <2>3. p[R] = m[R] /\ m[R].read = m[R].written
    BY <1>1, <1>15, <1>17, <2>1, <2>2
  <2>4. a.avail = 0
    BY <1>1, <1>11, <1>15, <2>3
  <2>5. w \in {R, R + 1} /\ WrittenTo(m, R) = Written(m)
    BY <2>4, AllRead DEF m, R, w
  <2>6. w = R + 1 /\ w - 1 = R /\ R # Len(p) /\ R \in 0..Len(m) /\ R < w
    BY <1>1, <1>9, <2>2, <2>5
  <2>7. r = [z EXCEPT !.rd = w]
    BY <1>3, <1>4, <1>14, <1>19, <2>6 DEF Succ
  <2>8. Cursors /\ r.rd = w
    <3>1. z \in Queue /\ w \in Nat
      BY <1>1, <1>14
    <3>2. /\ r \in Queue /\ r.rd = w /\ r.m_q = z.m_q /\ r.wr = z.wr
          /\ r.off = z.off /\ r.avail = z.avail
      BY <2>7, <3>1 DEF Queue
    <3> QED
      BY <1>14, <3>2
  <2>9. WrittenTo(p, w - 1) = Written(m)
    BY <1>13, <2>5, <2>6
  <2>10. p[w].read = 0 /\ p[w].written = m[w].written + n /\ m[w].written \in Nat
    <3>1. m[w].read = 0
      BY <1>1, <1>11, <2>6
    <3> QED
      BY <1>1, <1>2, <1>9, <1>10, <1>17, <3>1 DEF b
  <2>11. a.avail + n = Written(p) - (WrittenTo(p, w - 1) + p[w].read)
    BY <1>3, <1>13, <1>16, <2>4, <2>9, <2>10
  <2>12. p[w].read < p[w].written
    BY <1>3, <2>10
  <2>13. \A i \in 1..Len(m) : i < w => p[i].read = p[i].written
    <3>1. \A i \in 1..Len(m) : i < w => i < R \/ i = R
      BY <1>1, <2>6
    <3> QED
      BY <1>1, <1>11, <1>17, <2>3, <3>1
  <2>14. \A i \in 1..Len(m) : i > w => p[i].read = 0
    BY <1>1, <1>11, <1>17, <2>6, SMTT(60)
  <2>15. w \in 1..w
    BY <1>1
  <2>16. Reading
    BY <2>8, <2>11, <2>12, <2>13, <2>14, <2>15
  <2> QED
    BY <2>8, <2>16
<1>20. Cursors /\ Reading
  BY <1>18, <1>19
<1> HIDE DEF Cursors, Reading
<1>21. Shape(r)
  <2>1. \A i \in 1..Len(p) : i > z.wr => p[i].written = 0
    <3>1. \A i \in 1..Len(m) : i > z.wr => i > w /\ i # w
      BY <1>1, <1>14
    <3> QED
      BY <1>9, <1>11, <1>17, <3>1
  <2>2. z.wr \in 0..Len(p)
    BY <1>1, <1>9, <1>14
  <2> QED
    BY <1>13, <1>20, <2>1, <2>2 DEF Shape, Cursors
<1>22. Reader(r)
  <2>1. r.rd \in 0..Len(p) /\ r.rd # End /\ Len(p) # 0 /\ r.rd <= z.wr
    BY <1>1, <1>9, <1>14, <1>20, SMTT(60) DEF Reading, End
  <2>2. ReadPos(r) = WrittenTo(p, r.rd - 1) + p[r.rd].read
    BY <1>20, <2>1 DEF ReadPos, Cursors
  <2> QED
    BY <1>9, <1>20, <2>1, <2>2 DEF Reader, Cursors, Reading
<1>23. Full(r)
  <2>1. ASSUME NEW i \in 1..Len(p)
        PROVE  ~p[i].ref /\ (i < z.wr => p[i].written = p[i].len)
    <3>1. CASE i = w
      <4>1. i < z.wr => z.wr = w + 1
        BY <1>1, <1>14, <3>1
      <4> QED
        BY <1>2, <1>9, <1>10, <1>14, <3>1, <4>1
    <3>2. CASE i # w
      <4>1. i \in 1..Len(m) /\ p[i] = m[i] /\ (i < z.wr => i < w)
        BY <1>1, <1>9, <1>14, <3>2
      <4> QED
        BY <1>11, <4>1
    <3> QED
      BY <3>1, <3>2
  <2> QED
    BY <1>20, <2>1 DEF Full, Cursors
<1>24. Grown(r, a, bytes)
  BY <1>13, <1>20 DEF Grown, Cursors, Content, m, n
<1>25. ASSUME \A i \in 1..Len(m) : i # w => m[i].written > 0 PROVE NoEmpty(r)
  <2>1. \A i \in 1..Len(p) : p[i].written > 0
    <3>1. p[w].written > 0
      BY <1>2, <1>3, <1>9, <1>10
    <3> QED
      BY <1>9, <1>17, <1>25, <3>1
  <2> QED
    BY <1>20, <2>1 DEF NoEmpty, Cursors
<1>26. r.wr # End
  BY <1>14, <1>20 DEF Cursors, End
<1> QED
  BY <1>21, <1>22, <1>23, <1>24, <1>25, <1>26 DEF Good, m, w

-----------------------------------------------------------------------------
(* Reading *)

\* The same blocks, read to another place.
Alike(m, p) ==
  /\ Len(p) = Len(m)
  /\ \A i \in 1..Len(m) :
       /\ p[i].written = m[i].written /\ p[i].data = m[i].data
       /\ p[i].len = m[i].len /\ p[i].ref = m[i].ref
       /\ p[i].read <= p[i].written
AlikeBytes(m, p) ==
  /\ GoodBlocks(p) /\ Written(p) = Written(m)
  /\ \A i \in 0..Len(m) : WrittenTo(p, i) = WrittenTo(m, i)
  /\ ContentTo(p, Len(p)) = ContentTo(m, Len(m))

\* Reading changes none of the bytes.
LEMMA AlikeSame ==
  ASSUME NEW m \in Seq(Block), RoughBlocks(m), NEW p \in Seq(Block), Alike(m, p)
  PROVE  AlikeBytes(m, p)
<1>1. Len(m) \in Nat /\ Len(p) = Len(m) /\ \A i \in 1..Len(m) : p[i].written = m[i].written
  BY BlockTypes DEF Alike
<1>2. GoodBlocks(p)
  BY DEF Alike, GoodBlocks, GoodBlock, RoughBlocks, RoughBlock, Contig
<1>3. Len(m) \in 0..Len(p) /\ Len(m) <= Len(m) /\ Len(m) \in 0..Len(m)
  BY <1>1
<1>4. \A i \in 0..Len(m) : WrittenTo(p, i) = WrittenTo(m, i)
  BY <1>1, <1>3, WrittenSame
<1>5. Written(p) = Written(m)
  BY <1>1, <1>3, <1>4 DEF Written
<1> DEFINE s == ContentTo(m, Len(m))
<1>6. /\ s \in Seq(Byte) /\ Len(s) = Written(m)
      /\ \A i \in 1..Len(m) : \A j \in 1..m[i].written : s[WrittenTo(m, i - 1) + j] = m[i].data[j]
  BY RoughHolds, ContentBytes
<1> HIDE DEF s
<1>7. \A i \in 1..Len(p) : \A j \in 1..p[i].written : s[WrittenTo(p, i - 1) + j] = p[i].data[j]
  <2>1. \A i \in 1..Len(m) : WrittenTo(p, i - 1) = WrittenTo(m, i - 1)
    BY <1>1, <1>4
  <2>2. \A i \in 1..Len(m) : p[i].data = m[i].data
    BY DEF Alike
  <2> QED
    BY <1>1, <1>6, <2>1, <2>2
<1>8. ContentTo(p, Len(p)) = s
  BY <1>2, <1>5, <1>6, <1>7, GoodHolds, ContentIs
<1> QED
  BY <1>2, <1>4, <1>5, <1>8 DEF AlikeBytes, s

\* b_read_avail() is what is left in the block of the read cursor.
LEMMA ReadAvail ==
  ASSUME NEW q, Good(q), q.rd # End
  PROVE  /\ q.rd \in 1..Len(q.m_q)
         /\ b_read_avail(q) = q.m_q[q.rd].written - q.m_q[q.rd].read
         /\ b_read_avail(q) \in Nat /\ b_read_avail(q) <= q.avail
         /\ q.avail > 0 => b_read_avail(q) > 0
<1> DEFINE m == q.m_q
           R == q.rd
<1>1. /\ m \in Seq(Block) /\ Len(m) \in Nat /\ R \in 1..Len(m) /\ GoodBlocks(m)
      /\ q.avail = Written(m) - (WrittenTo(m, R - 1) + m[R].read)
      /\ q.avail > 0 => m[R].read < m[R].written
      /\ q.avail \in Nat
  BY QueueTypes, BlockTypes DEF Good, Shape, Reader, ReadPos, End
<1>2. q.wr # End => \A i \in 1..Len(m) : i > q.wr => m[i].written = 0
  BY DEF Good, Shape
<1>3. q.rd = q.wr \/ b_read_avail(q) = m[R].written - m[R].read
  BY DEF b_read_avail, block_read_avail
<1>4. q.rd = q.wr => b_read_avail(q) = q.avail
  BY DEF b_read_avail
<1> HIDE DEF m
<1>5. m[R].read \in Nat /\ m[R].written \in Nat /\ m[R].read <= m[R].written
  BY <1>1, BlockTypes DEF GoodBlocks, GoodBlock
<1>6. /\ WrittenTo(m, R) = WrittenTo(m, R - 1) + m[R].written /\ WrittenTo(m, R - 1) \in Nat
      /\ WrittenTo(m, R) <= Written(m) /\ Written(m) \in Nat
  <2>1. R \in 0..Len(m) /\ R - 1 \in 0..Len(m)
    BY <1>1
  <2> QED
    BY <1>1, <2>1, WrittenSteps, WrittenAll
<1>7. q.rd = q.wr => Written(m) = WrittenTo(m, R)
  <2> SUFFICES ASSUME q.rd = q.wr PROVE Written(m) = WrittenTo(m, R)
    OBVIOUS
  <2>1. R \in 0..Len(m) /\ Len(m) \in R..Len(m) /\ \A i \in 1..Len(m) : i > R => m[i].written = 0
    BY <1>1, <1>2
  <2> HIDE DEF R
  <2>2. \A j \in R..Len(m) : WrittenTo(m, j) = WrittenTo(m, R)
    BY <1>1, <2>1, WrittenEmpty
  <2> QED
    BY <2>1, <2>2 DEF Written
<1> HIDE DEF R
<1>8. b_read_avail(q) = m[R].written - m[R].read
  <2>1. CASE q.rd = q.wr
    BY <1>1, <1>4, <1>5, <1>6, <1>7, <2>1
  <2> QED
    BY <1>3, <2>1
<1>9. b_read_avail(q) \in Nat /\ b_read_avail(q) <= q.avail /\ (q.avail > 0 => b_read_avail(q) > 0)
  BY <1>1, <1>5, <1>6, <1>8, SMTT(60)
<1> QED
  BY <1>1, <1>8, <1>9 DEF m, R

\* r is q with n bytes read.
Reads(r, q, n) ==
  /\ Good(r) /\ (Full(q) => Full(r)) /\ (NoEmpty(q) => NoEmpty(r))
  /\ r.wr = q.wr /\ r.off = q.off /\ r.avail = q.avail - n
  /\ Len(r.m_q) = Len(q.m_q)
  /\ Written(r.m_q) = Written(q.m_q) /\ Content(r) = Content(q)

\* b_read_incr() keeps the cursors right.
LEMMA ReadIncr ==
  ASSUME NEW q, Good(q), q.rd # End, NEW n \in Nat, n <= b_read_avail(q),
         NEW r, r = b_read_incr(q, n)
  PROVE  Reads(r, q, n)
<1> DEFINE m == q.m_q
           R == q.rd
           b == m[R]
           p == [m EXCEPT ![R] = [b EXCEPT !.read = @ + n]]
           took == [q EXCEPT !.avail = @ - n, !.m_q[q.rd].read = @ + n]
<1>1. /\ q \in Queue /\ m \in Seq(Block) /\ Len(m) \in Nat /\ R \in 1..Len(m) /\ GoodBlocks(m)
      /\ q.avail = Written(m) - (WrittenTo(m, R - 1) + m[R].read)
      /\ q.avail > 0 => m[R].read < m[R].written
      /\ q.avail \in Nat /\ q.wr \in 0..Len(m)
      /\ q.wr # End => R <= q.wr
  BY QueueTypes, BlockTypes DEF Good, Shape, Reader, ReadPos, End
<1>2. /\ q.wr # End => \A i \in 1..Len(m) : i > q.wr => m[i].written = 0
      /\ \A i \in 1..Len(m) : i < R => m[i].read = m[i].written
      /\ \A i \in 1..Len(m) : i > R => m[i].read = 0
  BY DEF Good, Shape, Reader
<1>3. b_read_avail(q) = b.written - b.read /\ b_read_avail(q) <= q.avail /\ b_read_avail(q) \in Nat
  BY ReadAvail
<1>4. r = IF b_read_avail(q) - n = 0 /\ took.avail # 0 THEN [took EXCEPT !.rd = Succ(took, @)] ELSE took
  BY DEF b_read_incr
<1>5. /\ b \in Block /\ b.read \in Nat /\ b.written \in Nat /\ b.len \in Nat /\ b.read <= b.written
  BY <1>1, BlockTypes DEF GoodBlocks, GoodBlock
<1>6. /\ took \in Queue /\ took.m_q = p /\ took.wr = q.wr /\ took.rd = R
      /\ took.off = q.off /\ took.avail = q.avail - n /\ p \in Seq(Block)
  <2>1. [b EXCEPT !.read = @ + n] \in Block
    <3> HIDE DEF b
    <3> QED
      BY <1>5 DEF Block
  <2>2. took = [q EXCEPT !.avail = @ - n, !.m_q = p]
    OBVIOUS
  <2>3. p \in Seq(Block)
    BY <1>1, <2>1, ExceptSeq
  <2>4. q.avail - n \in Nat
    <3> HIDE DEF m, R, b, p, took
    <3> QED
      BY <1>1, <1>3
  <2> HIDE DEF p, took
  <2> QED
    BY <1>1, <2>2, <2>3, <2>4 DEF Queue
<1>7. /\ Len(p) = Len(m) /\ \A i \in 1..Len(m) : i # R => p[i] = m[i]
      /\ p[R] = [b EXCEPT !.read = @ + n]
  <2> HIDE DEF m, b, R
  <2> QED
    BY <1>1, <1>6
<1>8. /\ p[R].read = b.read + n /\ p[R].written = b.written /\ p[R].len = b.len
      /\ p[R].ref = b.ref /\ p[R].data = b.data
  <2> HIDE DEF b
  <2> QED
    BY <1>5, <1>7 DEF Block
<1> HIDE DEF p, took
<1>9. Alike(m, p)
  <2>1. p[R].read <= p[R].written
    BY <1>3, <1>5, <1>8
  <2>2. \A i \in 1..Len(m) : m[i].read <= m[i].written
    BY <1>1 DEF GoodBlocks, GoodBlock
  <2> QED
    BY <1>7, <1>8, <2>1, <2>2 DEF Alike
<1> HIDE DEF m, R, b
<1>10. AlikeBytes(m, p)
  BY <1>1, <1>6, <1>9, GoodRough, AlikeSame, Zenon
<1>11. /\ Written(p) = Written(m) /\ GoodBlocks(p)
       /\ WrittenTo(p, R - 1) = WrittenTo(m, R - 1)
       /\ WrittenTo(p, R) = WrittenTo(m, R)
       /\ WrittenTo(m, R) = WrittenTo(m, R - 1) + b.written
       /\ WrittenTo(m, R - 1) \in Nat /\ Written(m) \in Nat
  <2>1. R \in 0..Len(m) /\ R - 1 \in 0..Len(m)
    BY <1>1
  <2> QED
    BY <1>1, <1>10, <2>1, WrittenSteps, WrittenAll DEF AlikeBytes, b
<1> DEFINE Kept == /\ r \in Queue /\ r.m_q = p /\ r.wr = q.wr
                   /\ r.off = q.off /\ r.avail = q.avail - n
<1>12. ASSUME b_read_avail(q) - n = 0, took.avail # 0 PROVE Kept /\ Reader(r)
  <2>a. q.avail - n \in Nat
    BY <1>1, <1>3
  <2>b. took.avail = q.avail - n
    BY <1>6
  <2>c. q.avail - n # 0
    BY <1>12, <2>b
  <2>d. b.written - b.read - n = 0
    BY <1>3, <1>12
  <2>1. b.written = b.read + n /\ q.avail - n > 0 /\ q.avail - n \in Nat
    BY <1>5, <2>a, <2>c, <2>d
  <2>2. Written(m) # WrittenTo(m, R)
    BY <1>1, <1>5, <1>11, <2>1, SMTT(60) DEF b
  <2>3. PICK j \in 1..Len(m) : j > R /\ m[j].written > 0
    BY <1>1, <2>2, WrittenSome
  <2>4. R + 1 \in 1..Len(m) /\ R # Len(m) /\ (R + 1 < j \/ R + 1 = j) /\ R + 1 \in Nat
    BY <1>1, <2>3
  <2>5. m[R + 1].written > 0
    BY <1>1, <2>3, <2>4 DEF GoodBlocks, Contig
  <2>6. q.wr # End => R + 1 <= q.wr
    BY <1>1, <1>2, <2>4, <2>5
  <2>7. r = [took EXCEPT !.rd = R + 1]
    BY <1>4, <1>6, <1>7, <1>12, <2>4 DEF Succ
  <2>8. Kept /\ r.rd = R + 1
    BY <1>6, <2>4, <2>7 DEF Queue
  <2>9. p[R + 1] = m[R + 1] /\ m[R + 1].read = 0
    BY <1>1, <1>2, <1>7, <2>4
  <2>10. ReadPos(r) = WrittenTo(m, R)
    <3>1. R + 1 # End /\ (R + 1) - 1 = R
      BY <1>1, <2>4 DEF End
    <3>2. WrittenTo(p, (R + 1) - 1) + p[R + 1].read = WrittenTo(m, R)
      BY <1>5, <1>11, <2>9, <3>1
    <3> QED
      BY <2>8, <3>1, <3>2 DEF ReadPos
  <2>11. q.avail - n = Written(p) - ReadPos(r)
    BY <1>1, <1>5, <1>11, <2>1, <2>10, SMTT(60) DEF b
  <2>12. \A i \in 1..Len(p) : i < R + 1 => p[i].read = p[i].written
    <3>1. \A i \in 1..Len(m) : i < R + 1 => i < R \/ i = R
      BY <1>1
    <3> QED
      BY <1>1, <1>2, <1>7, <1>8, <2>1, <3>1
  <2>13. \A i \in 1..Len(p) : i > R + 1 => p[i].read = 0
    BY <1>1, <1>2, <1>7
  <2>14. p[R + 1].read < p[R + 1].written
    BY <2>5, <2>9
  <2>15. R + 1 \in 0..Len(p) /\ R + 1 # End /\ Len(p) # 0
    BY <1>1, <1>7, <2>4 DEF End
  <2> QED
    BY <2>6, <2>8, <2>11, <2>12, <2>13, <2>14, <2>15 DEF Reader
<1>13. ASSUME ~(b_read_avail(q) - n = 0 /\ took.avail # 0) PROVE Kept /\ Reader(r)
  <2>1. r = took
    BY <1>4, <1>13
  <2>2. Kept /\ r.rd = R
    BY <1>6, <2>1
  <2>3. R # End /\ R \in 0..Len(p) /\ Len(p) # 0
    BY <1>1, <1>7 DEF End
  <2>4. ReadPos(r) = WrittenTo(m, R - 1) + (b.read + n)
    BY <1>8, <1>11, <2>2, <2>3 DEF ReadPos
  <2>5. q.avail - n = Written(p) - ReadPos(r)
    BY <1>1, <1>5, <1>11, <2>4 DEF b
  <2>6. q.avail - n > 0 => p[R].read < p[R].written
    BY <1>3, <1>5, <1>6, <1>8, <1>13
  <2>7. \A i \in 1..Len(p) : i < R => p[i].read = p[i].written
    BY <1>1, <1>2, <1>7
  <2>8. \A i \in 1..Len(p) : i > R => p[i].read = 0
    BY <1>1, <1>2, <1>7
  <2>9. q.wr # End => R <= q.wr
    BY <1>1
  <2> QED
    BY <2>2, <2>3, <2>5, <2>6, <2>7, <2>8, <2>9 DEF Reader
<1>14. Kept /\ Reader(r)
  BY <1>12, <1>13
<1>15. Shape(r)
  BY <1>1, <1>2, <1>7, <1>9, <1>11, <1>14, ZenonT(60) DEF Shape, Alike
<1>16. Full(q) => Full(r)
  BY <1>7, <1>9, <1>14 DEF Full, Alike, m
<1>17. NoEmpty(q) => NoEmpty(r)
  BY <1>7, <1>9, <1>14 DEF NoEmpty, Alike, m
<1>18. Written(r.m_q) = Written(q.m_q) /\ Content(r) = Content(q)
  BY <1>10, <1>11, <1>14 DEF AlikeBytes, Content, m
<1> QED
  BY <1>7, <1>14, <1>15, <1>16, <1>17, <1>18 DEF Reads, Good, m

\* The read position of a queue, and the length of its content.
LEMMA ReadPosIs ==
  ASSUME NEW q, Good(q)
  PROVE  /\ ReadPos(q) \in Nat /\ ReadPos(q) = Written(q.m_q) - q.avail
         /\ q.avail \in Nat /\ Written(q.m_q) \in Nat
         /\ Content(q) \in Seq(Byte) /\ Len(Content(q)) = Written(q.m_q)
         /\ q.avail > 0 => q.rd # End
<1> DEFINE m == q.m_q
<1>1. m \in Seq(Block) /\ GoodBlocks(m) /\ q.avail \in Nat /\ q.rd \in 0..Len(m) /\ Len(m) \in Nat
  BY QueueTypes, BlockTypes DEF Good, Shape, Reader
<1>2. q.avail = Written(m) - ReadPos(q) /\ (q.rd = End => Len(m) = 0)
  BY DEF Good, Reader
<1>3. q.rd = End => ReadPos(q) = 0
  BY DEF ReadPos
<1>4. q.rd # End => ReadPos(q) = WrittenTo(m, q.rd - 1) + m[q.rd].read
  BY DEF ReadPos
<1>5. Content(q) = ContentTo(m, Len(m))
  BY DEF Content
<1> HIDE DEF m
<1>6. Written(m) \in Nat
  BY <1>1, WrittenAll
<1>7. ReadPos(q) \in Nat
  <2>1. CASE q.rd # End
    <3>1. q.rd \in 1..Len(m) /\ q.rd - 1 \in 0..Len(m)
      BY <1>1, <2>1 DEF End
    <3>2. WrittenTo(m, q.rd - 1) \in Nat /\ m[q.rd].read \in Nat
      BY <1>1, <3>1, WrittenSteps, BlockTypes
    <3> QED
      BY <1>4, <2>1, <3>2
  <2> QED
    BY <1>3, <2>1
<1>8. ContentTo(m, Len(m)) \in Seq(Byte) /\ Len(ContentTo(m, Len(m))) = Written(m)
  BY <1>1, GoodHolds, ContentBytes
<1>9. q.rd = End => Written(m) = 0
  BY <1>1, <1>2, NoBlocks
<1>10. q.rd = End => q.avail = 0
  BY <1>2, <1>3, <1>9
<1>11. ReadPos(q) = Written(m) - q.avail
  BY <1>1, <1>2, <1>6, <1>7
<1>12. q.avail > 0 => q.rd # End
  BY <1>1, <1>10
<1> QED
  BY <1>1, <1>5, <1>6, <1>7, <1>8, <1>11, <1>12 DEF m

\* Reading on after reading.
LEMMA ReadsOn ==
  ASSUME NEW q, NEW r, NEW s, NEW k \in Nat, NEW n \in Nat, Good(q),
         Reads(r, q, k), Reads(s, r, n)
  PROVE  Reads(s, q, k + n)
<1>1. q.avail \in Nat /\ r.avail = q.avail - k /\ s.avail = r.avail - n
  BY ReadPosIs DEF Reads
<1>2. s.avail = q.avail - (k + n)
  BY <1>1
<1> QED
  BY <1>2 DEF Reads

\* The position that reading gets to.
LEMMA ReadsPos ==
  ASSUME NEW q, NEW r, NEW k \in Nat, Good(q), Reads(r, q, k)
  PROVE  ReadPos(r) = ReadPos(q) + k
<1>1. /\ ReadPos(r) = Written(r.m_q) - r.avail /\ ReadPos(q) = Written(q.m_q) - q.avail
      /\ Written(q.m_q) \in Nat /\ Written(r.m_q) = Written(q.m_q)
      /\ q.avail \in Nat /\ r.avail = q.avail - k
  BY ReadPosIs DEF Reads
<1> QED
  BY <1>1

\* g is the n bytes that come next in q.
Got(g, q, n) ==
  g \in Seq(Byte) /\ Len(g) = n /\ \A x \in 1..n : g[x] = Content(q)[ReadPos(q) + x]

\* What lies at b_read_ptr() is what comes next.
LEMMA FetchIs ==
  ASSUME NEW q, Good(q), q.rd # End, NEW n \in Nat, n <= b_read_avail(q)
  PROVE  Got(Fetch(q, n), q, n)
<1> DEFINE m == q.m_q
           R == q.rd
           g == Fetch(q, n)
<1>1. m \in Seq(Block) /\ GoodBlocks(m) /\ Len(m) \in Nat
  BY QueueTypes, BlockTypes DEF Good, Shape
<1>2. R \in 1..Len(m) /\ b_read_avail(q) = m[R].written - m[R].read
  BY ReadAvail
<1>3. g = [i \in 1..n |-> IF m[R].read + i \in DOMAIN m[R].data THEN m[R].data[m[R].read + i] ELSE Junk]
  BY DEF Fetch
<1>4. ReadPos(q) = WrittenTo(m, R - 1) + m[R].read
  BY DEF ReadPos
<1>5. Content(q) = ContentTo(m, Len(m))
  BY DEF Content
<1> HIDE DEF g, m, R
<1>6. /\ m[R].read \in Nat /\ m[R].written \in Nat /\ m[R].len \in Nat /\ m[R].data \in Seq(Byte)
      /\ m[R].written <= Len(m[R].data) /\ Len(m[R].data) \in Nat
  BY <1>1, <1>2, BlockTypes, LenProperties DEF GoodBlocks, GoodBlock
<1>7. ASSUME NEW x \in 1..n
      PROVE  g[x] = m[R].data[m[R].read + x] /\ m[R].read + x \in 1..m[R].written /\ g[x] \in Byte
  <2>1. m[R].read + x \in 1..m[R].written /\ m[R].read + x \in 1..Len(m[R].data)
    BY <1>2, <1>6, SMTT(60)
  <2>2. DOMAIN m[R].data = 1..Len(m[R].data)
    BY <1>6, LenProperties
  <2>3. g[x] = m[R].data[m[R].read + x]
    BY <1>3, <2>1, <2>2
  <2>4. m[R].data[m[R].read + x] \in Byte
    BY <1>6, <2>1, ElementOfSeq
  <2> QED
    BY <2>1, <2>3, <2>4
<1>8. g \in Seq(Byte) /\ Len(g) = n
  <2>1. g \in [1..n -> Byte]
    BY <1>3, <1>7
  <2> QED
    BY <2>1
<1>9. ASSUME NEW x \in 1..n PROVE g[x] = Content(q)[ReadPos(q) + x]
  <2>1. \A j \in 1..m[R].written : ContentTo(m, Len(m))[WrittenTo(m, R - 1) + j] = m[R].data[j]
    BY <1>1, <1>2, GoodHolds, ContentBytes
  <2>2. WrittenTo(m, R - 1) \in Nat
    <3>1. R - 1 \in 0..Len(m)
      BY <1>1, <1>2
    <3> QED
      BY <1>1, <3>1, WrittenSteps
  <2>3. ReadPos(q) + x = WrittenTo(m, R - 1) + (m[R].read + x)
    BY <1>4, <1>6, <2>2
  <2> QED
    BY <1>5, <1>7, <2>1, <2>3
<1> QED
  BY <1>8, <1>9 DEF Got, g

\* Bytes that were read before and bytes that come next.
LEMMA GotOn ==
  ASSUME NEW q, NEW r, NEW k \in Nat, NEW n \in Nat, Good(q), Good(r),
         ReadPos(r) = ReadPos(q) + k, Content(r) = Content(q),
         NEW g, Got(g, q, k), NEW h, Got(h, r, n)
  PROVE  Got(g \o h, q, k + n)
<1>1. g \in Seq(Byte) /\ h \in Seq(Byte) /\ Len(g) = k /\ Len(h) = n
  BY DEF Got
<1>2. g \o h \in Seq(Byte) /\ IsJoin(g \o h, g, h)
  BY <1>1, Concat
<1>3. ReadPos(q) \in Nat
  BY ReadPosIs
<1> DEFINE c == g \o h
<1> HIDE DEF c
<1>4. /\ Len(c) = k + n /\ \A x \in 1..k : c[x] = g[x]
      /\ \A x \in 1..n : c[k + x] = h[x]
  BY <1>1, <1>2 DEF IsJoin, c
<1>5. ASSUME NEW x \in 1..k + n PROVE c[x] = Content(q)[ReadPos(q) + x]
  <2>1. CASE x <= k
    BY <1>4, <2>1 DEF Got
  <2>2. CASE x > k
    <3>1. x - k \in 1..n /\ k + (x - k) = x
      BY <2>2
    <3>2. c[x] = h[x - k]
      BY <1>4, <3>1
    <3>3. h[x - k] = Content(q)[ReadPos(r) + (x - k)]
      BY <3>1 DEF Got
    <3>4. ReadPos(r) + (x - k) = ReadPos(q) + x
      BY <1>3
    <3> QED
      BY <3>2, <3>3, <3>4
  <2> QED
    BY <2>1, <2>2
<1> QED
  BY <1>2, <1>4, <1>5 DEF Got, c

-----------------------------------------------------------------------------
(* The loop of read() *)

\* Every round of a loop keeps to V and brings its rank down.
Winds(V, G, rank) ==
  /\ G \in [V -> V] /\ rank \in [V -> Nat]
  /\ \A v \in V : rank[v] > 0 => rank[G[v]] < rank[v]
  /\ \A v \in V : rank[v] = 0 => rank[G[v]] = 0

\* A loop with as many rounds as its rank at the start has ended after them.
LEMMA LoopEnds ==
  ASSUME NEW V, NEW x \in V, NEW n \in Nat, NEW G, NEW rank, Winds(V, G, rank), rank[x] <= n,
         NEW h, h[0] = x, \A k \in 1..n : h[k - 1] \in V => h[k] = G[h[k - 1]]
  PROVE  h[n] \in V /\ rank[h[n]] = 0
<1>0. /\ G \in [V -> V] /\ rank \in [V -> Nat]
      /\ \A v \in V : rank[v] > 0 => rank[G[v]] < rank[v]
      /\ \A v \in V : rank[v] = 0 => rank[G[v]] = 0
  BY DEF Winds
<1> DEFINE S == {k \in 0..n : h[k] \in V /\ (rank[h[k]] = 0 \/ rank[h[k]] <= n - k)}
<1>1. 0 \in S
  <2>1. 0 \in 0..n /\ rank[x] <= n - 0
    BY <1>0
  <2> QED
    BY <2>1
<1>2. ASSUME NEW k \in 1..n, k - 1 \in S PROVE k \in S
  <2>1. h[k - 1] \in V /\ (rank[h[k - 1]] = 0 \/ rank[h[k - 1]] <= n - (k - 1))
    BY <1>2
  <2>2. h[k] = G[h[k - 1]] /\ k \in 0..n
    BY <2>1
  <2>3. h[k] \in V
    BY <1>0, <2>1, <2>2
  <2>4. rank[h[k]] \in Nat /\ rank[h[k - 1]] \in Nat
    BY <1>0, <2>1, <2>3
  <2>5. CASE rank[h[k - 1]] = 0
    BY <1>0, <2>1, <2>2, <2>3, <2>5
  <2>6. CASE rank[h[k - 1]] > 0
    <3>1. rank[h[k]] < rank[h[k - 1]]
      BY <1>0, <2>1, <2>2, <2>6
    <3>2. rank[h[k]] <= n - k
      BY <2>1, <2>4, <2>6, <3>1
    <3> QED
      BY <2>2, <2>3, <3>2
  <2> QED
    BY <2>4, <2>5, <2>6
<1>3. \A k \in 0..n : k \in S
  <2> HIDE DEF S
  <2> QED
    BY <1>1, <1>2, UpTo
<1>4. n \in S
  <2> HIDE DEF S
  <2>1. n \in 0..n
    OBVIOUS
  <2> QED
    BY <1>3, <2>1
<1>5. h[n] \in V /\ (rank[h[n]] = 0 \/ rank[h[n]] <= n - n)
  BY <1>4
<1> QED
  BY <1>0, <1>5

\* The values that a loop goes through, round by round.
Runs(V, x, n, G) ==
  \E f \in [0..n -> V] : f[0] = x /\ \A k \in 1..n : f[k] = G[f[k - 1]]

\* They exist.
LEMMA LoopRuns ==
  ASSUME NEW V, NEW x \in V, NEW n \in Nat, NEW G \in [V -> V]
  PROVE  Runs(V, x, n, G)
<1> DEFINE H == [k \in 1..n |-> G]
<1>1. H \in [1..n -> [V -> V]] /\ \A k \in 1..n : H[k] = G
  OBVIOUS
<1> HIDE DEF H
<1>2. Computed(V, x, n, H)
  BY <1>1, Recursion, Zenon
<1> QED
  BY <1>1, <1>2 DEF Computed, Runs

\* The state of the loop of read(): left of the L bytes are still to come.
ReadTo(s, q, L) ==
  /\ s \in [q : Queue, left : Nat, got : Seq(Byte)] /\ s.left <= L
  /\ Reads(s.q, q, L - s.left) /\ Got(s.got, q, L - s.left)

\* A round of read() moves on, and no further than it may.
LEMMA ReadRoundIs ==
  ASSUME NEW q, Good(q), NEW L \in Nat, L <= q.avail, NEW s, ReadTo(s, q, L)
  PROVE  /\ ReadTo(ReadRound(s), q, L)
         /\ s.left > 0 => ReadRound(s).left < s.left
         /\ s.left = 0 => ReadRound(s).left = 0
<1> DEFINE p == s.q
           n == Least(s.left, b_read_avail(p))
           k == L - s.left
           t == ReadRound(s)
<1>1. /\ s \in [q : Queue, left : Nat, got : Seq(Byte)] /\ s.left <= L
      /\ s.left \in Nat /\ Reads(p, q, k) /\ Got(s.got, q, k)
  BY DEF ReadTo
<1>2. Good(p) /\ p.avail = q.avail - k /\ Content(p) = Content(q)
  BY <1>1 DEF Reads
<1>3. q.avail \in Nat /\ p.avail \in Nat /\ k \in Nat
  BY <1>1, <1>2, ReadPosIs, SMTT(60)
<1>4. b_read_avail(p) \in Nat /\ (p.avail > 0 => p.rd # End /\ b_read_avail(p) > 0)
  <2>1. CASE p.rd = End
    <3>1. b_read_avail(p) = 0
      BY <2>1 DEF b_read_avail
    <3> QED
      BY <1>2, <2>1, <3>1, ReadPosIs
  <2>2. CASE p.rd # End
    BY <1>2, <2>2, ReadAvail
  <2> QED
    BY <2>1, <2>2
<1>5. t = IF n = 0 THEN s ELSE [q |-> b_read_incr(p, n), left |-> s.left - n, got |-> s.got \o Fetch(p, n)]
  BY DEF ReadRound
<1>6. n \in Nat /\ n <= s.left /\ n <= b_read_avail(p) /\ (s.left > 0 /\ b_read_avail(p) > 0 => n > 0)
  BY <1>1, <1>4 DEF Least
<1> HIDE DEF p, n, t
<1>7. s.left > 0 => p.avail > 0
  BY <1>1, <1>2, <1>3
<1>8. CASE n = 0
  <2>1. t = s
    BY <1>5, <1>8
  <2>2. s.left = 0
    BY <1>1, <1>4, <1>6, <1>7, <1>8
  <2> QED
    BY <2>1, <2>2 DEF t
<1>9. CASE n # 0
  <2>0. n > 0 /\ s.left > 0 /\ b_read_avail(p) > 0 /\ p.rd # End
    <3>1. n > 0 /\ s.left > 0
      BY <1>1, <1>6, <1>9
    <3> QED
      BY <1>4, <1>7, <3>1
  <2> DEFINE u == b_read_incr(p, n)
             g == Fetch(p, n)
  <2>1. t = [q |-> u, left |-> s.left - n, got |-> s.got \o g]
    BY <1>5, <1>9
  <2> HIDE DEF u, g
  <2>2. Reads(u, p, n)
    BY <1>2, <1>6, <2>0, ReadIncr DEF u
  <2>3. Got(g, p, n)
    BY <1>2, <1>6, <2>0, FetchIs DEF g
  <2> HIDE DEF k
  <2>4. Reads(u, q, k + n) /\ ReadPos(p) = ReadPos(q) + k
    <3>1. k \in Nat /\ n \in Nat
      BY <1>3, <1>6
    <3>2. Reads(p, q, k)
      BY <1>1
    <3>3. Reads(u, q, k + n)
      BY <2>2, <3>1, <3>2, ReadsOn, Zenon
    <3>4. ReadPos(p) = ReadPos(q) + k
      BY <3>1, <3>2, ReadsPos, Zenon
    <3> QED
      BY <3>3, <3>4
  <2>5. Got(s.got \o g, q, k + n)
    BY <1>1, <1>2, <1>3, <1>6, <2>3, <2>4, GotOn, Zenon
  <2>6. s.left - n \in Nat /\ s.left - n <= L /\ k + n = L - (s.left - n) /\ s.left - n < s.left
    BY <1>1, <1>6, <2>0 DEF k
  <2>7. u \in Queue /\ s.got \o g \in Seq(Byte)
    BY <2>2, <2>5 DEF Reads, Good, Shape, Got
  <2>8. t \in [q : Queue, left : Nat, got : Seq(Byte)] /\ t.q = u /\ t.left = s.left - n /\ t.got = s.got \o g
    BY <2>1, <2>6, <2>7
  <2>9. ReadTo(t, q, L)
    BY <2>4, <2>5, <2>6, <2>8 DEF ReadTo
  <2> QED
    BY <2>0, <2>6, <2>8, <2>9 DEF t
<1> QED
  BY <1>8, <1>9

\* A queue that has not been read from yet in this loop.
LEMMA ReadsNone ==
  ASSUME NEW q, Good(q)
  PROVE  Reads(q, q, 0) /\ Got(<< >>, q, 0)
<1>1. q.avail \in Nat
  BY ReadPosIs
<1>2. q.avail = q.avail - 0
  BY <1>1
<1>3. Reads(q, q, 0)
  BY <1>2 DEF Reads
<1>4. Got(<< >>, q, 0)
  BY DEF Got
<1> QED
  BY <1>3, <1>4

\* read() copies out the bytes that come next, as many as there are, and leaves
\* the queue read that far.
LEMMA ReadIs ==
  ASSUME NEW q, Good(q), NEW n \in Nat
  PROVE  /\ Reads(read(q, n).q, q, Least(n, q.avail))
         /\ Got(read(q, n).got, q, Least(n, q.avail))
<1> DEFINE L == Least(n, q.avail)
           x == [q |-> q, left |-> L, got |-> << >>]
           after == CHOOSE f : f = [k \in 0..L |-> IF k = 0 THEN x ELSE ReadRound(f[k - 1])]
           V == {s \in [q : Queue, left : Nat, got : Seq(Byte)] : ReadTo(s, q, L)}
           G == [s \in V |-> ReadRound(s)]
           rank == [s \in V |-> s.left]
<1>1. read(q, n) = after[L]
  BY DEF read, Rounds
<1>2. q.avail \in Nat /\ L \in Nat /\ L <= q.avail /\ q \in Queue
  BY ReadPosIs DEF Least, Good, Shape
<1> HIDE DEF L
<1>3. x \in V /\ x.left = L
  <2>1. L - L = 0 /\ L <= L
    BY <1>2
  <2>2. x \in [q : Queue, left : Nat, got : Seq(Byte)] /\ x.q = q /\ x.left = L /\ x.got = << >>
    BY <1>2
  <2> HIDE DEF x
  <2>3. ReadTo(x, q, L)
    BY <2>1, <2>2, ReadsNone DEF ReadTo
  <2> QED
    BY <2>2, <2>3
<1> HIDE DEF x
<1>4. ASSUME NEW s \in V
      PROVE  /\ ReadRound(s) \in V /\ s.left \in Nat
             /\ s.left > 0 => ReadRound(s).left < s.left
             /\ s.left = 0 => ReadRound(s).left = 0
  <2>1. ReadTo(s, q, L)
    OBVIOUS
  <2>2. /\ ReadTo(ReadRound(s), q, L)
        /\ s.left > 0 => ReadRound(s).left < s.left
        /\ s.left = 0 => ReadRound(s).left = 0
    BY <1>2, <2>1, ReadRoundIs
  <2>3. ReadRound(s) \in [q : Queue, left : Nat, got : Seq(Byte)]
    BY <2>2 DEF ReadTo
  <2> QED
    BY <2>2, <2>3
<1> HIDE DEF V
<1>5. Winds(V, G, rank) /\ G \in [V -> V] /\ rank[x] <= L
  BY <1>2, <1>3, <1>4 DEF Winds
<1>6. \A s \in V : G[s] = ReadRound(s) /\ rank[s] = s.left
  OBVIOUS
<1> HIDE DEF G, rank
<1>7. PICK f \in [0..L -> V] : f[0] = x /\ \A k \in 1..L : f[k] = G[f[k - 1]]
  <2>1. Runs(V, x, L, G)
    BY <1>2, <1>3, <1>5, LoopRuns, Zenon
  <2> QED
    BY <2>1 DEF Runs
<1>8. \A k \in 1..L : f[k - 1] \in V
  BY <1>2
<1>9. f = [k \in 0..L |-> IF k = 0 THEN x ELSE ReadRound(f[k - 1])]
  BY <1>2, <1>6, <1>7, <1>8
<1>10. after = [k \in 0..L |-> IF k = 0 THEN x ELSE ReadRound(after[k - 1])]
  BY <1>9
<1> HIDE DEF after
<1>11. after[0] = x /\ \A k \in 1..L : after[k - 1] \in V => after[k] = G[after[k - 1]]
  BY <1>2, <1>6, <1>10
<1>12. after[L] \in V /\ rank[after[L]] = 0
  BY <1>2, <1>3, <1>5, <1>11, LoopEnds
<1>13. ReadTo(after[L], q, L) /\ after[L].left = 0
  BY <1>6, <1>12 DEF V
<1>14. L - 0 = L
  BY <1>2
<1> QED
  BY <1>1, <1>13, <1>14 DEF ReadTo, L

-----------------------------------------------------------------------------
(* The loops of write() and write_fd() *)

\* A queue fit to be written to, and r with the bytes written to it.
Fit(q) == Good(q) /\ Full(q) /\ Usable(q)
Wrote(r, q, bytes) == Fit(r) /\ Grown(r, q, bytes) /\ (NoEmpty(q) => NoEmpty(r))

\* Bytes stored where there is room for them.
LEMMA StoreWrote ==
  ASSUME NEW q, Fit(q), NEW bytes \in Seq(Byte), Len(bytes) \in Nat \ {0},
         Len(bytes) <= b_write_avail(WithSpace(q))
  PROVE  Wrote(Store(WithSpace(q), bytes), q, bytes) /\ Store(WithSpace(q), bytes).wr # End
<1> DEFINE a == WithSpace(q)
           r == Store(a, bytes)
<1>1. /\ Good(a) /\ Full(a) /\ SameBytes(a, q) /\ a.wr # End
      /\ NoEmpty(q) => \A i \in 1..Len(a.m_q) : i # a.wr => a.m_q[i].written > 0
  BY Space DEF Fit
<1> HIDE DEF a
<1>2. Len(bytes) <= b_write_avail(a)
  BY DEF a
<1>3. /\ Good(r) /\ Full(r) /\ r.wr # End /\ Grown(r, a, bytes)
      /\ (\A i \in 1..Len(a.m_q) : i # a.wr => a.m_q[i].written > 0) => NoEmpty(r)
  BY <1>1, <1>2, StoreGood
<1> HIDE DEF r
<1>4. Grown(r, q, bytes)
  BY <1>1, <1>3 DEF Grown, SameBytes
<1>5. Fit(r) /\ (NoEmpty(q) => NoEmpty(r))
  BY <1>1, <1>3 DEF Fit, Usable
<1> QED
  BY <1>3, <1>4, <1>5 DEF Wrote, r, a

\* left of the bytes have yet to be written to p, which was q.
Pending(p, left, q, bytes) ==
  /\ Len(left) <= Len(bytes)
  /\ p.avail + Len(left) = q.avail + Len(bytes) /\ p.off + Len(left) = q.off + Len(bytes)
  /\ Written(p.m_q) + Len(left) = Written(q.m_q) + Len(bytes)
  /\ Content(p) \o left = Content(q) \o bytes

\* The state of the loops of write() and write_fd().
WriteTo(s, q, bytes) ==
  /\ s \in [q : Queue, left : Seq(Byte)] /\ Fit(s.q)
  /\ Pending(s.q, s.left, q, bytes) /\ (NoEmpty(q) => NoEmpty(s.q))

\* The types of what a queue counts.
LEMMA FitTypes ==
  ASSUME NEW q, Fit(q)
  PROVE  /\ q \in Queue /\ Good(q) /\ q.avail \in Nat /\ q.off \in Int /\ Written(q.m_q) \in Nat
         /\ Content(q) \in Seq(Byte) /\ Len(Content(q)) = Written(q.m_q)
BY ReadPosIs, QueueTypes DEF Fit, Good, Shape

\* Three strings of bytes.
LEMMA JoinThree ==
  \A s, t, u \in Seq(Byte) : (s \o t) \o u = s \o (t \o u)
<1>1. ASSUME NEW s \in Seq(Byte), NEW t \in Seq(Byte), NEW u \in Seq(Byte)
      PROVE  (s \o t) \o u = s \o (t \o u)
  BY ConcatAssociative
<1> QED
  BY <1>1

\* Part of what was left has been written.
LEMMA PendingOn ==
  ASSUME NEW p, Fit(p), NEW q, Fit(q), NEW bytes \in Seq(Byte), NEW left \in Seq(Byte),
         Pending(p, left, q, bytes), NEW n \in 1..Len(left), NEW r, Fit(r),
         Grown(r, p, SubSeq(left, 1, n))
  PROVE  /\ Pending(r, SubSeq(left, n + 1, Len(left)), q, bytes)
         /\ SubSeq(left, n + 1, Len(left)) \in Seq(Byte)
         /\ Len(SubSeq(left, n + 1, Len(left))) = Len(left) - n
<1> DEFINE part == SubSeq(left, 1, n)
           rest == SubSeq(left, n + 1, Len(left))
<1>1. Len(left) \in Nat /\ Len(bytes) \in Nat
  BY LenProperties
<1>2. /\ part \in Seq(Byte) /\ Len(part) = n
      /\ rest \in Seq(Byte) /\ Len(rest) = Len(left) - n
  <2>1. part \in Seq(Byte) /\ IsPart(part, left, 1, n)
    BY <1>1, Part
  <2>2. n + 1 \in Nat /\ Len(left) \in 0..Len(left) /\ n + 1 <= Len(left) + 1 /\ n + 1 >= 1
    BY <1>1
  <2>3. rest \in Seq(Byte) /\ IsPart(rest, left, n + 1, Len(left))
    BY <2>2, Part
  <2> QED
    BY <1>1, <2>1, <2>3 DEF IsPart
<1>3. part \o rest = left
  <2>1. /\ 1 \in 1..Len(left) + 1 /\ n \in 1 - 1..Len(left) /\ Len(left) \in n..Len(left)
    BY <1>1
  <2>2. part \o rest = SubSeq(left, 1, Len(left))
    BY <2>1, ConcatAdjacentSubSeq
  <2> QED
    BY <2>2, SubSeqFull
<1> HIDE DEF part, rest
<1>4. p.avail \in Int /\ p.off \in Int /\ Written(p.m_q) \in Int
  BY FitTypes
<1>5. r.avail = p.avail + n /\ r.off = p.off + n /\ Written(r.m_q) = Written(p.m_q) + n
  BY <1>2 DEF Grown, part
<1>6. /\ p.avail + Len(left) = q.avail + Len(bytes) /\ p.off + Len(left) = q.off + Len(bytes)
      /\ Written(p.m_q) + Len(left) = Written(q.m_q) + Len(bytes)
      /\ Len(left) <= Len(bytes)
  BY DEF Pending
<1>7. Content(p) \o left = Content(q) \o bytes /\ Content(r) = Content(p) \o part
  BY DEF Pending, Grown, part
<1>8. Content(r) \o rest = Content(p) \o (part \o rest)
  <2>1. Content(p) \in Seq(Byte)
    BY FitTypes
  <2>2. (Content(p) \o part) \o rest = Content(p) \o (part \o rest)
    BY <1>2, <2>1, JoinThree
  <2> QED
    BY <1>7, <2>2, Zenon
<1>9. Content(r) \o rest = Content(q) \o bytes
  BY <1>3, <1>7, <1>8, Zenon
<1>a. Len(rest) = Len(left) - n /\ n \in Nat
  BY <1>1, <1>2
<1>b. \A x \in Int : (x + n) + Len(rest) = x + Len(left)
  BY <1>1, <1>a
<1>10. r.avail + Len(rest) = q.avail + Len(bytes)
  BY <1>4, <1>5, <1>6, <1>b
<1>11. r.off + Len(rest) = q.off + Len(bytes)
  BY <1>4, <1>5, <1>6, <1>b
<1>12. Written(r.m_q) + Len(rest) = Written(q.m_q) + Len(bytes)
  BY <1>4, <1>5, <1>6, <1>b
<1>13. Len(rest) <= Len(bytes)
  BY <1>1, <1>6, <1>a
<1> QED
  BY <1>2, <1>9, <1>10, <1>11, <1>12, <1>13 DEF Pending, rest

\* A round of write() takes at least one byte.
LEMMA WriteRoundIs ==
  ASSUME NEW q, Fit(q), NEW bytes \in Seq(Byte), NEW s, WriteTo(s, q, bytes)
  PROVE  /\ WriteTo(WriteRound(s), q, bytes)
         /\ Len(s.left) > 0 => Len(WriteRound(s).left) < Len(s.left) /\ WriteRound(s).q.wr # End
         /\ Len(s.left) = 0 => WriteRound(s) = s
<1> DEFINE a == WithSpace(s.q)
           n == Least(Len(s.left), b_write_avail(a))
           t == WriteRound(s)
           part == SubSeq(s.left, 1, n)
           rest == SubSeq(s.left, n + 1, Len(s.left))
           r == Store(a, part)
<1>1. /\ s \in [q : Queue, left : Seq(Byte)] /\ s.left \in Seq(Byte) /\ Fit(s.q)
      /\ Pending(s.q, s.left, q, bytes) /\ (NoEmpty(q) => NoEmpty(s.q))
  BY DEF WriteTo
<1>2. Len(s.left) \in Nat /\ (s.left = << >> <=> Len(s.left) = 0)
  BY <1>1, LenProperties, EmptySeq
<1>3. t = IF s.left = << >> THEN s ELSE [q |-> r, left |-> rest]
  BY DEF WriteRound
<1>4. b_write_avail(a) \in Nat \ {0}
  BY <1>1, Space DEF Fit
<1>5. CASE Len(s.left) = 0
  <2>1. t = s
    BY <1>2, <1>3, <1>5
  <2> HIDE DEF t
  <2> QED
    BY <1>5, <2>1 DEF t
<1>6. CASE Len(s.left) # 0
  <2>1. n \in 1..Len(s.left) /\ n <= b_write_avail(a)
    BY <1>2, <1>4, <1>6 DEF Least
  <2> HIDE DEF n
  <2>2. part \in Seq(Byte) /\ Len(part) = n
    <3>1. part \in Seq(Byte) /\ IsPart(part, s.left, 1, n)
      BY <1>1, <1>2, <2>1, Part
    <3> QED
      BY <1>2, <2>1, <3>1 DEF IsPart
  <2> HIDE DEF part
  <2>3. Len(part) \in Nat \ {0} /\ Len(part) <= b_write_avail(WithSpace(s.q))
    BY <1>2, <2>1, <2>2
  <2>4. Wrote(r, s.q, part) /\ r.wr # End
    BY <1>1, <2>2, <2>3, StoreWrote
  <2> HIDE DEF r, a
  <2>5. Fit(r) /\ Grown(r, s.q, part) /\ (NoEmpty(q) => NoEmpty(r)) /\ r \in Queue
    BY <1>1, <2>4, FitTypes DEF Wrote
  <2>6. Pending(r, rest, q, bytes) /\ rest \in Seq(Byte) /\ Len(rest) = Len(s.left) - n
    BY <1>1, <2>1, <2>5, PendingOn DEF part
  <2> HIDE DEF rest
  <2>7. t = [q |-> r, left |-> rest]
    BY <1>2, <1>3, <1>6
  <2> HIDE DEF t
  <2>8. t.q = r /\ t.left = rest /\ t \in [q : Queue, left : Seq(Byte)]
    BY <2>5, <2>6, <2>7
  <2>9. WriteTo(t, q, bytes)
    BY <2>5, <2>6, <2>8 DEF WriteTo
  <2>10. Len(t.left) < Len(s.left)
    BY <1>2, <2>1, <2>6, <2>8
  <2> QED
    BY <1>6, <2>4, <2>8, <2>9, <2>10 DEF t
<1> QED
  BY <1>5, <1>6

\* So does a round of write_fd(), whose read of no bytes leaves the cursor.
LEMMA WriteFdRoundIs ==
  ASSUME NEW q, Fit(q), NEW bytes \in Seq(Byte), NEW s, WriteTo(s, q, bytes)
  PROVE  /\ WriteTo(WriteFdRound(s), q, bytes)
         /\ Len(s.left) > 0 => Len(WriteFdRound(s).left) < Len(s.left)
         /\ Len(s.left) = 0 => WriteFdRound(s) = s
<1> DEFINE w == WriteRound(s)
           r == b_read_incr(w.q, 0)
           t == WriteFdRound(s)
<1>1. /\ WriteTo(w, q, bytes)
      /\ Len(s.left) > 0 => Len(w.left) < Len(s.left)
  BY WriteRoundIs
<1>2. s.left \in Seq(Byte) /\ Len(s.left) \in Nat /\ (s.left = << >> <=> Len(s.left) = 0)
  <2>1. s.left \in Seq(Byte)
    BY DEF WriteTo
  <2> QED
    BY <2>1, LenProperties, EmptySeq
<1>3. t = IF s.left = << >> THEN s ELSE [w EXCEPT !.q = r]
  BY DEF WriteFdRound
<1> HIDE DEF w, t
<1>4. CASE Len(s.left) = 0
  <2>1. t = s
    BY <1>2, <1>3, <1>4
  <2> QED
    BY <1>4, <2>1 DEF t
<1>5. CASE Len(s.left) # 0
  <2>1. /\ w \in [q : Queue, left : Seq(Byte)] /\ Fit(w.q) /\ w.left \in Seq(Byte)
        /\ Pending(w.q, w.left, q, bytes) /\ (NoEmpty(q) => NoEmpty(w.q))
    BY <1>1 DEF WriteTo
  <2>2. w.q.avail \in Nat /\ Good(w.q)
    BY <2>1, FitTypes
  <2>3. w.q.avail > 0
    <3>1. w.q.avail + Len(w.left) = q.avail + Len(bytes) /\ Pending(s.q, s.left, q, bytes)
      BY <2>1 DEF Pending, WriteTo
    <3>2. Len(w.left) \in Nat /\ Len(bytes) \in Nat /\ q.avail \in Nat
      BY <2>1, LenProperties, FitTypes
    <3>3. Len(s.left) <= Len(bytes)
      BY <3>1 DEF Pending
    <3>4. Len(w.left) < Len(s.left)
      BY <1>1, <1>2, <1>5
    <3> QED
      BY <1>2, <2>2, <3>1, <3>2, <3>3, <3>4
  <2>4. w.q.rd # End
    BY <2>2, <2>3, ReadPosIs
  <2>5. Reads(r, w.q, 0)
    <3>1. 0 \in Nat /\ 0 <= b_read_avail(w.q)
      BY <2>2, <2>4, ReadAvail
    <3> QED
      BY <2>2, <2>4, <3>1, ReadIncr
  <2> HIDE DEF r
  <2>6. r.avail = w.q.avail - 0 /\ w.q.avail - 0 = w.q.avail
    BY <2>2, <2>5 DEF Reads
  <2>7. Fit(r) /\ r \in Queue
    <3>1. Fit(r)
      BY <2>1, <2>5 DEF Fit, Reads, Usable
    <3> QED
      BY <3>1, FitTypes
  <2>8. Pending(r, w.left, q, bytes) /\ (NoEmpty(q) => NoEmpty(r))
    BY <2>1, <2>5, <2>6 DEF Pending, Reads
  <2>9. t = [w EXCEPT !.q = r]
    BY <1>2, <1>3, <1>5
  <2>10. t \in [q : Queue, left : Seq(Byte)] /\ t.q = r /\ t.left = w.left
    BY <2>1, <2>7, <2>9
  <2>11. WriteTo(t, q, bytes)
    BY <2>7, <2>8, <2>10 DEF WriteTo
  <2> QED
    BY <1>1, <1>5, <2>10, <2>11 DEF t
<1> QED
  BY <1>2, <1>4, <1>5

\* Before the first round nothing has been written.
LEMMA WriteStart ==
  ASSUME NEW q, Fit(q), NEW bytes \in Seq(Byte)
  PROVE  [q |-> q, left |-> bytes] \in {s \in [q : Queue, left : Seq(Byte)] : WriteTo(s, q, bytes)}
<1> DEFINE x == [q |-> q, left |-> bytes]
<1>1. q \in Queue /\ Len(bytes) \in Nat
  BY FitTypes, LenProperties
<1>2. Pending(q, bytes, q, bytes)
  BY <1>1 DEF Pending
<1>3. x \in [q : Queue, left : Seq(Byte)] /\ x.q = q /\ x.left = bytes
  BY <1>1
<1> HIDE DEF x
<1>4. WriteTo(x, q, bytes)
  BY <1>2, <1>3 DEF WriteTo
<1>5. x \in {s \in [q : Queue, left : Seq(Byte)] : WriteTo(s, q, bytes)}
  BY <1>3, <1>4
<1> QED
  BY <1>5 DEF x

\* When nothing is left, all the bytes have been written.
LEMMA WriteEnd ==
  ASSUME NEW q, Fit(q), NEW bytes \in Seq(Byte), NEW s, WriteTo(s, q, bytes), Len(s.left) = 0
  PROVE  Wrote(s.q, q, bytes)
<1> DEFINE p == s.q
<1>1. /\ Fit(p) /\ s.left \in Seq(Byte) /\ (NoEmpty(q) => NoEmpty(p))
      /\ Pending(p, s.left, q, bytes)
  BY DEF WriteTo
<1> HIDE DEF p
<1>2. /\ p.avail \in Nat /\ p.off \in Int /\ Written(p.m_q) \in Nat /\ Content(p) \in Seq(Byte)
  BY <1>1, FitTypes
<1>3. s.left = << >>
  BY <1>1, EmptySeq
<1>4. Content(p) \o << >> = Content(p)
  BY <1>2, ConcatEmptySeq
<1>5. Content(p) = Content(q) \o bytes
  BY <1>1, <1>3, <1>4 DEF Pending
<1>6. /\ p.avail + 0 = q.avail + Len(bytes) /\ p.off + 0 = q.off + Len(bytes)
      /\ Written(p.m_q) + 0 = Written(q.m_q) + Len(bytes)
  BY <1>1 DEF Pending
<1>7. p.avail + 0 = p.avail /\ p.off + 0 = p.off /\ Written(p.m_q) + 0 = Written(p.m_q)
  BY <1>2
<1>8. Grown(p, q, bytes)
  BY <1>5, <1>6, <1>7 DEF Grown
<1> QED
  BY <1>1, <1>8 DEF Wrote, p

\* write() puts all the bytes at the end.
LEMMA WriteIs ==
  ASSUME NEW q, Fit(q), NEW bytes \in Seq(Byte)
  PROVE  Wrote(write(q, bytes), q, bytes)
<1> DEFINE n == Len(bytes)
           x == [q |-> q, left |-> bytes]
           after == CHOOSE f : f = [k \in 0..n |-> IF k = 0 THEN x ELSE WriteRound(f[k - 1])]
           V == {s \in [q : Queue, left : Seq(Byte)] : WriteTo(s, q, bytes)}
           G == [s \in V |-> WriteRound(s)]
           rank == [s \in V |-> Len(s.left)]
<1>1. write(q, bytes) = after[n].q
  BY DEF write, Rounds
<1>2. n \in Nat /\ q \in Queue /\ x.left = bytes
  BY LenProperties, FitTypes
<1>3. x \in V
  BY <1>2, WriteStart
<1> HIDE DEF x, n
<1>4. ASSUME NEW s \in V
      PROVE  /\ WriteRound(s) \in V /\ Len(s.left) \in Nat
             /\ Len(s.left) > 0 => Len(WriteRound(s).left) < Len(s.left)
             /\ Len(s.left) = 0 => Len(WriteRound(s).left) = 0
  <2>1. WriteTo(s, q, bytes) /\ s.left \in Seq(Byte)
    OBVIOUS
  <2>2. /\ WriteTo(WriteRound(s), q, bytes)
        /\ Len(s.left) > 0 => Len(WriteRound(s).left) < Len(s.left)
        /\ Len(s.left) = 0 => WriteRound(s) = s
    BY <2>1, WriteRoundIs
  <2>3. WriteRound(s) \in [q : Queue, left : Seq(Byte)]
    BY <2>2 DEF WriteTo
  <2>4. Len(s.left) \in Nat
    BY <2>1, LenProperties
  <2>5. Len(s.left) = 0 => Len(WriteRound(s).left) = 0
    BY <2>2
  <2> QED
    BY <2>2, <2>3, <2>4, <2>5
<1> HIDE DEF V
<1>5. Winds(V, G, rank) /\ G \in [V -> V] /\ rank[x] <= n
  <2>1. rank[x] = n
    BY <1>2, <1>3 DEF n
  <2> QED
    BY <1>2, <1>4, <2>1 DEF Winds
<1>6. \A s \in V : G[s] = WriteRound(s) /\ rank[s] = Len(s.left)
  OBVIOUS
<1> HIDE DEF G, rank
<1>7. PICK f \in [0..n -> V] : f[0] = x /\ \A k \in 1..n : f[k] = G[f[k - 1]]
  <2>1. Runs(V, x, n, G)
    BY <1>2, <1>3, <1>5, LoopRuns, Zenon
  <2> QED
    BY <2>1 DEF Runs
<1>8. \A k \in 1..n : f[k - 1] \in V
  BY <1>2
<1>9. f = [k \in 0..n |-> IF k = 0 THEN x ELSE WriteRound(f[k - 1])]
  <2>1. n \in Nat /\ f[0] = x /\ \A k \in 1..n : f[k] = WriteRound(f[k - 1])
    BY <1>2, <1>6, <1>7, <1>8
  <2>2. \A k \in 0..n : k # 0 => k \in 1..n
    BY <2>1
  <2> QED
    BY <2>1, <2>2
<1>10. after = [k \in 0..n |-> IF k = 0 THEN x ELSE WriteRound(after[k - 1])]
  BY <1>9
<1> HIDE DEF after
<1>11. after[0] = x /\ \A k \in 1..n : after[k - 1] \in V => after[k] = G[after[k - 1]]
  BY <1>2, <1>6, <1>10
<1>12. after[n] \in V /\ rank[after[n]] = 0
  BY <1>2, <1>3, <1>5, <1>11, LoopEnds
<1>13. WriteTo(after[n], q, bytes) /\ Len(after[n].left) = 0
  BY <1>6, <1>12 DEF V
<1> QED
  BY <1>1, <1>13, WriteEnd

\* So does write_fd().
LEMMA WriteFdIs ==
  ASSUME NEW q, Fit(q), NEW bytes \in Seq(Byte)
  PROVE  Wrote(write_fd(q, bytes), q, bytes)
<1> DEFINE n == Len(bytes)
           x == [q |-> q, left |-> bytes]
           after == CHOOSE f : f = [k \in 0..n |-> IF k = 0 THEN x ELSE WriteFdRound(f[k - 1])]
           V == {s \in [q : Queue, left : Seq(Byte)] : WriteTo(s, q, bytes)}
           G == [s \in V |-> WriteFdRound(s)]
           rank == [s \in V |-> Len(s.left)]
<1>1. write_fd(q, bytes) = after[n].q
  BY DEF write_fd, Rounds
<1>2. n \in Nat /\ q \in Queue /\ x.left = bytes
  BY LenProperties, FitTypes
<1>3. x \in V
  BY <1>2, WriteStart
<1> HIDE DEF x, n
<1>4. ASSUME NEW s \in V
      PROVE  /\ WriteFdRound(s) \in V /\ Len(s.left) \in Nat
             /\ Len(s.left) > 0 => Len(WriteFdRound(s).left) < Len(s.left)
             /\ Len(s.left) = 0 => Len(WriteFdRound(s).left) = 0
  <2>1. WriteTo(s, q, bytes) /\ s.left \in Seq(Byte)
    OBVIOUS
  <2>2. /\ WriteTo(WriteFdRound(s), q, bytes)
        /\ Len(s.left) > 0 => Len(WriteFdRound(s).left) < Len(s.left)
        /\ Len(s.left) = 0 => WriteFdRound(s) = s
    BY <2>1, WriteFdRoundIs
  <2>3. WriteFdRound(s) \in [q : Queue, left : Seq(Byte)]
    BY <2>2 DEF WriteTo
  <2>4. Len(s.left) \in Nat
    BY <2>1, LenProperties
  <2>5. Len(s.left) = 0 => Len(WriteFdRound(s).left) = 0
    BY <2>2
  <2> QED
    BY <2>2, <2>3, <2>4, <2>5
<1> HIDE DEF V
<1>5. Winds(V, G, rank) /\ G \in [V -> V] /\ rank[x] <= n
  <2>1. rank[x] = n
    BY <1>2, <1>3 DEF n
  <2> QED
    BY <1>2, <1>4, <2>1 DEF Winds
<1>6. \A s \in V : G[s] = WriteFdRound(s) /\ rank[s] = Len(s.left)
  OBVIOUS
<1> HIDE DEF G, rank
<1>7. PICK f \in [0..n -> V] : f[0] = x /\ \A k \in 1..n : f[k] = G[f[k - 1]]
  <2>1. Runs(V, x, n, G)
    BY <1>2, <1>3, <1>5, LoopRuns, Zenon
  <2> QED
    BY <2>1 DEF Runs
<1>8. \A k \in 1..n : f[k - 1] \in V
  BY <1>2
<1>9. f = [k \in 0..n |-> IF k = 0 THEN x ELSE WriteFdRound(f[k - 1])]
  <2>1. n \in Nat /\ f[0] = x /\ \A k \in 1..n : f[k] = WriteFdRound(f[k - 1])
    BY <1>2, <1>6, <1>7, <1>8
  <2>2. \A k \in 0..n : k # 0 => k \in 1..n
    BY <2>1
  <2> QED
    BY <2>1, <2>2
<1>10. after = [k \in 0..n |-> IF k = 0 THEN x ELSE WriteFdRound(after[k - 1])]
  BY <1>9
<1> HIDE DEF after
<1>11. after[0] = x /\ \A k \in 1..n : after[k - 1] \in V => after[k] = G[after[k - 1]]
  BY <1>2, <1>6, <1>10
<1>12. after[n] \in V /\ rank[after[n]] = 0
  BY <1>2, <1>3, <1>5, <1>11, LoopEnds
<1>13. WriteTo(after[n], q, bytes) /\ Len(after[n].left) = 0
  BY <1>6, <1>12 DEF V
<1> QED
  BY <1>1, <1>13, WriteEnd

-----------------------------------------------------------------------------
(* The loop of write_q() *)

\* Bytes added to bytes added.
LEMMA GrownOn ==
  ASSUME NEW q, Good(q), NEW p, Good(p), NEW r, NEW g \in Seq(Byte), NEW h \in Seq(Byte),
         q.off \in Int, Grown(p, q, g), Grown(r, p, h)
  PROVE  Grown(r, q, g \o h)
<1>1. /\ q.avail \in Int /\ Written(q.m_q) \in Int /\ Content(q) \in Seq(Byte)
      /\ Len(g) \in Int /\ Len(h) \in Int
  BY ReadPosIs, LenProperties
<1>2. Len(g \o h) = Len(g) + Len(h)
  BY Concat DEF IsJoin
<1> DEFINE c == g \o h
<1>3. /\ p.avail = q.avail + Len(g) /\ p.off = q.off + Len(g) /\ Written(p.m_q) = Written(q.m_q) + Len(g)
      /\ r.avail = p.avail + Len(h) /\ r.off = p.off + Len(h) /\ Written(r.m_q) = Written(p.m_q) + Len(h)
  BY DEF Grown
<1>4. Content(r) = (Content(q) \o g) \o h
  BY DEF Grown
<1>5. Content(r) = Content(q) \o c
  BY <1>1, <1>4, JoinThree
<1> HIDE DEF c
<1>6. \A x \in Int : (x + Len(g)) + Len(h) = x + Len(c)
  BY <1>1, <1>2 DEF c
<1>7. r.avail = q.avail + Len(c) /\ r.off = q.off + Len(c) /\ Written(r.m_q) = Written(q.m_q) + Len(c)
  BY <1>1, <1>3, <1>6
<1> QED
  BY <1>5, <1>7 DEF Grown, c

\* The state of the loop of write_q(): g has gone from src to q.
Copied(s, q, src, k) == \E g : Got(g, src, k) /\ Grown(s.q, q, g)
QTo(s, q, src) ==
  /\ s \in [q : Queue, src : Queue, left : Nat] /\ s.left <= src.avail /\ Fit(s.q)
  /\ Reads(s.src, src, src.avail - s.left)
  /\ Copied(s, q, src, src.avail - s.left)

\* A round of write_q() moves at least one byte.
LEMMA WriteQRoundIs ==
  ASSUME NEW q, Fit(q), NEW src, Good(src), NEW s, QTo(s, q, src)
  PROVE  /\ QTo(WriteQRound(s), q, src)
         /\ s.left > 0 => WriteQRound(s).left < s.left
         /\ s.left = 0 => WriteQRound(s) = s
<1> DEFINE p == s.q
           z == s.src
           a == WithSpace(p)
           n == Least(s.left, b_write_avail(a))
           k == src.avail - s.left
           r == read(z, n)
           t == WriteQRound(s)
<1>1. /\ s \in [q : Queue, src : Queue, left : Nat] /\ s.left <= src.avail /\ Fit(p)
      /\ s.left \in Nat /\ Reads(z, src, k) /\ Copied(s, q, src, k)
  BY DEF QTo
<1>2. src.avail \in Nat /\ k \in Nat /\ Good(z)
  BY <1>1, ReadPosIs DEF Reads
<1>3. z.avail = s.left /\ Content(z) = Content(src)
  <2>1. z.avail = src.avail - k /\ Content(z) = Content(src)
    BY <1>1 DEF Reads
  <2> QED
    BY <1>1, <1>2, <2>1
<1>4. t = IF s.left = 0 THEN s
          ELSE IF r.got = << >> THEN [q |-> a, src |-> r.q, left |-> 0]
          ELSE [q |-> Store(a, r.got), src |-> r.q, left |-> s.left - Len(r.got)]
  BY DEF WriteQRound
<1>5. b_write_avail(a) \in Nat \ {0}
  BY <1>1, Space DEF Fit
<1>6. CASE s.left = 0
  <2>1. t = s
    BY <1>4, <1>6
  <2> HIDE DEF t
  <2> QED
    BY <1>6, <2>1 DEF t
<1>7. CASE s.left # 0
  <2>1. n \in Nat \ {0} /\ n <= s.left /\ n <= b_write_avail(a) /\ Least(n, z.avail) = n
    BY <1>1, <1>3, <1>5, <1>7 DEF Least
  <2> HIDE DEF n, k
  <2>2. Reads(r.q, z, n) /\ Got(r.got, z, n)
    BY <1>2, <2>1, ReadIs
  <2> DEFINE h == r.got
             w == Store(a, h)
  <2>3. h \in Seq(Byte) /\ Len(h) = n /\ h # << >>
    BY <2>1, <2>2 DEF Got
  <2> HIDE DEF r, h, z
  <2>4. Wrote(w, p, h)
    <3>1. Len(h) \in Nat \ {0} /\ Len(h) <= b_write_avail(WithSpace(p))
      BY <2>1, <2>3
    <3> QED
      BY <1>1, <2>3, <3>1, StoreWrote
  <2>5. t = [q |-> w, src |-> r.q, left |-> s.left - n]
    BY <1>4, <1>7, <2>3 DEF h
  <2> HIDE DEF w, a, t, p
  <2>6. Reads(r.q, src, k + n)
    BY <1>1, <1>2, <2>1, <2>2, ReadsOn
  <2>7. ReadPos(z) = ReadPos(src) + k
    BY <1>1, <1>2, ReadsPos
  <2>8. PICK g : Got(g, src, k) /\ Grown(p, q, g)
    BY <1>1 DEF Copied, p
  <2>9. Got(g \o h, src, k + n)
    <3>1. Got(h, z, n)
      BY <2>2 DEF h
    <3>2. n \in Nat
      BY <2>1
    <3> QED
      BY <1>2, <1>3, <2>7, <2>8, <3>1, <3>2, GotOn
  <2>10. Fit(w) /\ Grown(w, p, h)
    BY <2>4 DEF Wrote
  <2>11. Grown(w, q, g \o h)
    <3>1. Good(q) /\ Good(p) /\ q.off \in Int
      BY <1>1, FitTypes
    <3>2. g \in Seq(Byte)
      BY <2>8 DEF Got
    <3> QED
      BY <2>3, <2>8, <2>10, <3>1, <3>2, GrownOn, Zenon
  <2>12. s.left - n \in Nat /\ s.left - n <= src.avail /\ s.left - n < s.left
    BY <1>1, <1>2, <2>1
  <2>13. k + n = src.avail - (s.left - n)
    BY <1>1, <1>2, <2>1 DEF k
  <2>14. w \in Queue /\ r.q \in Queue
    BY <2>6, <2>10, FitTypes DEF Reads, Good, Shape
  <2>15. t \in [q : Queue, src : Queue, left : Nat] /\ t.q = w /\ t.src = r.q /\ t.left = s.left - n
    BY <2>5, <2>12, <2>14
  <2>16. Copied(t, q, src, k + n)
    BY <2>9, <2>11, <2>15 DEF Copied
  <2>17. QTo(t, q, src)
    BY <2>6, <2>10, <2>12, <2>13, <2>15, <2>16 DEF QTo
  <2> QED
    BY <1>7, <2>12, <2>15, <2>17 DEF t
<1> QED
  BY <1>6, <1>7

\* r is q with all of src that was not read yet.
CopiedAll(r, q, src) ==
  Fit(r) /\ \E g : Got(g, src, src.avail) /\ Grown(r, q, g)

\* write_q() moves all that is left of one queue to the end of another.
LEMMA WriteQIs ==
  ASSUME NEW q, Fit(q), NEW src, Good(src)
  PROVE  CopiedAll(write_q(q, src).q, q, src)
<1> DEFINE n == src.avail
           x == [q |-> q, src |-> src, left |-> n]
           after == CHOOSE f : f = [k \in 0..n |-> IF k = 0 THEN x ELSE WriteQRound(f[k - 1])]
           V == {s \in [q : Queue, src : Queue, left : Nat] : QTo(s, q, src)}
           G == [s \in V |-> WriteQRound(s)]
           rank == [s \in V |-> s.left]
<1>1. write_q(q, src) = after[n]
  BY DEF write_q, Rounds
<1>2. n \in Nat /\ q \in Queue /\ x.left = n /\ src \in Queue /\ n - n = 0
  BY ReadPosIs, FitTypes DEF Good, Shape
<1>3. x \in V
  <2>1. x \in [q : Queue, src : Queue, left : Nat] /\ x.q = q /\ x.src = src
    BY <1>2
  <2>2. Grown(q, q, << >>)
    <3>1. q.avail \in Int /\ q.off \in Int /\ Written(q.m_q) \in Int /\ Content(q) \in Seq(Byte)
      BY FitTypes
    <3>2. Content(q) \o << >> = Content(q)
      BY <3>1, ConcatEmptySeq
    <3>3. Len(<< >>) = 0
      BY EmptySeq
    <3>4. q.avail = q.avail + Len(<< >>) /\ q.off = q.off + Len(<< >>) /\ Written(q.m_q) = Written(q.m_q) + Len(<< >>)
      BY <3>1, <3>3
    <3> QED
      BY <3>2, <3>4 DEF Grown
  <2>3. Reads(src, src, 0) /\ Got(<< >>, src, 0)
    BY ReadsNone
  <2> HIDE DEF x
  <2>4. Copied(x, q, src, 0)
    BY <2>1, <2>2, <2>3 DEF Copied
  <2>5. QTo(x, q, src)
    BY <1>2, <2>1, <2>3, <2>4 DEF QTo
  <2> QED
    BY <2>1, <2>5
<1> HIDE DEF x, n
<1>4. ASSUME NEW s \in V
      PROVE  /\ WriteQRound(s) \in V /\ s.left \in Nat
             /\ s.left > 0 => WriteQRound(s).left < s.left
             /\ s.left = 0 => WriteQRound(s).left = 0
  <2>1. QTo(s, q, src) /\ s.left \in Nat
    OBVIOUS
  <2>2. /\ QTo(WriteQRound(s), q, src)
        /\ s.left > 0 => WriteQRound(s).left < s.left
        /\ s.left = 0 => WriteQRound(s) = s
    BY <2>1, WriteQRoundIs
  <2>3. WriteQRound(s) \in [q : Queue, src : Queue, left : Nat]
    BY <2>2 DEF QTo
  <2> QED
    BY <2>1, <2>2, <2>3
<1> HIDE DEF V
<1>5. Winds(V, G, rank) /\ G \in [V -> V] /\ rank[x] <= n
  BY <1>2, <1>3, <1>4 DEF Winds
<1>6. \A s \in V : G[s] = WriteQRound(s) /\ rank[s] = s.left
  OBVIOUS
<1> HIDE DEF G, rank
<1>7. PICK f \in [0..n -> V] : f[0] = x /\ \A k \in 1..n : f[k] = G[f[k - 1]]
  <2>1. Runs(V, x, n, G)
    BY <1>2, <1>3, <1>5, LoopRuns, Zenon
  <2> QED
    BY <2>1 DEF Runs
<1>8. \A k \in 1..n : f[k - 1] \in V
  BY <1>2
<1>9. f = [k \in 0..n |-> IF k = 0 THEN x ELSE WriteQRound(f[k - 1])]
  <2>1. n \in Nat /\ f[0] = x /\ \A k \in 1..n : f[k] = WriteQRound(f[k - 1])
    BY <1>2, <1>6, <1>7, <1>8
  <2>2. \A k \in 0..n : k # 0 => k \in 1..n
    BY <2>1
  <2> QED
    BY <2>1, <2>2
<1>10. after = [k \in 0..n |-> IF k = 0 THEN x ELSE WriteQRound(after[k - 1])]
  BY <1>9
<1> HIDE DEF after
<1>11. after[0] = x /\ \A k \in 1..n : after[k - 1] \in V => after[k] = G[after[k - 1]]
  BY <1>2, <1>6, <1>10
<1>12. after[n] \in V /\ rank[after[n]] = 0
  BY <1>2, <1>3, <1>5, <1>11, LoopEnds
<1>13. QTo(after[n], q, src) /\ after[n].left = 0
  BY <1>6, <1>12 DEF V
<1>14. src.avail - 0 = src.avail
  BY <1>2 DEF n
<1> QED
  BY <1>1, <1>13, <1>14 DEF QTo, Copied, CopiedAll

-----------------------------------------------------------------------------
(* reset_read() and read_from() *)

\* What EachBlock() gives, place by place.
LEMMA Listed ==
  ASSUME NEW A, NEW n \in Nat, NEW f \in [1..n -> A]
  PROVE  /\ SubSeq(f, 1, n) \in Seq(A) /\ Len(SubSeq(f, 1, n)) = n
         /\ \A i \in 1..n : SubSeq(f, 1, n)[i] = f[i]
<1>1. f \in Seq(A) /\ Len(f) = n
  OBVIOUS
<1>2. SubSeq(f, 1, n) = f
  BY <1>1, SubSeqFull
<1> QED
  BY <1>1, <1>2

\* The blocks of a queue and its write cursor, wherever it was read to.
Rough(q) ==
  /\ q \in Queue /\ RoughBlocks(q.m_q)
  /\ q.wr \in 0..Len(q.m_q)
  /\ q.wr # End => \A i \in 1..Len(q.m_q) : i > q.wr => q.m_q[i].written = 0

\* r is q, to be read from the start.
Rewound(r, q) ==
  /\ Good(r) /\ (Full(q) => Full(r)) /\ r.wr = q.wr /\ r.off = q.off
  /\ r.avail = Written(q.m_q) /\ Len(r.m_q) = Len(q.m_q)
  /\ Written(r.m_q) = Written(q.m_q) /\ Content(r) = Content(q)

\* reset_read() goes back to the first byte.
LEMMA ResetReadIs ==
  ASSUME NEW q, Rough(q), NEW r, r = reset_read(q)
  PROVE  Rewound(r, q)
<1> DEFINE m == q.m_q
           f == [i \in DOMAIN m |-> read_reset(m[i])]
           p == SubSeq(f, 1, Len(m))
           first == Begin(q)
<1>1. /\ m \in Seq(Block) /\ RoughBlocks(m) /\ q.off \in Int
      /\ q.wr \in 0..Len(m)
      /\ q.wr # End => \A i \in 1..Len(m) : i > q.wr => m[i].written = 0
  BY QueueTypes DEF Rough
<1>2. /\ Len(m) \in Nat /\ DOMAIN m = 1..Len(m) /\ \A i \in 1..Len(m) : m[i] \in Block
  BY <1>1, BlockTypes
<1>3. first = IF Len(m) = 0 THEN 0 ELSE 1
  BY <1>1, EmptySeq DEF Begin, End
<1>4. /\ r.m_q = p /\ r.wr = q.wr /\ r.rd = first /\ r.off = q.off /\ r.avail = Written(m)
      /\ r = [m_q |-> p, wr |-> q.wr, rd |-> first, off |-> q.off, avail |-> Written(m)]
  <2>1. q = [m_q |-> q.m_q, wr |-> q.wr, rd |-> q.rd, off |-> q.off, avail |-> q.avail]
    BY DEF Rough, Queue
  <2>2. r = [q EXCEPT !.m_q = p, !.rd = first, !.avail = Written(m)]
    BY DEF reset_read, EachBlock
  <2> HIDE DEF p, first, m
  <2> QED
    BY <2>1, <2>2
<1> HIDE DEF first
<1>5. ASSUME NEW b \in Block
      PROVE  /\ read_reset(b) \in Block /\ read_reset(b).read = 0
             /\ read_reset(b).written = b.written /\ read_reset(b).data = b.data
             /\ read_reset(b).len = b.len /\ read_reset(b).ref = b.ref
  BY DEF read_reset, Block
<1>6. /\ p \in Seq(Block) /\ Len(p) = Len(m) /\ \A i \in 1..Len(m) : p[i] = read_reset(m[i])
  <2>1. f \in [1..Len(m) -> Block] /\ \A i \in 1..Len(m) : f[i] = read_reset(m[i])
    BY <1>2, <1>5
  <2> HIDE DEF f
  <2> QED
    BY <1>2, <2>1, Listed
<1> HIDE DEF p, m
<1>7. \A i \in 1..Len(m) : p[i].read = 0
  BY <1>2, <1>5, <1>6
<1>8. Alike(m, p)
  BY <1>1, <1>2, <1>5, <1>6, BlockTypes DEF Alike
<1>9. AlikeBytes(m, p)
  BY <1>1, <1>6, <1>8, AlikeSame, Zenon
<1>10. /\ GoodBlocks(p) /\ Written(p) = Written(m) /\ ContentTo(p, Len(p)) = ContentTo(m, Len(m))
       /\ Written(m) \in Nat
  BY <1>1, <1>9, WrittenAll DEF AlikeBytes
<1>11. Shape(r)
  <2>1. r \in Queue
    BY <1>1, <1>2, <1>3, <1>4, <1>6, <1>10 DEF Queue
  <2>2. \A i \in 1..Len(p) : p[i].written = m[i].written
    BY <1>6, <1>8 DEF Alike
  <2> QED
    BY <1>1, <1>4, <1>6, <1>10, <2>1, <2>2 DEF Shape
<1>12. Reader(r)
  <2>1. CASE Len(m) = 0
    <3>1. r.rd = 0 /\ ReadPos(r) = 0
      BY <1>3, <1>4, <2>1 DEF ReadPos, End
    <3>2. Written(m) = 0
      <4>1. WrittenTo(m, 0) = 0
        BY <1>1, WrittenSteps
      <4> QED
        BY <2>1, <4>1 DEF Written
    <3>3. r.avail = 0 /\ Written(r.m_q) - ReadPos(r) = 0
      BY <1>4, <1>10, <3>1, <3>2
    <3>4. Len(r.m_q) = 0
      BY <1>4, <1>6, <2>1
    <3>5. r.wr # End => r.rd <= r.wr
      BY <1>1, <1>2, <1>4, <3>1
    <3> QED
      BY <3>1, <3>3, <3>4, <3>5 DEF Reader, End
  <2>2. CASE Len(m) # 0
    <3>1. r.rd = 1 /\ 1 \in 1..Len(m) /\ r.rd # End /\ r.rd \in 0..Len(m)
      BY <1>2, <1>3, <1>4, <2>2 DEF End
    <3>2. ReadPos(r) = WrittenTo(p, 1 - 1) + p[1].read
      BY <1>4, <3>1 DEF ReadPos
    <3>3. WrittenTo(p, 0) = 0 /\ p[1].read = 0
      BY <1>6, <1>7, <3>1, WrittenSteps
    <3>4. ReadPos(r) = 0
      BY <3>2, <3>3
    <3>5. r.avail = Written(r.m_q) - ReadPos(r)
      BY <1>4, <1>10, <3>4
    <3>6. Written(m) > 0 => p[1].read < p[1].written
      <4> SUFFICES ASSUME Written(m) > 0 PROVE p[1].read < p[1].written
        OBVIOUS
      <4>1. 0 \in 0..Len(m) /\ Written(m) # WrittenTo(m, 0)
        BY <1>1, <1>2, <1>10, WrittenSteps
      <4>2. PICK j \in 1..Len(m) : j > 0 /\ m[j].written > 0
        BY <1>1, <4>1, WrittenSome
      <4>3. m[1].written > 0
        <5>1. 1 = j \/ 1 < j
          BY <1>2
        <5> QED
          BY <1>1, <3>1, <4>2, <5>1 DEF RoughBlocks, Contig
      <4> QED
        BY <1>8, <3>1, <3>3, <4>3 DEF Alike
    <3>7. r.wr # End => r.rd <= r.wr
      BY <1>1, <1>2, <1>4, <3>1 DEF End
    <3>8. \A i \in 1..Len(p) : (i < r.rd => p[i].read = p[i].written) /\ (i > r.rd => p[i].read = 0)
      BY <1>2, <1>6, <1>7, <3>1
    <3>9. r.avail > 0 => r.m_q[r.rd].read < r.m_q[r.rd].written
      BY <1>4, <3>1, <3>6
    <3> QED
      BY <1>4, <1>6, <2>2, <3>1, <3>5, <3>7, <3>8, <3>9 DEF Reader
  <2> QED
    BY <2>1, <2>2
<1>13. Full(q) => Full(r)
  BY <1>4, <1>6, <1>8 DEF Full, Alike, m
<1>14. Content(r) = Content(q)
  BY <1>4, <1>10 DEF Content, m
<1> QED
  BY <1>4, <1>6, <1>10, <1>11, <1>12, <1>13, <1>14 DEF Rewound, Good, m

\* r is q read up to off + n, the last n of these bytes in g.
ReadOff(r, g, q, off, n) ==
  /\ Good(r) /\ (Full(q) => Full(r)) /\ r.wr = q.wr /\ r.off = q.off
  /\ Len(r.m_q) = Len(q.m_q) /\ r.avail = Written(q.m_q) - (off + n)
  /\ Written(r.m_q) = Written(q.m_q) /\ Content(r) = Content(q)
  /\ g \in Seq(Byte) /\ Len(g) = n /\ \A x \in 1..n : g[x] = Content(q)[off + x]

\* read_from() gives the bytes at an offset, wherever the queue was read to.
LEMMA ReadFromIs ==
  ASSUME NEW q, Good(q), NEW off \in Nat, NEW n \in Nat, off + n <= Written(q.m_q)
  PROVE  ReadOff(read_from(q, off, n).q, read_from(q, off, n).got, q, off, n)
<1> DEFINE z == reset_read(q)
           y == read(z, off).q
           r == read(y, n)
<1>1. r = read_from(q, off, n)
  BY DEF read_from, read_seek
<1>2. Rough(q) /\ Written(q.m_q) \in Nat
  BY GoodRough, ReadPosIs DEF Good, Shape, Rough
<1>3. Rewound(z, q)
  BY <1>2, ResetReadIs
<1> HIDE DEF z
<1>4. /\ Good(z) /\ z.avail = Written(q.m_q) /\ Written(z.m_q) = Written(q.m_q) /\ Content(z) = Content(q)
  BY <1>3 DEF Rewound
<1>5. Least(off, z.avail) = off
  BY <1>2, <1>4 DEF Least
<1>6. Reads(y, z, off)
  BY <1>4, <1>5, ReadIs
<1> HIDE DEF y
<1>7. Good(y) /\ y.avail = z.avail - off /\ Content(y) = Content(z)
  BY <1>6 DEF Reads
<1>8. Least(n, y.avail) = n
  BY <1>2, <1>4, <1>7 DEF Least
<1>9. Reads(r.q, y, n) /\ Got(r.got, y, n)
  BY <1>7, <1>8, ReadIs
<1> HIDE DEF r
<1>10. Reads(r.q, z, off + n)
  BY <1>4, <1>6, <1>9, ReadsOn
<1>11. ReadPos(z) = 0
  BY <1>2, <1>4, ReadPosIs
<1>12. ReadPos(y) = off
  <2>1. ReadPos(y) = ReadPos(z) + off
    BY <1>4, <1>6, ReadsPos
  <2> QED
    BY <1>11, <2>1
<1>13. r.got \in Seq(Byte) /\ Len(r.got) = n /\ \A x \in 1..n : r.got[x] = Content(q)[off + x]
  BY <1>4, <1>7, <1>9, <1>12 DEF Got
<1>14. /\ Good(r.q) /\ (Full(q) => Full(r.q)) /\ r.q.wr = q.wr /\ r.q.off = q.off
       /\ Len(r.q.m_q) = Len(q.m_q) /\ r.q.avail = Written(q.m_q) - (off + n)
       /\ Written(r.q.m_q) = Written(q.m_q) /\ Content(r.q) = Content(q)
  BY <1>3, <1>10 DEF Reads, Rewound
<1> QED
  BY <1>1, <1>13, <1>14 DEF ReadOff

-----------------------------------------------------------------------------
(* reset_write(), reset() and shrink() *)

Owned == {s \in Seq(Block) : \A i \in 1..Len(s) : GoodBlock(s[i]) /\ ~s[i].ref}

\* The blocks with memory of their own.
LEMMA OwnBlocksIs ==
  ASSUME NEW m \in Seq(Block), GoodBlocks(m)
  PROVE  OwnBlocks(m) \in Owned
<1> DEFINE n == Len(m)
           more(v, k) == IF m[k].ref THEN v ELSE Append(v, m[k])
           own == CHOOSE f : f = [k \in 0..n |-> IF k = 0 THEN << >>
                                    ELSE IF m[k].ref THEN f[k - 1] ELSE Append(f[k - 1], m[k])]
           G == [k \in 1..n |-> [v \in Owned |-> more(v, k)]]
<1>1. OwnBlocks(m) = own[n]
  BY DEF OwnBlocks
<1>2. n \in Nat /\ \A k \in 1..n : m[k] \in Block /\ GoodBlock(m[k]) /\ m[k].ref \in BOOLEAN
  BY BlockTypes DEF GoodBlocks
<1>3. own = CHOOSE f : f = [k \in 0..n |-> IF k = 0 THEN << >> ELSE more(f[k - 1], k)]
  OBVIOUS
<1>4. << >> \in Owned
  BY DEF Owned
<1>5. ASSUME NEW k \in 1..n, NEW v \in Owned PROVE more(v, k) \in Owned
  <2>1. v \in Seq(Block) /\ \A i \in 1..Len(v) : GoodBlock(v[i]) /\ ~v[i].ref
    BY DEF Owned
  <2>2. CASE m[k].ref
    BY <2>2
  <2>3. CASE ~m[k].ref
    <3> DEFINE b == m[k]
               u == Append(v, b)
    <3>1. b \in Block /\ GoodBlock(b) /\ ~b.ref
      BY <1>2, <2>3
    <3> HIDE DEF b
    <3>2. /\ u \in Seq(Block) /\ Len(u) = Len(v) + 1 /\ Len(v) \in Nat
          /\ \A i \in 1..Len(v) : u[i] = v[i]
          /\ u[Len(v) + 1] = b
      BY <2>1, <3>1, AppendProperties, LenProperties
    <3> HIDE DEF u
    <3>3. \A i \in 1..Len(u) : i \in 1..Len(v) \/ i = Len(v) + 1
      BY <3>2
    <3>4. \A i \in 1..Len(u) : GoodBlock(u[i]) /\ ~u[i].ref
      BY <2>1, <3>1, <3>2, <3>3
    <3>5. u \in Owned
      BY <3>2, <3>4 DEF Owned
    <3> QED
      BY <2>3, <3>5 DEF u, b
  <2> QED
    BY <2>2, <2>3
<1> HIDE DEF n, own, more
<1>6. G \in [1..n -> [Owned -> Owned]]
  BY <1>5
<1>7. PICK f \in [0..n -> Owned] : f[0] = << >> /\ \A k \in 1..n : f[k] = G[k][f[k - 1]]
  <2> HIDE DEF G
  <2>1. Computed(Owned, << >>, n, G)
    BY <1>2, <1>4, <1>6, Recursion, Zenon
  <2> QED
    BY <2>1 DEF Computed
<1>8. \A k \in 1..n : f[k] = more(f[k - 1], k)
  <2>1. \A k \in 1..n : f[k - 1] \in Owned
    BY <1>2
  <2> QED
    BY <1>7, <2>1
<1> HIDE DEF G
<1>9. f = [k \in 0..n |-> IF k = 0 THEN << >> ELSE more(f[k - 1], k)]
  BY <1>2, <1>7, <1>8
<1>10. own = [k \in 0..n |-> IF k = 0 THEN << >> ELSE more(own[k - 1], k)]
  BY <1>3, <1>9
<1>11. own[0] = << >> /\ \A k \in 1..n : own[k] = more(own[k - 1], k)
  BY <1>2, <1>10
<1> DEFINE S == {k \in 0..n : own[k] \in Owned}
<1>12. 0 \in S /\ \A k \in 1..n : k - 1 \in S => k \in S
  BY <1>2, <1>4, <1>5, <1>11
<1>13. \A k \in 0..n : k \in S
  <2> HIDE DEF S
  <2> QED
    BY <1>2, <1>12, UpTo
<1> QED
  BY <1>1, <1>2, <1>13

\* An empty queue that may have blocks.
Emptied(r) ==
  /\ Fit(r) /\ r.off = 0 /\ r.avail = 0 /\ Written(r.m_q) = 0 /\ Content(r) = << >>

\* A queue without any block.
LEMMA NewQueueGood ==
  Emptied(NewQueue) /\ NoEmpty(NewQueue) /\ NewQueue.m_q = << >>
<1> DEFINE q == NewQueue
<1>1. q.m_q = << >> /\ q.wr = 0 /\ q.rd = 0 /\ q.off = 0 /\ q.avail = 0
  BY DEF NewQueue, End
<1>2. << >> \in Seq(Block) /\ Len(<< >>) = 0
  BY EmptySeq
<1>3. q \in Queue
  BY <1>2 DEF NewQueue, Queue, End
<1> HIDE DEF q
<1>4. Written(q.m_q) = 0 /\ ContentTo(q.m_q, Len(q.m_q)) = << >> /\ GoodBlocks(q.m_q)
  BY <1>1, <1>2, NoBlocks
<1>5. Shape(q) /\ NoEmpty(q) /\ Usable(q) /\ Full(q)
  BY <1>1, <1>2, <1>3, <1>4 DEF Shape, NoEmpty, Usable, Full, End
<1>6. Reader(q)
  <2>1. ReadPos(q) = 0
    BY <1>1 DEF ReadPos, End
  <2> QED
    BY <1>1, <1>2, <1>4, <2>1 DEF Reader, End
<1> QED
  BY <1>1, <1>4, <1>5, <1>6 DEF Emptied, Fit, Good, Content, q

\* reset_write() keeps the blocks that can be written to, and nothing in them.
LEMMA ResetWriteIs ==
  ASSUME NEW q, Good(q)
  PROVE  Emptied(reset_write(q))
<1> DEFINE own == OwnBlocks(q.m_q)
           f == [i \in DOMAIN own |-> write_reset(own[i])]
           p == SubSeq(f, 1, Len(own))
           first == IF p = << >> THEN End ELSE 1
           r == reset_write(q)
<1>1. own \in Owned
  BY OwnBlocksIs, QueueTypes DEF Good, Shape
<1>2. r = [m_q |-> p, wr |-> first, rd |-> first, off |-> 0, avail |-> 0]
  BY DEF reset_write, EachBlock
<1> HIDE DEF own
<1>3. /\ own \in Seq(Block) /\ Len(own) \in Nat /\ DOMAIN own = 1..Len(own)
      /\ \A i \in 1..Len(own) : own[i] \in Block /\ GoodBlock(own[i]) /\ ~own[i].ref
  BY <1>1, BlockTypes DEF Owned
<1>4. ASSUME NEW b \in Block
      PROVE  /\ write_reset(b) \in Block /\ write_reset(b).read = 0 /\ write_reset(b).written = 0
             /\ write_reset(b).data = b.data
             /\ write_reset(b).len = b.len /\ write_reset(b).ref = b.ref
  BY DEF write_reset, Block
<1>5. /\ p \in Seq(Block) /\ Len(p) = Len(own) /\ \A i \in 1..Len(own) : p[i] = write_reset(own[i])
  <2>1. f \in [1..Len(own) -> Block] /\ \A i \in 1..Len(own) : f[i] = write_reset(own[i])
    BY <1>3, <1>4
  <2> HIDE DEF f
  <2> QED
    BY <1>3, <2>1, Listed
<1>6. first \in 0..1 /\ (first = 0 <=> Len(p) = 0) /\ first <= Len(p) /\ Len(p) \in Nat
  BY <1>3, <1>5, EmptySeq DEF End
<1> HIDE DEF p, first, r
<1>7. /\ r.m_q = p /\ r.wr = first /\ r.rd = first /\ r.off = 0 /\ r.avail = 0 /\ r \in Queue
  BY <1>2, <1>5, <1>6 DEF Queue
<1>8. \A i \in 1..Len(p) :
        p[i] \in Block /\ p[i].written = 0 /\ p[i].read = 0 /\ GoodBlock(p[i]) /\ ~p[i].ref
  <2> SUFFICES ASSUME NEW i \in 1..Len(p)
               PROVE  p[i] \in Block /\ p[i].written = 0 /\ p[i].read = 0 /\ GoodBlock(p[i]) /\ ~p[i].ref
    OBVIOUS
  <2> DEFINE b == own[i]
  <2>1. b \in Block /\ GoodBlock(b) /\ ~b.ref /\ p[i] = write_reset(b) /\ b.len \in Nat
    BY <1>3, <1>5, BlockTypes
  <2> HIDE DEF b
  <2> QED
    BY <1>4, <2>1 DEF GoodBlock
<1>9. Written(p) = 0
  <2>1. 0 \in 0..Len(p) /\ Len(p) \in 0..Len(p) /\ \A j \in 1..Len(p) : j > 0 => p[j].written = 0
    BY <1>6, <1>8
  <2>2. WrittenTo(p, Len(p)) = WrittenTo(p, 0)
    BY <1>5, <2>1, WrittenEmpty
  <2> QED
    BY <1>5, <2>2, WrittenSteps DEF Written
<1>10. GoodBlocks(p)
  BY <1>8 DEF GoodBlocks, Contig
<1>11. Content(r) = << >>
  <2>1. ContentTo(p, Len(p)) \in Seq(Byte) /\ Len(ContentTo(p, Len(p))) = 0
    BY <1>5, <1>9, <1>10, GoodHolds, ContentBytes
  <2>2. ContentTo(p, Len(p)) = << >>
    BY <2>1, EmptySeq
  <2> QED
    BY <1>7, <2>2 DEF Content
<1>12. Shape(r) /\ Full(r) /\ Usable(r)
  BY <1>6, <1>7, <1>8, <1>10 DEF Shape, Full, Usable, End
<1>13. Reader(r)
  <2>1. ReadPos(r) = 0
    <3>1. CASE first = 0
      BY <1>7, <3>1 DEF ReadPos, End
    <3>2. CASE first = 1
      <4>1. ReadPos(r) = WrittenTo(p, 1 - 1) + p[1].read
        BY <1>7, <3>2 DEF ReadPos, End
      <4>2. WrittenTo(p, 0) = 0 /\ p[1].read = 0
        BY <1>5, <1>6, <1>8, <3>2, WrittenSteps
      <4> QED
        BY <4>1, <4>2
    <3> QED
      BY <1>6, <3>1, <3>2
  <2>2. r.avail = Written(p) - ReadPos(r)
    BY <1>7, <1>9, <2>1
  <2>3. first \in 0..Len(p) /\ (first = End <=> Len(p) = 0)
    BY <1>6 DEF End
  <2>4. \A i \in 1..Len(p) : (i < first => p[i].read = p[i].written) /\ (i > first => p[i].read = 0)
    BY <1>8
  <2>5. ~(r.avail > 0)
    BY <1>7
  <2> QED
    BY <1>7, <2>2, <2>3, <2>4, <2>5 DEF Reader
<1> QED
  BY <1>7, <1>9, <1>11, <1>12, <1>13 DEF Emptied, Fit, Good, r

\* p is the blocks of m after the first k, up to the block b.
Sliced(p, m, k, b) ==
  /\ p \in Seq(Block) /\ Len(p) = b - k
  /\ \A i \in 1..b - k : p[i] = m[k + i]
  /\ RoughBlocks(p) /\ (GoodBlocks(m) => GoodBlocks(p))
  /\ \A j \in 0..b - k : WrittenTo(p, j) = WrittenTo(m, k + j) - WrittenTo(m, k)
  /\ Written(p) = WrittenTo(m, b) - WrittenTo(m, k)
  /\ ContentTo(p, Len(p)) = SubSeq(ContentTo(m, Len(m)), WrittenTo(m, k) + 1, WrittenTo(m, b))

\* A place in a block that is between two others.
Inside(y, a, c, j) == (y - a) + j \in 1..c - a /\ a + ((y - a) + j) = y + j

\* It is there when the block is.
LEMMA Between ==
  ASSUME NEW y \in Nat, NEW z \in Nat, NEW a \in Nat, NEW c \in Nat, NEW j \in 1..z,
         a <= y, y + z <= c
  PROVE  Inside(y, a, c, j)
BY DEF Inside

\* Some of the blocks in a row hold some of the bytes in a row.
LEMMA Slice ==
  ASSUME NEW m \in Seq(Block), RoughBlocks(m), NEW b \in 0..Len(m), NEW k \in 0..b,
         NEW p, p = SubSeq(m, k + 1, b)
  PROVE  Sliced(p, m, k, b)
<1>1. /\ Len(m) \in Nat /\ b \in Nat /\ k \in Nat /\ k <= b /\ b <= Len(m) /\ b - k \in Nat
      /\ k + 1 \in Nat /\ k + 1 <= b + 1 /\ k + 1 >= 1
      /\ b - (k + 1) + 1 = b - k /\ k \in 0..Len(m)
  BY BlockTypes
<1>2. p \in Seq(Block) /\ IsPart(p, m, k + 1, b)
  BY <1>1, Part
<1>3. Len(p) = b - k /\ \A i \in 1..b - k : p[i] = m[k + i]
  <2>1. \A i \in 1..b - k : (k + 1) + i - 1 = k + i
    BY <1>1
  <2> QED
    BY <1>1, <1>2, <2>1 DEF IsPart
<1>4. \A i \in 1..Len(p) : k + i \in 1..Len(m)
  BY <1>1, <1>3
<1>5. RoughBlocks(p) /\ (GoodBlocks(m) => GoodBlocks(p))
  <2>1. Contig(p)
    <3> SUFFICES ASSUME NEW i \in 1..Len(p), NEW j \in 1..Len(p), i < j, p[j].written > 0
                 PROVE  p[i].written > 0
      BY DEF Contig
    <3>1. k + i < k + j /\ k + i \in 1..Len(m) /\ k + j \in 1..Len(m)
      BY <1>1, <1>3, <1>4
    <3>2. m[k + j].written > 0
      BY <1>3
    <3>3. m[k + i].written > 0
      BY <3>1, <3>2 DEF RoughBlocks, Contig
    <3> QED
      BY <1>3, <3>3
  <2>2. \A i \in 1..Len(p) : RoughBlock(p[i])
    BY <1>3, <1>4 DEF RoughBlocks
  <2>3. GoodBlocks(m) => \A i \in 1..Len(p) : GoodBlock(p[i])
    BY <1>3, <1>4 DEF GoodBlocks
  <2> QED
    BY <2>1, <2>2, <2>3 DEF RoughBlocks, GoodBlocks
<1> DEFINE W(i) == WrittenTo(m, i)
           l == b - k
<1>6. \A j \in 0..l : WrittenTo(p, j) = W(k + j) - W(k)
  <2>1. l \in 0..Len(p) /\ k + l <= Len(m) /\ \A j \in 1..l : p[j].written = m[k + j].written
    BY <1>1, <1>3
  <2> HIDE DEF l
  <2> QED
    BY <1>1, <1>2, <2>1, WrittenPart
<1>7. Written(p) = W(b) - W(k)
  <2>1. l \in 0..l /\ k + l = b /\ Len(p) = l
    BY <1>1, <1>3
  <2> HIDE DEF l, W
  <2> QED
    BY <1>6, <2>1 DEF Written
<1>8. /\ \A i \in 0..Len(m) : W(i) \in Nat /\ W(i) <= Written(m)
      /\ Written(m) \in Nat
      /\ \A i \in 1..Len(m) : W(i) = W(i - 1) + m[i].written
      /\ \A i \in 1..Len(m) : m[i].written \in Nat
  BY WrittenSteps, WrittenAll, BlockTypes
<1>9. \A i, j \in 0..Len(m) : i <= j => W(i) <= W(j)
  <2> SUFFICES ASSUME NEW i \in 0..Len(m), NEW j \in 0..Len(m), i <= j PROVE W(i) <= W(j)
    OBVIOUS
  <2>1. j \in i..Len(m)
    BY <1>1
  <2> QED
    BY <2>1, WrittenGrows
<1> DEFINE C == ContentTo(m, Len(m))
           s == SubSeq(C, W(k) + 1, W(b))
<1>10. /\ C \in Seq(Byte) /\ Len(C) = Written(m)
       /\ \A i \in 1..Len(m) : \A j \in 1..m[i].written : C[W(i - 1) + j] = m[i].data[j]
  BY RoughHolds, ContentBytes
<1> HIDE DEF W, C
<1>11. /\ W(k) \in Nat /\ W(b) \in Nat /\ W(k) <= W(b) /\ W(b) <= Written(m)
  BY <1>1, <1>8, <1>9
<1>12. s \in Seq(Byte) /\ Len(s) = W(b) - W(k) /\ \A x \in 1..W(b) - W(k) : s[x] = C[W(k) + x]
  <2>1. /\ W(k) + 1 \in Nat /\ W(b) \in 0..Len(C) /\ W(k) + 1 <= W(b) + 1 /\ W(k) + 1 >= 1
        /\ W(b) - (W(k) + 1) + 1 = W(b) - W(k)
    BY <1>8, <1>10, <1>11
  <2>2. s \in Seq(Byte) /\ IsPart(s, C, W(k) + 1, W(b))
    BY <1>10, <2>1, Part
  <2> HIDE DEF s
  <2>3. \A x \in 1..W(b) - W(k) : (W(k) + 1) + x - 1 = W(k) + x
    BY <1>11
  <2> QED
    BY <2>1, <2>2, <2>3 DEF IsPart
<1> HIDE DEF s
<1>13. ASSUME NEW i \in 1..Len(p), NEW j \in 1..p[i].written
       PROVE  s[WrittenTo(p, i - 1) + j] = p[i].data[j]
  <2> DEFINE h == k + i
  <2>1. /\ h \in 1..Len(m) /\ h \in 0..Len(m) /\ h - 1 \in 0..Len(m) /\ h <= b /\ k <= h - 1
        /\ p[i] = m[h] /\ i - 1 \in 0..l /\ k + (i - 1) = h - 1
    BY <1>1, <1>3, <1>4
  <2> HIDE DEF h, l
  <2>2. /\ WrittenTo(p, i - 1) = W(h - 1) - W(k) /\ W(h) = W(h - 1) + m[h].written
        /\ W(k) <= W(h - 1) /\ W(h) <= W(b) /\ W(h - 1) \in Nat /\ m[h].written \in Nat
    BY <1>1, <1>6, <1>8, <1>9, <2>1
  <2>3. j \in 1..m[h].written
    BY <2>1
  <2>4. (W(h - 1) - W(k)) + j \in 1..W(b) - W(k) /\ W(k) + ((W(h - 1) - W(k)) + j) = W(h - 1) + j
    <3> DEFINE y == W(h - 1)
               z == m[h].written
               u == W(k)
               v == W(b)
    <3>1. y + z <= v /\ y \in Nat /\ z \in Nat /\ u \in Nat /\ v \in Nat /\ u <= y /\ j \in 1..z
      BY <1>11, <2>2, <2>3
    <3> HIDE DEF y, z, u, v
    <3>2. Inside(y, u, v, j)
      BY <3>1, Between, Zenon
    <3> QED
      BY <3>2 DEF Inside, y, u, v
  <2>5. WrittenTo(p, i - 1) + j \in 1..W(b) - W(k) /\ W(k) + (WrittenTo(p, i - 1) + j) = W(h - 1) + j
    BY <2>2, <2>4
  <2>6. s[WrittenTo(p, i - 1) + j] = C[W(h - 1) + j]
    BY <1>12, <2>5
  <2>7. C[W(h - 1) + j] = m[h].data[j]
    BY <1>10, <2>1, <2>3
  <2> QED
    BY <2>1, <2>6, <2>7
<1>14. ContentTo(p, Len(p)) = s
  <2>1. Len(s) = Written(p)
    BY <1>7, <1>12
  <2> QED
    BY <1>2, <1>5, <1>12, <1>13, <2>1, RoughHolds, ContentIs
<1> QED
  BY <1>2, <1>3, <1>5, <1>6, <1>7, <1>14 DEF Sliced, W, C, s

\* r is q without the first d of the bytes read.
Shrunk(r, q, d) ==
  /\ d \in 0..ReadPos(q) /\ Good(r) /\ Full(r) /\ r.avail = q.avail
  /\ Content(r) = SubSeq(Content(q), d + 1, Len(Content(q)))

Update(q, p, x, y, o) == [q EXCEPT !.m_q = p, !.rd = x, !.wr = y, !.off = o]
Whole(q, p, x, y, o) == [m_q |-> p, wr |-> y, rd |-> x, off |-> o, avail |-> q.avail]

\* The record that an update makes.
LEMMA Updated ==
  ASSUME NEW q \in Queue, NEW p, NEW x, NEW y, NEW o
  PROVE  Update(q, p, x, y, o) = Whole(q, p, x, y, o)
<1> DEFINE t == [q EXCEPT !.m_q = p, !.rd = x, !.wr = y, !.off = o]
           s == [m_q |-> p, wr |-> y, rd |-> x, off |-> o, avail |-> q.avail]
<1>1. DOMAIN q = {"m_q", "wr", "rd", "off", "avail"}
  BY DEF Queue
<1>2. DOMAIN t = {"m_q", "wr", "rd", "off", "avail"}
  BY <1>1
<1>3. DOMAIN s = {"m_q", "wr", "rd", "off", "avail"}
  OBVIOUS
<1>4. t.m_q = s.m_q /\ t.wr = s.wr /\ t.rd = s.rd /\ t.off = s.off /\ t.avail = s.avail
  BY <1>1
<1>5. t = [f \in {"m_q", "wr", "rd", "off", "avail"} |-> t[f]]
  BY <1>1
<1>6. s = [f \in {"m_q", "wr", "rd", "off", "avail"} |-> s[f]]
  OBVIOUS
<1> HIDE DEF t, s
<1>7. \A f \in {"m_q", "wr", "rd", "off", "avail"} : t[f] = s[f]
  BY <1>4
<1>8. t = s
  BY <1>5, <1>6, <1>7
<1> QED
  BY <1>8 DEF t, s, Update, Whole

\* shrink() frees only what was read, and the cursors stay right.
LEMMA ShrinkIs ==
  ASSUME NEW q, Good(q), Full(q)
  PROVE  \E d : Shrunk(shrink(q), q, d)
<1> DEFINE m == q.m_q
           n == Len(m)
           R == q.rd
           k == IF R = End THEN n ELSE R - 1
           p == SubSeq(m, k + 1, n)
           back(i) == IF i = End THEN End ELSE i - k
           lens == [i \in DOMAIN m |-> m[i].len]
           o == q.off - SumTo(lens, k)
           s == [m_q |-> p, wr |-> back(q.wr), rd |-> back(R), off |-> o, avail |-> q.avail]
           r == shrink(q)
           gone == /\ s.rd # End /\ s.wr # End /\ s.rd = s.wr
                   /\ block_read_avail(s.m_q[s.rd]) = 0 /\ write_avail(s.m_q[s.rd]) = 0
<1>1. /\ q \in Queue /\ m \in Seq(Block) /\ n \in Nat /\ GoodBlocks(m) /\ RoughBlocks(m)
      /\ q.wr \in 0..n /\ R \in 0..n /\ (R = End <=> n = 0) /\ q.off \in Int /\ q.avail \in Nat
      /\ q.wr # End => R <= q.wr
  BY QueueTypes, BlockTypes, GoodRough DEF Good, Shape, Reader
<1>2. r = IF gone THEN NewQueue ELSE s
  <2>1. q \in Queue
    BY <1>1
  <2> DEFINE t == [q EXCEPT !.m_q = p, !.rd = back(@), !.wr = back(@), !.off = @ - SumTo(lens, k)]
  <2>2. r = IF /\ t.rd # End /\ t.wr # End /\ t.rd = t.wr
               /\ block_read_avail(t.m_q[t.rd]) = 0 /\ write_avail(t.m_q[t.rd]) = 0
            THEN NewQueue ELSE t
    BY DEF shrink
  <2> DEFINE x == back(R)
             y == back(q.wr)
  <2> HIDE DEF p, lens, m
  <2>3. t = s
    <3>1. t = [q EXCEPT !.m_q = p, !.rd = x, !.wr = y, !.off = o]
      OBVIOUS
    <3>2. s = [m_q |-> p, wr |-> y, rd |-> x, off |-> o, avail |-> q.avail]
      OBVIOUS
    <3> HIDE DEF t, s, x, y, o
    <3>3. Update(q, p, x, y, o) = Whole(q, p, x, y, o)
      BY <2>1, Updated, Zenon
    <3> QED
      BY <3>1, <3>2, <3>3, Zenon DEF Update, Whole
  <2> HIDE DEF t, s, r
  <2> QED
    BY <2>2, <2>3
<1>3. k \in 0..n /\ n \in 0..n
  BY <1>1 DEF End
<1>4. o \in Int
  <2>1. lens \in Seq(Int) /\ Len(lens) = n
    <3>1. DOMAIN m = 1..n /\ \A i \in 1..n : m[i].len \in Int
      BY <1>1, BlockTypes
    <3> QED
      BY <1>1, <3>1
  <2>2. SumTo(lens, k) \in Int
    BY <1>3, <2>1, SumSteps
  <2> QED
    BY <1>1, <2>2
<1> HIDE DEF o, lens
<1>5. Sliced(p, m, k, n)
  BY <1>1, <1>3, Slice
<1>6. /\ q.avail = Written(m) - ReadPos(q) /\ (q.avail > 0 => m[R].read < m[R].written)
      /\ ReadPos(q) = IF R = End THEN 0 ELSE WrittenTo(m, R - 1) + m[R].read
      /\ \A i \in 1..n : i > R => m[i].read = 0
      /\ q.wr # End => \A i \in 1..n : i > q.wr => m[i].written = 0
      /\ q.wr # End => \A i \in 1..n : ~m[i].ref /\ (i < q.wr => m[i].written = m[i].len)
  BY DEF Good, Shape, Reader, ReadPos, Full
<1>7. Content(q) = ContentTo(m, Len(m)) /\ Len(Content(q)) = Written(m) /\ Content(q) \in Seq(Byte)
  BY ReadPosIs DEF Content
<1>8. q.rd # End => /\ b_read_avail(q) = m[R].written - m[R].read
                    /\ q.avail > 0 => b_read_avail(q) > 0
  BY ReadAvail
<1>r. R # End => m[R].read \in Nat /\ m[R].written \in Nat
  BY <1>1, BlockTypes DEF End
<1> HIDE DEF m, n, R, r
<1>9. /\ WrittenTo(m, k) \in Nat /\ Written(m) \in Nat /\ WrittenTo(m, n) = Written(m)
      /\ WrittenTo(m, k) <= Written(m) /\ WrittenTo(m, 0) = 0
  BY <1>1, <1>3, WrittenAll, WrittenSteps DEF Written, n
<1>10. /\ p \in Seq(Block) /\ Len(p) = n - k /\ \A i \in 1..n - k : p[i] = m[k + i]
       /\ GoodBlocks(p) /\ Written(p) = Written(m) - WrittenTo(m, k)
       /\ ContentTo(p, Len(p)) = SubSeq(ContentTo(m, Len(m)), WrittenTo(m, k) + 1, WrittenTo(m, n))
  BY <1>1, <1>5, <1>9 DEF Sliced
<1>11. n - k \in Nat /\ (R = End => k = n) /\ (R # End => k = R - 1) /\ k \in Nat
  BY <1>1, <1>3
<1> HIDE DEF p, k
<1>12. /\ back(q.wr) \in 0..n - k /\ back(R) \in 0..n - k
       /\ R # End => back(R) = 1 /\ n - k # 0
       /\ R = End => back(R) = 0 /\ back(q.wr) = 0 /\ n - k = 0
       /\ q.wr # End => back(q.wr) = q.wr - k /\ q.wr - k # 0
       /\ q.wr = End => back(q.wr) = 0
  BY <1>1, <1>11 DEF End
<1> HIDE DEF back
<1>13. /\ s \in Queue /\ s.m_q = p /\ s.wr = back(q.wr) /\ s.rd = back(R) /\ s.avail = q.avail
  BY <1>1, <1>4, <1>10, <1>11, <1>12 DEF Queue
<1> HIDE DEF s
<1>14. Shape(s) /\ Full(s)
  <2>1. ASSUME s.wr # End PROVE q.wr # End /\ s.wr = q.wr - k
    BY <1>12, <1>13, <2>1 DEF End
  <2>2. \A i \in 1..Len(p) : k + i \in 1..n /\ (i < q.wr - k => k + i < q.wr) /\ (i > q.wr - k => k + i > q.wr)
    BY <1>1, <1>3, <1>10, <1>11
  <2>3. Shape(s)
    BY <1>6, <1>10, <1>12, <1>13, <2>1, <2>2 DEF Shape
  <2>4. Full(s)
    BY <1>6, <1>10, <1>13, <2>1, <2>2 DEF Full
  <2> QED
    BY <2>3, <2>4
<1>15. Reader(s) /\ ReadPos(q) \in Nat /\ WrittenTo(m, k) <= ReadPos(q)
  <2>1. CASE R = End
    <3>1. Written(m) = 0 /\ ReadPos(q) = 0 /\ q.avail = 0 /\ WrittenTo(m, k) = 0
      BY <1>1, <1>6, <1>9, <1>11, <2>1
    <3>2. s.rd = 0 /\ s.wr = 0 /\ Len(p) = 0 /\ s.avail = 0
      BY <1>10, <1>12, <1>13, <2>1, <3>1
    <3>3. ReadPos(s) = 0
      BY <3>2 DEF ReadPos, End
    <3>4. Written(p) - ReadPos(s) = 0
      BY <1>10, <3>1, <3>3
    <3>5. Reader(s)
      BY <1>13, <3>2, <3>4 DEF Reader, End
    <3> QED
      BY <3>1, <3>5
  <2>2. CASE R # End
    <3> DEFINE one == 1
    <3>1. s.rd = one /\ one \in 1..n - k /\ one # End /\ one - 1 = 0 /\ k + one = R /\ one \in 0..n - k
          /\ Len(p) # 0
      BY <1>1, <1>10, <1>11, <1>12, <1>13, <2>2 DEF End
    <3>o. \A i \in 1..n - k : ~(i < one)
      BY <1>11
    <3> HIDE DEF one
    <3>2. p[one] = m[R]
      BY <1>10, <3>1
    <3>3. WrittenTo(p, 0) = 0
      BY <1>10, WrittenSteps
    <3>4. ReadPos(s) = m[R].read
      <4>1. ReadPos(s) = WrittenTo(p, one - 1) + p[one].read
        BY <1>13, <3>1 DEF ReadPos
      <4>2. m[R].read \in Nat
        BY <1>r, <2>2
      <4> QED
        BY <3>1, <3>2, <3>3, <4>1, <4>2
    <3>5. ReadPos(q) = WrittenTo(m, k) + m[R].read /\ m[R].read \in Nat
      BY <1>6, <1>r, <1>11, <2>2
    <3>6. s.avail = Written(p) - ReadPos(s)
      BY <1>6, <1>9, <1>10, <1>13, <3>4, <3>5
    <3>7. s.avail > 0 => p[s.rd].read < p[s.rd].written
      BY <1>6, <1>13, <3>1, <3>2
    <3>8. \A i \in 1..Len(p) : i > s.rd => p[i].read = 0
      <4>1. \A i \in 1..n - k : i > one => k + i > R /\ k + i \in 1..n
        BY <1>1, <1>3, <1>11, <3>1 DEF one
      <4> QED
        BY <1>6, <1>10, <3>1, <4>1
    <3>9. s.wr # End => s.rd <= s.wr
      BY <1>1, <1>11, <1>12, <1>13, <2>2, <3>1 DEF End
    <3>10. Reader(s)
      BY <1>10, <1>13, <3>o, <3>1, <3>6, <3>7, <3>8, <3>9 DEF Reader
    <3>11. ReadPos(q) \in Nat /\ WrittenTo(m, k) <= ReadPos(q)
      BY <1>9, <3>5
    <3> QED
      BY <3>10, <3>11
  <2> QED
    BY <2>1, <2>2
<1>16. Shrunk(s, q, WrittenTo(m, k))
  <2>1. WrittenTo(m, k) \in 0..ReadPos(q)
    BY <1>9, <1>15
  <2>2. Content(s) = SubSeq(Content(q), WrittenTo(m, k) + 1, Len(Content(q)))
    BY <1>7, <1>9, <1>10, <1>13 DEF Content
  <2> QED
    BY <1>13, <1>14, <1>15, <2>1, <2>2 DEF Shrunk, Good
<1>17. CASE ~gone
  BY <1>2, <1>16, <1>17 DEF r
<1>18. CASE gone
  <2>1. r = NewQueue
    BY <1>2, <1>18
  <2>2. R # End /\ block_read_avail(p[s.rd]) = 0 /\ s.rd = 1
    BY <1>12, <1>13, <1>18 DEF End
  <2>3. p[1] = m[R]
    <3>1. 1 \in 1..n - k /\ k + 1 = R
      BY <1>1, <1>11, <1>12, <2>2 DEF End
    <3> QED
      BY <1>10, <3>1
  <2>4. m[R].written - m[R].read = 0
    BY <2>2, <2>3 DEF block_read_avail
  <2>5. q.avail = 0
    <3>1. b_read_avail(q) = 0
      BY <1>8, <2>2, <2>4 DEF R
    <3> QED
      BY <1>1, <1>8, <2>2, <3>1 DEF R
  <2>6. ReadPos(q) = Written(m)
    BY <1>6, <1>9, <1>15, <2>5
  <2>7. Emptied(r)
    BY <2>1, NewQueueGood
  <2>8. SubSeq(Content(q), Written(m) + 1, Len(Content(q))) = << >>
    BY <1>7, <1>9, SubSeqEmpty
  <2>9. Written(m) \in 0..ReadPos(q)
    BY <1>9, <2>6
  <2>10. Shrunk(r, q, Written(m))
    BY <2>5, <2>7, <2>8, <2>9 DEF Shrunk, Emptied, Fit
  <2> QED
    BY <2>10 DEF r
<1> QED
  BY <1>17, <1>18

-----------------------------------------------------------------------------
(* split() and join_ref() *)

\* p is the blocks of m, then those of l.
Joined(p, m, l) ==
  /\ p \in Seq(Block) /\ Len(p) = Len(m) + Len(l)
  /\ \A i \in 1..Len(m) : p[i] = m[i]
  /\ \A i \in 1..Len(l) : p[Len(m) + i] = l[i]
  /\ RoughBlocks(p) /\ (GoodBlocks(m) /\ GoodBlocks(l) => GoodBlocks(p))
  /\ \A i \in 0..Len(m) : WrittenTo(p, i) = WrittenTo(m, i)
  /\ Written(p) = Written(m) + Written(l)
  /\ ContentTo(p, Len(p)) = ContentTo(m, Len(m)) \o ContentTo(l, Len(l))

\* The bytes of two lists of blocks, of which the first has no empty one.
LEMMA JoinBlocks ==
  ASSUME NEW m \in Seq(Block), NEW l \in Seq(Block), RoughBlocks(m), RoughBlocks(l),
         \A i \in 1..Len(m) : m[i].written > 0, NEW p, p = m \o l
  PROVE  Joined(p, m, l)
<1> DEFINE n == Len(m)
           h == Len(l)
<1>1. n \in Nat /\ h \in Nat
  BY BlockTypes
<1>2. p \in Seq(Block) /\ IsJoin(p, m, l)
  BY Concat
<1>3. /\ Len(p) = n + h /\ \A i \in 1..n : p[i] = m[i]
      /\ \A i \in 1..h : p[n + i] = l[i]
  BY <1>2 DEF IsJoin
<1> HIDE DEF n, h
<1>4. \A i \in 1..Len(p) : i \in 1..n \/ (i > n /\ i - n \in 1..h /\ n + (i - n) = i)
  BY <1>1, <1>3
<1>5. \A i \in 1..Len(p) : i > n => p[i] = l[i - n]
  BY <1>1, <1>3, <1>4
<1>6. RoughBlocks(p) /\ (GoodBlocks(m) /\ GoodBlocks(l) => GoodBlocks(p))
  <2>1. Contig(p)
    <3> SUFFICES ASSUME NEW i \in 1..Len(p), NEW j \in 1..Len(p), i < j, p[j].written > 0
                 PROVE  p[i].written > 0
      BY DEF Contig
    <3>1. CASE i \in 1..n
      BY <1>3, <3>1 DEF n
    <3>2. CASE i > n
      <4>1. j > n /\ i - n < j - n /\ i - n \in 1..h /\ j - n \in 1..h
        BY <1>1, <1>3, <1>4, <3>2
      <4>2. l[j - n].written > 0
        BY <1>5, <4>1
      <4>3. l[i - n].written > 0
        BY <4>1, <4>2 DEF RoughBlocks, Contig, h
      <4> QED
        BY <1>5, <3>2, <4>3
    <3> QED
      BY <1>4, <3>1, <3>2
  <2>2. \A i \in 1..Len(p) : RoughBlock(p[i])
    BY <1>3, <1>4, <1>5 DEF RoughBlocks, n, h
  <2>3. GoodBlocks(m) /\ GoodBlocks(l) => \A i \in 1..Len(p) : GoodBlock(p[i])
    BY <1>3, <1>4, <1>5 DEF GoodBlocks, n, h
  <2> QED
    BY <2>1, <2>2, <2>3 DEF RoughBlocks, GoodBlocks
<1>7. \A i \in 0..n : WrittenTo(p, i) = WrittenTo(m, i)
  <2>1. n \in 0..Len(p) /\ n <= Len(m) /\ \A j \in 1..n : p[j].written = m[j].written
    BY <1>1, <1>3 DEF n
  <2> QED
    BY <1>2, <2>1, WrittenSame
<1>8. \A j \in 0..h : WrittenTo(l, j) = WrittenTo(p, n + j) - WrittenTo(p, n)
  <2>1. /\ n \in 0..Len(p) /\ h \in 0..Len(l) /\ n + h <= Len(p)
        /\ \A j \in 1..h : l[j].written = p[n + j].written
    BY <1>1, <1>3 DEF h
  <2> QED
    BY <1>2, <2>1, WrittenPart
<1>9. /\ \A i \in 0..n : WrittenTo(m, i) \in Nat
      /\ \A i \in 1..n : WrittenTo(m, i) = WrittenTo(m, i - 1) + m[i].written
      /\ \A i \in 0..n : WrittenTo(m, i) <= Written(m)
      /\ WrittenTo(m, n) = Written(m) /\ Written(m) \in Nat /\ Written(l) \in Nat
      /\ \A i \in 1..n : m[i].written \in Nat
  BY WrittenSteps, WrittenAll, BlockTypes DEF n, Written
<1>10. /\ \A j \in 0..h : WrittenTo(p, n + j) = Written(m) + WrittenTo(l, j)
       /\ \A j \in 0..h : WrittenTo(l, j) \in Nat /\ WrittenTo(l, j) <= Written(l)
       /\ \A j \in 1..h : WrittenTo(l, j) = WrittenTo(l, j - 1) + l[j].written
       /\ \A j \in 1..h : l[j].written \in Nat
       /\ WrittenTo(l, h) = Written(l)
  <2>1. \A i \in 0..Len(p) : WrittenTo(p, i) \in Nat
    BY <1>2, WrittenSteps
  <2>2. \A j \in 0..h : n + j \in 0..Len(p)
    BY <1>1, <1>3
  <2>3. n \in 0..n
    BY <1>1
  <2>4. WrittenTo(p, n) = Written(m)
    BY <1>7, <1>9, <2>3
  <2>5. /\ \A j \in 0..h : WrittenTo(l, j) \in Nat /\ WrittenTo(l, j) <= Written(l)
        /\ \A j \in 1..h : WrittenTo(l, j) = WrittenTo(l, j - 1) + l[j].written
        /\ \A j \in 1..h : l[j].written \in Nat
        /\ WrittenTo(l, h) = Written(l)
    BY WrittenSteps, WrittenAll, BlockTypes DEF h, Written
  <2>6. \A j \in 0..h : WrittenTo(p, n + j) = Written(m) + WrittenTo(l, j)
    BY <1>8, <1>9, <2>1, <2>2, <2>4, <2>5
  <2> QED
    BY <2>5, <2>6
<1>11. Written(p) = Written(m) + Written(l)
  <2>1. h \in 0..h
    BY <1>1
  <2> QED
    BY <1>3, <1>10, <2>1 DEF Written
<1> DEFINE c == ContentTo(m, Len(m))
           d == ContentTo(l, Len(l))
           s == c \o d
<1>12. /\ c \in Seq(Byte) /\ Len(c) = Written(m)
       /\ \A i \in 1..n : \A j \in 1..m[i].written : c[WrittenTo(m, i - 1) + j] = m[i].data[j]
  BY RoughHolds, ContentBytes DEF n
<1>13. /\ d \in Seq(Byte) /\ Len(d) = Written(l)
       /\ \A i \in 1..h : \A j \in 1..l[i].written : d[WrittenTo(l, i - 1) + j] = l[i].data[j]
  BY RoughHolds, ContentBytes DEF h
<1> HIDE DEF c, d
<1>14. s \in Seq(Byte) /\ IsJoin(s, c, d)
  BY <1>12, <1>13, Concat
<1> HIDE DEF s
<1>15. /\ Len(s) = Written(m) + Written(l) /\ \A x \in 1..Written(m) : s[x] = c[x]
       /\ \A x \in 1..Written(l) : s[Written(m) + x] = d[x]
  BY <1>12, <1>13, <1>14 DEF IsJoin
<1>16. ASSUME NEW i \in 1..n, NEW j \in 1..m[i].written
       PROVE  s[WrittenTo(p, i - 1) + j] = m[i].data[j]
  <2>1. /\ i - 1 \in 0..n /\ i \in 0..n
    BY <1>1
  <2>2. /\ WrittenTo(p, i - 1) = WrittenTo(m, i - 1) /\ WrittenTo(m, i - 1) \in Nat
        /\ WrittenTo(m, i) = WrittenTo(m, i - 1) + m[i].written /\ WrittenTo(m, i) <= Written(m)
        /\ m[i].written \in Nat /\ Written(m) \in Nat
    BY <1>7, <1>9, <2>1
  <2>3. WrittenTo(m, i - 1) + j \in 1..Written(m)
    BY <2>2, SMTT(60)
  <2> QED
    BY <1>12, <1>15, <2>2, <2>3
<1>17. ASSUME NEW i \in 1..h, NEW j \in 1..l[i].written
       PROVE  s[WrittenTo(p, n + (i - 1)) + j] = l[i].data[j]
  <2>1. i - 1 \in 0..h /\ i \in 0..h
    BY <1>1
  <2> DEFINE y == WrittenTo(l, i - 1)
             z == l[i].written
  <2>2. /\ WrittenTo(p, n + (i - 1)) = Written(m) + y /\ y \in Nat
        /\ y + z <= Written(l) /\ z \in Nat /\ Written(l) \in Nat /\ Written(m) \in Nat
    <3>1. WrittenTo(l, i) = y + z /\ WrittenTo(l, i) <= Written(l)
      BY <1>10, <2>1
    <3> QED
      BY <1>9, <1>10, <2>1, <3>1
  <2>3. j \in 1..z
    OBVIOUS
  <2>4. d[y + j] = l[i].data[j]
    BY <1>13
  <2> HIDE DEF y, z
  <2>5. y + j \in 1..Written(l) /\ (Written(m) + y) + j = Written(m) + (y + j)
    BY <2>2, <2>3
  <2> QED
    BY <1>15, <2>2, <2>4, <2>5
<1>18. ASSUME NEW i \in 1..Len(p), NEW j \in 1..p[i].written
       PROVE  s[WrittenTo(p, i - 1) + j] = p[i].data[j]
  <2>1. CASE i \in 1..n
    BY <1>3, <1>16, <2>1, ZenonT(60)
  <2>2. CASE i > n
    <3>1. i - n \in 1..h /\ n + ((i - n) - 1) = i - 1
      BY <1>1, <1>4, <2>2
    <3>2. p[i] = l[i - n]
      BY <1>5, <2>2
    <3>3. s[WrittenTo(p, n + ((i - n) - 1)) + j] = l[i - n].data[j]
      BY <1>17, <3>1, <3>2
    <3> QED
      BY <3>1, <3>2, <3>3
  <2> QED
    BY <1>4, <2>1, <2>2
<1>19. ContentTo(p, Len(p)) = s
  BY <1>2, <1>6, <1>11, <1>14, <1>15, <1>18, RoughHolds, ContentIs
<1> QED
  BY <1>2, <1>3, <1>6, <1>7, <1>11, <1>19 DEF Joined, c, d, s, n, h

\* p refers to the bytes of m.
Refers(p, m) ==
  /\ p \in Seq(Block) /\ Len(p) = Len(m) /\ GoodBlocks(p)
  /\ \A i \in 1..Len(p) : p[i].read = 0
  /\ Written(p) = Written(m) /\ ContentTo(p, Len(p)) = ContentTo(m, Len(m))

\* Blocks that refer to others have the same bytes, none of them read.
LEMMA RefsAre ==
  ASSUME NEW m \in Seq(Block), GoodBlocks(m), NEW p, p = EachBlock(RefBlock, m)
  PROVE  Refers(p, m)
<1> DEFINE n == Len(m)
           f == [i \in DOMAIN m |-> RefBlock(m[i])]
<1>1. /\ n \in Nat /\ DOMAIN m = 1..n
      /\ \A i \in 1..n : /\ m[i] \in Block /\ GoodBlock(m[i])
                         /\ m[i].written \in Nat /\ m[i].len \in Nat /\ m[i].data \in Seq(Byte)
  BY BlockTypes DEF GoodBlocks
<1>2. p = SubSeq(f, 1, n)
  BY DEF EachBlock
<1>3. ASSUME NEW b \in Block, GoodBlock(b)
      PROVE  /\ RefBlock(b) \in Block /\ RefBlock(b).read = 0 /\ GoodBlock(RefBlock(b))
             /\ RefBlock(b).written = b.written
             /\ \A j \in 1..b.written : RefBlock(b).data[j] = b.data[j]
  <2> DEFINE d == SubSeq(b.data, 1, b.written)
  <2>1. b.written \in Nat /\ b.data \in Seq(Byte) /\ b.written \in 0..Len(b.data)
    BY <1>3 DEF Block, GoodBlock
  <2>2. d \in Seq(Byte) /\ IsPart(d, b.data, 1, b.written)
    BY <2>1, Part
  <2>3. Len(d) = b.written /\ \A j \in 1..b.written : d[j] = b.data[j]
    BY <2>1, <2>2 DEF IsPart
  <2>4. RefBlock(b) = [len |-> b.written, written |-> b.written, read |-> 0, ref |-> TRUE, data |-> d]
    BY DEF RefBlock
  <2> HIDE DEF d
  <2>5. RefBlock(b) \in Block
    BY <2>1, <2>2, <2>4 DEF Block
  <2> QED
    BY <2>1, <2>3, <2>4, <2>5 DEF GoodBlock
<1>4. p \in Seq(Block) /\ Len(p) = n /\ \A i \in 1..n : p[i] = RefBlock(m[i])
  <2>1. f \in [1..n -> Block] /\ \A i \in 1..n : f[i] = RefBlock(m[i])
    BY <1>1, <1>3
  <2> HIDE DEF f
  <2> QED
    BY <1>1, <1>2, <2>1, Listed
<1> HIDE DEF n
<1>5. \A i \in 1..n : /\ p[i].read = 0 /\ GoodBlock(p[i]) /\ p[i].written = m[i].written
                      /\ \A j \in 1..m[i].written : p[i].data[j] = m[i].data[j]
  <2> SUFFICES ASSUME NEW i \in 1..n
               PROVE  /\ p[i].read = 0 /\ GoodBlock(p[i]) /\ p[i].written = m[i].written
                      /\ \A j \in 1..m[i].written : p[i].data[j] = m[i].data[j]
    OBVIOUS
  <2> DEFINE b == m[i]
             c == RefBlock(b)
  <2>1. b \in Block /\ GoodBlock(b) /\ p[i] = c
    BY <1>1, <1>4
  <2> HIDE DEF b
  <2>2. /\ c.read = 0 /\ GoodBlock(c) /\ c.written = b.written
        /\ \A j \in 1..b.written : c.data[j] = b.data[j]
    BY <1>3, <2>1
  <2> HIDE DEF c
  <2> QED
    BY <2>1, <2>2 DEF b
<1>6. GoodBlocks(p)
  BY <1>4, <1>5 DEF GoodBlocks, Contig, n
<1>7. \A i \in 0..n : WrittenTo(p, i) = WrittenTo(m, i)
  <2>1. n \in 0..Len(p) /\ n <= Len(m)
    BY <1>1, <1>4 DEF n
  <2> QED
    BY <1>4, <1>5, <2>1, WrittenSame
<1>8. Written(p) = Written(m)
  <2>1. n \in 0..n
    BY <1>1
  <2> QED
    BY <1>4, <1>7, <2>1 DEF Written, n
<1> DEFINE s == ContentTo(m, Len(m))
<1>9. /\ s \in Seq(Byte) /\ Len(s) = Written(m)
      /\ \A i \in 1..n : \A j \in 1..m[i].written : s[WrittenTo(m, i - 1) + j] = m[i].data[j]
  BY GoodHolds, ContentBytes DEF n
<1> HIDE DEF s
<1>10. \A i \in 1..Len(p) : \A j \in 1..p[i].written : s[WrittenTo(p, i - 1) + j] = p[i].data[j]
  <2>1. \A i \in 1..n : WrittenTo(p, i - 1) = WrittenTo(m, i - 1)
    BY <1>1, <1>7
  <2> QED
    BY <1>4, <1>5, <1>9, <2>1, SMTT(60)
<1>11. ContentTo(p, Len(p)) = s
  BY <1>4, <1>6, <1>8, <1>9, <1>10, GoodHolds, ContentIs
<1> QED
  BY <1>4, <1>5, <1>6, <1>8, <1>11 DEF Refers, s, n

\* r is q followed by all of t.
Followed(r, q, t) ==
  /\ Good(r) /\ Full(r) /\ r.avail = q.avail + Written(t.m_q)
  /\ Content(r) = Content(q) \o Content(t)

\* join_ref() adds the bytes of another queue, which are read after its own.
LEMMA JoinRefIs ==
  ASSUME NEW q, Good(q), NoEmpty(q), q.avail > 0, NEW t, Good(t), NEW r, r = join_ref(q, t)
  PROVE  Followed(r, q, t)
<1> DEFINE m == q.m_q
           refs == EachBlock(RefBlock, t.m_q)
           p == m \o refs
           w == Written(refs)
           n == Len(m)
           R == q.rd
<1>1. /\ q \in Queue /\ m \in Seq(Block) /\ n \in Nat /\ GoodBlocks(m) /\ RoughBlocks(m)
      /\ q.off \in Int /\ q.avail \in Nat
      /\ R \in 0..n /\ (R = End <=> n = 0)
      /\ \A i \in 1..n : m[i].written > 0
  BY QueueTypes, BlockTypes, GoodRough DEF Good, Shape, Reader, NoEmpty
<1>2. R \in 1..n /\ R # End
  BY <1>1, ReadPosIs DEF End
<1>3. /\ \A i \in 1..n : i < R => m[i].read = m[i].written
      /\ \A i \in 1..n : i > R => m[i].read = 0
      /\ q.avail = Written(m) - (WrittenTo(m, R - 1) + m[R].read)
      /\ m[R].read < m[R].written
  BY <1>2 DEF Good, Reader, ReadPos
<1>4. t.m_q \in Seq(Block) /\ GoodBlocks(t.m_q)
  BY QueueTypes DEF Good, Shape
<1>5. r = [q EXCEPT !.m_q = p, !.wr = End, !.off = @ + w, !.avail = @ + w]
  BY DEF join_ref
<1>6. Refers(refs, t.m_q)
  BY <1>4, RefsAre
<1> HIDE DEF refs
<1>7. /\ refs \in Seq(Block) /\ GoodBlocks(refs) /\ RoughBlocks(refs)
      /\ \A i \in 1..Len(refs) : refs[i].read = 0
      /\ w = Written(t.m_q) /\ ContentTo(refs, Len(refs)) = Content(t)
  BY <1>6, GoodRough DEF Refers, Content
<1>8. Joined(p, m, refs)
  BY <1>1, <1>7, JoinBlocks
<1>9. Written(m) \in Nat /\ w \in Nat /\ Len(refs) \in Nat
  BY <1>1, <1>7, WrittenAll, BlockTypes
<1>c. Content(q) = ContentTo(m, Len(m))
  BY DEF Content
<1> HIDE DEF p, w, m, n, R
<1>10. /\ p \in Seq(Block) /\ Len(p) = n + Len(refs) /\ GoodBlocks(p)
       /\ \A i \in 1..n : p[i] = m[i]
       /\ \A i \in 1..Len(refs) : p[n + i] = refs[i]
       /\ \A i \in 0..n : WrittenTo(p, i) = WrittenTo(m, i)
       /\ Written(p) = Written(m) + w
  BY <1>1, <1>7, <1>8 DEF Joined, n, w
<1>d. ContentTo(p, Len(p)) = ContentTo(m, Len(m)) \o ContentTo(refs, Len(refs))
  BY <1>8 DEF Joined
<1>11. /\ r.m_q = p /\ r.wr = End /\ r.rd = R /\ r.off = q.off + w /\ r.avail = q.avail + w
       /\ r \in Queue
  <2> DEFINE o == q.off + w
             v == q.avail + w
             e == End
  <2>1. o \in Int /\ v \in Nat /\ e \in Nat
    BY <1>1, <1>9 DEF End
  <2>2. r = [q EXCEPT !.m_q = p, !.wr = e, !.off = o, !.avail = v]
    BY <1>5
  <2>3. p \in Seq(Block) /\ q \in Queue
    BY <1>1, <1>10
  <2> HIDE DEF o, v, e
  <2>4. /\ r.m_q = p /\ r.wr = e /\ r.rd = q.rd /\ r.off = o /\ r.avail = v /\ r \in Queue
    BY <2>1, <2>2, <2>3 DEF Queue
  <2> QED
    BY <2>4 DEF o, v, e, R
<1>12. Shape(r) /\ Full(r)
  BY <1>1, <1>9, <1>10, <1>11 DEF Shape, Full, End
<1>13. Reader(r)
  <2>1. R \in 0..Len(p) /\ Len(p) # 0 /\ R \in 0..n /\ R - 1 \in 0..n
    BY <1>1, <1>2, <1>9, <1>10
  <2>2. p[R] = m[R]
    BY <1>2, <1>10
  <2>3. ReadPos(r) = WrittenTo(m, R - 1) + m[R].read
    BY <1>2, <1>10, <1>11, <2>1, <2>2 DEF ReadPos
  <2>4. r.avail = Written(p) - ReadPos(r)
    <3>1. WrittenTo(m, R - 1) \in Nat /\ m[R].read \in Nat
      BY <1>1, <1>2, <2>1, WrittenSteps, BlockTypes DEF n
    <3>2. /\ r.avail = q.avail + w /\ Written(p) = Written(m) + w
          /\ q.avail = Written(m) - (WrittenTo(m, R - 1) + m[R].read)
      BY <1>3, <1>10, <1>11
    <3> QED
      BY <1>9, <2>3, <3>1, <3>2
  <2>5. \A i \in 1..Len(p) : i \in 1..n \/ (i > n /\ i - n \in 1..Len(refs) /\ n + (i - n) = i)
    BY <1>1, <1>9, <1>10
  <2>6. \A i \in 1..Len(p) : i < R => p[i].read = p[i].written
    <3>1. \A i \in 1..Len(p) : i < R => i \in 1..n
      BY <1>1, <1>2, <1>9, <1>10
    <3> QED
      BY <1>3, <1>10, <3>1
  <2>7. \A i \in 1..Len(p) : i > R => p[i].read = 0
    <3>1. \A i \in 1..Len(p) : i \in 1..n \/ p[i].read = 0
      <4>1. \A i \in 1..Len(p) : i > n => p[i] = refs[i - n] /\ i - n \in 1..Len(refs)
        BY <1>1, <1>10, <2>5
      <4> QED
        BY <1>7, <2>5, <4>1
    <3> QED
      BY <1>3, <1>10, <3>1
  <2>8. p[R].read < p[R].written
    BY <1>3, <2>2
  <2> QED
    BY <1>2, <1>11, <2>1, <2>4, <2>6, <2>7, <2>8 DEF Reader
<1>14. Content(r) = Content(q) \o Content(t)
  BY <1>7, <1>11, <1>c, <1>d DEF Content
<1> QED
  BY <1>7, <1>11, <1>12, <1>13, <1>14 DEF Followed, Good

\* i is the block of the byte after the first off.
IsBlockAt(i, m, off) ==
  /\ i \in 1..Len(m) /\ WrittenTo(m, i - 1) <= off /\ off < WrittenTo(m, i)
  /\ WrittenTo(m, i) = WrittenTo(m, i - 1) + m[i].written
  /\ WrittenTo(m, i - 1) \in Nat /\ m[i].written \in Nat

\* The search of split() ends at the block of the offset.
LEMMA BlockAtIs ==
  ASSUME NEW q, NEW m \in Seq(Block), m = q.m_q, NEW off \in Nat, off < Written(m)
  PROVE  IsBlockAt(BlockAt(q, off), m, off)
<1> DEFINE P(i) == WrittenTo(m, i - 1) <= off /\ off < WrittenTo(m, i)
           i == BlockAt(q, off)
<1>1. /\ Len(m) \in Nat /\ DOMAIN m = 1..Len(m) /\ Written(m) \in Nat
      /\ \A k \in 1..Len(m) : m[k].written \in Nat
      /\ \A k \in 0..Len(m) : WrittenTo(m, k) \in Nat
      /\ \A k \in 1..Len(m) : WrittenTo(m, k) = WrittenTo(m, k - 1) + m[k].written
  BY BlockTypes, WrittenSteps, WrittenAll
<1>2. i = CHOOSE k \in 1..Len(m) : P(k)
  BY <1>1 DEF BlockAt
<1>3. \E k \in 1..Len(m) : P(k)
  <2>1. off + 1 \in 1..Written(m)
    BY <1>1
  <2>2. PICK k \in 1..Len(m) : \E j \in 1..m[k].written : off + 1 = WrittenTo(m, k - 1) + j
    BY <2>1, ByteAt
  <2>3. PICK j \in 1..m[k].written : off + 1 = WrittenTo(m, k - 1) + j
    BY <2>2
  <2>4. k - 1 \in 0..Len(m) /\ k \in 0..Len(m)
    BY <1>1
  <2>5. /\ WrittenTo(m, k - 1) \in Nat /\ m[k].written \in Nat
        /\ WrittenTo(m, k) = WrittenTo(m, k - 1) + m[k].written
    BY <1>1, <2>4
  <2>6. P(k)
    BY <2>3, <2>5
  <2> QED
    BY <2>6
<1>4. i \in 1..Len(m) /\ P(i)
  <2> HIDE DEF P, i
  <2> QED
    BY <1>2, <1>3
<1> HIDE DEF i
<1>5. i - 1 \in 0..Len(m)
  BY <1>1, <1>4
<1> QED
  BY <1>1, <1>4, <1>5 DEF IsBlockAt, i

\* The block at a split and those before it, the last of them cut to rest bytes.
CutAt(p, m, i, rest) ==
  /\ p \in Seq(Block) /\ Len(p) = i /\ RoughBlocks(p)
  /\ \A j \in 1..i : p[j].len = m[j].len /\ p[j].ref = m[j].ref
  /\ \A j \in 1..i : j < i => p[j].written = m[j].written
  /\ rest > 0 => ContentTo(p, Len(p)) = SubSeq(ContentTo(m, Len(m)), 1, WrittenTo(m, i - 1) + rest)
  /\ ~(rest > 0) => ContentTo(p, Len(p)) = SubSeq(ContentTo(m, Len(m)), 1, WrittenTo(m, i))

\* The last of the first i blocks holds rest of its bytes.
Shortened(p, m, i, rest) ==
  /\ p \in Seq(Block) /\ Len(p) = i
  /\ \A j \in 1..i : j # i => p[j] = m[j]
  /\ p[i].written = rest /\ p[i].len = m[i].len /\ p[i].ref = m[i].ref /\ p[i].data = m[i].data

\* The first i blocks hold bytes, and the first of the content.
LEMMA Shorten ==
  ASSUME NEW m \in Seq(Block), RoughBlocks(m), NEW i \in 1..Len(m),
         NEW rest \in Nat \ {0}, rest <= m[i].written, NEW p, Shortened(p, m, i, rest)
  PROVE  CutAt(p, m, i, rest)
<1> DEFINE W(j) == WrittenTo(m, j)
           off == W(i - 1) + rest
<1>1. /\ Len(m) \in Nat /\ i \in 0..Len(m) /\ i - 1 \in 0..Len(m)
      /\ \A j \in 1..Len(m) : m[j].written \in Nat /\ m[j].len \in Nat
      /\ \A j \in 1..i : j \in 1..Len(m) /\ (j = i \/ j < i) /\ j - 1 \in 0..Len(m)
  BY BlockTypes
<1>2. /\ \A j \in 0..Len(m) : W(j) \in Nat /\ W(j) <= Written(m)
      /\ \A j \in 1..Len(m) : W(j) = W(j - 1) + m[j].written
      /\ Written(m) \in Nat
  BY WrittenSteps, WrittenAll
<1>3. /\ p \in Seq(Block) /\ Len(p) = i
      /\ \A j \in 1..i : j # i => p[j] = m[j]
      /\ p[i].written = rest /\ p[i].len = m[i].len /\ p[i].ref = m[i].ref /\ p[i].data = m[i].data
  BY DEF Shortened
<1>4. \A j \in 1..i : m[j].written > 0
  BY <1>1 DEF RoughBlocks, Contig
<1>5. RoughBlocks(p)
  <2>1. \A j \in 1..i : RoughBlock(m[j])
    BY <1>1 DEF RoughBlocks
  <2>2. RoughBlock(p[i])
    <3>1. RoughBlock(m[i]) /\ m[i].written \in Nat /\ m[i].len \in Nat
      BY <1>1, <2>1
    <3> QED
      BY <1>3, <3>1 DEF RoughBlock
  <2>3. \A j \in 1..i : RoughBlock(p[j]) /\ p[j].written > 0
    BY <1>3, <1>4, <2>1, <2>2
  <2> QED
    BY <1>3, <2>3 DEF RoughBlocks, Contig
<1>6. \A j \in 0..i : j < i => WrittenTo(p, j) = W(j)
  <2>1. i - 1 \in 0..Len(p) /\ i - 1 <= Len(m) /\ \A j \in 1..i - 1 : p[j].written = m[j].written
    BY <1>1, <1>3
  <2>2. \A j \in 0..i - 1 : WrittenTo(p, j) = WrittenTo(m, j)
    BY <1>3, <2>1, WrittenSame
  <2>3. \A j \in 0..i : j < i => j \in 0..i - 1
    BY <1>1
  <2> QED
    BY <2>2, <2>3
<1> HIDE DEF W
<1>7. Written(p) = off
  <2>1. i \in 1..Len(p) /\ i - 1 \in 0..i /\ i - 1 < i
    BY <1>1, <1>3
  <2>2. WrittenTo(p, i) = WrittenTo(p, i - 1) + p[i].written
    BY <1>3, <2>1, WrittenSteps
  <2>3. WrittenTo(p, i - 1) = W(i - 1)
    BY <1>6, <2>1
  <2> QED
    BY <1>3, <2>2, <2>3 DEF Written
<1>8. off \in Nat /\ off <= Written(m)
  <2>1. W(i) = W(i - 1) + m[i].written /\ W(i) <= Written(m) /\ W(i - 1) \in Nat /\ m[i].written \in Nat
    BY <1>1, <1>2
  <2> QED
    BY <1>2, <2>1, SMTT(60)
<1>9. \A k \in 1..i : W(k - 1) + p[k].written <= off /\ p[k].written <= m[k].written
  <2> SUFFICES ASSUME NEW k \in 1..i
               PROVE  W(k - 1) + p[k].written <= off /\ p[k].written <= m[k].written
    OBVIOUS
  <2>1. CASE k = i
    <3>1. W(i - 1) + rest <= W(i - 1) + rest
      BY <1>1, <1>2, SMTT(60)
    <3> QED
      BY <1>3, <2>1, <3>1
  <2>2. CASE k # i
    <3>1. k \in 0..Len(m) /\ i - 1 \in k..Len(m) /\ k \in 1..Len(m)
      BY <1>1, <2>2
    <3>2. W(k) <= W(i - 1) /\ W(k) = W(k - 1) + m[k].written
      BY <1>2, <3>1, WrittenGrows DEF W
    <3>3. W(i - 1) \in Nat /\ W(k) \in Nat /\ m[k].written \in Nat
      BY <1>1, <1>2, <3>1
    <3>4. W(k) <= off
      BY <3>2, <3>3
    <3> QED
      BY <1>3, <2>2, <3>2, <3>3, <3>4
  <2> QED
    BY <2>1, <2>2
<1> HIDE DEF off
<1> DEFINE C == ContentTo(m, Len(m))
           s == SubSeq(C, 1, off)
<1>10. /\ C \in Seq(Byte) /\ Len(C) = Written(m)
       /\ \A k \in 1..Len(m) : \A j \in 1..m[k].written : C[W(k - 1) + j] = m[k].data[j]
  BY RoughHolds, ContentBytes DEF W
<1> HIDE DEF C
<1>11. s \in Seq(Byte) /\ Len(s) = off /\ \A x \in 1..off : s[x] = C[x]
  <2>1. off \in 0..Len(C) /\ 1 <= off + 1
    BY <1>2, <1>8, <1>10
  <2>2. s \in Seq(Byte) /\ IsPart(s, C, 1, off)
    BY <1>10, <2>1, Part
  <2>3. off - 1 + 1 = off /\ \A x \in 1..off : 1 + x - 1 = x
    BY <1>8
  <2> HIDE DEF s
  <2> QED
    BY <2>2, <2>3 DEF IsPart
<1> HIDE DEF s
<1>12. ASSUME NEW k \in 1..Len(p), NEW j \in 1..p[k].written
       PROVE  s[WrittenTo(p, k - 1) + j] = p[k].data[j]
  <2>1. k \in 1..i /\ k \in 1..Len(m) /\ k - 1 \in 0..i /\ k - 1 < i /\ k - 1 \in 0..Len(m)
    BY <1>1, <1>3
  <2>2. WrittenTo(p, k - 1) = W(k - 1) /\ p[k].data = m[k].data
    BY <1>3, <1>6, <2>1
  <2> DEFINE y == W(k - 1)
             u == p[k].written
             v == m[k].written
  <2>3. y \in Nat /\ u \in Nat /\ v \in Nat /\ u <= v /\ y + u <= off /\ j \in 1..u
    BY <1>1, <1>2, <1>3, <1>9, <2>1, BlockTypes
  <2> HIDE DEF y, u, v
  <2>4. j \in 1..v /\ y + j \in 1..off
    BY <1>8, <2>3
  <2>5. C[y + j] = m[k].data[j]
    BY <1>10, <2>1, <2>4 DEF y, v
  <2> QED
    BY <1>11, <2>2, <2>4, <2>5 DEF y
<1>13. ContentTo(p, Len(p)) = s
  BY <1>3, <1>5, <1>7, <1>11, <1>12, RoughHolds, ContentIs
<1>14. \A j \in 1..i : p[j].len = m[j].len /\ p[j].ref = m[j].ref
  BY <1>3
<1> QED
  BY <1>3, <1>5, <1>13, <1>14 DEF CutAt, s, C, W, off

\* p is s with e for the block i.
IsChanged(p, s, i, e) ==
  /\ p \in Seq(Block) /\ Len(p) = Len(s) /\ p[i] = e
  /\ \A j \in 1..Len(s) : j # i => p[j] = s[j]

\* A list with one block changed.
LEMMA Change ==
  ASSUME NEW s \in Seq(Block), NEW i \in 1..Len(s), NEW e \in Block, NEW p, p = [s EXCEPT ![i] = e]
  PROVE  IsChanged(p, s, i, e)
BY ExceptSeq DEF IsChanged

\* What split() leaves in the first queue.
LEMMA CutBlocks ==
  ASSUME NEW m \in Seq(Block), RoughBlocks(m), NEW off \in Nat, NEW i, IsBlockAt(i, m, off),
         NEW rest, rest = off - WrittenTo(m, i - 1),
         NEW p, p = IF rest > 0 THEN [SubSeq(m, 1, i) EXCEPT ![i].written = rest] ELSE SubSeq(m, 1, i)
  PROVE  CutAt(p, m, i, rest)
<1> DEFINE p0 == SubSeq(m, 1, i)
           b == p0[i]
<1>1. /\ i \in 1..Len(m) /\ i \in 0..Len(m) /\ Len(m) \in Nat /\ i \in Nat
      /\ m[i].written \in Nat /\ rest \in Nat /\ rest <= m[i].written
  <2>1. /\ i \in 1..Len(m) /\ WrittenTo(m, i - 1) <= off /\ off < WrittenTo(m, i)
        /\ WrittenTo(m, i) = WrittenTo(m, i - 1) + m[i].written
        /\ WrittenTo(m, i - 1) \in Nat /\ m[i].written \in Nat
    BY DEF IsBlockAt
  <2>2. rest \in Nat /\ rest <= m[i].written
    BY <2>1
  <2>3. Len(m) \in Nat
    BY BlockTypes
  <2> QED
    BY <2>1, <2>2, <2>3
<1>2. /\ p0 \in Seq(Block) /\ Len(p0) = i /\ RoughBlocks(p0) /\ \A j \in 1..i : p0[j] = m[j]
      /\ ContentTo(p0, Len(p0)) = SubSeq(ContentTo(m, Len(m)), 1, WrittenTo(m, i))
  <2>1. 0 \in 0..i /\ 0 + 1 = 1 /\ i - 0 = i /\ \A j \in 1..i : 0 + j = j
    BY <1>1
  <2>2. p0 = SubSeq(m, 0 + 1, i)
    BY <2>1
  <2> HIDE DEF p0
  <2>3. Sliced(p0, m, 0, i)
    BY <1>1, <2>1, <2>2, Slice
  <2>4. WrittenTo(m, 0) = 0
    BY WrittenSteps
  <2> QED
    BY <2>1, <2>3, <2>4 DEF Sliced
<1>3. p = IF rest > 0 THEN [p0 EXCEPT ![i] = [b EXCEPT !.written = rest]] ELSE p0
  OBVIOUS
<1> HIDE DEF p0
<1>4. CASE ~(rest > 0)
  <2>1. p = p0
    BY <1>3, <1>4
  <2> QED
    BY <1>2, <1>4, <2>1 DEF CutAt
<1>5. CASE rest > 0
  <2> DEFINE c == [b EXCEPT !.written = rest]
  <2>1. b \in Block /\ b = m[i] /\ i \in 1..Len(p0)
    BY <1>1, <1>2, BlockTypes
  <2> HIDE DEF b
  <2>2. /\ c \in Block /\ c.written = rest /\ c.len = b.len /\ c.ref = b.ref /\ c.data = b.data
    BY <1>1, <2>1 DEF Block
  <2>3. p = [p0 EXCEPT ![i] = c]
    BY <1>3, <1>5
  <2> HIDE DEF c
  <2>4. p \in Seq(Block) /\ Len(p) = i /\ p[i] = c /\ \A j \in 1..i : j # i => p[j] = m[j]
    <3>1. IsChanged(p, p0, i, c)
      BY <1>2, <2>1, <2>2, <2>3, Change, Zenon
    <3> QED
      BY <1>2, <2>1, <3>1 DEF IsChanged
  <2>5. Shortened(p, m, i, rest)
    BY <2>1, <2>2, <2>4 DEF Shortened
  <2>6. rest \in Nat \ {0} /\ rest <= m[i].written /\ i \in 1..Len(m)
    BY <1>1, <1>5
  <2> QED
    BY <2>5, <2>6, Shorten
<1> QED
  BY <1>4, <1>5

\* Where split() cuts: at the offset or, when it is where a block starts, at the
\* end of that block.
SplitAt(q, off) == IF RestOf(q, off) > 0 THEN off ELSE WrittenTo(q.m_q, BlockAt(q, off))

\* r has the bytes of q before the cut.
HeadOf(r, q, off) ==
  /\ Fit(r) /\ r.avail = Written(r.m_q)
  /\ Content(r) = SubSeq(Content(q), 1, SplitAt(q, off))

\* split() leaves a queue that can be written to and read from the start.
LEMMA SplitHeadIs ==
  ASSUME NEW q, Fit(q), NEW off \in Nat, off < Written(q.m_q)
  PROVE  HeadOf(SplitHead(q, off), q, off)
<1> DEFINE m == q.m_q
           i == BlockAt(q, off)
           rest == RestOf(q, off)
           m1 == SubSeq(m, 1, i)
           p == IF rest > 0 THEN [m1 EXCEPT ![i].written = rest] ELSE m1
           o == q.off - Written(SubSeq(m, i + 1, Len(m)))
           s == [q EXCEPT !.m_q = p, !.wr = i, !.off = o]
           r == SplitHead(q, off)
<1>1. /\ q \in Queue /\ m \in Seq(Block) /\ RoughBlocks(m) /\ q.off \in Int
      /\ q.wr \in 0..Len(m) /\ Full(q) /\ Usable(q) /\ Len(m) \in Nat
      /\ q.wr # End => \A j \in 1..Len(m) : j > q.wr => m[j].written = 0
  BY QueueTypes, GoodRough, BlockTypes DEF Fit, Good, Shape
<1>2. IsBlockAt(i, m, off)
  BY <1>1, BlockAtIs
<1>3. rest = off - WrittenTo(m, i - 1)
  BY DEF RestOf
<1>4. r = reset_read(s)
  BY DEF SplitHead
<1> HIDE DEF i, rest
<1>5. CutAt(p, m, i, rest)
  BY <1>1, <1>2, <1>3, CutBlocks
<1>6. i \in 1..Len(m) /\ i \in Nat /\ m[i].written > 0 /\ i # End /\ i \in 0..Len(m)
  <2>1. /\ i \in 1..Len(m) /\ WrittenTo(m, i - 1) <= off /\ off < WrittenTo(m, i)
        /\ WrittenTo(m, i) = WrittenTo(m, i - 1) + m[i].written
        /\ WrittenTo(m, i - 1) \in Nat /\ m[i].written \in Nat
    BY <1>2 DEF IsBlockAt
  <2>2. m[i].written > 0
    BY <2>1
  <2> QED
    BY <1>1, <2>1, <2>2 DEF End
<1>7. o \in Int
  <2> DEFINE x == SubSeq(m, i + 1, Len(m))
  <2>1. Len(m) \in 0..Len(m) /\ i \in 0..Len(m)
    BY <1>1, <1>6
  <2>2. Sliced(x, m, i, Len(m))
    BY <1>1, <2>1, Slice
  <2> HIDE DEF x
  <2>3. Written(x) \in Nat
    BY <2>2, WrittenAll DEF Sliced
  <2> QED
    BY <1>1, <2>3 DEF x
<1>8. q.wr # End /\ i <= q.wr
  <2>1. q.wr # End
    BY <1>1, <1>6 DEF Usable
  <2> QED
    BY <1>1, <1>6, <2>1
<1>9. /\ p \in Seq(Block) /\ Len(p) = i /\ RoughBlocks(p)
      /\ \A j \in 1..i : p[j].len = m[j].len /\ p[j].ref = m[j].ref
      /\ \A j \in 1..i : j < i => p[j].written = m[j].written
  BY <1>5 DEF CutAt
<1> HIDE DEF p, o
<1>10. s \in Queue /\ s.m_q = p /\ s.wr = i
  BY <1>1, <1>6, <1>7, <1>9 DEF Queue
<1> HIDE DEF s, r
<1>11. Rough(s)
  BY <1>6, <1>9, <1>10 DEF Rough
<1>12. Full(s)
  <2>1. \A j \in 1..i : j \in 1..Len(m) /\ (j < i => j < q.wr)
    BY <1>1, <1>6, <1>8
  <2>2. \A j \in 1..Len(m) : ~m[j].ref /\ (j < q.wr => m[j].written = m[j].len)
    BY <1>1, <1>8 DEF Full
  <2> HIDE DEF m
  <2> QED
    BY <1>9, <1>10, <2>1, <2>2 DEF Full
<1>13. Rewound(r, s)
  BY <1>4, <1>11, ResetReadIs
<1>14. Fit(r) /\ r.avail = Written(r.m_q)
  BY <1>6, <1>10, <1>12, <1>13 DEF Rewound, Fit, Usable
<1>15. Content(r) = SubSeq(Content(q), 1, IF rest > 0 THEN off ELSE WrittenTo(m, i))
  <2>1. Content(r) = ContentTo(p, Len(p))
    BY <1>10, <1>13 DEF Rewound, Content
  <2>2. WrittenTo(m, i - 1) + rest = off
    BY <1>2, <1>3 DEF IsBlockAt
  <2>3. /\ rest > 0 => ContentTo(p, Len(p)) = SubSeq(ContentTo(m, Len(m)), 1, WrittenTo(m, i - 1) + rest)
        /\ ~(rest > 0) => ContentTo(p, Len(p)) = SubSeq(ContentTo(m, Len(m)), 1, WrittenTo(m, i))
    BY <1>5 DEF CutAt, p
  <2>4. Content(q) = ContentTo(m, Len(m))
    BY DEF Content
  <2> QED
    BY <2>1, <2>2, <2>3, <2>4
<1> QED
  BY <1>14, <1>15 DEF HeadOf, SplitAt, r, rest, i

\* Places in a block that is cut at rest, of the bytes that start at y.
CutPlaces(y, u, off, rest, l, L) ==
  /\ rest \in Nat /\ rest + 1 \in Nat /\ rest + 1 <= u + 1 /\ rest + 1 >= 1
  /\ u \in 0..l /\ u - (rest + 1) + 1 = u - rest
  /\ off + 1 \in Nat /\ y + u \in 0..L /\ off + 1 <= (y + u) + 1 /\ off + 1 >= 1
  /\ (y + u) - (off + 1) + 1 = u - rest
  /\ \A x \in 1..u - rest : /\ (rest + 1) + x - 1 \in 1..u
                            /\ y + ((rest + 1) + x - 1) = (off + 1) + x - 1

\* They are in the block and in the content.
LEMMA CutInside ==
  ASSUME NEW y \in Nat, NEW u \in Nat, NEW off \in Nat, NEW rest, rest = off - y, y <= off,
         off < y + u, NEW l \in Nat, u <= l, NEW L \in Nat, y + u <= L
  PROVE  CutPlaces(y, u, off, rest, l, L)
BY DEF CutPlaces

\* c is a new queue with the bytes after the first off of q, up to the end of
\* the block i, or with none when the offset is where the block starts.
CopyOf(c, q, off, i) ==
  /\ Fit(c) /\ NoEmpty(c)
  /\ ~(RestOf(q, off) > 0) => Content(c) = << >>
  /\ RestOf(q, off) > 0 => Content(c) = SubSeq(Content(q), off + 1, WrittenTo(q.m_q, i))

\* What split() copies of a block.
LEMMA CopyRest ==
  ASSUME NEW q, Good(q), NEW off \in Nat, NEW i, IsBlockAt(i, q.m_q, off),
         NEW rest, rest = off - WrittenTo(q.m_q, i - 1), rest = RestOf(q, off), NEW c,
         c = IF rest > 0 THEN write(NewQueue, SubSeq(q.m_q[i].data, rest + 1, q.m_q[i].written))
                         ELSE NewQueue
  PROVE  CopyOf(c, q, off, i)
<1> DEFINE m == q.m_q
           b == m[i]
           y == WrittenTo(m, i - 1)
           z == WrittenTo(m, i)
           u == b.written
           bytes == SubSeq(b.data, rest + 1, u)
           C == ContentTo(m, Len(m))
           s == SubSeq(C, off + 1, z)
<1>1. m \in Seq(Block) /\ GoodBlocks(m) /\ RoughBlocks(m)
  BY QueueTypes, GoodRough DEF Good, Shape
<1>2. /\ i \in 1..Len(m) /\ y \in Nat /\ u \in Nat /\ y <= off /\ off < z /\ z = y + u
  BY DEF IsBlockAt
<1>3. Fit(NewQueue) /\ NoEmpty(NewQueue) /\ Content(NewQueue) = << >>
  BY NewQueueGood DEF Emptied
<1>4. b.data \in Seq(Byte) /\ u <= Len(b.data) /\ Len(b.data) \in Nat
  <2>1. b.data \in Seq(Byte) /\ b.len \in Nat /\ RoughBlock(b)
    BY <1>1, <1>2, BlockTypes DEF RoughBlocks
  <2> QED
    BY <2>1 DEF RoughBlock
<1>5. /\ C \in Seq(Byte) /\ Len(C) = Written(m) /\ z <= Written(m) /\ Written(m) \in Nat
      /\ \A j \in 1..u : C[y + j] = b.data[j]
  <2>1. i \in 0..Len(m)
    BY <1>1, <1>2, BlockTypes
  <2> QED
    BY <1>1, <1>2, <2>1, RoughHolds, ContentBytes, WrittenAll
<1>6. Content(q) = C
  BY DEF Content
<1>7. CASE ~(rest > 0)
  BY <1>3, <1>7 DEF CopyOf
<1>8. CASE rest > 0
  <2> HIDE DEF C, m
  <2>1. c = write(NewQueue, bytes)
    BY <1>8 DEF m
  <2> HIDE DEF b, y, z, u
  <2>2. /\ rest \in Nat /\ rest + 1 \in Nat /\ rest + 1 <= u + 1 /\ rest + 1 >= 1
        /\ u \in 0..Len(b.data) /\ u - (rest + 1) + 1 = u - rest
        /\ off + 1 \in Nat /\ z \in 0..Len(C) /\ off + 1 <= z + 1 /\ off + 1 >= 1
        /\ z - (off + 1) + 1 = u - rest
        /\ \A x \in 1..u - rest : /\ (rest + 1) + x - 1 \in 1..u
                                  /\ y + ((rest + 1) + x - 1) = (off + 1) + x - 1
    <3>1. rest = off - y
      BY DEF y, m
    <3>2. off < y + u /\ y + u <= Len(C) /\ Len(C) \in Nat
      BY <1>2, <1>5
    <3>3. CutPlaces(y, u, off, rest, Len(b.data), Len(C))
      BY <1>2, <1>4, <3>1, <3>2, CutInside
    <3> QED
      BY <1>2, <3>3, Zenon DEF CutPlaces
  <2>3. bytes \in Seq(Byte) /\ IsPart(bytes, b.data, rest + 1, u)
    BY <1>4, <2>2, Part
  <2>4. s \in Seq(Byte) /\ IsPart(s, C, off + 1, z)
    BY <1>5, <2>2, Part
  <2> HIDE DEF bytes, s
  <2>5. bytes = s
    <3>1. Len(bytes) = u - rest /\ \A x \in 1..u - rest : bytes[x] = b.data[(rest + 1) + x - 1]
      BY <2>2, <2>3 DEF IsPart
    <3>2. Len(s) = u - rest /\ \A x \in 1..u - rest : s[x] = C[(off + 1) + x - 1]
      BY <2>2, <2>4 DEF IsPart
    <3>3. \A x \in 1..u - rest : bytes[x] = s[x]
      <4> SUFFICES ASSUME NEW x \in 1..u - rest PROVE bytes[x] = s[x]
        OBVIOUS
      <4> DEFINE j == (rest + 1) + x - 1
      <4>1. j \in 1..u /\ y + j = (off + 1) + x - 1
        BY <2>2
      <4>2. bytes[x] = b.data[j] /\ s[x] = C[(off + 1) + x - 1]
        BY <3>1, <3>2
      <4> HIDE DEF j
      <4> QED
        BY <1>5, <4>1, <4>2
    <3> QED
      BY <2>3, <2>4, <3>1, <3>2, <3>3, SameSeq
  <2>6. Wrote(c, NewQueue, bytes)
    BY <1>3, <2>1, <2>3, WriteIs
  <2>7. Content(c) = << >> \o bytes /\ Fit(c) /\ NoEmpty(c)
    BY <1>3, <2>6, Zenon DEF Wrote, Grown
  <2>8. << >> \o bytes = bytes
    BY <2>3, ConcatEmptySeq
  <2> QED
    BY <1>6, <1>8, <2>5, <2>7, <2>8 DEF CopyOf, s, z, m
<1> QED
  BY <1>7, <1>8

\* r has the bytes of q after the cut.
TailOf(r, q, off) ==
  /\ Good(r) /\ r.avail = Written(r.m_q)
  /\ Content(r) = SubSeq(Content(q), SplitAt(q, off) + 1, Len(Content(q)))

\* The queue that split() gives has the bytes after the cut.
LEMMA SplitTailIs ==
  ASSUME NEW q, Fit(q), NEW off \in Nat, off < Written(q.m_q)
  PROVE  TailOf(SplitTail(q, off), q, off)
<1> DEFINE m == q.m_q
           i == BlockAt(q, off)
           rest == RestOf(q, off)
           n == Len(m)
           c == IF rest > 0 THEN write(NewQueue, SubSeq(m[i].data, rest + 1, m[i].written))
                            ELSE NewQueue
           moved == SubSeq(m, i + 1, n)
           p == c.m_q \o moved
           w == Len(p)
           o == c.off + Written(moved)
           s == [c EXCEPT !.m_q = p, !.wr = w, !.off = o]
           r == SplitTail(q, off)
<1>1. /\ q \in Queue /\ m \in Seq(Block) /\ RoughBlocks(m) /\ n \in Nat /\ Good(q)
  BY QueueTypes, GoodRough, BlockTypes DEF Fit, Good, Shape
<1>2. IsBlockAt(i, m, off)
  BY <1>1, BlockAtIs
<1>3. rest = off - WrittenTo(m, i - 1)
  BY DEF RestOf
<1>4. r = reset_read(s)
  BY DEF SplitTail
<1> HIDE DEF i
<1>5. CopyOf(c, q, off, i)
  <2> HIDE DEF rest
  <2>1. rest = RestOf(q, off)
    BY DEF rest
  <2> QED
    BY <1>1, <1>2, <1>3, <2>1, CopyRest
<1> HIDE DEF c, rest, n
<1>6. i \in 1..n /\ i \in 0..n /\ n \in 0..n
  BY <1>1, <1>2 DEF IsBlockAt, n
<1>7. Sliced(moved, m, i, n)
  <2>1. n \in 0..Len(m) /\ i \in 0..n
    BY <1>6 DEF n
  <2> QED
    BY <1>1, <2>1, Slice
<1> HIDE DEF moved
<1>8. moved \in Seq(Block) /\ RoughBlocks(moved) /\ Written(moved) \in Nat
  BY <1>7, WrittenAll DEF Sliced
<1>9. c \in Queue /\ c.m_q \in Seq(Block) /\ RoughBlocks(c.m_q) /\ c.off \in Int /\ NoEmpty(c)
  BY <1>5, FitTypes, QueueTypes, GoodRough DEF CopyOf, Good, Shape
<1>10. Joined(p, c.m_q, moved)
  BY <1>8, <1>9, JoinBlocks DEF NoEmpty
<1> HIDE DEF p
<1>11. p \in Seq(Block) /\ RoughBlocks(p) /\ w \in Nat /\ w = Len(p)
  BY <1>10, LenProperties DEF Joined
<1>12. o \in Int
  BY <1>8, <1>9
<1> HIDE DEF w, o
<1>13. s \in Queue /\ s.m_q = p /\ s.wr = w
  BY <1>9, <1>11, <1>12 DEF Queue
<1> HIDE DEF s, r
<1>14. Rough(s)
  <2>1. w \in 0..w /\ \A j \in 1..w : ~(j > w)
    BY <1>11
  <2> QED
    BY <1>11, <1>13, <2>1 DEF Rough
<1>15. Rewound(r, s)
  BY <1>4, <1>14, ResetReadIs
<1>16. Good(r) /\ r.avail = Written(r.m_q)
  BY <1>15 DEF Rewound
<1>17. /\ rest > 0 => Content(r) = SubSeq(Content(q), off + 1, Len(Content(q)))
       /\ ~(rest > 0) => Content(r) = SubSeq(Content(q), WrittenTo(m, i) + 1, Len(Content(q)))
  <2> DEFINE C == Content(q)
             z == WrittenTo(m, i)
  <2>1. Content(r) = ContentTo(p, Len(p))
    BY <1>13, <1>15 DEF Rewound, Content
  <2>2. ContentTo(p, Len(p)) = Content(c) \o ContentTo(moved, Len(moved))
    BY <1>10 DEF Joined, Content
  <2>3. C \in Seq(Byte) /\ Len(C) = Written(m) /\ Written(m) \in Nat
    BY <1>1, ReadPosIs
  <2>4. ContentTo(moved, Len(moved)) = SubSeq(C, z + 1, Len(C))
    <3>1. ContentTo(moved, Len(moved)) = SubSeq(ContentTo(m, Len(m)), WrittenTo(m, i) + 1, WrittenTo(m, n))
      BY <1>7 DEF Sliced
    <3>2. Len(C) = WrittenTo(m, n)
      BY <2>3 DEF Written, n
    <3> QED
      BY <3>1, <3>2 DEF Content
  <2>5. rest > 0 => Content(c) = SubSeq(C, off + 1, z)
    BY <1>5 DEF CopyOf, rest
  <2>6. /\ off < z /\ z \in Nat /\ z <= Written(m)
    <3>1. off < z /\ z = WrittenTo(m, i - 1) + m[i].written /\ WrittenTo(m, i - 1) \in Nat /\ m[i].written \in Nat
      BY <1>2 DEF IsBlockAt
    <3>2. z <= Written(m)
      BY <1>1, <1>6, WrittenAll DEF n
    <3> QED
      BY <3>1, <3>2
  <2> HIDE DEF C, z, m
  <2> DEFINE d == off + 1
             l == Len(C)
  <2>7. d \in 1..Len(C) + 1 /\ z \in d - 1 .. Len(C) /\ l \in z..Len(C)
    BY <2>3, <2>6
  <2> HIDE DEF d, l
  <2>8. SubSeq(C, d, z) \o SubSeq(C, z + 1, l) = SubSeq(C, d, l)
    BY <2>3, <2>7, ConcatAdjacentSubSeq
  <2>9. ~(rest > 0) => Content(c) = << >>
    BY <1>5 DEF CopyOf, rest
  <2>10. << >> \o SubSeq(C, z + 1, l) = SubSeq(C, z + 1, l)
    <3>1. SubSeq(C, z + 1, l) \in Seq(Byte)
      <4>1. z + 1 \in Nat /\ l \in 0..Len(C) /\ z + 1 <= l + 1 /\ z + 1 >= 1
        BY <2>3, <2>6, <2>7
      <4> QED
        BY <2>3, <4>1, Part
    <3> QED
      BY <3>1, ConcatEmptySeq
  <2> QED
    BY <2>1, <2>2, <2>4, <2>5, <2>8, <2>9, <2>10 DEF d, l, C, z, m
<1> QED
  BY <1>16, <1>17 DEF TailOf, SplitAt, r, rest, i

-----------------------------------------------------------------------------
(* The queues of a request and its answer *)

\* The inductive invariant.
Inv ==
  /\ Fit(in) /\ Good(body) /\ Good(out) /\ Full(out)
  /\ body.avail = Written(body.m_q)
  /\ ~has_body => body = NewQueue
  /\ ~cut => in.off = Written(in.m_q)
  /\ has_body \in BOOLEAN /\ cut \in BOOLEAN
  /\ nbytes \in 0..MaxBytes /\ got \in Seq(Byte)

\* Bytes that enter.
LEMMA FreshIs ==
  ASSUME nbytes \in 0..MaxBytes, NEW n \in Nat, nbytes + n <= MaxBytes
  PROVE  Fresh(n) \in Seq(Byte) /\ Len(Fresh(n)) = n /\ nbytes + n \in 0..MaxBytes
<1>1. nbytes + n \in 0..MaxBytes /\ \A i \in 1..n : nbytes + i \in Byte
  BY OffsetsAssumption DEF Byte
<1>2. Fresh(n) \in [1..n -> Byte]
  BY <1>1 DEF Fresh
<1> HIDE DEF Fresh
<1>3. Fresh(n) \in Seq(Byte)
  BY <1>2, SeqDef
<1>4. DOMAIN Fresh(n) = 1..n /\ DOMAIN Fresh(n) = 1..Len(Fresh(n)) /\ Len(Fresh(n)) \in Nat
  BY <1>2, <1>3, LenProperties
<1>5. Len(Fresh(n)) = n
  BY <1>4
<1> QED
  BY <1>1, <1>3, <1>5

\* r has the bytes of q and g after them, and is read to where q is.
Longer(r, q, g) == Content(r) = Content(q) \o g /\ ReadPos(r) = ReadPos(q)

\* Those that a step lets in.
LEMMA EnteringIs ==
  ASSUME nbytes \in 0..MaxBytes, NEW n \in Nat, nbytes' = nbytes + n
  PROVE  Bytes!Entering = Fresh(n) /\ nbytes' >= nbytes
<1>1. nbytes \in Nat
  BY OffsetsAssumption
<1>2. nbytes' - nbytes = n /\ nbytes' >= nbytes
  BY <1>1
<1> QED
  BY <1>2 DEF Bytes!Entering, Fresh

\* When none come.
LEMMA NoneEntering ==
  ASSUME nbytes \in 0..MaxBytes, nbytes' = nbytes
  PROVE  Bytes!Entering = << >> /\ nbytes' >= nbytes
<1> DEFINE z == 0
<1>1. nbytes \in Nat /\ z \in Nat /\ nbytes' = nbytes + z /\ nbytes + z <= MaxBytes /\ z = 0
  BY OffsetsAssumption
<1> HIDE DEF z
<1>2. Bytes!Entering = Fresh(z) /\ nbytes' >= nbytes
  BY <1>1, EnteringIs
<1>3. Fresh(z) \in Seq(Byte) /\ Len(Fresh(z)) = 0
  BY <1>1, FreshIs
<1>4. Fresh(z) = << >>
  BY <1>3, EmptySeq
<1> QED
  BY <1>2, <1>4

\* nc_read() stores what comes where there is room for it.
LEMMA NcReadIs ==
  ASSUME nbytes \in 0..MaxBytes, NEW n \in Nat, nbytes + n <= MaxBytes,
         NEW q, Fit(q), NEW max \in Nat, CanRead(q, max, n)
  PROVE  Fit(nc_read(q, max, n)) /\ Grown(nc_read(q, max, n), q, Fresh(n))
<1> DEFINE a == WithSpace(q)
           f == Fresh(n)
           r == nc_read(q, max, n)
<1>1. f \in Seq(Byte) /\ Len(f) = n
  BY FreshIs
<1>2. Good(a) /\ Full(a) /\ SameBytes(a, q) /\ a.wr # End /\ b_write_avail(a) \in Nat \ {0}
  BY Space DEF Fit
<1>3. r = IF n = 0 THEN a ELSE Store(a, f)
  BY DEF nc_read
<1>4. n <= b_write_avail(a)
  <2>1. a.avail \in Nat /\ n <= ReadSize(a, max)
    BY <1>2, ReadPosIs DEF CanRead
  <2> DEFINE b == b_write_avail(a)
             v == a.avail
  <2>2. n <= IF max > 0 /\ v + b > max THEN max - v ELSE b
    BY <2>1 DEF ReadSize
  <2>3. v \in Nat /\ b \in Nat
    BY <1>2, <2>1
  <2> HIDE DEF b, v
  <2> QED
    BY <2>2, <2>3 DEF b
<1>5. CASE n = 0
  <2>1. r = a
    BY <1>3, <1>5
  <2>2. f = << >>
    BY <1>1, <1>5, EmptySeq
  <2>3. /\ a.avail = q.avail /\ a.off = q.off /\ Written(a.m_q) = Written(q.m_q)
        /\ Content(a) = Content(q) /\ q.avail \in Nat /\ q.off \in Int /\ Written(q.m_q) \in Nat
        /\ Content(q) \in Seq(Byte)
    BY <1>2, FitTypes DEF SameBytes
  <2> DEFINE e == Len(f)
  <2>4. Content(q) \o f = Content(q)
    BY <2>2, <2>3, ConcatEmptySeq
  <2>5. e = 0
    BY <1>1, <1>5
  <2> HIDE DEF e, a, f
  <2>6. a.avail = q.avail + e /\ a.off = q.off + e /\ Written(a.m_q) = Written(q.m_q) + e
    BY <2>3, <2>5
  <2>7. Grown(a, q, f)
    BY <2>3, <2>4, <2>6 DEF Grown, e
  <2>8. Fit(a)
    BY <1>2 DEF Fit, Usable
  <2> QED
    BY <2>1, <2>7, <2>8 DEF f
<1>6. CASE n # 0
  <2>1. r = Store(a, f) /\ Len(f) \in Nat \ {0} /\ Len(f) <= b_write_avail(WithSpace(q))
    BY <1>1, <1>3, <1>4, <1>6
  <2>2. Wrote(Store(WithSpace(q), f), q, f)
    BY <1>1, <2>1, StoreWrote
  <2> QED
    BY <2>1, <2>2 DEF Wrote
<1> QED
  BY <1>5, <1>6

\* What Grown says of the queue that requests are read into.
LEMMA GrownIs ==
  ASSUME NEW q, Good(q), NEW r, Good(r), NEW g \in Seq(Byte), Grown(r, q, g)
  PROVE  /\ q.off = Written(q.m_q) => r.off = Written(r.m_q)
         /\ Longer(r, q, g)
<1> DEFINE n == Len(g)
<1>1. n \in Nat
  BY LenProperties
<1>2. /\ r.avail = q.avail + n /\ r.off = q.off + n /\ Written(r.m_q) = Written(q.m_q) + n
      /\ Content(r) = Content(q) \o g
  BY DEF Grown
<1> HIDE DEF n
<1>3. /\ ReadPos(q) = Written(q.m_q) - q.avail /\ ReadPos(r) = Written(r.m_q) - r.avail
      /\ q.avail \in Nat /\ Written(q.m_q) \in Nat
  BY ReadPosIs
<1>4. ReadPos(r) = ReadPos(q)
  BY <1>1, <1>2, <1>3
<1>5. q.off = Written(q.m_q) => r.off = Written(r.m_q)
  BY <1>2
<1> QED
  BY <1>2, <1>4, <1>5 DEF Longer

\* The queue towards a peer can be written to when nothing was joined to it.
LEMMA OutFit ==
  ASSUME Inv, Writeable
  PROVE  Fit(out)
<1>1. out.m_q \in Seq(Block)
  BY QueueTypes DEF Inv, Good, Shape
<1>2. out.wr # End \/ Len(out.m_q) = 0
  BY <1>1, EmptySeq DEF Writeable
<1> QED
  BY <1>2 DEF Inv, Fit, Usable

\* Reading from a client.
LEMMA RecvStep ==
  ASSUME Inv, NEW n \in 0..BSize, Recv(n)
  PROVE  Inv' /\ Longer(in', in, Bytes!Entering) /\ nbytes' >= nbytes
<1>1. /\ ~cut /\ CanRead(in, 0, n) /\ nbytes + n <= MaxBytes /\ nbytes' = nbytes + n
      /\ in' = nc_read(in, 0, n) /\ got' = << >>
      /\ body' = body /\ out' = out /\ has_body' = has_body /\ cut' = cut
  BY DEF Recv, Enter
<1>2. Fit(in) /\ nbytes \in 0..MaxBytes /\ in.off = Written(in.m_q) /\ Good(in)
  BY <1>1 DEF Inv, Fit
<1>3. n \in Nat
  BY BSizeAssumption
<1>4. Fit(in') /\ Grown(in', in, Fresh(n))
  BY <1>1, <1>2, <1>3, NcReadIs
<1>5. nbytes' \in 0..MaxBytes /\ Fresh(n) \in Seq(Byte)
  BY <1>1, <1>2, <1>3, FreshIs
<1>6. in'.off = Written(in'.m_q) /\ Longer(in', in, Fresh(n))
  BY <1>2, <1>4, <1>5, GrownIs DEF Fit
<1>7. got' \in Seq(Byte)
  BY <1>1, EmptySeq
<1>8. Bytes!Entering = Fresh(n) /\ nbytes' >= nbytes
  BY <1>1, <1>2, <1>3, EnteringIs
<1>9. Inv'
  BY <1>1, <1>4, <1>5, <1>6, <1>7 DEF Inv
<1> QED
  BY <1>6, <1>8, <1>9

\* Bytes that are added to the queue towards a peer.
LEMMA OutGrows ==
  ASSUME Inv, NEW n \in Nat, Enter(n), UNCHANGED <<in, body, has_body, cut>>, got' = << >>,
         Good(out'), Full(out'), Grown(out', out, Fresh(n))
  PROVE  Inv' /\ Longer(out', out, Bytes!Entering) /\ nbytes' >= nbytes
<1>1. nbytes + n <= MaxBytes /\ nbytes' = nbytes + n /\ nbytes \in 0..MaxBytes
  BY DEF Inv, Enter
<1>2. nbytes' \in 0..MaxBytes /\ Fresh(n) \in Seq(Byte)
  BY <1>1, FreshIs
<1>3. Longer(out', out, Fresh(n))
  BY <1>2, GrownIs DEF Inv
<1>4. got' \in Seq(Byte)
  BY EmptySeq
<1>5. Bytes!Entering = Fresh(n) /\ nbytes' >= nbytes
  BY <1>1, EnteringIs
<1>6. Inv'
  BY <1>2, <1>4 DEF Inv
<1> QED
  BY <1>3, <1>5, <1>6

\* write() of n bytes to the queue towards a peer.
LEMMA WriteOutStep ==
  ASSUME Inv, NEW n \in Nat, WriteOut(n) \/ WriteFile(n) \/ RecvAnswer(n)
  PROVE  Inv' /\ Longer(out', out, Bytes!Entering) /\ nbytes' >= nbytes
<1>1. Writeable /\ Enter(n) /\ got' = << >> /\ UNCHANGED <<in, body, has_body, cut>>
  BY DEF WriteOut, WriteFile, RecvAnswer
<1>2. Fit(out) /\ nbytes \in 0..MaxBytes /\ nbytes + n <= MaxBytes
  BY <1>1, OutFit DEF Inv, Enter
<1>3. Fresh(n) \in Seq(Byte) /\ Len(Fresh(n)) = n
  BY <1>2, FreshIs
<1>4. Fit(out') /\ Grown(out', out, Fresh(n))
  <2>1. CASE WriteOut(n)
    <3>1. Wrote(out', out, Fresh(n))
      BY <1>2, <1>3, <2>1, WriteIs DEF WriteOut
    <3> QED
      BY <3>1 DEF Wrote
  <2>2. CASE WriteFile(n)
    <3>1. Wrote(out', out, Fresh(n))
      BY <1>2, <1>3, <2>2, WriteFdIs DEF WriteFile
    <3> QED
      BY <3>1 DEF Wrote
  <2>3. CASE RecvAnswer(n)
    <3>1. CanRead(out, MaxReadQueue, n) /\ out' = nc_read(out, MaxReadQueue, n) /\ MaxReadQueue \in Nat
      BY <2>3, OffsetsAssumption DEF RecvAnswer
    <3> QED
      BY <1>2, <3>1, NcReadIs
  <2> QED
    BY <2>1, <2>2, <2>3
<1> QED
  BY <1>1, <1>4, OutGrows DEF Fit

\* Copying a part of the request.
LEMMA CopyPartStep ==
  ASSUME Inv, NEW off \in Nat, NEW n \in Nat, CopyPart(off, n)
  PROVE  Inv' /\ ReadOff(in', got', in, off, n)
<1> DEFINE r == read_from(in, off, n)
<1>1. /\ off + n <= Len(Content(in)) /\ in' = r.q /\ got' = r.got
      /\ UNCHANGED <<body, out, has_body, cut, nbytes>>
  BY DEF CopyPart
<1>2. Fit(in) /\ Good(in) /\ Full(in) /\ Usable(in)
  BY DEF Inv, Fit
<1>3. off + n <= Written(in.m_q)
  BY <1>1, <1>2, ReadPosIs
<1>4. ReadOff(in', got', in, off, n)
  BY <1>1, <1>2, <1>3, ReadFromIs
<1> HIDE DEF r
<1>5. /\ Good(in') /\ Full(in') /\ in'.wr = in.wr /\ in'.off = in.off /\ Len(in'.m_q) = Len(in.m_q)
      /\ Written(in'.m_q) = Written(in.m_q) /\ got' \in Seq(Byte)
  BY <1>2, <1>4 DEF ReadOff
<1>6. Fit(in')
  BY <1>2, <1>5 DEF Fit, Usable
<1>7. ~cut => in'.off = Written(in'.m_q)
  BY <1>5 DEF Inv
<1> QED
  BY <1>1, <1>4, <1>5, <1>6, <1>7 DEF Inv

\* Splitting off the body.
LEMMA GetBodyStep ==
  ASSUME Inv, NEW off \in BodyOffsets, GetBody(off)
  PROVE  /\ Inv' /\ HeadOf(in', in, off) /\ TailOf(body', in, off)
         /\ off \in Nat /\ off < Written(in.m_q)
<1>1. /\ ~cut /\ off < in.off /\ in' = SplitHead(in, off) /\ body' = SplitTail(in, off)
      /\ has_body' = TRUE /\ cut' = TRUE /\ got' = << >> /\ UNCHANGED <<out, nbytes>>
  BY DEF GetBody
<1>2. Fit(in) /\ in.off = Written(in.m_q)
  BY <1>1 DEF Inv
<1>3. off \in Nat /\ off < Written(in.m_q)
  BY <1>1, <1>2, OffsetsAssumption
<1>4. HeadOf(in', in, off) /\ TailOf(body', in, off)
  BY <1>1, <1>2, <1>3, SplitHeadIs, SplitTailIs
<1>5. Fit(in') /\ Good(body') /\ body'.avail = Written(body'.m_q)
  BY <1>4 DEF HeadOf, TailOf
<1>6. got' \in Seq(Byte)
  BY <1>1, EmptySeq
<1> QED
  BY <1>1, <1>3, <1>4, <1>5, <1>6 DEF Inv

\* The queue of requests is emptied for the next one.
LEMMA NextRequestStep ==
  ASSUME Inv, NextRequest
  PROVE  Inv' /\ Emptied(in')
<1>1. in' = reset_write(in) /\ cut' = FALSE /\ got' = << >> /\ UNCHANGED <<body, out, has_body, nbytes>>
  BY DEF NextRequest
<1>2. Emptied(in')
  BY <1>1, ResetWriteIs DEF Inv, Fit
<1>3. Fit(in') /\ in'.off = Written(in'.m_q)
  BY <1>2 DEF Emptied
<1>4. got' \in Seq(Byte)
  BY <1>1, EmptySeq
<1> QED
  BY <1>1, <1>2, <1>3, <1>4 DEF Inv

\* The queue towards a peer is emptied.
LEMMA EmptyStep ==
  ASSUME Inv, Reuse \/ Discard
  PROVE  Inv' /\ Emptied(out')
<1>1. got' = << >> /\ UNCHANGED <<in, body, has_body, cut, nbytes>>
  BY DEF Reuse, Discard
<1>2. Emptied(out')
  <2>1. CASE Reuse
    BY <2>1, ResetWriteIs DEF Reuse, Inv
  <2>2. CASE Discard
    BY <2>2, NewQueueGood DEF Discard, reset
  <2> QED
    BY <2>1, <2>2
<1>3. Good(out') /\ Full(out')
  BY <1>2 DEF Emptied, Fit
<1>4. got' \in Seq(Byte)
  BY <1>1, EmptySeq
<1> QED
  BY <1>1, <1>2, <1>3, <1>4 DEF Inv

\* r has the bytes of q, then g and then those of t, and is read to where q is.
JoinedTo(r, q, g, t) ==
  Content(r) = (Content(q) \o g) \o Content(t) /\ ReadPos(r) = ReadPos(q)

\* Headers, and the body after them.
LEMMA CreateRequestStep ==
  ASSUME Inv, NEW n \in 1..BSize + 1, CreateRequest(n)
  PROVE  /\ Inv' /\ Emptied(body')
         /\ has_body => JoinedTo(out', out, Bytes!Entering, body)
         /\ ~has_body => Longer(out', out, Bytes!Entering) /\ body' = body
         /\ nbytes' >= nbytes
<1> DEFINE f == Fresh(n)
           h == write(out, f)
<1>1. /\ out.m_q = << >> /\ Enter(n) /\ out' = IF has_body THEN join_ref(h, body) ELSE h
      /\ body' = NewQueue /\ has_body' = FALSE /\ got' = << >> /\ UNCHANGED <<in, cut>>
  BY DEF CreateRequest
<1>2. n \in Nat /\ n > 0
  BY BSizeAssumption
<1>3. Fit(out) /\ nbytes \in 0..MaxBytes /\ nbytes + n <= MaxBytes /\ nbytes' = nbytes + n
  BY <1>1, OutFit DEF Inv, Enter, Writeable
<1>4. f \in Seq(Byte) /\ Len(f) = n /\ nbytes' \in 0..MaxBytes
  BY <1>2, <1>3, FreshIs
<1>5. NoEmpty(out)
  <2>1. Len(out.m_q) = 0
    BY <1>1, EmptySeq
  <2> QED
    BY <2>1 DEF NoEmpty
<1>6. Wrote(h, out, f)
  BY <1>3, <1>4, WriteIs
<1> HIDE DEF h, f
<1>7. /\ Good(h) /\ Full(h) /\ NoEmpty(h) /\ h.avail = out.avail + n
      /\ Written(h.m_q) = Written(out.m_q) + n /\ Content(h) = Content(out) \o f
  BY <1>4, <1>5, <1>6 DEF Wrote, Grown, Fit
<1>8. Emptied(body') /\ Good(body') /\ body'.avail = Written(body'.m_q)
  BY <1>1, NewQueueGood DEF Emptied, Fit
<1>9. Longer(h, out, f)
  BY <1>3, <1>4, <1>6, <1>7, GrownIs DEF Wrote, Fit
<1>10. has_body => Followed(out', h, body)
  <2> SUFFICES ASSUME has_body PROVE Followed(out', h, body)
    OBVIOUS
  <2>1. out' = join_ref(h, body)
    BY <1>1
  <2>2. h.avail > 0
    BY <1>2, <1>3, <1>7, ReadPosIs DEF Fit
  <2> QED
    BY <1>7, <2>1, <2>2, JoinRefIs DEF Inv
<1>11. ~has_body => out' = h /\ body' = body
  BY <1>1 DEF Inv
<1>12. Good(out') /\ Full(out')
  BY <1>7, <1>10, <1>11 DEF Followed, Inv
<1>13. has_body => JoinedTo(out', out, f, body)
  <2> SUFFICES ASSUME has_body PROVE JoinedTo(out', out, f, body)
    OBVIOUS
  <2>1. Content(out') = (Content(out) \o f) \o Content(body) /\ out'.avail = h.avail + Written(body.m_q)
        /\ Content(out') = Content(h) \o Content(body)
    BY <1>7, <1>10 DEF Followed
  <2>2. /\ Content(h) \in Seq(Byte) /\ Content(body) \in Seq(Byte)
        /\ Len(Content(h)) = Written(h.m_q) /\ Len(Content(body)) = Written(body.m_q)
        /\ Len(Content(out')) = Written(out'.m_q)
        /\ ReadPos(h) = Written(h.m_q) - h.avail /\ ReadPos(out') = Written(out'.m_q) - out'.avail
        /\ Written(h.m_q) \in Nat /\ Written(body.m_q) \in Nat /\ h.avail \in Nat
    BY <1>7, <1>12, ReadPosIs DEF Inv
  <2>3. Len(Content(out')) = Len(Content(h)) + Len(Content(body))
    <3>1. IsJoin(Content(out'), Content(h), Content(body))
      BY <2>1, <2>2, Concat, Zenon
    <3> QED
      BY <3>1 DEF IsJoin
  <2>4. ReadPos(out') = ReadPos(h)
    <3>1. out'.avail = h.avail + Written(body.m_q)
      BY <2>1
    <3> QED
      BY <2>2, <2>3, <3>1
  <2> QED
    BY <1>9, <2>1, <2>4 DEF JoinedTo, Longer
<1>14. got' \in Seq(Byte)
  BY <1>1, EmptySeq
<1>15. Inv'
  BY <1>1, <1>4, <1>8, <1>12, <1>14 DEF Inv
<1>16. Bytes!Entering = f /\ nbytes' >= nbytes
  BY <1>2, <1>3, EnteringIs DEF f
<1> QED
  BY <1>8, <1>9, <1>11, <1>13, <1>15, <1>16

\* A body that is copied.
LEMMA CopyBodyStep ==
  ASSUME Inv, CopyBody
  PROVE  /\ Inv' /\ Emptied(body') /\ JoinedTo(out', out, Bytes!Entering, body)
         /\ nbytes' >= nbytes
<1>1. /\ Writeable /\ out' = write_q(out, body).q /\ body' = NewQueue /\ has_body' = FALSE
      /\ got' = << >> /\ UNCHANGED <<in, cut, nbytes>>
  BY DEF CopyBody
<1>2. Fit(out) /\ Good(out) /\ Good(body)
  BY <1>1, OutFit DEF Inv
<1>3. CopiedAll(out', out, body)
  BY <1>1, <1>2, WriteQIs
<1>4. PICK g : Got(g, body, body.avail) /\ Grown(out', out, g) /\ Fit(out')
  BY <1>3 DEF CopiedAll
<1>5. Emptied(body') /\ Good(body') /\ body'.avail = Written(body'.m_q)
  BY <1>1, NewQueueGood DEF Emptied, Fit
<1>6. Good(out') /\ Full(out')
  BY <1>4 DEF Fit
<1>7. /\ Content(body) \in Seq(Byte) /\ Len(Content(body)) = body.avail /\ body.avail \in Nat
      /\ ReadPos(body) = 0
  <2>1. /\ ReadPos(body) = Written(body.m_q) - body.avail /\ body.avail \in Nat
        /\ Content(body) \in Seq(Byte) /\ Len(Content(body)) = Written(body.m_q)
        /\ body.avail = Written(body.m_q)
    BY <1>2, ReadPosIs DEF Inv
  <2> QED
    BY <2>1
<1>8. g \in Seq(Byte) /\ Len(g) = body.avail /\ g = Content(body)
  <2>1. g \in Seq(Byte) /\ Len(g) = body.avail
        /\ \A x \in 1..body.avail : g[x] = Content(body)[ReadPos(body) + x]
    BY <1>4 DEF Got
  <2>2. \A x \in 1..body.avail : ReadPos(body) + x = x
    BY <1>7
  <2>3. \A x \in 1..body.avail : g[x] = Content(body)[x]
    BY <2>1, <2>2
  <2> QED
    BY <1>7, <2>1, <2>3, SameSeq
<1>9. JoinedTo(out', out, << >>, body)
  <2>2. ReadPos(out') = ReadPos(out)
    BY <1>2, <1>4, <1>6, <1>8, GrownIs DEF Longer
  <2>3. Content(out') = Content(out) \o Content(body)
    BY <1>4, <1>8 DEF Grown
  <2>4. Content(out) \o << >> = Content(out) /\ << >> \in Seq(Byte)
    BY <1>2, ReadPosIs, ConcatEmptySeq, EmptySeq
  <2>5. Content(out') = (Content(out) \o << >>) \o Content(body)
    BY <2>3, <2>4
  <2> QED
    BY <2>2, <2>5 DEF JoinedTo
<1>10. got' \in Seq(Byte)
  BY <1>1, EmptySeq
<1>11. Inv'
  BY <1>1, <1>5, <1>6, <1>10 DEF Inv
<1>12. Bytes!Entering = << >> /\ nbytes' >= nbytes
  BY <1>1, NoneEntering DEF Inv
<1> QED
  BY <1>5, <1>9, <1>11, <1>12

\* r is what is left of q, of which n bytes were read and any of the bytes read
\* are gone.
Drained(r, q, n) ==
  \E d \in 0..ReadPos(q) + n :
    /\ Content(r) = SubSeq(Content(q), d + 1, Len(Content(q)))
    /\ ReadPos(r) = ReadPos(q) + n - d

\* What the peer takes.
LEMMA DrainStep ==
  ASSUME Inv, NEW n \in 1..out.avail, Drain(n)
  PROVE  Inv' /\ Got(got', out, n) /\ Drained(out', out, n)
<1> DEFINE p == b_read_incr(out, n)
<1>1. /\ out.avail > 0 /\ n <= b_read_avail(out) /\ got' = Fetch(out, n) /\ out' = shrink(p)
      /\ UNCHANGED <<in, body, has_body, cut, nbytes>>
  BY DEF Drain
<1>2. Good(out) /\ Full(out)
  BY DEF Inv
<1>3. /\ out.rd # End /\ n \in Nat /\ ReadPos(out) \in Nat /\ ReadPos(out) = Written(out.m_q) - out.avail
      /\ out.avail \in Nat /\ Content(out) \in Seq(Byte) /\ Len(Content(out)) = Written(out.m_q)
  BY <1>1, <1>2, ReadPosIs
<1>4. Got(got', out, n)
  BY <1>1, <1>2, <1>3, FetchIs
<1>5. Reads(p, out, n)
  BY <1>1, <1>2, <1>3, ReadIncr
<1> HIDE DEF p
<1>6. Good(p) /\ Full(p) /\ p.avail = out.avail - n /\ Content(p) = Content(out)
  BY <1>2, <1>5 DEF Reads
<1>7. ReadPos(p) = ReadPos(out) + n
  BY <1>2, <1>3, <1>5, ReadsPos
<1>8. PICK d : Shrunk(out', p, d)
  BY <1>1, <1>6, ShrinkIs
<1>9. /\ d \in 0..ReadPos(out) + n /\ Good(out') /\ Full(out') /\ out'.avail = out.avail - n
      /\ Content(out') = SubSeq(Content(out), d + 1, Len(Content(out)))
  BY <1>6, <1>7, <1>8 DEF Shrunk
<1>10. ReadPos(out') = ReadPos(out) + n - d
  <2> DEFINE C == Content(out)
             L == Len(C)
             k == ReadPos(out)
             v == out.avail
  <2>1. k = L - v /\ k \in Nat /\ v \in Nat /\ n \in 1..v /\ d \in 0..k + n /\ L \in Nat
    BY <1>3, <1>9, LenProperties
  <2>2. ReadPos(out') = Len(SubSeq(C, d + 1, L)) - (v - n)
    BY <1>9, ReadPosIs
  <2>3. C \in Seq(Byte)
    BY <1>3
  <2> HIDE DEF k, v, C
  <2>4. d + 1 \in Nat /\ L \in 0..Len(C) /\ d + 1 <= L + 1 /\ d + 1 >= 1 /\ L - (d + 1) + 1 = L - d
    BY <2>1
  <2>5. IsPart(SubSeq(C, d + 1, L), C, d + 1, L)
    BY <2>3, <2>4, Part
  <2>6. Len(SubSeq(C, d + 1, L)) = L - d
    BY <2>4, <2>5 DEF IsPart
  <2> HIDE DEF L
  <2>7. ReadPos(out') = (L - d) - (v - n)
    BY <2>2, <2>6
  <2>8. (L - d) - (v - n) = k + n - d
    BY <2>1
  <2> QED
    BY <2>7, <2>8 DEF k
<1>11. Drained(out', out, n)
  BY <1>9, <1>10 DEF Drained
<1>12. got' \in Seq(Byte)
  BY <1>4 DEF Got
<1> QED
  BY <1>1, <1>4, <1>9, <1>11, <1>12 DEF Inv

\* The invariant holds of the empty queues.
LEMMA InitInv == Init => Inv
<1> SUFFICES ASSUME Init PROVE Inv
  OBVIOUS
<1>1. /\ in = NewQueue /\ body = NewQueue /\ out = NewQueue
      /\ has_body = FALSE /\ cut = FALSE /\ got = << >> /\ nbytes = 0
  BY DEF Init
<1>2. /\ Fit(NewQueue) /\ Good(NewQueue) /\ Full(NewQueue)
      /\ NewQueue.off = Written(NewQueue.m_q) /\ NewQueue.avail = Written(NewQueue.m_q)
  BY NewQueueGood DEF Emptied, Fit
<1>3. nbytes \in 0..MaxBytes /\ got \in Seq(Byte)
  BY <1>1, OffsetsAssumption, EmptySeq
<1> QED
  BY <1>1, <1>2, <1>3 DEF Inv

\* Every step keeps it.
LEMMA StepInv == Inv /\ [Next]_vars => Inv'
<1> SUFFICES ASSUME Inv, [Next]_vars PROVE Inv'
  OBVIOUS
<1>1. CASE UNCHANGED vars
  BY <1>1 DEF vars, Inv
<1>2. ASSUME NEW n \in 0..BSize, Recv(n) PROVE Inv'
  BY <1>2, RecvStep
<1>3. ASSUME NEW n \in 0..BSize, RecvAnswer(n) PROVE Inv'
  <2>1. n \in Nat
    BY BSizeAssumption
  <2> QED
    BY <1>3, <2>1, WriteOutStep
<1>4. ASSUME NEW n \in 1..BSize + 1, WriteOut(n) \/ WriteFile(n) PROVE Inv'
  <2>1. n \in Nat
    BY BSizeAssumption
  <2> QED
    BY <1>4, <2>1, WriteOutStep
<1>5. ASSUME NEW n \in 1..BSize + 1, CreateRequest(n) PROVE Inv'
  BY <1>5, CreateRequestStep
<1>6. ASSUME NEW n \in 1..out.avail, Drain(n) PROVE Inv'
  BY <1>6, DrainStep
<1>7. ASSUME NEW off \in 0..MaxBytes, NEW n \in 1..BSize + 1, CopyPart(off, n) PROVE Inv'
  <2>1. off \in Nat /\ n \in Nat
    BY BSizeAssumption, OffsetsAssumption
  <2> QED
    BY <1>7, <2>1, CopyPartStep
<1>8. ASSUME NEW off \in BodyOffsets, GetBody(off) PROVE Inv'
  BY <1>8, GetBodyStep
<1>9. CASE NextRequest
  BY <1>9, NextRequestStep
<1>10. CASE CopyBody
  BY <1>10, CopyBodyStep
<1>11. CASE Reuse \/ Discard
  BY <1>11, EmptyStep
<1> QED
  BY <1>1, <1>2, <1>3, <1>4, <1>5, <1>6, <1>7, <1>8, <1>9, <1>10, <1>11 DEF Next

\* The invariant holds always.
THEOREM Invariance == Spec => []Inv
  BY InitInv, StepInv, PTL DEF Spec

\* The blocks and the cursors of one queue.
LEMMA GoodType ==
  ASSUME NEW q, Good(q)
  PROVE  QueueType(q)
<1>1. /\ q \in Queue /\ q.m_q \in Seq(Block) /\ q.off \in Int /\ q.avail \in Nat
      /\ GoodBlocks(q.m_q) /\ q.wr \in 0..Len(q.m_q) /\ q.rd \in 0..Len(q.m_q)
  BY QueueTypes DEF Good, Shape, Reader
<1>2. ASSUME NEW i \in DOMAIN q.m_q
      PROVE  /\ q.m_q[i].read \in 0..q.m_q[i].written /\ q.m_q[i].written \in 0..q.m_q[i].len
             /\ q.m_q[i].ref \in BOOLEAN /\ Len(q.m_q[i].data) = q.m_q[i].len
  <2> DEFINE b == q.m_q[i]
  <2>1. i \in 1..Len(q.m_q)
    BY <1>1, BlockTypes
  <2>2. b \in Block /\ b.len \in Nat /\ b.written \in Nat /\ b.read \in Nat /\ GoodBlock(b)
    BY <1>1, <2>1, BlockTypes DEF GoodBlocks
  <2> HIDE DEF b
  <2>3. b.ref \in BOOLEAN
    BY <2>2 DEF Block
  <2>4. b.read \in 0..b.written /\ b.written \in 0..b.len /\ Len(b.data) = b.len
    BY <2>2 DEF GoodBlock
  <2> QED
    BY <2>3, <2>4 DEF b
<1> QED
  BY <1>1, <1>2 DEF QueueType

\* The read cursor of one queue.
LEMMA GoodProgress ==
  ASSUME NEW q, Good(q), q.avail > 0
  PROVE  q.rd # End /\ b_read_avail(q) > 0
BY ReadPosIs, ReadAvail

\* The write cursor of one queue.
LEMMA GoodAhead ==
  ASSUME NEW q, Good(q), Full(q), q.wr # End
  PROVE  /\ q.rd # End /\ q.rd <= q.wr
         /\ \A i \in DOMAIN q.m_q : i > q.wr => q.m_q[i].written = 0
         /\ \A i \in DOMAIN q.m_q : i < q.wr => write_avail(q.m_q[i]) = 0
<1>1. /\ q.m_q \in Seq(Block) /\ q.wr \in 0..Len(q.m_q) /\ (q.rd = End <=> Len(q.m_q) = 0)
      /\ q.rd <= q.wr
      /\ \A i \in 1..Len(q.m_q) : i > q.wr => q.m_q[i].written = 0
      /\ \A i \in 1..Len(q.m_q) : i < q.wr => q.m_q[i].written = q.m_q[i].len
  BY QueueTypes DEF Good, Shape, Reader, Full
<1>2. DOMAIN q.m_q = 1..Len(q.m_q) /\ \A i \in 1..Len(q.m_q) : q.m_q[i].len \in Nat
  BY <1>1, BlockTypes
<1>3. q.rd # End
  BY <1>1 DEF End
<1>4. \A i \in DOMAIN q.m_q : i < q.wr => write_avail(q.m_q[i]) = 0
  BY <1>1, <1>2 DEF write_avail
<1> QED
  BY <1>1, <1>2, <1>3, <1>4

\* CursorsRight: the offset, the cursors and the blocks of every queue of a
\* request and its answer are right at every block size, for every number of
\* bytes and every place where a body starts.
THEOREM Cursors == Spec => []CursorsRight
<1>1. Inv => CursorsRight
  <2> SUFFICES ASSUME Inv PROVE CursorsRight
    OBVIOUS
  <2>1. Good(in) /\ Full(in) /\ Good(body) /\ Good(out) /\ Full(out)
    BY DEF Inv, Fit
  <2>2. TypeOK
    BY <2>1, GoodType DEF Inv, TypeOK, Byte
  <2>3. OffsetExact
    BY <2>1, ReadPosIs DEF Inv, OffsetExact
  <2>4. ReadProgress
    BY <2>1, GoodProgress DEF ReadProgress
  <2>5. WriterAhead
    BY <2>1, GoodAhead DEF WriterAhead
  <2> QED
    BY <2>2, <2>3, <2>4, <2>5 DEF CursorsRight
<1> QED
  BY <1>1, Invariance, PTL

-----------------------------------------------------------------------------
(* The block queues implement strings of bytes *)

\* The record of the three queues, as a function.
Three(c, a, b, d) ==
  /\ c = [q \in {"in", "body", "out"} |-> c[q]]
  /\ c["in"] = a /\ c["body"] = b /\ c["out"] = d

\* Its fields.
LEMMA ThreeIs ==
  ASSUME NEW a, NEW b, NEW d
  PROVE  Three([in |-> a, body |-> b, out |-> d], a, b, d)
<1> DEFINE c == [in |-> a, body |-> b, out |-> d]
           f == [q \in {"in", "body", "out"} |-> IF q = "in" THEN a ELSE IF q = "body" THEN b ELSE d]
<1>1. c = f
  OBVIOUS
<1>2. c["in"] = a /\ c["body"] = b /\ c["out"] = d
  OBVIOUS
<1>3. f = [q \in {"in", "body", "out"} |-> f[q]]
  OBVIOUS
<1> HIDE DEF c, f
<1>4. c = [q \in {"in", "body", "out"} |-> c[q]]
  BY <1>1, <1>3
<1> QED
  BY <1>2, <1>4 DEF Three, c

\* One of the queues changes.
InIs(e, c, x) == e = [c EXCEPT !["in"] = x]
OutIs(e, c, x) == e = [c EXCEPT !["out"] = x]
BodyIs(e, c, x) == e = [c EXCEPT !["body"] = x]

\* The queue of requests changes.
LEMMA ThreeIn ==
  ASSUME NEW c, NEW e, NEW a, NEW b, NEW d, NEW x, Three(c, a, b, d), Three(e, x, b, d)
  PROVE  InIs(e, c, x)
BY DEF Three, InIs

\* The queue towards a peer changes.
LEMMA ThreeOut ==
  ASSUME NEW c, NEW e, NEW a, NEW b, NEW d, NEW x, Three(c, a, b, d), Three(e, a, b, x)
  PROVE  OutIs(e, c, x)
BY DEF Three, OutIs

\* The queue of the body changes.
LEMMA ThreeBody ==
  ASSUME NEW c, NEW e, NEW a, NEW b, NEW d, NEW x, Three(c, a, b, d), Three(e, a, x, d)
  PROVE  BodyIs(e, c, x)
BY DEF Three, BodyIs

\* Two of them change.
SplitIs(e, c, x, y) == e = [c EXCEPT !["in"] = x, !["body"] = y]
JoinIs(e, c, x, y) == e = [c EXCEPT !["out"] = x, !["body"] = y]

\* The queue of requests and that of the body.
LEMMA ThreeSplit ==
  ASSUME NEW c, NEW e, NEW a, NEW b, NEW d, NEW x, NEW y, Three(c, a, b, d), Three(e, x, y, d)
  PROVE  SplitIs(e, c, x, y)
BY DEF Three, SplitIs

\* The queue towards a peer and that of the body.
LEMMA ThreeJoin ==
  ASSUME NEW c, NEW e, NEW a, NEW b, NEW d, NEW x, NEW y, Three(c, a, b, d), Three(e, a, y, x)
  PROVE  JoinIs(e, c, x, y)
BY DEF Three, JoinIs

Contents == [in |-> Content(in), body |-> Content(body), out |-> Content(out)]
Places == [in |-> Pos(in), body |-> Pos(body), out |-> Pos(out)]

\* The position is that of the read cursor.
LEMMA PosIs ==
  ASSUME NEW q, Good(q)
  PROVE  Pos(q) = ReadPos(q) /\ Content(q) \in Seq(Byte) /\ ReadPos(q) \in Nat
BY ReadPosIs DEF Pos

\* The strings and the positions, before a step and after it.
LEMMA Fields ==
  /\ Three(Contents, Content(in), Content(body), Content(out))
  /\ Three(Places, Pos(in), Pos(body), Pos(out))
  /\ Three(Contents', Content(in'), Content(body'), Content(out'))
  /\ Three(Places', Pos(in'), Pos(body'), Pos(out'))
BY ThreeIs, Zenon DEF Contents, Places

\* What was read is a part of the string.
LEMMA PartIs ==
  ASSUME NEW C \in Seq(Byte), NEW k \in Nat, NEW n \in Nat, k + n <= Len(C),
         NEW g \in Seq(Byte), Len(g) = n, \A x \in 1..n : g[x] = C[k + x]
  PROVE  g = SubSeq(C, k + 1, k + n)
<1> DEFINE w == SubSeq(C, k + 1, k + n)
<1>1. /\ k + 1 \in Nat /\ k + n \in 0..Len(C) /\ k + 1 <= (k + n) + 1 /\ k + 1 >= 1
      /\ (k + n) - (k + 1) + 1 = n /\ \A x \in 1..n : (k + 1) + x - 1 = k + x
  BY LenProperties
<1>2. w \in Seq(Byte) /\ IsPart(w, C, k + 1, k + n)
  BY <1>1, Part
<1> HIDE DEF w
<1>3. Len(w) = n /\ \A x \in 1..n : w[x] = g[x]
  BY <1>1, <1>2 DEF IsPart
<1>4. w = g
  BY <1>2, <1>3, SameSeq
<1> QED
  BY <1>4 DEF w

\* A write to the queue of requests is one to its string.
LEMMA WriteIn ==
  ASSUME Good(in), Good(in'), Longer(in', in, Bytes!Entering), nbytes' >= nbytes,
         UNCHANGED <<body, out>>, got' = << >>
  PROVE  Bytes!Write("in")
<1> DEFINE c == Contents
           e == Contents'
           p == Places
           o == Places'
<1>1. /\ Three(c, Content(in), Content(body), Content(out)) /\ Three(p, Pos(in), Pos(body), Pos(out))
      /\ Three(e, Content(in'), Content(body'), Content(out')) /\ Three(o, Pos(in'), Pos(body'), Pos(out'))
  BY Fields
<1>2. Content(in') = Content(in) \o Bytes!Entering
  BY DEF Longer
<1>3. Pos(in') = Pos(in)
  BY PosIs DEF Longer
<1> HIDE DEF c, e, p, o
<1>5. c["in"] = Content(in) /\ p["in"] = Pos(in)
  BY <1>1 DEF Three
<1>6. e = [c EXCEPT !["in"] = Content(in')] /\ o = [p EXCEPT !["in"] = Pos(in)]
  BY <1>1, <1>3, ThreeIn DEF InIs
<1>7. e = [c EXCEPT !["in"] = c["in"] \o Bytes!Entering] /\ o = [p EXCEPT !["in"] = p["in"]]
  BY <1>2, <1>5, <1>6, Zenon
<1> QED
  BY <1>7, Zenon DEF Bytes!Write, Bytes!Put, c, e, p, o, Contents, Places

\* A write to the queue towards a peer is one to its string.
LEMMA WriteToOut ==
  ASSUME Good(out), Good(out'), Longer(out', out, Bytes!Entering), nbytes' >= nbytes,
         UNCHANGED <<in, body>>, got' = << >>
  PROVE  Bytes!Write("out")
<1> DEFINE c == Contents
           e == Contents'
           p == Places
           o == Places'
<1>1. /\ Three(c, Content(in), Content(body), Content(out)) /\ Three(p, Pos(in), Pos(body), Pos(out))
      /\ Three(e, Content(in'), Content(body'), Content(out')) /\ Three(o, Pos(in'), Pos(body'), Pos(out'))
  BY Fields
<1>2. Content(out') = Content(out) \o Bytes!Entering
  BY DEF Longer
<1>3. Pos(out') = Pos(out)
  BY PosIs DEF Longer
<1> HIDE DEF c, e, p, o
<1>5. c["out"] = Content(out) /\ p["out"] = Pos(out)
  BY <1>1 DEF Three
<1>6. e = [c EXCEPT !["out"] = Content(out')] /\ o = [p EXCEPT !["out"] = Pos(out)]
  <2>1. Three(e, Content(in), Content(body), Content(out')) /\ Three(o, Pos(in), Pos(body), Pos(out))
    BY <1>1, <1>3
  <2> QED
    <3>1. OutIs(e, c, Content(out')) /\ OutIs(o, p, Pos(out))
      BY <1>1, <2>1, ThreeOut, Zenon
    <3> QED
      BY <3>1, Zenon DEF OutIs
<1>7. e = [c EXCEPT !["out"] = c["out"] \o Bytes!Entering] /\ o = [p EXCEPT !["out"] = p["out"]]
  BY <1>2, <1>5, <1>6, Zenon
<1> QED
  BY <1>7, Zenon DEF Bytes!Write, Bytes!Put, c, e, p, o, Contents, Places

\* Reading at an offset is reading at that place of the string.
LEMMA ReadIn ==
  ASSUME Good(in), NEW off \in Nat, NEW n \in Nat, off + n <= Len(Content(in)),
         ReadOff(in', got', in, off, n), UNCHANGED <<body, out, nbytes>>
  PROVE  Bytes!ReadFrom("in", off, n)
<1> DEFINE c == Contents
           e == Contents'
           p == Places
           o == Places'
<1>1. /\ Three(c, Content(in), Content(body), Content(out)) /\ Three(p, Pos(in), Pos(body), Pos(out))
      /\ Three(e, Content(in'), Content(body'), Content(out')) /\ Three(o, Pos(in'), Pos(body'), Pos(out'))
  BY Fields
<1>2. /\ Content(in') = Content(in) /\ Good(in') /\ in'.avail = Written(in.m_q) - (off + n)
      /\ Written(in'.m_q) = Written(in.m_q)
      /\ got' \in Seq(Byte) /\ Len(got') = n /\ \A x \in 1..n : got'[x] = Content(in)[off + x]
  BY DEF ReadOff
<1>3. Content(in) \in Seq(Byte)
  BY PosIs
<1>4. Pos(in') = off + n
  <2>1. Pos(in') = ReadPos(in')
    BY <1>2, PosIs
  <2>2. ReadPos(in') = Written(in.m_q) - in'.avail /\ Written(in.m_q) \in Nat
    BY <1>2, ReadPosIs
  <2>3. in'.avail = Written(in.m_q) - (off + n)
    BY <1>2
  <2> QED
    BY <2>1, <2>2, <2>3
<1>5. got' = SubSeq(Content(in), off + 1, off + n)
  BY <1>2, <1>3, PartIs
<1> HIDE DEF c, e, p, o
<1>6. c["in"] = Content(in)
  BY <1>1 DEF Three
<1>7. e = [c EXCEPT !["in"] = Content(in)] /\ o = [p EXCEPT !["in"] = off + n]
  BY <1>1, <1>2, <1>4, ThreeIn DEF InIs
<1>8. /\ off + n <= Len(c["in"]) /\ got' = SubSeq(c["in"], off + 1, off + n)
      /\ e = [c EXCEPT !["in"] = c["in"]] /\ o = [p EXCEPT !["in"] = off + n]
  BY <1>5, <1>6, <1>7, Zenon
<1> QED
  BY <1>8, Zenon DEF Bytes!ReadFrom, Bytes!Put, c, e, p, o, Contents, Places

\* Draining is reading on, and dropping what was read.
LEMMA DrainOut ==
  ASSUME Good(out), Good(out'), NEW n \in 1..out.avail, Got(got', out, n), Drained(out', out, n),
         UNCHANGED <<in, body, nbytes>>
  PROVE  Bytes!Drain("out", n)
<1> DEFINE c == Contents
           e == Contents'
           p == Places
           o == Places'
<1>1. /\ Three(c, Content(in), Content(body), Content(out)) /\ Three(p, Pos(in), Pos(body), Pos(out))
      /\ Three(e, Content(in'), Content(body'), Content(out')) /\ Three(o, Pos(in'), Pos(body'), Pos(out'))
  BY Fields
<1>2. /\ Pos(out) = ReadPos(out) /\ Content(out) \in Seq(Byte) /\ ReadPos(out) \in Nat
      /\ Pos(out') = ReadPos(out')
  BY PosIs
<1>3. n \in Nat /\ n > 0 /\ ReadPos(out) + n <= Len(Content(out))
  <2>1. ReadPos(out) = Len(Content(out)) - out.avail /\ out.avail \in Nat /\ Len(Content(out)) \in Nat
    BY ReadPosIs
  <2> QED
    BY <2>1
<1>4. got' = SubSeq(Content(out), ReadPos(out) + 1, ReadPos(out) + n)
  <2>1. got' \in Seq(Byte) /\ Len(got') = n /\ \A x \in 1..n : got'[x] = Content(out)[ReadPos(out) + x]
    BY DEF Got
  <2> QED
    BY <1>2, <1>3, <2>1, PartIs
<1>5. PICK k \in 0..ReadPos(out) + n :
        /\ Content(out') = SubSeq(Content(out), k + 1, Len(Content(out)))
        /\ ReadPos(out') = ReadPos(out) + n - k
  BY DEF Drained
<1> HIDE DEF c, e, p, o
<1>6. c["out"] = Content(out) /\ p["out"] = ReadPos(out)
  BY <1>1, <1>2 DEF Three
<1>7. e = [c EXCEPT !["out"] = Content(out')] /\ o = [p EXCEPT !["out"] = Pos(out')]
  <2>1. Three(e, Content(in), Content(body), Content(out')) /\ Three(o, Pos(in), Pos(body), Pos(out'))
    BY <1>1
  <2> QED
    <3>1. OutIs(e, c, Content(out')) /\ OutIs(o, p, Pos(out'))
      BY <1>1, <2>1, ThreeOut, Zenon
    <3> QED
      BY <3>1, Zenon DEF OutIs
<1>8. Pos(out') = p["out"] + n - k /\ Content(out') = SubSeq(c["out"], k + 1, Len(c["out"]))
  BY <1>2, <1>5, <1>6, Zenon
<1>9. /\ n > 0 /\ p["out"] + n <= Len(c["out"])
      /\ got' = SubSeq(c["out"], p["out"] + 1, p["out"] + n)
      /\ k \in 0..p["out"] + n
      /\ e = [c EXCEPT !["out"] = SubSeq(c["out"], k + 1, Len(c["out"]))]
      /\ o = [p EXCEPT !["out"] = p["out"] + n - k]
  BY <1>3, <1>4, <1>6, <1>7, <1>8, Zenon
<1> QED
  BY <1>9, Zenon DEF Bytes!Drain, Bytes!Put, c, e, p, o, Contents, Places

\* An emptied queue has the empty string.
LEMMA ClearIs ==
  ASSUME got' = << >>, nbytes' = nbytes
  PROVE  /\ Emptied(in') /\ UNCHANGED <<body, out>> => Bytes!Clear("in")
         /\ Emptied(out') /\ UNCHANGED <<in, body>> => Bytes!Clear("out")
<1> DEFINE c == Contents
           e == Contents'
           p == Places
           o == Places'
<1>1. /\ Three(c, Content(in), Content(body), Content(out)) /\ Three(p, Pos(in), Pos(body), Pos(out))
      /\ Three(e, Content(in'), Content(body'), Content(out')) /\ Three(o, Pos(in'), Pos(body'), Pos(out'))
  BY Fields
<1>2. ASSUME NEW q, Emptied(q) PROVE Content(q) = << >> /\ Pos(q) = 0
  <2>1. Good(q) /\ q.avail = 0 /\ Written(q.m_q) = 0 /\ Content(q) = << >>
    BY <1>2 DEF Emptied, Fit
  <2>2. Pos(q) = Written(q.m_q) - q.avail
    BY <2>1, PosIs, ReadPosIs
  <2> QED
    BY <2>1, <2>2
<1> HIDE DEF c, e, p, o
<1>3. ASSUME Emptied(in'), UNCHANGED <<body, out>> PROVE Bytes!Clear("in")
  <2>1. e = [c EXCEPT !["in"] = << >>] /\ o = [p EXCEPT !["in"] = 0]
    BY <1>1, <1>2, <1>3, ThreeIn DEF InIs
  <2> QED
    BY <2>1, Zenon DEF Bytes!Clear, Bytes!Put, c, e, p, o, Contents, Places
<1>4. ASSUME Emptied(out'), UNCHANGED <<in, body>> PROVE Bytes!Clear("out")
  <2>1. e = [c EXCEPT !["out"] = << >>] /\ o = [p EXCEPT !["out"] = 0]
    <3>1. Three(e, Content(in), Content(body), << >>) /\ Three(o, Pos(in), Pos(body), 0)
      BY <1>1, <1>2, <1>4
    <3> QED
      <4>1. OutIs(e, c, << >>) /\ OutIs(o, p, 0)
        BY <1>1, <3>1, ThreeOut, Zenon
      <4> QED
        BY <4>1, Zenon DEF OutIs
  <2> QED
    BY <2>1, Zenon DEF Bytes!Clear, Bytes!Put, c, e, p, o, Contents, Places
<1> QED
  BY <1>3, <1>4

\* A queue that is all to be read is at its start.
LEMMA AtStart ==
  ASSUME NEW q, Good(q), q.avail = Written(q.m_q)
  PROVE  Pos(q) = 0
<1>1. Pos(q) = Written(q.m_q) - q.avail /\ q.avail \in Nat
  BY PosIs, ReadPosIs
<1> QED
  BY <1>1

\* split() cuts the string.
LEMMA SplitIn ==
  ASSUME NEW off \in Nat, HeadOf(in', in, off), TailOf(body', in, off),
         UNCHANGED <<out, nbytes>>, got' = << >>
  PROVE  Bytes!Split("in", "body", SplitAt(in, off))
<1> DEFINE c == Contents
           e == Contents'
           p == Places
           o == Places'
           at == SplitAt(in, off)
<1>1. /\ Three(c, Content(in), Content(body), Content(out)) /\ Three(p, Pos(in), Pos(body), Pos(out))
      /\ Three(e, Content(in'), Content(body'), Content(out')) /\ Three(o, Pos(in'), Pos(body'), Pos(out'))
  BY Fields
<1>2. /\ Content(in') = SubSeq(Content(in), 1, at)
      /\ Content(body') = SubSeq(Content(in), at + 1, Len(Content(in)))
  BY DEF HeadOf, TailOf
<1>3. Pos(in') = 0 /\ Pos(body') = 0
  BY AtStart DEF HeadOf, TailOf, Fit
<1> HIDE DEF c, e, p, o, at
<1>4. c["in"] = Content(in)
  BY <1>1 DEF Three
<1>5. Three(e, Content(in'), Content(body'), Content(out)) /\ Three(o, 0, 0, Pos(out))
  BY <1>1, <1>3
<1>6. SplitIs(e, c, Content(in'), Content(body')) /\ SplitIs(o, p, 0, 0)
  BY <1>1, <1>5, ThreeSplit, Zenon
<1>7. /\ e = [c EXCEPT !["in"] = SubSeq(c["in"], 1, at),
                       !["body"] = SubSeq(c["in"], at + 1, Len(c["in"]))]
      /\ o = [p EXCEPT !["in"] = 0, !["body"] = 0]
  BY <1>2, <1>4, <1>6, Zenon DEF SplitIs
<1> QED
  BY <1>7, Zenon DEF Bytes!Split, c, e, p, o, at, Contents, Places

\* A body that is joined or copied follows what is in the string.
LEMMA JoinOut ==
  ASSUME Good(out), Good(out'), Good(body), JoinedTo(out', out, Bytes!Entering, body),
         Emptied(body'), UNCHANGED in, got' = << >>, nbytes' >= nbytes
  PROVE  Bytes!Join("out", "body")
<1> DEFINE c == Contents
           e == Contents'
           p == Places
           o == Places'
<1>1. /\ Three(c, Content(in), Content(body), Content(out)) /\ Three(p, Pos(in), Pos(body), Pos(out))
      /\ Three(e, Content(in'), Content(body'), Content(out')) /\ Three(o, Pos(in'), Pos(body'), Pos(out'))
  BY Fields
<1>2. Content(out') = (Content(out) \o Bytes!Entering) \o Content(body)
  BY DEF JoinedTo
<1>3. Pos(out') = Pos(out)
  BY PosIs DEF JoinedTo
<1>4. Content(body') = << >> /\ Pos(body') = 0
  BY AtStart DEF Emptied, Fit
<1> HIDE DEF c, e, p, o
<1>6. c["out"] = Content(out) /\ c["body"] = Content(body)
  BY <1>1 DEF Three
<1>7. /\ Three(e, Content(in), << >>, Content(out'))
      /\ Three(o, Pos(in), 0, Pos(out))
  BY <1>1, <1>3, <1>4
<1>8. JoinIs(e, c, Content(out'), << >>)
  BY <1>1, <1>7, ThreeJoin, Zenon
<1>9. BodyIs(o, p, 0)
  BY <1>1, <1>7, ThreeBody, Zenon
<1>10. /\ e = [c EXCEPT !["out"] = (c["out"] \o Bytes!Entering) \o c["body"], !["body"] = << >>]
       /\ o = [p EXCEPT !["body"] = 0]
  BY <1>2, <1>6, <1>8, <1>9, Zenon DEF JoinIs, BodyIs
<1> QED
  BY <1>10, Zenon DEF Bytes!Join, c, e, p, o, Contents, Places

\* Blocks that are full hold a multiple of the block size.
LEMMA FullBlocks ==
  ASSUME NEW m \in Seq(Block), NEW n \in 0..Len(m), \A j \in 1..n : m[j].written = BSize
  PROVE  WrittenTo(m, n) = n * BSize
<1> DEFINE S == {j \in 0..n : WrittenTo(m, j) = j * BSize}
<1>1. BSize \in Nat /\ n \in Nat /\ Len(m) \in Nat
  BY BSizeAssumption, BlockTypes
<1>2. 0 \in S
  BY <1>1, WrittenSteps
<1>3. ASSUME NEW k \in 1..n, k - 1 \in S PROVE k \in S
  <2>1. k \in 0..n /\ k - 1 \in Nat /\ k \in 1..Len(m)
    BY <1>1
  <2>2. WrittenTo(m, k) = WrittenTo(m, k - 1) + BSize
    BY <2>1, WrittenSteps
  <2>3. WrittenTo(m, k - 1) = (k - 1) * BSize
    BY <1>3
  <2>4. (k - 1) * BSize + BSize = k * BSize
    BY <1>1, <2>1
  <2>5. WrittenTo(m, k) = k * BSize
    BY <2>2, <2>3, <2>4
  <2> QED
    BY <2>1, <2>5
<1> HIDE DEF S
<1>4. \A k \in 0..n : k \in S
  BY <1>1, <1>2, <1>3, UpTo
<1>5. n \in S
  BY <1>1, <1>4
<1> QED
  BY <1>5 DEF S

\* Away from the start of a block split() has something to copy.
LEMMA RestIs ==
  ASSUME NEW q, Fit(q), NEW off \in Nat, off < Written(q.m_q),
         \A k \in 0..off : off # k * BSize
  PROVE  RestOf(q, off) > 0
<1> DEFINE m == q.m_q
           i == BlockAt(q, off)
           n == i - 1
<1>1. /\ m \in Seq(Block) /\ GoodBlocks(m) /\ q.wr \in 0..Len(m) /\ Full(q) /\ Usable(q) /\ Len(m) \in Nat
      /\ q.wr # End => \A j \in 1..Len(m) : j > q.wr => m[j].written = 0
  BY QueueTypes, BlockTypes DEF Fit, Good, Shape
<1>2. IsBlockAt(i, m, off)
  BY <1>1, BlockAtIs
<1>3. RestOf(q, off) = off - WrittenTo(m, n)
  BY DEF RestOf
<1> HIDE DEF i
<1>4. /\ i \in 1..Len(m) /\ WrittenTo(m, n) <= off /\ off < WrittenTo(m, i)
      /\ WrittenTo(m, i) = WrittenTo(m, n) + m[i].written
      /\ WrittenTo(m, n) \in Nat /\ m[i].written \in Nat
  BY <1>2 DEF IsBlockAt
<1>5. m[i].written > 0
  BY <1>4
<1>6. q.wr # End /\ i <= q.wr
  <2>1. q.wr # End
    BY <1>1, <1>4 DEF Usable
  <2> QED
    BY <1>1, <1>4, <1>5, <2>1
<1>7. n \in 0..Len(m) /\ n \in Nat /\ \A j \in 1..n : j \in 1..Len(m) /\ j < q.wr
  BY <1>1, <1>4, <1>6
<1>8. \A j \in 1..n : m[j].written = BSize
  <2>1. \A j \in 1..Len(m) : ~m[j].ref /\ (j < q.wr => m[j].written = m[j].len)
    BY <1>1, <1>6 DEF Full
  <2>2. \A j \in 1..Len(m) : ~m[j].ref => m[j].len = BSize
    BY <1>1 DEF GoodBlocks, GoodBlock
  <2> QED
    BY <1>7, <2>1, <2>2
<1>9. WrittenTo(m, n) = n * BSize
  <2> HIDE DEF n
  <2> QED
    BY <1>1, <1>7, <1>8, FullBlocks
<1>10. off # WrittenTo(m, n)
  <2> HIDE DEF n
  <2>1. n <= n * BSize
    BY <1>7, BSizeAssumption
  <2>2. WrittenTo(m, n) \in Nat
    BY <1>4
  <2>3. off = WrittenTo(m, n) => n \in 0..off
    BY <1>7, <1>9, <2>1
  <2> QED
    BY <1>9, <2>3
<1> HIDE DEF n
<1> QED
  BY <1>3, <1>4, <1>10

\* The cut is at the offset or after it.
LEMMA SplitAtIs ==
  ASSUME NEW q, Good(q), NEW off \in Nat, off < Written(q.m_q)
  PROVE  SplitAt(q, off) \in off..Written(q.m_q)
<1> DEFINE m == q.m_q
           i == BlockAt(q, off)
<1>1. m \in Seq(Block) /\ Written(m) \in Nat
  BY QueueTypes, WrittenAll DEF Good, Shape
<1>2. IsBlockAt(i, m, off)
  BY <1>1, BlockAtIs
<1> HIDE DEF i
<1>3. /\ i \in 1..Len(m) /\ off < WrittenTo(m, i)
      /\ WrittenTo(m, i) = WrittenTo(m, i - 1) + m[i].written
      /\ WrittenTo(m, i - 1) \in Nat /\ m[i].written \in Nat
  BY <1>2 DEF IsBlockAt
<1>4. i \in 0..Len(m)
  BY <1>1, <1>3, BlockTypes
<1>5. WrittenTo(m, i) <= Written(m) /\ WrittenTo(m, i) \in Nat
  BY <1>1, <1>3, <1>4, WrittenAll
<1>6. WrittenTo(m, i) \in off..Written(m) /\ off \in off..Written(m)
  BY <1>1, <1>3, <1>5
<1> QED
  BY <1>6 DEF SplitAt, i

\* A step of the block queues is a step of the strings, or none.
LEMMA StepBytes ==
  ASSUME Inv, [Next]_vars
  PROVE  [Bytes!Next]_(Bytes!vars)
<1>1. CASE UNCHANGED vars
  BY <1>1 DEF vars, Bytes!vars, Content, Pos
<1>2. Good(in) /\ Good(out) /\ Good(body) /\ Inv'
  BY StepInv DEF Inv, Fit
<1>3. Good(in') /\ Good(out') /\ Good(body')
  BY <1>2 DEF Inv, Fit
<1>4. ASSUME NEW n \in 0..BSize, Recv(n) PROVE Bytes!Next
  <2>1. /\ Longer(in', in, Bytes!Entering) /\ nbytes' >= nbytes
        /\ UNCHANGED <<body, out>> /\ got' = << >>
    BY <1>4, RecvStep DEF Recv
  <2>2. Bytes!Write("in")
    BY <1>2, <1>3, <2>1, WriteIn
  <2> QED
    BY <2>2, Zenon DEF Bytes!Next
<1>5. ASSUME NEW n \in Nat, WriteOut(n) \/ WriteFile(n) \/ RecvAnswer(n) PROVE Bytes!Next
  <2>1. Longer(out', out, Bytes!Entering) /\ nbytes' >= nbytes
    BY <1>5, WriteOutStep
  <2>2. UNCHANGED <<in, body>> /\ got' = << >>
    BY <1>5 DEF WriteOut, WriteFile, RecvAnswer
  <2>3. Bytes!Write("out")
    BY <1>2, <1>3, <2>1, <2>2, WriteToOut
  <2> QED
    BY <2>3, Zenon DEF Bytes!Next
<1>6. ASSUME NEW n \in 1..BSize + 1, CreateRequest(n) PROVE Bytes!Next
  <2>1. /\ Emptied(body') /\ (has_body => JoinedTo(out', out, Bytes!Entering, body))
        /\ ~has_body => Longer(out', out, Bytes!Entering) /\ body' = body
        /\ nbytes' >= nbytes
    BY <1>6, CreateRequestStep
  <2>2. in' = in /\ got' = << >>
    BY <1>6 DEF CreateRequest
  <2>3. CASE has_body
    <3>1. Bytes!Join("out", "body")
      BY <1>2, <1>3, <2>1, <2>2, <2>3, JoinOut
    <3>2. "out" # "body"
      OBVIOUS
    <3> QED
      BY <3>1, <3>2, Zenon DEF Bytes!Next
  <2>4. CASE ~has_body
    <3>1. Bytes!Write("out")
      BY <1>2, <1>3, <2>1, <2>2, <2>4, WriteToOut
    <3> QED
      BY <3>1, Zenon DEF Bytes!Next
  <2> QED
    BY <2>3, <2>4
<1>7. ASSUME NEW n \in 1..out.avail, Drain(n) PROVE Bytes!Next
  <2>1. Got(got', out, n) /\ Drained(out', out, n)
    BY <1>7, DrainStep
  <2>2. UNCHANGED <<in, body, nbytes>>
    BY <1>7 DEF Drain
  <2>3. Bytes!Drain("out", n)
    BY <1>2, <1>3, <2>1, <2>2, DrainOut
  <2>4. n \in 0..Len(Content(out))
    <3>1. /\ ReadPos(out) \in Nat /\ ReadPos(out) = Written(out.m_q) - out.avail /\ out.avail \in Nat
          /\ Len(Content(out)) = Written(out.m_q) /\ Written(out.m_q) \in Nat
      BY <1>2, ReadPosIs
    <3> QED
      BY <3>1
  <2>5. Contents["out"] = Content(out)
    BY Fields DEF Three
  <2>6. n \in 0..Len(Contents["out"])
    BY <2>4, <2>5
  <2> QED
    BY <2>3, <2>6, Zenon DEF Bytes!Next, Contents
<1>8. ASSUME NEW off \in Nat, NEW n \in Nat, CopyPart(off, n) PROVE Bytes!Next
  <2>1. ReadOff(in', got', in, off, n)
    BY <1>8, CopyPartStep
  <2>2. off + n <= Len(Content(in)) /\ UNCHANGED <<body, out, nbytes>>
    BY <1>8 DEF CopyPart
  <2>3. Bytes!ReadFrom("in", off, n)
    BY <1>2, <2>1, <2>2, ReadIn
  <2>4. n \in 0..Len(Content(in)) /\ off \in 0..Len(Content(in))
    <3>1. Len(Content(in)) \in Nat
      BY <1>2, ReadPosIs
    <3> QED
      BY <2>2, <3>1
  <2>5. Contents["in"] = Content(in)
    BY Fields DEF Three
  <2>6. n \in 0..Len(Contents["in"]) /\ off \in 0..Len(Contents["in"])
    BY <2>4, <2>5
  <2> QED
    BY <2>3, <2>6, Zenon DEF Bytes!Next, Contents
<1>9. ASSUME NEW off \in BodyOffsets, GetBody(off) PROVE Bytes!Next
  <2>1. HeadOf(in', in, off) /\ TailOf(body', in, off) /\ off \in Nat /\ off < Written(in.m_q)
    BY <1>9, GetBodyStep
  <2>2. off > 0 /\ UNCHANGED <<out, nbytes>> /\ got' = << >>
    BY <1>9 DEF GetBody
  <2> DEFINE at == SplitAt(in, off)
             l == Len(Content(in))
  <2>3. Bytes!Split("in", "body", at)
    BY <2>1, <2>2, SplitIn
  <2>4. l = Written(in.m_q) /\ l \in Nat
    BY <1>2, ReadPosIs
  <2>5. off \in 1..l - 1
    BY <2>1, <2>2, <2>4
  <2>6. at \in off..l
    BY <1>2, <2>1, <2>4, SplitAtIs
  <2>7. off \notin BlockStarts => at = off
    <3>1. off \notin BlockStarts => \A k \in 0..off : off # k * BSize
      BY DEF BlockStarts
    <3>2. off \notin BlockStarts => RestOf(in, off) > 0
      BY <2>1, <3>1, RestIs DEF Inv
    <3> QED
      BY <3>2 DEF SplitAt
  <2> HIDE DEF at
  <2>8. at \in Bytes!Places(off, l)
    BY <2>6, <2>7 DEF Bytes!Places
  <2>9. Contents["in"] = Content(in)
    BY Fields DEF Three
  <2>10. /\ off \in 1..Len(Contents["in"]) - 1 /\ "in" # "body"
         /\ at \in Bytes!Places(off, Len(Contents["in"]))
    BY <2>5, <2>8, <2>9
  <2> QED
    BY <2>3, <2>10, Zenon DEF Bytes!Next, Contents
<1>10. ASSUME NextRequest PROVE Bytes!Next
  <2>1. Emptied(in') /\ UNCHANGED <<body, out, nbytes>> /\ got' = << >>
    BY <1>10, NextRequestStep DEF NextRequest
  <2>2. Bytes!Clear("in")
    BY <2>1, ClearIs
  <2> QED
    BY <2>2, Zenon DEF Bytes!Next
<1>11. ASSUME CopyBody PROVE Bytes!Next
  <2>1. Emptied(body') /\ JoinedTo(out', out, Bytes!Entering, body) /\ nbytes' >= nbytes
    BY <1>11, CopyBodyStep
  <2>2. in' = in /\ got' = << >>
    BY <1>11 DEF CopyBody
  <2>3. Bytes!Join("out", "body")
    BY <1>2, <1>3, <2>1, <2>2, JoinOut
  <2>4. "out" # "body"
    OBVIOUS
  <2> QED
    BY <2>3, <2>4, Zenon DEF Bytes!Next
<1>12. ASSUME Reuse \/ Discard PROVE Bytes!Next
  <2>1. Emptied(out')
    BY <1>12, EmptyStep
  <2>2. UNCHANGED <<in, body, nbytes>> /\ got' = << >>
    BY <1>12 DEF Reuse, Discard
  <2>3. Bytes!Clear("out")
    BY <2>1, <2>2, ClearIs
  <2> QED
    BY <2>3, Zenon DEF Bytes!Next
<1>13. \A n \in 0..BSize : n \in Nat
  BY BSizeAssumption
<1>14. /\ \A n \in 1..BSize + 1 : n \in Nat
       /\ \A off \in 0..MaxBytes : off \in Nat
  BY BSizeAssumption, OffsetsAssumption
<1>15. Next => Bytes!Next
  BY <1>4, <1>5, <1>6, <1>7, <1>8, <1>9, <1>10, <1>11, <1>12, <1>13, <1>14 DEF Next
<1> QED
  BY <1>1, <1>15

\* IsByteQueue: whatever the block size, the number of bytes and the place where a
\* body starts, the queues of a request and its answer behave as strings of bytes
\* with a position.  The bytes that enter are kept, in order; a body is split off
\* where it was asked for, or later when that is the start of a block, which the
\* loop of split() (nbq.cc) steps over.
THEOREM ByteQueues == Spec => IsByteQueue
<1>1. Init => Bytes!Init
  <2> SUFFICES ASSUME Init PROVE Bytes!Init
    OBVIOUS
  <2>1. in = NewQueue /\ body = NewQueue /\ out = NewQueue /\ got = << >> /\ nbytes = 0
    BY DEF Init
  <2>2. Content(NewQueue) = << >> /\ Pos(NewQueue) = 0
    BY NewQueueGood, AtStart DEF Emptied, Fit
  <2>3. Contents = [q \in {"in", "body", "out"} |-> << >>]
    <3>1. Three(Contents, << >>, << >>, << >>)
      BY <2>1, <2>2, Fields
    <3> QED
      BY <3>1 DEF Three
  <2>4. Places = [q \in {"in", "body", "out"} |-> 0]
    <3>1. Three(Places, 0, 0, 0)
      BY <2>1, <2>2, Fields
    <3> QED
      BY <3>1 DEF Three
  <2> QED
    BY <2>1, <2>3, <2>4, Zenon DEF Bytes!Init, Contents, Places
<1>2. Inv /\ [Next]_vars => [Bytes!Next]_(Bytes!vars)
  BY StepBytes
<1> QED
  BY <1>1, <1>2, Invariance, PTL DEF Spec, IsByteQueue, Bytes!Spec
=============================================================================
