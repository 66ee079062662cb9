--------------------------- MODULE AiCacheProofs ---------------------------
(***************************************************************************)
(* Proofs about the address cache, for any number of threads, keys,        *)
(* lifetimes and host_infos: who owns a host_info, what is handed out, and *)
(* which accesses to the map can race.                                     *)
(***************************************************************************)
EXTENDS AiCache, FiniteSetTheorems, TLAPS

----------------------------------------------------------------------------
(* The inductive invariant *)

\* Host_infos are numbered from 1 in the order they were allocated.
Numbered == \E n \in Nat : DOMAIN info = 1 .. n

\* The map and the file have finitely many entries, keys to expiry times.
Finite ==
  /\ IsFiniteSet(DOMAIN map)
  /\ IsFiniteSet(DOMAIN file)
  /\ DOMAIN file \subseteq Key
  /\ \A k \in DOMAIN file : file[k] \in Nat

\* One thread at most holds the mutex.
OneHolder == \A t, u \in mutex : t = u

\* The host_infos that threads have allocated and not yet stored.
Fresh(t) == th[t].op \in {"answer", "store", "inline"}

\* What a thread has in its hands.
Hands ==
  \A t \in Thread :
    /\ th[t].op # "idle" => th[t].key \in Key
    /\ th[t].op \in {"idle", "tryfast", "nlookup"} => th[t].ptr = None
    /\ th[t].op = "held" => th[t].ptr \in DOMAIN info
    /\ Fresh(t) =>
         /\ th[t].ptr \in DOMAIN info
         /\ ~info[th[t].ptr].deleted
         /\ th[t].at <= info[th[t].ptr].m_expires_s
         /\ \A k \in DOMAIN map : map[k] # th[t].ptr
         /\ \A u \in Thread : u # t => th[u].ptr # th[t].ptr

IInv ==
  /\ EntriesOwned /\ FreshServed /\ DeletedOnlyIfExpired
  /\ Numbered /\ Finite /\ OneHolder /\ Hands

----------------------------------------------------------------------------
(* Steps of a thread that leave the map and the host_infos alone *)

\* The states a thread can be in.
ThreadState ==
  [op : {"idle", "tryfast", "nlookup", "answer", "store", "inline", "held"},
   key : Key \cup {None}, ptr : {None} \cup DOMAIN info, at : 0 .. MaxNow]

\* A thread changes its own state only: the new host_info that it holds stays
\* in its hands, and it gets no pointer.
LEMMA ThreadStep ==
  ASSUME IInv, NEW t \in Thread, NEW r \in ThreadState,
         th' = [th EXCEPT ![t] = r], UNCHANGED <<now, info, map, file>>,
         mutex' = InMap' \ Unlocked', OneHolder',
         r.op # "idle" => r.key \in Key,
         r.op # "held",
         r.op \in {"answer", "store", "inline"} <=> Fresh(t),
         Fresh(t) => r.ptr = th[t].ptr /\ r.at = th[t].at,
         ~Fresh(t) => r.ptr = None
  PROVE  IInv'
<1>1. /\ th' \in [Thread -> ThreadState]
      /\ \A u \in Thread : u # t => th'[u] = th[u]
      /\ th'[t] = r
  BY DEF IInv, EntriesOwned, TypeOK, ThreadState
<1>2. TypeOK'
  BY <1>1 DEF IInv, EntriesOwned, TypeOK, ThreadState
<1>3. None \notin DOMAIN info
  BY DEF IInv, Numbered, None
<1>4. Hands'
  BY <1>1, <1>3 DEF IInv, Hands, Fresh, EntriesOwned, TypeOK
<1>5. NoLeak'
  BY <1>1 DEF IInv, EntriesOwned, NoLeak, Range, Fresh
<1>6. FreshServed' /\ DeletedOnlyIfExpired'
  BY <1>1 DEF IInv, FreshServed, DeletedOnlyIfExpired
<1> QED
  BY <1>2, <1>4, <1>5, <1>6 DEF IInv, EntriesOwned, MapLive, Numbered, Finite

\* lookup_tryfast() takes the mutex and goes into the map.
LEMMA TryfastEnterInv ==
  ASSUME IInv, NEW t \in Thread, NEW k \in Key, TryfastEnter(t, k)
  PROVE  IInv'
<1> DEFINE r == [op |-> "tryfast", key |-> k, ptr |-> None, at |-> now]
<1>1. r \in ThreadState /\ th' = [th EXCEPT ![t] = r] /\ ~Fresh(t)
  BY DEF TryfastEnter, Set, IInv, EntriesOwned, TypeOK, ThreadState, Idle, Fresh
<1>2. mutex' = InMap' \ Unlocked' /\ OneHolder'
  BY <1>1 DEF TryfastEnter, Lock, IInv, EntriesOwned, TypeOK, InMap, Unlocked, OneHolder
<1> QED
  BY <1>1, <1>2, ThreadStep DEF TryfastEnter

\* nlookup() fails in lookup_inline(): the thread goes back with nothing.
LEMMA InlineFailsInv ==
  ASSUME IInv, NEW t \in Thread, InlineFails(t)
  PROVE  IInv'
<1>1. Idle \in ThreadState /\ th' = [th EXCEPT ![t] = Idle] /\ ~Fresh(t)
  BY AiCacheAssumption DEF InlineFails, IInv, EntriesOwned, TypeOK, ThreadState, Idle, Fresh
<1>2. mutex' = InMap' \ Unlocked' /\ OneHolder'
  BY <1>1 DEF InlineFails, IInv, EntriesOwned, TypeOK, InMap, Unlocked, OneHolder, Idle
<1> QED
  BY <1>1, <1>2, ThreadStep DEF InlineFails, Idle

\* dns_a4_cb() takes the mutex and goes into the map with its new host_info.
LEMMA StoreEnterInv ==
  ASSUME IInv, NEW t \in Thread, StoreEnter(t)
  PROVE  IInv'
<1> DEFINE r == [th[t] EXCEPT !.op = "store"]
<1>1. r \in ThreadState /\ th' = [th EXCEPT ![t] = r] /\ Fresh(t)
  BY DEF StoreEnter, IInv, EntriesOwned, TypeOK, ThreadState, Fresh
<1>2. mutex' = InMap' \ Unlocked' /\ OneHolder'
  BY <1>1 DEF StoreEnter, Lock, IInv, EntriesOwned, TypeOK, InMap, Unlocked, OneHolder
<1>3. r.key = th[t].key /\ r.ptr = th[t].ptr /\ r.at = th[t].at /\ r.op = "store"
  BY DEF IInv, EntriesOwned, TypeOK
<1>4. r.key \in Key
  BY <1>1, <1>3 DEF IInv, Hands, Fresh
<1> HIDE DEF r
<1> QED
  BY <1>1, <1>2, <1>3, <1>4, ThreadStep DEF StoreEnter

\* The host_info has been copied and the thread forgets it.
LEMMA CopyInv ==
  ASSUME IInv, NEW t \in Thread, Copy(t)
  PROVE  IInv'
<1>1. Idle \in ThreadState /\ th' = [th EXCEPT ![t] = Idle] /\ ~Fresh(t)
  BY AiCacheAssumption DEF Copy, IInv, EntriesOwned, TypeOK, ThreadState, Idle, Fresh
<1>2. mutex' = InMap' \ Unlocked' /\ OneHolder'
  BY <1>1 DEF Copy, IInv, EntriesOwned, TypeOK, InMap, Unlocked, OneHolder, Idle
<1> QED
  BY <1>1, <1>2, ThreadStep DEF Copy, Idle

\* Time makes entries expire, and changes nothing else.
LEMMA TickInv ==
  ASSUME IInv, Tick
  PROVE  IInv'
<1>1. now' \in 1 .. MaxNow /\ now' > now /\ now \in Nat
  BY AiCacheAssumption DEF Tick, IInv, EntriesOwned, TypeOK
<1>2. EntriesOwned' /\ FreshServed' /\ Numbered' /\ Finite' /\ OneHolder' /\ Hands'
  BY <1>1 DEF Tick, IInv, EntriesOwned, TypeOK, MapLive, NoLeak, FreshServed, Numbered,
              Finite, OneHolder, Hands, Fresh, InMap, Unlocked
<1>3. DeletedOnlyIfExpired'
  BY <1>1 DEF Tick, IInv, DeletedOnlyIfExpired, EntriesOwned, TypeOK, Hands
<1> QED
  BY <1>2, <1>3 DEF IInv

----------------------------------------------------------------------------
(* New host_infos *)

\* A thread that allocates a host_info has in its hands what nobody else
\* refers to: its number is new.
LEMMA AllocInv ==
  ASSUME IInv, NEW t \in Thread, NEW k \in Key, NEW op \in {"answer", "inline"},
         th[t].op \in {"idle", "nlookup"},
         Alloc(t, op, k), UNCHANGED <<now, map, mutex, file>>
  PROVE  IInv'
<1>1. PICK n \in Nat : DOMAIN info = 1 .. n
  BY DEF IInv, Numbered
<1>2. Cardinality(DOMAIN info) = n
  BY <1>1, FS_Interval
<1>3. PICK ttl \in Ttl :
        /\ info' = [i \in 1 .. n + 1 |-> IF i \in DOMAIN info THEN info[i]
                      ELSE [m_expires_s |-> now + ttl, deleted |-> FALSE]]
        /\ th' = [th EXCEPT ![t] = [op |-> op, key |-> k, ptr |-> n + 1, at |-> now]]
  BY <1>2 DEF Alloc, Set
<1>4. /\ DOMAIN info' = DOMAIN info \cup {n + 1} /\ n + 1 \notin DOMAIN info
      /\ \A i \in DOMAIN info : info'[i] = info[i]
      /\ info'[n + 1] = [m_expires_s |-> now + ttl, deleted |-> FALSE]
      /\ now \in Nat /\ now <= now + ttl /\ now + ttl \in Nat
      /\ DOMAIN info' = 1 .. n + 1
  BY <1>1, <1>3, AiCacheAssumption DEF IInv, EntriesOwned, TypeOK
<1>5. /\ th' \in [Thread -> ThreadState']
      /\ \A u \in Thread : u # t => th'[u] = th[u]
      /\ th'[t] = [op |-> op, key |-> k, ptr |-> n + 1, at |-> now]
  BY <1>3, <1>4 DEF IInv, EntriesOwned, TypeOK, ThreadState
<1>6. InMap' \ Unlocked' = InMap \ Unlocked
  BY <1>5 DEF InMap, Unlocked
<1>7. TypeOK'
  <2>1. \A i \in DOMAIN info' : info'[i] \in [m_expires_s : Nat, deleted : BOOLEAN]
    <3>1. info'[n + 1] \in [m_expires_s : Nat, deleted : BOOLEAN]
      BY <1>4
    <3>2. \A i \in DOMAIN info : info[i] \in [m_expires_s : Nat, deleted : BOOLEAN]
      BY DEF IInv, EntriesOwned, TypeOK
    <3> QED
      BY <1>4, <3>1, <3>2
  <2> QED
    BY <1>4, <1>5, <1>6, <2>1 DEF IInv, EntriesOwned, TypeOK, ThreadState
<1>8. \A u \in Thread : th[u].ptr # n + 1
  BY <1>1, <1>4 DEF IInv, EntriesOwned, TypeOK, None
<1>9. Hands'
  <2>1. ASSUME NEW u \in Thread
        PROVE  /\ th'[u].op # "idle" => th'[u].key \in Key
               /\ th'[u].op \in {"idle", "tryfast", "nlookup"} => th'[u].ptr = None
               /\ th'[u].op = "held" => th'[u].ptr \in DOMAIN info'
    BY <1>4, <1>5 DEF IInv, Hands
  <2>2. ASSUME NEW u \in Thread, Fresh(u)'
        PROVE  /\ th'[u].ptr \in DOMAIN info'
               /\ ~info'[th'[u].ptr].deleted
               /\ th'[u].at <= info'[th'[u].ptr].m_expires_s
               /\ \A x \in DOMAIN map' : map'[x] # th'[u].ptr
               /\ \A v \in Thread : v # u => th'[v].ptr # th'[u].ptr
    <3>1. CASE u = t
      BY <1>4, <1>5, <1>8, <3>1 DEF IInv, EntriesOwned, TypeOK
    <3>2. CASE u # t
      <4>1. Fresh(u) /\ th'[u] = th[u]
        BY <1>5, <2>2, <3>2 DEF Fresh
      <4> QED
        BY <1>4, <1>5, <1>8, <3>2, <4>1 DEF IInv, Hands
    <3> QED
      BY <3>1, <3>2
  <2> QED
    BY <2>1, <2>2 DEF Hands
<1>10. MapLive'
  BY <1>4 DEF IInv, EntriesOwned, MapLive, TypeOK, IsInjective
<1>11. NoLeak'
  BY <1>4, <1>5 DEF IInv, EntriesOwned, NoLeak, Range
<1>12. FreshServed' /\ DeletedOnlyIfExpired'
  BY <1>4, <1>5 DEF IInv, FreshServed, DeletedOnlyIfExpired, Hands
<1>13. Numbered' /\ Finite' /\ OneHolder'
  BY <1>4 DEF IInv, Numbered, Finite, OneHolder
<1> QED
  BY <1>7, <1>9, <1>10, <1>11, <1>12, <1>13 DEF IInv, EntriesOwned

\* nlookup() in lookup_inline() has an answer.
LEMMA InlineEnterInv ==
  ASSUME IInv, NEW t \in Thread, InlineEnter(t)
  PROVE  IInv'
<1>1. th[t].op = "nlookup" /\ th[t].key \in Key
  BY DEF InlineEnter, IInv, Hands
<1> QED
  BY <1>1, AllocInv DEF InlineEnter

\* dns_a4_cb() has an answer.
LEMMA StoreAllocInv ==
  ASSUME IInv, NEW t \in Thread, NEW k \in Key, StoreAlloc(t, k)
  PROVE  IInv'
BY AllocInv DEF StoreAlloc, Idle

----------------------------------------------------------------------------
(* Lookups and insertions *)

\* delete marks the host_infos it names, and changes nothing else of any.
LEMMA DeletedFacts ==
  ASSUME IInv, NEW is, info' = Deleted(is)
  PROVE  /\ DOMAIN info' = DOMAIN info
         /\ \A i \in DOMAIN info :
              /\ info'[i] \in [m_expires_s : Nat, deleted : BOOLEAN]
              /\ info'[i].m_expires_s = info[i].m_expires_s
              /\ info'[i].deleted <=> info[i].deleted \/ i \in is
<1>1. DOMAIN info' = DOMAIN info
  BY DEF Deleted
<1>2. ASSUME NEW i \in DOMAIN info
      PROVE  /\ info'[i] \in [m_expires_s : Nat, deleted : BOOLEAN]
             /\ info'[i].m_expires_s = info[i].m_expires_s
             /\ info'[i].deleted <=> info[i].deleted \/ i \in is
  <2>1. info[i] \in [m_expires_s : Nat, deleted : BOOLEAN]
    BY DEF IInv, EntriesOwned, TypeOK
  <2>2. info'[i] = IF i \in is THEN [info[i] EXCEPT !.deleted = TRUE] ELSE info[i]
    BY DEF Deleted
  <2> QED
    BY <2>1, <2>2
<1> QED
  BY <1>1, <1>2

\* What lookup(label) does to an expired entry: erased and deleted.
LEMMA LookupInv ==
  ASSUME IInv, NEW k \in Key, lookup(k), UNCHANGED <<now, file>>
  PROVE  /\ DOMAIN map' = DOMAIN map \ {x \in {k} : HasExpired(x)}
         /\ \A x \in DOMAIN map' : map'[x] = map[x]
         /\ IsFiniteSet(DOMAIN map')
         /\ DOMAIN info' = DOMAIN info
         /\ \A i \in DOMAIN info :
              /\ info'[i] \in [m_expires_s : Nat, deleted : BOOLEAN]
              /\ info'[i].m_expires_s = info[i].m_expires_s
              /\ info'[i].deleted <=> info[i].deleted \/ (HasExpired(k) /\ i = map[k])
<1>1. DOMAIN map' = DOMAIN map \ {x \in {k} : HasExpired(x)}
  BY DEF lookup, Restrict, HasExpired
<1>2. \A x \in DOMAIN map' : map'[x] = map[x]
  BY DEF lookup, Restrict
<1>3. IsFiniteSet(DOMAIN map')
  BY <1>1, FS_Difference DEF IInv, Finite
<1>4. \A i : i \in ExpiredAt(k) <=> HasExpired(k) /\ i = map[k]
  BY DEF ExpiredAt
<1>5. /\ DOMAIN info' = DOMAIN info
      /\ \A i \in DOMAIN info :
           /\ info'[i] \in [m_expires_s : Nat, deleted : BOOLEAN]
           /\ info'[i].m_expires_s = info[i].m_expires_s
           /\ info'[i].deleted <=> info[i].deleted \/ i \in ExpiredAt(k)
  <2>1. info' = Deleted(ExpiredAt(k))
    BY DEF lookup
  <2> HIDE DEF Deleted, ExpiredAt
  <2> QED
    BY <2>1, DeletedFacts
<1> QED
  BY <1>1, <1>2, <1>3, <1>4, <1>5

\* A thread that leaves lookup(label) has the entry's host_info if it had not
\* expired, and nothing otherwise.
LEMMA LeaveLookupInv ==
  ASSUME IInv, NEW t \in Thread, NEW r \in ThreadState,
         th[t].op = "tryfast", lookup(th[t].key), th' = [th EXCEPT ![t] = r],
         r.op = "held" => HasLive(th[t].key) /\ r.ptr = map[th[t].key] /\ r.at = now,
         r.op # "held" => r.op \in {"idle", "nlookup"} /\ r.ptr = None,
         r.op # "idle" => r.key \in Key,
         mutex' = {}, UNCHANGED <<now, file>>
  PROVE  IInv'
<1> DEFINE k == th[t].key
<1>1. k \in Key
  BY DEF IInv, Hands
<1>2. /\ DOMAIN map' = DOMAIN map \ {x \in {k} : HasExpired(x)}
      /\ \A x \in DOMAIN map' : map'[x] = map[x]
      /\ IsFiniteSet(DOMAIN map')
      /\ DOMAIN info' = DOMAIN info
      /\ \A i \in DOMAIN info :
           /\ info'[i] \in [m_expires_s : Nat, deleted : BOOLEAN]
           /\ info'[i].m_expires_s = info[i].m_expires_s
           /\ info'[i].deleted <=> info[i].deleted \/ (HasExpired(k) /\ i = map[k])
  BY <1>1, LookupInv
<1> HIDE DEF k
<1>3. /\ th' \in [Thread -> ThreadState']
      /\ \A u \in Thread : u # t => th'[u] = th[u]
      /\ th'[t] = r
  BY <1>2 DEF IInv, EntriesOwned, TypeOK, ThreadState
<1>4. mutex = {t} /\ t \in InMap /\ t \notin Unlocked
  BY DEF IInv, EntriesOwned, TypeOK, OneHolder, InMap, Unlocked
<1>5. InMap' \ Unlocked' = (InMap \ Unlocked) \ {t}
  BY <1>3 DEF InMap, Unlocked
<1>6. TypeOK'
  <2>1. mutex' = InMap' \ Unlocked'
    BY <1>4, <1>5 DEF IInv, EntriesOwned, TypeOK
  <2> QED
    BY <1>2, <1>3, <2>1 DEF IInv, EntriesOwned, TypeOK, ThreadState
<1>7. None \notin DOMAIN info
  BY DEF IInv, Numbered, None
<1>8. r.ptr = None \/ (k \in DOMAIN map /\ r.ptr = map[k])
  BY DEF HasLive, k
<1>9. Hands'
  <2>1. ASSUME NEW u \in Thread
        PROVE  /\ th'[u].op # "idle" => th'[u].key \in Key
               /\ th'[u].op \in {"idle", "tryfast", "nlookup"} => th'[u].ptr = None
               /\ th'[u].op = "held" => th'[u].ptr \in DOMAIN info'
    BY <1>2, <1>3, <1>8 DEF IInv, Hands, EntriesOwned, TypeOK, HasLive
  <2>2. ASSUME NEW u \in Thread, Fresh(u)'
        PROVE  /\ th'[u].ptr \in DOMAIN info'
               /\ ~info'[th'[u].ptr].deleted
               /\ th'[u].at <= info'[th'[u].ptr].m_expires_s
               /\ \A x \in DOMAIN map' : map'[x] # th'[u].ptr
               /\ \A v \in Thread : v # u => th'[v].ptr # th'[u].ptr
    <3>1. u # t /\ Fresh(u) /\ th'[u] = th[u]
      BY <1>3, <2>2 DEF Fresh
    <3>2. /\ th[u].ptr \in DOMAIN info
          /\ ~info[th[u].ptr].deleted
          /\ th[u].at <= info[th[u].ptr].m_expires_s
          /\ \A x \in DOMAIN map : map[x] # th[u].ptr
          /\ \A v \in Thread : v # u => th[v].ptr # th[u].ptr
      BY <3>1 DEF IInv, Hands
    <3> QED
      BY <1>2, <1>3, <1>7, <1>8, <3>1, <3>2 DEF HasExpired
  <2> QED
    BY <2>1, <2>2 DEF Hands
<1>10. MapLive'
  BY <1>2 DEF IInv, EntriesOwned, MapLive, TypeOK, IsInjective, HasExpired
<1>11. NoLeak'
  <2>1. ASSUME NEW i \in DOMAIN info, ~info'[i].deleted
        PROVE  \/ i \in Range(map')
               \/ \E u \in Thread : th'[u].op \in {"answer", "store", "inline"} /\ th'[u].ptr = i
    <3>1. ~info[i].deleted /\ ~(HasExpired(k) /\ i = map[k])
      BY <1>2, <2>1
    <3>2. CASE i \in Range(map)
      BY <1>2, <3>1, <3>2 DEF Range
    <3>3. CASE \E u \in Thread : th[u].op \in {"answer", "store", "inline"} /\ th[u].ptr = i
      BY <1>3, <3>3
    <3> QED
      BY <3>1, <3>2, <3>3 DEF IInv, EntriesOwned, NoLeak
  <2> QED
    BY <1>2, <2>1 DEF NoLeak
<1>12. FreshServed'
  <2>1. r.op = "held" => now <= info[r.ptr].m_expires_s /\ r.ptr \in DOMAIN info
    BY DEF HasLive, Expired, IInv, EntriesOwned, TypeOK
  <2> QED
    BY <1>2, <1>3, <2>1 DEF IInv, FreshServed, Hands
<1>13. DeletedOnlyIfExpired'
  <2>1. ASSUME NEW u \in Thread, th'[u].op = "held", info'[th'[u].ptr].deleted
        PROVE  th'[u].at < now /\ info'[th'[u].ptr].m_expires_s < now
    <3>1. CASE u = t
      <4>1. HasLive(k) /\ r.ptr = map[k] /\ ~HasExpired(k)
        BY <1>3, <2>1, <3>1 DEF k, HasLive, HasExpired
      <4>2. map[k] \in DOMAIN info /\ ~info[map[k]].deleted
        BY <4>1 DEF HasLive, IInv, EntriesOwned, TypeOK, MapLive
      <4> QED
        BY <1>2, <1>3, <2>1, <3>1, <4>1, <4>2
    <3>2. CASE u # t
      <4>1. th'[u] = th[u] /\ th[u].op = "held" /\ th[u].ptr \in DOMAIN info
        BY <1>3, <2>1, <3>2 DEF IInv, Hands
      <4>2. th[u].at <= info[th[u].ptr].m_expires_s
        BY <4>1 DEF IInv, FreshServed
      <4>3. now \in Nat /\ th[u].at \in Nat /\ info[th[u].ptr].m_expires_s \in Nat
        BY <4>1 DEF IInv, EntriesOwned, TypeOK
      <4>4. CASE info[th[u].ptr].deleted
        BY <1>2, <4>1, <4>4 DEF IInv, DeletedOnlyIfExpired
      <4>5. CASE HasExpired(k) /\ th[u].ptr = map[k]
        BY <1>2, <4>1, <4>2, <4>3, <4>5 DEF HasExpired, Expired
      <4> QED
        BY <1>2, <2>1, <4>1, <4>4, <4>5
    <3> QED
      BY <3>1, <3>2
  <2> QED
    BY <2>1 DEF DeletedOnlyIfExpired
<1>14. Numbered' /\ Finite' /\ OneHolder'
  BY <1>2 DEF IInv, Numbered, Finite, OneHolder
<1> QED
  BY <1>6, <1>9, <1>10, <1>11, <1>12, <1>13, <1>14 DEF IInv, EntriesOwned

\* lookup_tryfast() finds a live entry.
LEMMA TryfastFoundInv ==
  ASSUME IInv, NEW t \in Thread, TryfastFound(t)
  PROVE  IInv'
<1> DEFINE r == [op |-> "held", key |-> th[t].key, ptr |-> map[th[t].key], at |-> now]
<1>1. th[t].key \in Key /\ map[th[t].key] \in DOMAIN info
  BY DEF TryfastFound, IInv, Hands, HasLive, EntriesOwned, TypeOK
<1>2. r \in ThreadState /\ th' = [th EXCEPT ![t] = r]
  BY <1>1 DEF TryfastFound, Set, IInv, EntriesOwned, TypeOK, ThreadState
<1> QED
  BY <1>1, <1>2, LeaveLookupInv DEF TryfastFound

\* lookup_tryfast() finds none, or one that expired.
LEMMA TryfastMissedInv ==
  ASSUME IInv, NEW t \in Thread, TryfastMissed(t)
  PROVE  IInv'
<1> DEFINE r == IF th[t].key \in Literal THEN [th[t] EXCEPT !.op = "nlookup"] ELSE Idle
<1>1. th[t].key \in Key /\ th[t] \in ThreadState
  BY DEF TryfastMissed, IInv, Hands, EntriesOwned, TypeOK, ThreadState
<1>2. th' = [th EXCEPT ![t] = r]
  BY DEF TryfastMissed
<1>3. /\ r \in ThreadState
      /\ r.op \in {"idle", "nlookup"}
      /\ r.op # "idle" => r.key \in Key /\ r.ptr = th[t].ptr
      /\ r.op = "idle" => r.ptr = None
  BY <1>1, AiCacheAssumption DEF ThreadState, Idle
<1>4. th[t].op = "tryfast" => th[t].ptr = None
  BY DEF IInv, Hands
<1> HIDE DEF r
<1> QED
  BY <1>1, <1>2, <1>3, <1>4, LeaveLookupInv DEF TryfastMissed

\* A thread stores its host_info, or deletes it and takes the one it found.
LEMMA AddInv ==
  ASSUME IInv, NEW t \in Thread, Add(t)
  PROVE  IInv'
<1> DEFINE k == th[t].key
           new == th[t].ptr
           gone == IF HasLive(k) THEN {new} ELSE ExpiredAt(k)
<1>1. /\ Fresh(t) /\ k \in Key /\ new \in DOMAIN info
      /\ ~info[new].deleted /\ th[t].at <= info[new].m_expires_s
      /\ \A x \in DOMAIN map : map[x] # new
      /\ \A u \in Thread : u # t => th[u].ptr # new
  BY DEF Add, IInv, Hands, Fresh
<1>2. /\ map' = IF HasLive(k) THEN map ELSE Stored(k, new)
      /\ info' = Deleted(gone)
      /\ mutex' = mutex \ {t} /\ UNCHANGED <<now, file>>
  BY DEF Add, lookupOrAdd
<1>3. /\ DOMAIN map' = DOMAIN map \cup {k}
      /\ \A x \in DOMAIN map \ {k} : map'[x] = map[x]
      /\ HasLive(k) => k \in DOMAIN map /\ map'[k] = map[k] /\ map' = map
      /\ ~HasLive(k) => map'[k] = new
  BY <1>2 DEF HasLive, Stored
<1>4. /\ DOMAIN info' = DOMAIN info
      /\ \A i \in DOMAIN info :
           /\ info'[i] \in [m_expires_s : Nat, deleted : BOOLEAN]
           /\ info'[i].m_expires_s = info[i].m_expires_s
           /\ info'[i].deleted <=> info[i].deleted \/ i \in gone
  <2> HIDE DEF gone
  <2> QED
    BY <1>2, DeletedFacts
<1>5. /\ HasLive(k) => gone = {new}
      /\ ~HasLive(k) => (\A i : i \in gone <=> HasExpired(k) /\ i = map[k])
  BY DEF ExpiredAt
<1> DEFINE r == [op |-> "held", key |-> k, ptr |-> map'[k],
                 at |-> IF HasLive(k) THEN now ELSE th[t].at]
<1>6. /\ th' \in [Thread -> {r} \cup ThreadState]
      /\ \A u \in Thread : u # t => th'[u] = th[u]
      /\ th'[t] = r
  <2>1. th \in [Thread -> ThreadState]
    BY DEF IInv, EntriesOwned, TypeOK, ThreadState
  <2> QED
    BY <2>1 DEF Add
<1> HIDE DEF k, new, gone
<1>7. /\ r.op = "held" /\ r.key = k /\ r.ptr = map'[k]
      /\ r.at = IF HasLive(k) THEN now ELSE th[t].at
  OBVIOUS
<1>8. map'[k] \in DOMAIN info
  BY <1>1, <1>3 DEF IInv, EntriesOwned, TypeOK
<1>9. /\ th' \in [Thread -> ThreadState']
      /\ \A u \in Thread : u # t => th'[u] = th[u]
      /\ th'[t] = r
  <2>1. r \in ThreadState
    BY <1>1, <1>8 DEF IInv, EntriesOwned, TypeOK, ThreadState
  <2>2. ThreadState' = ThreadState
    BY <1>4 DEF ThreadState
  <2> HIDE DEF r
  <2> QED
    BY <1>6, <2>1, <2>2
<1> HIDE DEF r
<1>10. InMap' \ Unlocked' = (InMap \ Unlocked) \ {t}
  BY <1>7, <1>9 DEF InMap, Unlocked
<1>11. TypeOK'
  <2>1. mutex' = InMap' \ Unlocked'
    BY <1>2, <1>10 DEF IInv, EntriesOwned, TypeOK
  <2>2. \A x \in DOMAIN map' : map'[x] \in DOMAIN info
    BY <1>3, <1>8 DEF IInv, EntriesOwned, TypeOK
  <2> QED
    BY <1>1, <1>2, <1>3, <1>4, <1>9, <2>1, <2>2 DEF IInv, EntriesOwned, TypeOK, ThreadState
<1>12. \A i \in gone : i = new \/ (k \in DOMAIN map /\ i = map[k])
  BY <1>5 DEF HasExpired
<1>13. \A x \in DOMAIN map : map[x] \in DOMAIN info /\ ~info[map[x]].deleted
  BY DEF IInv, EntriesOwned, TypeOK, MapLive
<1>14. MapLive'
  <2>1. IsInjective(map')
    BY <1>1, <1>3 DEF IInv, EntriesOwned, MapLive, IsInjective
  <2>2. ASSUME NEW x \in DOMAIN map'
        PROVE  ~info'[map'[x]].deleted
    <3>1. CASE HasLive(k)
      BY <1>1, <1>3, <1>4, <1>5, <1>13, <3>1
    <3>2. CASE ~HasLive(k) /\ x = k
      <4>1. new \notin gone
        BY <1>1, <1>5, <3>2 DEF HasExpired
      <4> QED
        BY <1>1, <1>3, <1>4, <3>2, <4>1
    <3>3. CASE ~HasLive(k) /\ x # k
      <4>1. x \in DOMAIN map /\ map'[x] = map[x]
        BY <1>3, <3>3
      <4>2. map[x] \notin gone
        BY <1>5, <3>3, <4>1 DEF HasExpired, IInv, EntriesOwned, MapLive, IsInjective
      <4> QED
        BY <1>4, <1>13, <4>1, <4>2
    <3> QED
      BY <3>1, <3>2, <3>3
  <2> QED
    BY <2>1, <2>2 DEF MapLive
<1>15. NoLeak'
  <2>1. ASSUME NEW i \in DOMAIN info, ~info'[i].deleted
        PROVE  \/ i \in Range(map')
               \/ \E u \in Thread : th'[u].op \in {"answer", "store", "inline"} /\ th'[u].ptr = i
    <3>1. ~info[i].deleted /\ i \notin gone
      BY <1>4, <2>1
    <3>2. CASE i \in Range(map)
      <4>1. PICK x \in DOMAIN map : map[x] = i
        BY <3>2 DEF Range
      <4>2. CASE HasLive(k) \/ x # k
        BY <1>3, <4>1, <4>2 DEF Range
      <4>3. CASE ~HasLive(k) /\ x = k
        BY <1>5, <3>1, <4>1, <4>3 DEF HasLive, HasExpired
      <4> QED
        BY <4>2, <4>3
    <3>3. CASE \E u \in Thread : th[u].op \in {"answer", "store", "inline"} /\ th[u].ptr = i
      <4>1. PICK u \in Thread : th[u].op \in {"answer", "store", "inline"} /\ th[u].ptr = i
        BY <3>3
      <4>2. CASE u # t
        BY <1>9, <4>1, <4>2
      <4>3. CASE u = t
        <5>1. i = new /\ ~HasLive(k)
          BY <1>5, <3>1, <4>1, <4>3 DEF new
        <5> QED
          BY <1>3, <5>1 DEF Range
      <4> QED
        BY <4>2, <4>3
    <3> QED
      BY <3>1, <3>2, <3>3 DEF IInv, EntriesOwned, NoLeak
  <2> QED
    BY <1>4, <2>1 DEF NoLeak
<1>16. Hands'
  <2>1. ASSUME NEW u \in Thread
        PROVE  /\ th'[u].op # "idle" => th'[u].key \in Key
               /\ th'[u].op \in {"idle", "tryfast", "nlookup"} => th'[u].ptr = None
               /\ th'[u].op = "held" => th'[u].ptr \in DOMAIN info'
    BY <1>1, <1>4, <1>7, <1>8, <1>9 DEF IInv, Hands
  <2>2. ASSUME NEW u \in Thread, Fresh(u)'
        PROVE  /\ th'[u].ptr \in DOMAIN info'
               /\ ~info'[th'[u].ptr].deleted
               /\ th'[u].at <= info'[th'[u].ptr].m_expires_s
               /\ \A x \in DOMAIN map' : map'[x] # th'[u].ptr
               /\ \A v \in Thread : v # u => th'[v].ptr # th'[u].ptr
    <3>1. u # t /\ Fresh(u) /\ th'[u] = th[u]
      BY <1>7, <1>9, <2>2 DEF Fresh
    <3>2. /\ th[u].ptr \in DOMAIN info
          /\ ~info[th[u].ptr].deleted
          /\ th[u].at <= info[th[u].ptr].m_expires_s
          /\ \A x \in DOMAIN map : map[x] # th[u].ptr
          /\ \A v \in Thread : v # u => th[v].ptr # th[u].ptr
      BY <3>1 DEF IInv, Hands
    <3>3. th[u].ptr # new /\ th[u].ptr \notin gone
      BY <1>1, <1>12, <3>1, <3>2
    <3>4. \A x \in DOMAIN map' : map'[x] # th[u].ptr
      BY <1>3, <3>2, <3>3
    <3>5. \A v \in Thread : v # u => th'[v].ptr # th[u].ptr
      BY <1>3, <1>7, <1>9, <3>2, <3>4
    <3> QED
      BY <1>4, <3>1, <3>2, <3>3, <3>4, <3>5
  <2> QED
    BY <2>1, <2>2 DEF Hands
<1>17. FreshServed'
  <2>1. r.at <= info[map'[k]].m_expires_s
    <3>1. CASE HasLive(k)
      BY <1>3, <1>7, <1>13, <3>1 DEF HasLive, Expired, IInv, EntriesOwned, TypeOK
    <3>2. CASE ~HasLive(k)
      BY <1>1, <1>3, <1>7, <3>2
    <3> QED
      BY <3>1, <3>2
  <2> QED
    BY <1>4, <1>7, <1>8, <1>9, <2>1 DEF IInv, FreshServed, Hands
<1>18. DeletedOnlyIfExpired'
  <2>1. ASSUME NEW u \in Thread, th'[u].op = "held", info'[th'[u].ptr].deleted
        PROVE  th'[u].at < now /\ info'[th'[u].ptr].m_expires_s < now
    <3>1. u # t
      BY <1>3, <1>7, <1>9, <1>14, <2>1 DEF MapLive
    <3>2. th'[u] = th[u] /\ th[u].op = "held" /\ th[u].ptr \in DOMAIN info
      BY <1>9, <2>1, <3>1 DEF IInv, Hands
    <3>3. th[u].at <= info[th[u].ptr].m_expires_s
      BY <3>2 DEF IInv, FreshServed
    <3>4. now \in Nat /\ th[u].at \in Nat /\ info[th[u].ptr].m_expires_s \in Nat
      BY <3>2 DEF IInv, EntriesOwned, TypeOK
    <3>5. CASE info[th[u].ptr].deleted
      BY <1>4, <3>2, <3>5 DEF IInv, DeletedOnlyIfExpired
    <3>6. CASE th[u].ptr \in gone
      <4>1. HasExpired(k) /\ th[u].ptr = map[k]
        BY <1>1, <1>5, <3>1, <3>6
      <4> QED
        BY <1>4, <3>2, <3>3, <3>4, <4>1 DEF HasExpired, Expired
    <3> QED
      BY <1>4, <2>1, <3>2, <3>5, <3>6
  <2> QED
    BY <1>2, <2>1 DEF DeletedOnlyIfExpired
<1>19. Numbered' /\ Finite' /\ OneHolder'
  <2>1. IsFiniteSet(DOMAIN map')
    BY <1>3, FS_AddElement DEF IInv, Finite
  <2> QED
    BY <1>2, <1>4, <2>1 DEF IInv, Numbered, Finite, OneHolder
<1> QED
  BY <1>11, <1>14, <1>15, <1>16, <1>17, <1>18, <1>19 DEF IInv, EntriesOwned

----------------------------------------------------------------------------
(* Restart and crash *)

\* read() gives every entry of the file a host_info of its own, and allocates
\* no other.
LEMMA ReadFacts ==
  ASSUME NEW f, IsFiniteSet(DOMAIN f), \A k \in DOMAIN f : f[k] \in Nat, read(f)
  PROVE  /\ DOMAIN map' = DOMAIN f
         /\ IsInjective(map')
         /\ \E n \in Nat : DOMAIN info' = 1 .. n
         /\ \A k \in DOMAIN map' : map'[k] \in DOMAIN info'
         /\ \A i \in DOMAIN info' :
              /\ info'[i] \in [m_expires_s : Nat, deleted : BOOLEAN]
              /\ ~info'[i].deleted
              /\ i \in Range(map')
<1> DEFINE n == Cardinality(DOMAIN f)
<1>1. n \in Nat
  BY FS_CardinalityType
<1>2. IsFiniteSet(1 .. n) /\ Cardinality(1 .. n) = n
  BY <1>1, FS_Interval
<1>3. PICK id \in [DOMAIN f -> 1 .. n] :
        /\ IsInjective(id)
        /\ map' = id
        /\ info' = [i \in 1 .. n |->
             [m_expires_s |-> f[CHOOSE k \in DOMAIN f : id[k] = i], deleted |-> FALSE]]
  BY DEF read
<1>4. id \in Injection(DOMAIN f, 1 .. n)
  BY <1>3 DEF Injection
<1>5. id \in Surjection(DOMAIN f, 1 .. n)
  BY <1>2, <1>4, FS_Injection
<1>6. \A i \in 1 .. n : \E k \in DOMAIN f : id[k] = i
  BY <1>5 DEF Surjection
<1>7. ASSUME NEW i \in 1 .. n
      PROVE  /\ info'[i] \in [m_expires_s : Nat, deleted : BOOLEAN]
             /\ ~info'[i].deleted
             /\ i \in Range(map')
  <2>1. f[CHOOSE k \in DOMAIN f : id[k] = i] \in Nat
    BY <1>6
  <2>2. info'[i] = [m_expires_s |-> f[CHOOSE k \in DOMAIN f : id[k] = i], deleted |-> FALSE]
    BY <1>3
  <2>3. i \in Range(map')
    BY <1>3, <1>6 DEF Range
  <2> QED
    BY <2>1, <2>2, <2>3
<1> QED
  BY <1>1, <1>3, <1>7

\* A process that has just read a file and whose threads are idle.
LEMMA ReadInv ==
  ASSUME IInv, NEW f, IsFiniteSet(DOMAIN f), DOMAIN f \subseteq Key,
         \A k \in DOMAIN f : f[k] \in Nat,
         read(f), file' \in {file, f}, th' = [t \in Thread |-> Idle], mutex' = {},
         UNCHANGED now
  PROVE  IInv'
<1>1. /\ DOMAIN map' = DOMAIN f
      /\ IsInjective(map')
      /\ Numbered'
      /\ \A k \in DOMAIN map' : map'[k] \in DOMAIN info'
      /\ \A i \in DOMAIN info' :
           /\ info'[i] \in [m_expires_s : Nat, deleted : BOOLEAN]
           /\ ~info'[i].deleted
           /\ i \in Range(map')
  <2> HIDE DEF read
  <2> QED
    BY ReadFacts DEF Numbered
<1>2. \A t \in Thread : th'[t] = [op |-> "idle", key |-> None, ptr |-> None, at |-> 0]
  BY DEF Idle
<1>3. TypeOK'
  <2>1. InMap' = {} /\ Unlocked' = {}
    BY <1>2 DEF InMap, Unlocked
  <2>2. th' \in [Thread -> ThreadState']
    BY AiCacheAssumption DEF ThreadState, Idle
  <2> QED
    BY <1>1, <2>1, <2>2 DEF IInv, EntriesOwned, TypeOK, ThreadState
<1>4. MapLive' /\ NoLeak'
  BY <1>1 DEF MapLive, NoLeak
<1>5. FreshServed' /\ DeletedOnlyIfExpired' /\ Hands'
  BY <1>2 DEF FreshServed, DeletedOnlyIfExpired, Hands, Fresh
<1>6. Finite' /\ OneHolder'
  BY <1>1 DEF IInv, Finite, OneHolder
<1> QED
  BY <1>1, <1>3, <1>4, <1>5, <1>6 DEF IInv, EntriesOwned

\* A restart reads back what sync() wrote.
LEMMA RestartInv ==
  ASSUME IInv, Restart
  PROVE  IInv'
<1>1. /\ DOMAIN sync = DOMAIN map /\ \A k \in DOMAIN sync : sync[k] \in Nat
      /\ DOMAIN map \subseteq Key /\ IsFiniteSet(DOMAIN map)
  BY DEF sync, IInv, Finite, EntriesOwned, TypeOK
<1>2. th' = [t \in Thread |-> Idle]
  BY DEF Restart, IInv, EntriesOwned, TypeOK
<1>3. mutex' = {}
  BY DEF Restart, Idle, IInv, EntriesOwned, TypeOK, InMap
<1> HIDE DEF sync, read
<1> QED
  BY <1>1, <1>2, <1>3, ReadInv DEF Restart

\* A crash reads the file of an earlier run.
LEMMA CrashInv ==
  ASSUME IInv, Crash
  PROVE  IInv'
<1> HIDE DEF read
<1> QED
  BY ReadInv DEF Crash, IInv, Finite

\* A crash in sync() leaves nothing to read.
LEMMA CrashInSyncInv ==
  ASSUME IInv, CrashInSync
  PROVE  IInv'
<1> DEFINE f == << >>
<1>1. DOMAIN f = {} /\ IsFiniteSet(DOMAIN f)
  BY FS_EmptySet
<1>2. th' = [t \in Thread |-> Idle]
  BY DEF CrashInSync, IInv, EntriesOwned, TypeOK
<1>3. mutex' = {}
  BY DEF CrashInSync, Idle, IInv, EntriesOwned, TypeOK, InMap
<1>4. read(f) /\ file' = f /\ UNCHANGED now
  BY DEF CrashInSync
<1> HIDE DEF f, read
<1> QED
  BY <1>1, <1>2, <1>3, <1>4, ReadInv

----------------------------------------------------------------------------
(* The theorems *)

\* No step of a thread, of time, or of the process breaks the invariant.
LEMMA InvStep ==
  ASSUME IInv, [Next]_vars
  PROVE  IInv'
<1>1. CASE UNCHANGED vars
  BY <1>1 DEF vars, IInv, EntriesOwned, TypeOK, MapLive, NoLeak, FreshServed,
     DeletedOnlyIfExpired, Numbered, Finite, OneHolder, Hands, Fresh, InMap, Unlocked
<1> QED
  BY <1>1, TryfastEnterInv, StoreAllocInv, TryfastFoundInv, TryfastMissedInv, InlineEnterInv,
     InlineFailsInv, StoreEnterInv, AddInv, CopyInv, TickInv, RestartInv, CrashInv,
     CrashInSyncInv DEF Next

\* Whatever the threads, restarts and crashes do, the invariant holds.
LEMMA InvHolds == Spec => []IInv
<1>1. Init => IInv
  <2> SUFFICES ASSUME Init PROVE IInv
    OBVIOUS
  <2>1. DOMAIN map = {} /\ DOMAIN file = {} /\ DOMAIN info = {}
    BY DEF Init
  <2>2. \A t \in Thread : th[t] = [op |-> "idle", key |-> None, ptr |-> None, at |-> 0]
    BY DEF Init, Idle
  <2>3. TypeOK
    BY <2>1, <2>2, AiCacheAssumption DEF Init, TypeOK, InMap, Unlocked, Idle
  <2>4. MapLive /\ NoLeak /\ FreshServed /\ DeletedOnlyIfExpired /\ Hands
    BY <2>1, <2>2 DEF MapLive, NoLeak, FreshServed, DeletedOnlyIfExpired, Hands, Fresh, IsInjective
  <2>5. Numbered
    <3>1. DOMAIN info = 1 .. 0
      BY <2>1
    <3> QED
      BY <3>1 DEF Numbered
  <2>6. Finite /\ OneHolder
    BY <2>1, FS_EmptySet DEF Init, Finite, OneHolder
  <2> QED
    BY <2>3, <2>4, <2>5, <2>6 DEF IInv, EntriesOwned
<1>2. IInv /\ [Next]_vars => IInv'
  BY InvStep
<1> QED
  BY <1>1, <1>2, PTL DEF Spec

\* Every host_info of the map is allocated and there once, and every one that
\* is allocated is in the map or with the thread that will store it: nothing
\* is leaked and nothing freed twice, whatever the number of threads.
THEOREM CacheOwnership == Spec => []EntriesOwned
BY InvHolds, IInv => EntriesOwned, PTL DEF IInv

\* A host_info that lookup_tryfast(), lookup_inline() or dns_a4_cb() hands out
\* had not expired when it was found, or when the answer came.
THEOREM Freshness == Spec => []FreshServed
BY InvHolds, IInv => FreshServed, PTL DEF IInv

\* A host_info that is used after the unlock has been deleted only if it
\* expired in between.
THEOREM LateUse == Spec => []DeletedOnlyIfExpired
BY InvHolds, IInv => DeletedOnlyIfExpired, PTL DEF IInv

\* m_cache_mutex excludes every pair of threads in the map, but for those in
\* lookup_inline(), which does not take it.
THEOREM Races == Spec => []OnlyInlineRaces
<1>1. ASSUME IInv PROVE OnlyInlineRaces
  <2> SUFFICES ASSUME Unlocked = {} PROVE ~(Cardinality(InMap) > 1)
    BY DEF OnlyInlineRaces, Racing
  <2>1. InMap = mutex
    BY <1>1 DEF IInv, EntriesOwned, TypeOK
  <2>2. mutex = {} \/ \E t \in mutex : mutex = {t}
    BY <1>1 DEF IInv, OneHolder
  <2>3. Cardinality(mutex) \in {0, 1}
    BY <2>2, FS_EmptySet, FS_Singleton
  <2> QED
    BY <2>1, <2>3
<1> QED
  BY <1>1, InvHolds, PTL

=============================================================================
