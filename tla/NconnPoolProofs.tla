--------------------------- MODULE NconnPoolProofs ---------------------------
(***************************************************************************)
(* Proofs about the connection pool, for any number of addresses, labels   *)
(* and inserts and any limits.  The invariants hold as long as the ids     *)
(* fit the 32 bits add_idle() keeps them in (IdsFit).                      *)
(***************************************************************************)
EXTENDS NconnPool, FiniteSetTheorems, WellFoundedInduction, TLAPS

-----------------------------------------------------------------------------
(* The operators the pool is built from *)

\* The back of a non-empty LRU list exists: LeastId picks one of the ids,
\* and none is smaller.
LEMMA LeastIdIsLeast ==
  ASSUME NEW S \in SUBSET Nat, S # {}
  PROVE  /\ LeastId(S) \in S
         /\ \A j \in S : LeastId(S) <= j
<1>1. PICK x \in S : \A y \in S : ~(<<y, x>> \in OpToRel(<, Nat))
  BY NatLessThanWellFounded, WFMin
<1>2. \A y \in S : ~(y < x)
  BY <1>1, Zenon DEF OpToRel
<1>3. \A y \in S : x <= y
  BY <1>2
<1> QED
  BY <1>3 DEF LeastId

\* An unsigned counter is a natural number below its span.
LEMMA ModInSpan ==
  ASSUME NEW a \in Int, NEW n \in Nat \ {0}
  PROVE  a % n \in 0 .. n - 1
BY SMT

\* A value below the span is unchanged by the conversion.
LEMMA ModIdentity ==
  ASSUME NEW n \in Nat, NEW a \in 0 .. n - 1
  PROVE  a % n = a
BY SMT

\* What an LRU list is: a function from finitely many ids to connections.
IsLru(items) ==
  /\ DOMAIN items \subseteq Nat
  /\ IsFiniteSet(DOMAIN items)
  /\ items \in [DOMAIN items -> Conn]

\* Remove and PushFront keep it one, and change only the id they name.
LEMMA RemoveLru ==
  ASSUME NEW items, NEW id, IsLru(items)
  PROVE  /\ IsLru(Remove(items, id))
         /\ DOMAIN Remove(items, id) = DOMAIN items \ {id}
         /\ \A i \in DOMAIN items \ {id} : Remove(items, id)[i] = items[i]
<1>1. DOMAIN Remove(items, id) = DOMAIN items \ {id}
  BY DEF Remove
<1>2. IsFiniteSet(DOMAIN items \ {id})
  BY FS_RemoveElement DEF IsLru
<1> QED
  BY <1>1, <1>2 DEF Remove, IsLru

\* Pushing c under id keeps it one, and changes only what id maps to.
LEMMA PushFrontLru ==
  ASSUME NEW items, NEW id \in Nat, NEW c \in Conn, IsLru(items)
  PROVE  /\ IsLru(PushFront(items, id, c))
         /\ DOMAIN PushFront(items, id, c) = DOMAIN items \cup {id}
         /\ PushFront(items, id, c)[id] = c
         /\ \A i \in DOMAIN items \ {id} : PushFront(items, id, c)[i] = items[i]
<1>1. DOMAIN PushFront(items, id, c) = DOMAIN items \cup {id}
  BY DEF PushFront
<1>2. IsFiniteSet(DOMAIN items \cup {id})
  BY FS_AddElement DEF IsLru
<1> QED
  BY <1>1, <1>2 DEF PushFront, IsLru

-----------------------------------------------------------------------------
(* Type correctness *)

\* nconn_pool::add_active keeps the map and its counter in their types.
LEMMA AddActiveType ==
  ASSUME TypeOK, NEW c \in Conn, NEW l \in Label, add_active(c, l)
  PROVE  /\ m_active_conn_map' \in [Label -> SUBSET Conn]
         /\ m_active_conn_map_size' \in Nat
<1>1. m_active_conn_map' \in [Label -> SUBSET Conn]
  BY DEF TypeOK, add_active
<1>2. m_active_conn_map_size' \in Nat
  BY PoolAssumption, ModInSpan DEF TypeOK, add_active
<1> QED
  BY <1>1, <1>2

\* So does nconn_pool::remove_active, whose decrement may wrap.
LEMMA RemoveActiveType ==
  ASSUME TypeOK, NEW c \in Heap, remove_active(c)
  PROVE  /\ m_active_conn_map' \in [Label -> SUBSET Conn]
         /\ m_active_conn_map_size' \in Nat
<1>1. m_active_conn_map' \in [Label -> SUBSET Conn]
  BY DEF TypeOK, remove_active
<1>2. (m_active_conn_map_size - 1) % CountSpan \in Nat
  BY PoolAssumption, ModInSpan DEF TypeOK
<1>3. m_active_conn_map_size' \in Nat
  BY <1>2 DEF TypeOK, remove_active
<1> QED
  BY <1>1, <1>3

\* nconn_pool::cleanup closes addresses and counts entries of the reap list.
LEMMA CleanupType ==
  ASSUME TypeOK, NEW c \in Conn, cleanup(c)
  PROVE  /\ closed' \subseteq Conn
         /\ m_reap_list' \in [Conn -> Nat]
BY DEF TypeOK, cleanup

\* No operation of nconn_pool leaves the types of its members.
LEMMA TypeStep ==
  ASSUME TypeOK, [Next]_vars
  PROVE  TypeOK'
<1>1. ASSUME NEW l \in Label, get_new_active(l)
      PROVE  TypeOK'
  <2>1. PICK c \in Conn \ Heap :
          /\ nconn' = [d \in Heap \cup {c} |->
                         IF d = c THEN [label |-> l, id |-> 0] ELSE nconn[d]]
          /\ add_active(c, l)
    BY <1>1 DEF get_new_active
  <2>2. /\ m_active_conn_map' \in [Label -> SUBSET Conn]
        /\ m_active_conn_map_size' \in Nat
    BY <2>1, AddActiveType
  <2>3. Heap' = Heap \cup {c} /\ nconn' \in [Heap' -> [label : Label, id : Nat]]
    BY <2>1 DEF TypeOK, Heap
  <2> QED
    BY <1>1, <2>2, <2>3 DEF TypeOK, get_new_active
<1>2. ASSUME NEW l \in Label, get_idle(l)
      PROVE  TypeOK'
  <2> DEFINE i == LeastId(IdsOf(l))
  <2>1. i \in DOMAIN m_item_list
    BY <1>2, LeastIdIsLeast, IdsOf(l) \in SUBSET Nat DEF get_idle, IdsOf, TypeOK
  <2>2. m_item_list[i] \in Conn
    BY <2>1 DEF TypeOK
  <2>3. /\ m_active_conn_map' \in [Label -> SUBSET Conn]
        /\ m_active_conn_map_size' \in Nat
    BY <1>2, <2>2, AddActiveType DEF get_idle
  <2>4. IsLru(m_item_list')
    BY <1>2, RemoveLru, TypeOK => IsLru(m_item_list) DEF get_idle, TypeOK, IsLru
  <2> QED
    BY <1>2, <2>3, <2>4 DEF TypeOK, get_idle, Heap, IsLru
<1>3. ASSUME NEW c \in Heap \ closed, add_idle(c)
      PROVE  TypeOK'
  <2> DEFINE items == PushFront(m_item_list, m_next_id, c)
             back  == LeastId(DOMAIN items)
  <2>1. c \in Conn /\ m_next_id \in Nat
    BY DEF TypeOK
  <2>0. IsLru(m_item_list)
    BY DEF TypeOK, IsLru
  <2>2. /\ m_active_conn_map' \in [Label -> SUBSET Conn]
        /\ m_active_conn_map_size' \in Nat
    BY <1>3, RemoveActiveType DEF add_idle
  <2>3. DOMAIN items \in SUBSET Nat /\ DOMAIN items # {} /\ IsLru(items)
    <3>1. IsLru(items) /\ DOMAIN items = DOMAIN m_item_list \cup {m_next_id}
      BY <2>1, <2>0, PushFrontLru
    <3> QED
      BY <3>1 DEF IsLru
  <2>4. Heap' = Heap /\ nconn' \in [Heap -> [label : Label, id : Nat]]
    <3>1. m_next_id % IdSpan \in Nat
      BY <2>1, ModInSpan, PoolAssumption
    <3> QED
      BY <1>3, <3>1 DEF add_idle, set_id, TypeOK, Heap
  <2> HIDE DEF items
  <2>5. back \in DOMAIN items /\ IsLru(Remove(items, back))
    BY <2>3, LeastIdIsLeast, RemoveLru
  <2>6. IsLru(m_item_list')
    BY <1>3, <2>3, <2>5 DEF add_idle, items
  <2>7. closed' \subseteq Conn /\ m_reap_list' \in [Conn -> Nat]
    <3>1. items[back] \in Conn
      BY <2>3, <2>5 DEF IsLru
    <3> QED
      BY <1>3, <3>1, CleanupType DEF add_idle, TypeOK, items
  <2> QED
    BY <1>3, <2>1, <2>2, <2>4, <2>6, <2>7 DEF TypeOK, add_idle, IsLru
<1>4. ASSUME NEW c \in Heap \ closed, release(c)
      PROVE  TypeOK'
  <2>1. /\ m_active_conn_map' \in [Label -> SUBSET Conn]
        /\ m_active_conn_map_size' \in Nat
    BY <1>4, RemoveActiveType DEF release
  <2>2. closed' \subseteq Conn /\ m_reap_list' \in [Conn -> Nat]
    BY <1>4, CleanupType DEF release, TypeOK
  <2>3. IsLru(m_item_list')
    BY <1>4, RemoveLru, TypeOK => IsLru(m_item_list) DEF release, TypeOK, IsLru
  <2> QED
    BY <1>4, <2>1, <2>2, <2>3 DEF TypeOK, release, Heap, IsLru
<1>5. CASE evict_all_idle
  <2>1. Idle \subseteq Conn
    BY DEF TypeOK, Idle
  <2>2. ASSUME NEW c \in Conn
        PROVE  Cardinality({i \in DOMAIN m_item_list : m_item_list[i] = c}) \in Nat
    BY FS_Subset, FS_CardinalityType DEF TypeOK
  <2>3. m_reap_list' \in [Conn -> Nat]
    BY <1>5, <2>2 DEF evict_all_idle, TypeOK
  <2> QED
    BY <1>5, <2>1, <2>3, FS_EmptySet, DOMAIN << >> = {} DEF TypeOK, evict_all_idle, Heap
<1>6. CASE reap
  <2>1. Heap' = Heap \ Reaping /\ nconn' \in [Heap' -> [label : Label, id : Nat]]
    BY <1>6 DEF reap, TypeOK, Heap
  <2> QED
    BY <1>6, <2>1 DEF TypeOK, reap
<1>7. CASE UNCHANGED vars
  BY <1>7 DEF TypeOK, vars, Heap
<1> QED
  BY <1>1, <1>2, <1>3, <1>4, <1>5, <1>6, <1>7 DEF Next

\* Type correctness of nconn_pool and its LRU.
THEOREM TypeCorrect == Spec => []TypeOK
<1>1. Init => TypeOK
  BY FS_EmptySet, DOMAIN << >> = {} DEF Init, TypeOK, Heap
<1>2. TypeOK /\ [Next]_vars => TypeOK'
  BY TypeStep
<1> QED
  BY <1>1, <1>2, PTL DEF Spec

-----------------------------------------------------------------------------
(* Ownership: each connection is in one structure of the pool *)

\* What the operations do to the set of active connections.
LEMMA AddActiveSet ==
  ASSUME TypeOK, NEW c \in Conn, NEW l \in Label, add_active(c, l)
  PROVE  Active' = Active \cup {c}
BY DEF TypeOK, add_active, Active

\* remove_active takes out exactly the connection it is given, and finds it
\* under its label when it is active at all.
LEMMA RemoveActiveSet ==
  ASSUME TypeOK, NEW c \in Heap, remove_active(c),
         \A l \in Label : \A d \in m_active_conn_map[l] : nconn[d].label = l
  PROVE  /\ Active' = Active \ {c}
         /\ c \in Active <=> c \in m_active_conn_map[nconn[c].label]
<1>1. nconn[c].label \in Label
  BY DEF TypeOK
<1>2. \A l \in Label : m_active_conn_map'[l] =
        IF l = nconn[c].label THEN m_active_conn_map[l] \ {c} ELSE m_active_conn_map[l]
  BY <1>1 DEF TypeOK, remove_active
<1>3. \A l \in Label : m_active_conn_map'[l] = m_active_conn_map[l] \ {c}
  BY <1>2
<1>4. \A d : d \in Active' <=> \E l \in Label : d \in m_active_conn_map'[l]
  BY DEF Active
<1>5. \A d : d \in Active <=> \E l \in Label : d \in m_active_conn_map[l]
  BY DEF Active
<1>6. Active' = Active \ {c}
  BY <1>3, <1>4, <1>5
<1> QED
  BY <1>1, <1>5, <1>6

\* While ids fit, they fitted before: m_next_id only grows.
LEMMA IdsFitBefore ==
  ASSUME TypeOK, [Next]_vars, IdsFit'
  PROVE  IdsFit
<1>1. m_next_id' = m_next_id \/ m_next_id' = m_next_id + 1
  BY DEF Next, vars, get_new_active, get_idle, add_idle, release, evict_all_idle, reap
<1> QED
  BY <1>1, PoolAssumption DEF TypeOK, IdsFit

\* The part of the invariant about who refers to a connection.
Owned == OneOwner /\ IdsMatch

\* get_new_active: the new connection has an address nothing refers to, and id 0.
LEMMA OwnedGetNewActive ==
  ASSUME TypeOK, Owned, IdsFit, NEW l \in Label, get_new_active(l)
  PROVE  Owned'
<1>1. PICK c \in Conn \ Heap :
        /\ nconn' = [d \in Heap \cup {c} |->
                       IF d = c THEN [label |-> l, id |-> 0] ELSE nconn[d]]
        /\ add_active(c, l)
  BY DEF get_new_active
<1>2. Active' = Active \cup {c}
  BY <1>1, AddActiveSet
<1>3. /\ Heap' = Heap \cup {c}
      /\ nconn'[c] = [label |-> l, id |-> 0]
      /\ \A d \in Heap : nconn'[d] = nconn[d]
  BY <1>1 DEF Heap
<1>4. UNCHANGED <<closed, m_item_list, m_next_id, m_reap_list, Idle, Reaping>>
  BY DEF get_new_active, Idle, Reaping
<1>5. c \notin closed
  BY DEF Owned, OneOwner
<1>6. OneOwner'
  BY <1>2, <1>3, <1>4, <1>5 DEF Owned, OneOwner, get_new_active
<1>7. \A k \in Label : \A d \in m_active_conn_map[k] : d \in Heap
  BY DEF Owned, OneOwner, Active
<1>8. \A k \in Label : m_active_conn_map'[k] =
        IF k = l THEN m_active_conn_map[k] \cup {c} ELSE m_active_conn_map[k]
  BY <1>1 DEF add_active, TypeOK
<1>9. \A i \in DOMAIN m_item_list : m_item_list[i] \in Heap
  BY DEF Owned, OneOwner, Idle
<1>10. ASSUME NEW k \in Label, NEW d \in m_active_conn_map'[k]
       PROVE  nconn'[d].label = k
  <2>1. CASE d \in m_active_conn_map[k]
    <3>1. nconn[d].label = k
      BY <2>1 DEF Owned, IdsMatch
    <3> QED
      BY <1>3, <1>7, <2>1, <3>1
  <2>2. CASE k = l /\ d = c
    BY <1>3, <2>2
  <2> QED
    BY <1>8, <1>10, <2>1, <2>2
<1>11. \A i \in DOMAIN m_item_list : i < m_next_id /\ nconn'[m_item_list[i]].id = i
  BY <1>3, <1>9 DEF Owned, IdsMatch
<1>12. ASSUME NEW d \in Heap' \ closed, nconn'[d].id # 0
       PROVE  /\ nconn'[d].id < m_next_id
              /\ nconn'[d].id \in DOMAIN m_item_list => m_item_list[nconn'[d].id] = d
  BY <1>3, <1>12 DEF Owned, IdsMatch
<1>13. IdsMatch'
  BY <1>4, <1>10, <1>11, <1>12 DEF IdsMatch
<1> QED
  BY <1>6, <1>13 DEF Owned

\* get_idle: the connection leaves the LRU in the step that makes it active.
LEMMA OwnedGetIdle ==
  ASSUME TypeOK, Owned, IdsFit, NEW l \in Label, get_idle(l)
  PROVE  Owned'
<1> DEFINE i == LeastId(IdsOf(l))
           c == m_item_list[i]
<1>1. i \in DOMAIN m_item_list /\ i \in IdsOf(l)
  BY LeastIdIsLeast, IdsOf(l) \in SUBSET Nat DEF get_idle, IdsOf, TypeOK
<1>2. /\ c \in Conn /\ c \in Idle /\ c \in Heap \ closed /\ c \notin Active
      /\ nconn[c].label = l
  <2>1. c \in Conn /\ c \in Idle
    BY <1>1 DEF TypeOK, Idle
  <2>2. c \in Heap \ closed /\ c \notin Active
    BY <2>1 DEF Owned, OneOwner
  <2> QED
    BY <1>1, <2>1, <2>2 DEF IdsOf
<1>3. /\ add_active(c, l)
      /\ m_item_list' = Remove(m_item_list, i)
      /\ UNCHANGED <<nconn, closed, m_next_id, m_reap_list, Heap, Reaping>>
  BY DEF get_idle, Heap, Reaping
<1>4. /\ DOMAIN m_item_list' = DOMAIN m_item_list \ {i}
      /\ \A j \in DOMAIN m_item_list' : m_item_list'[j] = m_item_list[j]
  BY <1>3, RemoveLru DEF TypeOK, IsLru
<1> HIDE DEF i
<1>5. Active' = Active \cup {c}
  BY <1>2, <1>3, AddActiveSet
<1>6. Idle' = Idle \ {c}
  BY <1>1, <1>4 DEF Owned, OneOwner, Idle
<1>7. OneOwner'
  BY <1>2, <1>3, <1>4, <1>5, <1>6 DEF Owned, OneOwner
<1>8. \A k \in Label : m_active_conn_map'[k] =
        IF k = l THEN m_active_conn_map[k] \cup {c} ELSE m_active_conn_map[k]
  BY <1>3 DEF add_active, TypeOK
<1>9. IdsMatch'
  <2>1. ASSUME NEW k \in Label, NEW d \in m_active_conn_map'[k]
        PROVE  nconn[d].label = k
    <3>1. CASE d \in m_active_conn_map[k]
      BY <3>1 DEF Owned, IdsMatch
    <3>2. CASE k = l /\ d = c
      BY <1>2, <3>2
    <3> QED
      BY <1>8, <2>1, <3>1, <3>2
  <2>2. \A j \in DOMAIN m_item_list' : j < m_next_id /\ nconn[m_item_list'[j]].id = j
    BY <1>4 DEF Owned, IdsMatch
  <2>3. ASSUME NEW d \in Heap \ closed, nconn[d].id # 0
        PROVE  /\ nconn[d].id < m_next_id
               /\ nconn[d].id \in DOMAIN m_item_list' => m_item_list'[nconn[d].id] = d
    BY <1>4, <2>3 DEF Owned, IdsMatch
  <2> QED
    BY <1>3, <2>1, <2>2, <2>3 DEF IdsMatch
<1> QED
  BY <1>7, <1>9 DEF Owned

\* release: no list refers to the closed connection, since its id, unless 0,
\* is not the id of another one.
LEMMA OwnedRelease ==
  ASSUME TypeOK, Owned, IdsFit, NEW c \in Heap \ closed, release(c)
  PROVE  Owned'
<1> DEFINE id == nconn[c].id
<1>1. /\ remove_active(c) /\ cleanup(c)
      /\ m_item_list' = Remove(m_item_list, id)
      /\ UNCHANGED <<nconn, m_next_id, Heap>>
  BY DEF release, Heap
<1>2. /\ DOMAIN m_item_list' = DOMAIN m_item_list \ {id}
      /\ \A j \in DOMAIN m_item_list' : m_item_list'[j] = m_item_list[j]
  BY <1>1, RemoveLru DEF TypeOK, IsLru
<1> HIDE DEF id
<1>3. Active' = Active \ {c}
  BY <1>1, RemoveActiveSet DEF Owned, IdsMatch
<1>4. Idle' \subseteq Idle \ {c}
  BY <1>2 DEF Owned, IdsMatch, Idle, id
<1>5. closed' = closed \cup {c} /\ Reaping' = Reaping \cup {c} /\ c \notin Reaping
  BY <1>1 DEF cleanup, Reaping, Owned, OneOwner, TypeOK
<1>6. \A d \in Conn : m_reap_list'[d] <= 1
  BY <1>1, <1>5 DEF cleanup, Reaping, Owned, OneOwner, TypeOK
<1>7. OneOwner'
  BY <1>1, <1>2, <1>3, <1>4, <1>5, <1>6 DEF Owned, OneOwner
<1>8. \A k \in Label : m_active_conn_map'[k] \subseteq m_active_conn_map[k]
  BY <1>1 DEF remove_active, TypeOK
<1>9. IdsMatch'
  BY <1>1, <1>2, <1>5, <1>8 DEF Owned, IdsMatch
<1> QED
  BY <1>7, <1>9 DEF Owned

\* evict_all_idle: each idle connection is closed and queued once.
LEMMA OwnedEvictAllIdle ==
  ASSUME TypeOK, Owned, IdsFit, evict_all_idle
  PROVE  Owned'
<1>1. /\ DOMAIN m_item_list' = {} /\ Idle' = {}
      /\ closed' = closed \cup Idle
      /\ UNCHANGED <<nconn, m_active_conn_map, m_next_id, Heap, Active>>
  BY DEF evict_all_idle, Idle, Heap, Active
<1> DEFINE Filed(c) == {i \in DOMAIN m_item_list : m_item_list[i] = c}
<1>2. ASSUME NEW c \in Conn
      PROVE  Cardinality(Filed(c)) = IF c \in Idle THEN 1 ELSE 0
  <2>1. CASE c \in Idle
    <3>1. PICK i \in DOMAIN m_item_list : m_item_list[i] = c
      BY <2>1 DEF Idle
    <3>2. Filed(c) = {i}
      BY <3>1 DEF Owned, OneOwner
    <3> QED
      BY <2>1, <3>2, FS_Singleton
  <2>2. CASE c \notin Idle
    <3>1. Filed(c) = {}
      BY <2>2 DEF Idle
    <3> QED
      BY <2>2, <3>1, FS_EmptySet
  <2> QED
    BY <2>1, <2>2
<1>3. \A c \in Conn : m_reap_list'[c] = m_reap_list[c] + Cardinality(Filed(c))
  BY DEF evict_all_idle
<1> HIDE DEF Filed
<1>4. \A c \in Conn : m_reap_list'[c] = m_reap_list[c] + IF c \in Idle THEN 1 ELSE 0
  BY <1>2, <1>3
<1>5. \A c \in Idle : c \in Conn /\ m_reap_list[c] = 0
  BY DEF Owned, OneOwner, Idle, TypeOK, Reaping
<1>6. Reaping' = Reaping \cup Idle
  BY <1>4, <1>5 DEF Reaping, TypeOK
<1>7. \A c \in Conn : m_reap_list'[c] <= 1
  BY <1>4, <1>5 DEF Owned, OneOwner, TypeOK
<1>8. OneOwner'
  BY <1>1, <1>6, <1>7 DEF Owned, OneOwner
<1>9. IdsMatch'
  BY <1>1 DEF Owned, IdsMatch
<1> QED
  BY <1>8, <1>9 DEF Owned

\* reap: only closed connections are deleted, and no list refers to one.
LEMMA OwnedReap ==
  ASSUME TypeOK, Owned, IdsFit, reap
  PROVE  Owned'
<1>1. /\ Heap' = Heap \ Reaping
      /\ \A c \in Heap' : nconn'[c] = nconn[c]
      /\ closed' = closed \ Reaping
      /\ \A c \in Conn : m_reap_list'[c] = 0
      /\ UNCHANGED <<m_active_conn_map, m_item_list, m_next_id, Active, Idle>>
  BY DEF reap, Heap, Active, Idle
<1>2. Reaping' = {}
  BY <1>1 DEF Reaping
<1>3. OneOwner'
  BY <1>1, <1>2 DEF Owned, OneOwner
<1>4. \A l \in Label : \A d \in m_active_conn_map[l] : d \in Heap'
  BY <1>1 DEF Owned, OneOwner, Active
<1>5. \A i \in DOMAIN m_item_list : m_item_list[i] \in Heap'
  BY <1>1 DEF Owned, OneOwner, Idle
<1>6. IdsMatch'
  BY <1>1, <1>4, <1>5 DEF Owned, IdsMatch, OneOwner
<1> QED
  BY <1>3, <1>6 DEF Owned

\* add_idle: the parked connection gets an id nobody carries, and the evicted
\* one (possibly itself) is closed and queued once.
LEMMA OwnedAddIdle ==
  ASSUME TypeOK, Owned, IdsFit, IdsFit', NEW c \in Heap \ closed, add_idle(c)
  PROVE  Owned'
<1> DEFINE n     == m_next_id
           items == PushFront(m_item_list, n, c)
           back  == LeastId(DOMAIN items)
           over  == OverLimit(items)
<1>1. /\ c \in Conn /\ n \in Nat
      /\ c \in m_active_conn_map[nconn[c].label]
      /\ remove_active(c)
      /\ m_next_id' = n + 1
      /\ nconn' = [nconn EXCEPT ![c].id = n % IdSpan]
      /\ over => m_item_list' = Remove(items, back) /\ cleanup(items[back])
      /\ ~over => m_item_list' = items /\ UNCHANGED <<closed, m_reap_list>>
  BY DEF add_idle, set_id, TypeOK
<1>2. n % IdSpan = n
  BY <1>1, ModIdentity, PoolAssumption DEF IdsFit
<1>3. /\ Heap' = Heap
      /\ nconn'[c] = [label |-> nconn[c].label, id |-> n]
      /\ \A d \in Heap \ {c} : nconn'[d] = nconn[d]
      /\ \A d \in Heap : nconn'[d].label = nconn[d].label
  BY <1>1, <1>2 DEF TypeOK, Heap
<1>4. Active' = Active \ {c} /\ c \in Active /\ c \notin Idle
  BY <1>1, RemoveActiveSet DEF Owned, OneOwner, IdsMatch
<1>5. /\ IsLru(items)
      /\ DOMAIN items = DOMAIN m_item_list \cup {n}
      /\ n \notin DOMAIN m_item_list
      /\ items[n] = c
      /\ \A i \in DOMAIN m_item_list : items[i] = m_item_list[i]
  <2>1. IsLru(m_item_list)
    BY DEF TypeOK, IsLru
  <2>2. n \notin DOMAIN m_item_list
    BY DEF Owned, IdsMatch, TypeOK
  <2>3. /\ IsLru(items)
        /\ DOMAIN items = DOMAIN m_item_list \cup {n}
        /\ items[n] = c
        /\ \A i \in DOMAIN m_item_list \ {n} : items[i] = m_item_list[i]
    BY <1>1, <2>1, PushFrontLru
  <2> HIDE DEF items
  <2> QED
    BY <2>2, <2>3
<1> HIDE DEF items, over
<1>6. /\ \A i, j \in DOMAIN items : items[i] = items[j] => i = j
      /\ \A i \in DOMAIN items : items[i] \in Heap \ closed /\ items[i] \notin Active'
  <2>1. \A i \in DOMAIN m_item_list : m_item_list[i] \in Idle
    BY DEF Idle
  <2> QED
    BY <1>4, <1>5, <2>1 DEF Owned, OneOwner
<1>7. \A i \in DOMAIN items : i < n + 1 /\ nconn'[items[i]].id = i
  <2>1. \A i \in DOMAIN m_item_list : m_item_list[i] \in Heap \ {c}
    BY <1>4 DEF Idle, Owned, OneOwner
  <2> QED
    BY <1>1, <1>3, <1>5, <2>1 DEF Owned, IdsMatch, TypeOK
<1>8. ASSUME NEW d \in Heap \ closed, nconn'[d].id # 0
      PROVE  /\ nconn'[d].id < n + 1
             /\ nconn'[d].id \in DOMAIN items => items[nconn'[d].id] = d
  <2>1. CASE d = c
    BY <1>1, <1>3, <1>5, <2>1
  <2>2. CASE d # c
    <3>1. /\ nconn'[d].id = nconn[d].id /\ nconn[d].id \in Nat
          /\ nconn[d].id < n
          /\ nconn[d].id \in DOMAIN m_item_list => m_item_list[nconn[d].id] = d
      BY <1>3, <1>8, <2>2 DEF Owned, IdsMatch, TypeOK
    <3> QED
      BY <1>1, <1>5, <3>1
  <2> QED
    BY <2>1, <2>2
<1>9. \A k \in Label : \A d \in m_active_conn_map'[k] : nconn'[d].label = k
  <2>1. \A k \in Label : m_active_conn_map'[k] \subseteq m_active_conn_map[k]
    BY <1>1 DEF remove_active, TypeOK
  <2>2. \A k \in Label : \A d \in m_active_conn_map[k] : d \in Heap
    BY DEF Owned, OneOwner, Active
  <2>3. \A k \in Label : \A d \in m_active_conn_map[k] : nconn[d].label = k
    BY DEF Owned, IdsMatch
  <2> QED
    BY <1>3, <2>1, <2>2, <2>3
<1>10. CASE ~over
  <2>1. /\ m_item_list' = items
        /\ UNCHANGED <<closed, m_reap_list, Reaping>>
    BY <1>1, <1>10 DEF Reaping
  <2>2. \A d \in Idle' : \E i \in DOMAIN items : d = items[i]
    BY <2>1 DEF Idle
  <2>3. OneOwner'
    BY <1>3, <1>4, <1>6, <2>1, <2>2 DEF Owned, OneOwner
  <2>4. IdsMatch'
    BY <1>1, <1>3, <1>7, <1>8, <1>9, <2>1 DEF IdsMatch
  <2> QED
    BY <2>3, <2>4 DEF Owned
<1>11. CASE over
  <2> DEFINE e == items[back]
  <2>1. /\ back \in DOMAIN items
        /\ DOMAIN m_item_list' = DOMAIN items \ {back}
        /\ \A i \in DOMAIN m_item_list' : m_item_list'[i] = items[i]
    <3>1. DOMAIN items \in SUBSET Nat /\ DOMAIN items # {}
      BY <1>5 DEF IsLru
    <3>2. back \in DOMAIN items
      BY <3>1, LeastIdIsLeast
    <3>3. m_item_list' = Remove(items, back)
      BY <1>1, <1>11
    <3> HIDE DEF back
    <3>4. /\ DOMAIN Remove(items, back) = DOMAIN items \ {back}
          /\ \A i \in DOMAIN items \ {back} : Remove(items, back)[i] = items[i]
      BY <1>5, RemoveLru
    <3> QED
      BY <3>2, <3>3, <3>4
  <2> HIDE DEF back
  <2>2. e \in Heap \ closed /\ e \notin Active' /\ e \in Conn /\ e \notin Reaping
    BY <1>6, <2>1 DEF Owned, OneOwner, TypeOK
  <2>3. /\ closed' = closed \cup {e} /\ Reaping' = Reaping \cup {e}
        /\ \A d \in Conn : m_reap_list'[d] <= 1
    BY <1>1, <1>11, <2>2 DEF cleanup, Reaping, Owned, OneOwner, TypeOK
  <2>4. \A d \in Idle' : d # e /\ \E i \in DOMAIN items : d = items[i]
    BY <1>6, <2>1 DEF Idle
  <2>5. OneOwner'
    BY <1>3, <1>4, <1>6, <2>1, <2>2, <2>3, <2>4 DEF Owned, OneOwner
  <2>6. IdsMatch'
    BY <1>1, <1>3, <1>7, <1>8, <1>9, <2>1, <2>3 DEF IdsMatch
  <2> QED
    BY <2>5, <2>6 DEF Owned
<1> QED
  BY <1>10, <1>11

\* No operation breaks the ownership of connections while ids fit.
LEMMA OwnedStep ==
  ASSUME TypeOK, Owned, [Next]_vars
  PROVE  Owned'
<1>1. CASE ~IdsFit'
  BY <1>1 DEF Owned, OneOwner, IdsMatch
<1>2. CASE IdsFit'
  <2>1. IdsFit
    BY <1>2, IdsFitBefore
  <2>2. CASE UNCHANGED vars
    <3>1. UNCHANGED <<Heap, Active, Idle, Reaping, IdsFit>>
      BY <2>2 DEF vars, Heap, Active, Idle, Reaping, IdsFit
    <3> QED
      BY <2>2, <3>1 DEF vars, Owned, OneOwner, IdsMatch
  <2> QED
    BY <1>2, <2>1, <2>2, OwnedGetNewActive, OwnedGetIdle, OwnedAddIdle, OwnedRelease,
       OwnedEvictAllIdle, OwnedReap DEF Next
<1> QED
  BY <1>1, <1>2

\* A connection is in one structure of the pool at most, none of them refers
\* to a deleted or closed one, and release() finds the id it looks for.
THEOREM PoolOwnership == Spec => [](OneOwner /\ IdsMatch)
<1>1. Init => Owned
  BY FS_EmptySet, DOMAIN << >> = {}
     DEF Init, Owned, OneOwner, IdsMatch, Active, Idle, Reaping, Heap
<1>2. TypeOK /\ Owned /\ [Next]_vars => Owned'
  BY OwnedStep
<1> QED
  BY <1>1, <1>2, TypeCorrect, PTL DEF Spec, Owned

\* An idle connection carries the id it is filed under, which is what
\* release() looks it up by.
THEOREM PoolIds == Spec => []IdsMatch
BY PoolOwnership, PTL

-----------------------------------------------------------------------------
(* The limits and the counter *)

\* Over the LRU's entries and its limit, as add_idle() leaves them: the new
\* entry has a new id, and one is evicted when there are too many.
LEMMA AddIdleLru ==
  ASSUME TypeOK, Owned, IdsFit, NEW c \in Heap \ closed, add_idle(c)
  PROVE  /\ IsFiniteSet(DOMAIN m_item_list')
         /\ DOMAIN m_item_list' \subseteq DOMAIN m_item_list \cup {m_next_id}
         /\ \/ /\ Cardinality(DOMAIN m_item_list') = Cardinality(DOMAIN m_item_list) + 1
               /\ Cardinality(DOMAIN m_item_list') <= MaxIdle
            \/ Cardinality(DOMAIN m_item_list') = Cardinality(DOMAIN m_item_list)
         /\ c \in Idle' \cup closed'
         /\ Idle \subseteq Idle' \cup closed'
         /\ closed \subseteq closed'
<1> DEFINE n     == m_next_id
           items == PushFront(m_item_list, n, c)
           back  == LeastId(DOMAIN items)
<1>1. /\ OverLimit(items) => m_item_list' = Remove(items, back) /\ cleanup(items[back])
      /\ ~OverLimit(items) => m_item_list' = items /\ UNCHANGED <<closed, m_reap_list>>
  BY DEF add_idle
<1>2. IsLru(m_item_list) /\ n \in Nat /\ c \in Conn
  BY DEF TypeOK, IsLru
<1>3. n \notin DOMAIN m_item_list
  BY DEF Owned, IdsMatch, TypeOK
<1>4. /\ IsLru(items)
      /\ DOMAIN items = DOMAIN m_item_list \cup {n}
      /\ items[n] = c
      /\ \A i \in DOMAIN m_item_list : items[i] = m_item_list[i]
  <2>1. /\ IsLru(items)
        /\ DOMAIN items = DOMAIN m_item_list \cup {n}
        /\ items[n] = c
        /\ \A i \in DOMAIN m_item_list \ {n} : items[i] = m_item_list[i]
    BY <1>2, PushFrontLru
  <2> HIDE DEF items
  <2> QED
    BY <1>3, <2>1
<1> HIDE DEF items
<1>5. /\ Cardinality(DOMAIN m_item_list) \in Nat
      /\ Cardinality(DOMAIN items) = Cardinality(DOMAIN m_item_list) + 1
      /\ IsFiniteSet(DOMAIN items)
  BY <1>2, <1>3, <1>4, FS_AddElement, FS_CardinalityType DEF IsLru
<1>6. \A d \in Idle \cup {c} : \E i \in DOMAIN items : d = items[i]
  BY <1>4 DEF Idle
<1>7. CASE ~OverLimit(items)
  <2>1. m_item_list' = items /\ closed' = closed
    BY <1>1, <1>7
  <2>2. Cardinality(DOMAIN items) <= MaxIdle
    BY <1>5, <1>7, PoolAssumption DEF OverLimit
  <2>3. \A d \in Idle \cup {c} : d \in Idle'
    BY <1>6, <2>1 DEF Idle
  <2> QED
    BY <1>4, <1>5, <2>1, <2>2, <2>3
<1>8. CASE OverLimit(items)
  <2>1. DOMAIN items \in SUBSET Nat /\ DOMAIN items # {}
    BY <1>4 DEF IsLru
  <2>2. back \in DOMAIN items
    BY <2>1, LeastIdIsLeast
  <2>3. m_item_list' = Remove(items, back) /\ closed' = closed \cup {items[back]}
    BY <1>1, <1>8 DEF cleanup
  <2> HIDE DEF back
  <2>4. /\ DOMAIN m_item_list' = DOMAIN items \ {back}
        /\ \A i \in DOMAIN items \ {back} : m_item_list'[i] = items[i]
    BY <1>4, <2>3, RemoveLru
  <2>5. /\ IsFiniteSet(DOMAIN m_item_list')
        /\ Cardinality(DOMAIN m_item_list') = Cardinality(DOMAIN items) - 1
    BY <1>5, <2>2, <2>4, FS_RemoveElement
  <2>6. \A d \in Idle \cup {c} : d \in Idle' \cup closed'
    BY <1>6, <2>3, <2>4 DEF Idle
  <2> QED
    BY <1>4, <1>5, <2>3, <2>4, <2>5, <2>6
<1> QED
  BY <1>7, <1>8

\* The inductive form of LimitsHold: there are finitely many active ones.
Limits == LimitsHold /\ (IdsFit => IsFiniteSet(Active))

\* A step that adds a connection to the active ones below the width of the
\* counter, and leaves the idle ones within the limits.
LEMMA LimitsMore ==
  ASSUME TypeOK, Limits, IdsFit, NEW c \in Conn \ Active, NEW l \in Label, add_active(c, l),
         m_active_conn_map_size + 1 + Cardinality(DOMAIN m_item_list') <= MaxActive + MaxIdle,
         Cardinality(DOMAIN m_item_list') \in 0 .. MaxIdle
  PROVE  Limits'
<1>1. Active' = Active \cup {c}
  BY AddActiveSet
<1>2. /\ IsFiniteSet(Active) /\ m_active_conn_map_size = Cardinality(Active)
      /\ m_active_conn_map_size \in Nat
  BY DEF Limits, LimitsHold, ActiveCountExact, TypeOK
<1>3. IsFiniteSet(Active') /\ Cardinality(Active') = m_active_conn_map_size + 1
  BY <1>1, <1>2, FS_AddElement
<1>4. m_active_conn_map_size + 1 \in 0 .. CountSpan - 1
  BY <1>2, PoolAssumption
<1>5. m_active_conn_map_size' = m_active_conn_map_size + 1
  BY <1>4, ModIdentity, PoolAssumption DEF add_active
<1> QED
  BY <1>3, <1>5 DEF Limits, LimitsHold, ActiveCountExact, TrackedBound

\* remove_active counts down only for a connection that was active.
LEMMA CountRemoved ==
  ASSUME TypeOK, Owned, Limits, IdsFit, NEW c \in Heap, remove_active(c)
  PROVE  /\ IsFiniteSet(Active')
         /\ m_active_conn_map_size' = Cardinality(Active')
         /\ m_active_conn_map_size' =
              IF c \in Active THEN m_active_conn_map_size - 1 ELSE m_active_conn_map_size
<1>1. Active' = Active \ {c} /\ (c \in Active <=> c \in m_active_conn_map[nconn[c].label])
  BY RemoveActiveSet DEF Owned, IdsMatch
<1>2. /\ IsFiniteSet(Active) /\ m_active_conn_map_size = Cardinality(Active)
      /\ m_active_conn_map_size \in Nat /\ m_active_conn_map_size < CountSpan
  <2>1. Cardinality(DOMAIN m_item_list) \in Nat
    BY FS_CardinalityType DEF TypeOK
  <2> QED
    BY <2>1, PoolAssumption DEF Limits, LimitsHold, ActiveCountExact, TrackedBound, TypeOK
<1>3. /\ IsFiniteSet(Active')
      /\ Cardinality(Active') = IF c \in Active THEN Cardinality(Active) - 1 ELSE Cardinality(Active)
  BY <1>1, <1>2, FS_RemoveElement
<1>4. c \in Active => m_active_conn_map_size - 1 \in 0 .. CountSpan - 1
  <2>1. c \in Active => Cardinality(Active) # 0
    BY <1>2, FS_EmptySet
  <2> QED
    BY <1>2, <2>1, PoolAssumption
<1>5. c \in Active => (m_active_conn_map_size - 1) % CountSpan = m_active_conn_map_size - 1
  BY <1>4, ModIdentity, PoolAssumption
<1> QED
  BY <1>1, <1>2, <1>3, <1>5 DEF remove_active

\* No operation miscounts or passes a limit while ids fit.
LEMMA LimitsStep ==
  ASSUME TypeOK, Owned, Limits, [Next]_vars
  PROVE  Limits'
<1>1. CASE ~IdsFit'
  BY <1>1 DEF Limits, LimitsHold, ActiveCountExact, TrackedBound
<1>2. CASE IdsFit'
  <2> DEFINE k == Cardinality(DOMAIN m_item_list)
  <2>1. IdsFit
    BY <1>2, IdsFitBefore
  <2>2. /\ k \in Nat /\ k <= MaxIdle
        /\ m_active_conn_map_size \in Nat
        /\ m_active_conn_map_size + k <= MaxActive + MaxIdle
        /\ MaxIdle \in Nat /\ MaxActive \in Nat
    BY <2>1, FS_CardinalityType, PoolAssumption DEF Limits, LimitsHold, TrackedBound, TypeOK
  <2>3. ASSUME NEW l \in Label, get_new_active(l) PROVE Limits'
    <3>1. PICK c \in Conn \ Heap : add_active(c, l)
      BY <2>3 DEF get_new_active
    <3>2. c \notin Active
      BY <2>1 DEF Owned, OneOwner
    <3>3. m_item_list' = m_item_list /\ m_active_conn_map_size < MaxActive
      BY <2>3 DEF get_new_active
    <3> QED
      BY <2>1, <2>2, <3>1, <3>2, <3>3, LimitsMore
  <2>4. ASSUME NEW l \in Label, get_idle(l) PROVE Limits'
    <3> DEFINE i == LeastId(IdsOf(l))
    <3>1. i \in DOMAIN m_item_list
      BY <2>4, LeastIdIsLeast, IdsOf(l) \in SUBSET Nat DEF get_idle, IdsOf, TypeOK
    <3>2. add_active(m_item_list[i], l) /\ m_item_list' = Remove(m_item_list, i)
      BY <2>4 DEF get_idle
    <3> HIDE DEF i
    <3>3. m_item_list[i] \in Conn /\ m_item_list[i] \notin Active
      BY <2>1, <3>1 DEF TypeOK, Owned, OneOwner, Idle
    <3>4. DOMAIN m_item_list' = DOMAIN m_item_list \ {i}
      BY <3>2, RemoveLru DEF TypeOK, IsLru
    <3>5. Cardinality(DOMAIN m_item_list') = k - 1 /\ k # 0
      BY <3>1, <3>4, FS_RemoveElement, FS_EmptySet DEF TypeOK
    <3>6. /\ m_active_conn_map_size + 1 + Cardinality(DOMAIN m_item_list') <= MaxActive + MaxIdle
          /\ Cardinality(DOMAIN m_item_list') \in 0 .. MaxIdle
      BY <2>2, <3>5
    <3> QED
      BY <2>1, <3>2, <3>3, <3>6, LimitsMore
  <2>5. ASSUME NEW c \in Heap \ closed, add_idle(c) PROVE Limits'
    <3>1. /\ IsFiniteSet(Active') /\ m_active_conn_map_size' = Cardinality(Active')
          /\ m_active_conn_map_size' = m_active_conn_map_size - 1
      <4>1. remove_active(c) /\ c \in Active
        <5>1. nconn[c].label \in Label
          BY DEF TypeOK
        <5> QED
          BY <2>5, <5>1 DEF add_idle, Active
      <4> QED
        BY <2>1, <4>1, CountRemoved
    <3>2. \/ Cardinality(DOMAIN m_item_list') = k + 1 /\ Cardinality(DOMAIN m_item_list') <= MaxIdle
          \/ Cardinality(DOMAIN m_item_list') = k
      BY <2>1, <2>5, AddIdleLru
    <3>3. /\ Cardinality(DOMAIN m_item_list') <= MaxIdle
          /\ m_active_conn_map_size' + Cardinality(DOMAIN m_item_list') <= MaxActive + MaxIdle
      BY <2>2, <3>1, <3>2
    <3> QED
      BY <3>1, <3>3 DEF Limits, LimitsHold, ActiveCountExact, TrackedBound
  <2>6. ASSUME NEW c \in Heap \ closed, release(c) PROVE Limits'
    <3>1. /\ IsFiniteSet(Active') /\ m_active_conn_map_size' = Cardinality(Active')
          /\ m_active_conn_map_size' \in {m_active_conn_map_size, m_active_conn_map_size - 1}
      BY <2>1, <2>6, CountRemoved DEF release
    <3>2. DOMAIN m_item_list' = DOMAIN m_item_list \ {nconn[c].id}
      BY <2>6, RemoveLru DEF release, TypeOK, IsLru
    <3>3. Cardinality(DOMAIN m_item_list') \in {k, k - 1}
      BY <3>2, FS_RemoveElement DEF TypeOK
    <3>4. /\ Cardinality(DOMAIN m_item_list') <= MaxIdle
          /\ m_active_conn_map_size' + Cardinality(DOMAIN m_item_list') <= MaxActive + MaxIdle
      BY <2>2, <3>1, <3>3
    <3> QED
      BY <3>1, <3>4 DEF Limits, LimitsHold, ActiveCountExact, TrackedBound
  <2>7. CASE evict_all_idle
    <3>1. /\ Active' = Active /\ m_active_conn_map_size' = m_active_conn_map_size
          /\ Cardinality(DOMAIN m_item_list') = 0
      BY <2>7, FS_EmptySet, DOMAIN << >> = {} DEF evict_all_idle, Active
    <3>2. m_active_conn_map_size' + 0 <= MaxActive + MaxIdle /\ 0 <= MaxIdle
      BY <2>2, <3>1
    <3> QED
      BY <2>1, <3>1, <3>2 DEF Limits, LimitsHold, ActiveCountExact, TrackedBound
  <2>8. CASE reap \/ UNCHANGED vars
    <3>1. UNCHANGED <<Active, m_active_conn_map_size, m_item_list, IdsFit>>
      BY <2>8 DEF reap, vars, Active, IdsFit
    <3> QED
      BY <3>1 DEF Limits, LimitsHold, ActiveCountExact, TrackedBound
  <2> QED
    BY <2>3, <2>4, <2>5, <2>6, <2>7, <2>8 DEF Next
<1> QED
  BY <1>1, <1>2

\* The counter that get_new_active() compares with its limit is the number of
\* active connections, and never wraps; the idle ones are within the LRU's
\* limit and all together within the sum of both, however many connections,
\* labels and calls there are.
THEOREM PoolLimits == Spec => []LimitsHold
<1>1. Init => Limits
  <2> SUFFICES ASSUME Init PROVE Limits
    OBVIOUS
  <2>1. Active = {} /\ DOMAIN m_item_list = {}
    BY DOMAIN << >> = {} DEF Init, Active
  <2> QED
    BY <2>1, FS_EmptySet, PoolAssumption
       DEF Init, Limits, LimitsHold, ActiveCountExact, TrackedBound
<1>2. TypeOK /\ Owned /\ Limits /\ [Next]_vars => Limits'
  BY LimitsStep
<1>3. Limits => LimitsHold
  BY DEF Limits
<1>4. OneOwner /\ IdsMatch => Owned
  BY DEF Owned
<1> QED
  BY <1>1, <1>2, <1>3, <1>4, TypeCorrect, PoolOwnership, PTL DEF Spec

-----------------------------------------------------------------------------
(* Connections the pool has lost *)

\* The inductive form of OnlyFirstIdLost: what is lost was parked once.
FirstLost == OnlyFirstIdLost /\ (IdsFit /\ Lost # {} => m_next_id > 0)

\* A step that loses nothing, and files nothing under id 0 when something has
\* been lost.
LEMMA NothingLost ==
  ASSUME TypeOK, FirstLost, IdsFit, Lost' \subseteq Lost,
         \A c \in Lost' : nconn'[c] = nconn[c],
         m_next_id' >= m_next_id, m_next_id' \in Nat,
         DOMAIN m_item_list' \subseteq DOMAIN m_item_list \cup {m_next_id}
  PROVE  FirstLost'
BY DEF FirstLost, OnlyFirstIdLost, TypeOK

\* Only release() loses a connection, and only the one filed under id 0.
LEMMA FirstLostStep ==
  ASSUME TypeOK, Owned, FirstLost, [Next]_vars
  PROVE  FirstLost'
<1>1. CASE ~IdsFit'
  BY <1>1 DEF FirstLost, OnlyFirstIdLost
<1>2. CASE IdsFit'
  <2>1. IdsFit
    BY <1>2, IdsFitBefore
  <2>2. m_next_id \in Nat
    BY DEF TypeOK
  <2>3. ASSUME NEW l \in Label, get_new_active(l) PROVE FirstLost'
    <3>1. PICK c \in Conn \ Heap :
            /\ nconn' = [d \in Heap \cup {c} |->
                           IF d = c THEN [label |-> l, id |-> 0] ELSE nconn[d]]
            /\ add_active(c, l)
      BY <2>3 DEF get_new_active
    <3>2. Active' = Active \cup {c}
      BY <3>1, AddActiveSet
    <3>3. UNCHANGED <<closed, m_item_list, m_next_id, Idle>>
      BY <2>3 DEF get_new_active, Idle
    <3>4. Heap' = Heap \cup {c} /\ \A d \in Heap : nconn'[d] = nconn[d]
      BY <3>1 DEF Heap
    <3>5. Lost' \subseteq Lost /\ Lost \subseteq Heap
      BY <3>2, <3>3, <3>4 DEF Lost
    <3> QED
      BY <2>1, <2>2, <3>3, <3>4, <3>5, NothingLost
  <2>4. ASSUME NEW l \in Label, get_idle(l) PROVE FirstLost'
    <3> DEFINE i == LeastId(IdsOf(l))
    <3>1. i \in DOMAIN m_item_list
      BY <2>4, LeastIdIsLeast, IdsOf(l) \in SUBSET Nat DEF get_idle, IdsOf, TypeOK
    <3>2. add_active(m_item_list[i], l) /\ m_item_list' = Remove(m_item_list, i)
      BY <2>4 DEF get_idle
    <3>3. UNCHANGED <<nconn, closed, m_next_id, Heap>>
      BY <2>4 DEF get_idle, Heap
    <3> HIDE DEF i
    <3>4. /\ DOMAIN m_item_list' = DOMAIN m_item_list \ {i}
          /\ \A j \in DOMAIN m_item_list \ {i} : m_item_list'[j] = m_item_list[j]
      BY <3>2, RemoveLru DEF TypeOK, IsLru
    <3>5. Active' = Active \cup {m_item_list[i]}
      BY <3>1, <3>2, AddActiveSet DEF TypeOK
    <3>6. Idle \subseteq Idle' \cup {m_item_list[i]}
      BY <3>4 DEF Idle
    <3>7. Lost' \subseteq Lost
      BY <3>3, <3>5, <3>6 DEF Lost
    <3> QED
      BY <2>1, <2>2, <3>3, <3>4, <3>7, NothingLost
  <2>5. ASSUME NEW c \in Heap \ closed, add_idle(c) PROVE FirstLost'
    <3>1. /\ DOMAIN m_item_list' \subseteq DOMAIN m_item_list \cup {m_next_id}
          /\ c \in Idle' \cup closed'
          /\ Idle \subseteq Idle' \cup closed'
          /\ closed \subseteq closed'
      BY <2>1, <2>5, AddIdleLru
    <3>2. Active' = Active \ {c}
      BY <2>1, <2>5, RemoveActiveSet DEF add_idle, Owned, IdsMatch
    <3>3. /\ Heap' = Heap /\ m_next_id' = m_next_id + 1
          /\ \A d \in Heap \ {c} : nconn'[d] = nconn[d]
      BY <2>5 DEF add_idle, set_id, Heap, TypeOK
    <3>4. Lost' \subseteq Lost /\ c \notin Lost' /\ Lost \subseteq Heap
      BY <3>1, <3>2, <3>3 DEF Lost
    <3> QED
      BY <2>1, <2>2, <3>1, <3>3, <3>4, NothingLost
  <2>6. ASSUME NEW c \in Heap \ closed, release(c) PROVE FirstLost'
    <3> DEFINE id == nconn[c].id
    <3>1. /\ DOMAIN m_item_list' = DOMAIN m_item_list \ {id}
          /\ \A j \in DOMAIN m_item_list \ {id} : m_item_list'[j] = m_item_list[j]
      BY <2>6, RemoveLru DEF release, TypeOK, IsLru
    <3>2. /\ UNCHANGED <<nconn, m_next_id, Heap, IdsFit>>
          /\ closed' = closed \cup {c}
      BY <2>6 DEF release, cleanup, Heap, IdsFit
    <3>3. Active' = Active \ {c}
      BY <2>1, <2>6, RemoveActiveSet DEF release, Owned, IdsMatch
    <3>4. Idle \subseteq Idle' \cup {m_item_list[j] : j \in DOMAIN m_item_list \cap {id}}
      BY <3>1 DEF Idle
    <3>5. CASE id \in DOMAIN m_item_list /\ m_item_list[id] # c
      <4>1. id = 0
        BY <2>1, <3>5 DEF Owned, IdsMatch
      <4>2. Lost = {}
        BY <2>1, <3>5, <4>1 DEF FirstLost, OnlyFirstIdLost
      <4>3. \A d \in Lost' : d = m_item_list[0]
        BY <3>2, <3>3, <3>4, <4>1, <4>2 DEF Lost
      <4>4. nconn[m_item_list[0]].id = 0 /\ 0 < m_next_id
        BY <2>1, <3>5, <4>1 DEF Owned, IdsMatch
      <4> QED
        BY <3>1, <3>2, <4>1, <4>3, <4>4 DEF FirstLost, OnlyFirstIdLost
    <3>6. CASE id \in DOMAIN m_item_list => m_item_list[id] = c
      <4>1. Lost' \subseteq Lost
        BY <3>2, <3>3, <3>4, <3>6 DEF Lost
      <4> QED
        BY <2>1, <2>2, <3>1, <3>2, <4>1, NothingLost
    <3> QED
      BY <3>5, <3>6
  <2>7. CASE evict_all_idle
    <3>1. /\ UNCHANGED <<nconn, m_next_id, Heap, Active>> /\ DOMAIN m_item_list' = {}
          /\ closed' = closed \cup Idle
      BY <2>7, DOMAIN << >> = {} DEF evict_all_idle, Heap, Active
    <3>2. Lost' \subseteq Lost
      BY <3>1 DEF Lost
    <3> QED
      BY <2>1, <2>2, <3>1, <3>2, NothingLost
  <2>8. CASE reap
    <3>1. /\ Heap' = Heap \ Reaping /\ closed' = closed \ Reaping
          /\ \A c \in Heap' : nconn'[c] = nconn[c]
          /\ UNCHANGED <<m_item_list, m_next_id, Active, Idle>>
      BY <2>8 DEF reap, Heap, Active, Idle
    <3>2. Lost' \subseteq Lost /\ Lost' \subseteq Heap'
      BY <3>1 DEF Lost
    <3> QED
      BY <2>1, <2>2, <3>1, <3>2, NothingLost
  <2>9. CASE UNCHANGED vars
    <3>1. UNCHANGED <<Lost, IdsFit>>
      BY <2>9 DEF vars, Lost, Heap, Active, Idle, IdsFit
    <3> QED
      BY <2>9, <3>1 DEF vars, FirstLost, OnlyFirstIdLost
  <2> QED
    BY <2>3, <2>4, <2>5, <2>6, <2>7, <2>8, <2>9 DEF Next
<1> QED
  BY <1>1, <1>2

\* The damage of release() on a connection that was never parked is bounded:
\* one connection in the life of a pool can be lost, the one filed under id 0.
THEOREM PoolLosesOne == Spec => []OnlyFirstIdLost
<1>1. Init => FirstLost
  <2> SUFFICES ASSUME Init PROVE Lost = {}
    BY DEF FirstLost, OnlyFirstIdLost
  <2> QED
    BY DOMAIN << >> = {} DEF Init, Lost, Heap
<1>2. TypeOK /\ Owned /\ FirstLost /\ [Next]_vars => FirstLost'
  BY FirstLostStep
<1>3. FirstLost => OnlyFirstIdLost
  BY DEF FirstLost
<1>4. OneOwner /\ IdsMatch => Owned
  BY DEF Owned
<1> QED
  BY <1>1, <1>2, <1>3, <1>4, TypeCorrect, PoolOwnership, PTL DEF Spec

==============================================================================
