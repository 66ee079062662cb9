----------------------------- MODULE ProxyProofs -----------------------------
(***************************************************************************)
(* Proofs about a server thread that proxies requests, for any number of   *)
(* sessions, requests and connections and any limits of the pool, as long  *)
(* as the ids the pool hands out fit their 32 bits (Pool!IdsFit).          *)
(***************************************************************************)
EXTENDS Proxy, FiniteSetTheorems, SequenceTheorems, TLAPS

PoolP == INSTANCE NconnPoolProofs

-----------------------------------------------------------------------------
(* The connection pool, as the thread uses it *)

\* The invariant that NconnPoolProofs shows of the pool.
PoolOK == Pool!TypeOK /\ Pool!OneOwner /\ Pool!IdsMatch

\* The instance of the proofs speaks of the same pool.
LEMMA SamePool ==
  /\ PoolP!TypeOK <=> Pool!TypeOK
  /\ PoolP!Owned <=> Pool!OneOwner /\ Pool!IdsMatch
  /\ PoolP!Active = Pool!Active
  /\ PoolP!Idle = Pool!Idle
<1>1. PoolP!TypeOK <=> Pool!TypeOK
  BY DEF PoolP!TypeOK, Pool!TypeOK, PoolP!Heap, Pool!Heap, PoolP!IsFiniteSet, Pool!IsFiniteSet
<1>2. PoolP!Active = Pool!Active /\ PoolP!Idle = Pool!Idle
  BY DEF PoolP!Active, Pool!Active, PoolP!Idle, Pool!Idle
<1>3. PoolP!Owned <=> Pool!OneOwner /\ Pool!IdsMatch
  BY <1>2 DEF PoolP!Owned, PoolP!OneOwner, PoolP!IdsMatch, Pool!OneOwner, Pool!IdsMatch,
         PoolP!IdsFit, Pool!IdsFit, PoolP!Heap, Pool!Heap, PoolP!Reaping, Pool!Reaping
<1> QED
  BY <1>1, <1>2, <1>3

\* So it does in the next state.
LEMMA SamePoolNext ==
  /\ PoolP!TypeOK' <=> Pool!TypeOK'
  /\ PoolP!Owned' <=> Pool!OneOwner' /\ Pool!IdsMatch'
  /\ PoolP!Active' = Pool!Active'
<1>1. PoolP!TypeOK' <=> Pool!TypeOK'
  BY DEF PoolP!TypeOK, Pool!TypeOK, PoolP!Heap, Pool!Heap, PoolP!IsFiniteSet, Pool!IsFiniteSet
<1>2. PoolP!Active' = Pool!Active' /\ PoolP!Idle' = Pool!Idle'
  BY DEF PoolP!Active, Pool!Active, PoolP!Idle, Pool!Idle
<1>3. PoolP!Owned' <=> Pool!OneOwner' /\ Pool!IdsMatch'
  BY <1>2 DEF PoolP!Owned, PoolP!OneOwner, PoolP!IdsMatch, Pool!OneOwner, Pool!IdsMatch,
         PoolP!IdsFit, Pool!IdsFit, PoolP!Heap, Pool!Heap, PoolP!Reaping, Pool!Reaping
<1> QED
  BY <1>1, <1>2, <1>3

\* And of the same operations.
LEMMA SameNext ==
  ASSUME [Pool!Next]_poolVars
  PROVE  [PoolP!Next]_(PoolP!vars)
  BY DEF Pool!Next, PoolP!Next, poolVars, PoolP!vars,
    Pool!get_new_active, PoolP!get_new_active, Pool!get_idle, PoolP!get_idle,
    Pool!add_idle, PoolP!add_idle, Pool!release, PoolP!release,
    Pool!evict_all_idle, PoolP!evict_all_idle, Pool!reap, PoolP!reap,
    Pool!add_active, PoolP!add_active, Pool!remove_active, PoolP!remove_active,
    Pool!cleanup, PoolP!cleanup, Pool!set_id, PoolP!set_id,
    Pool!Heap, PoolP!Heap, Pool!Idle, PoolP!Idle, Pool!Reaping, PoolP!Reaping,
    Pool!IdsOf, PoolP!IdsOf, Pool!LeastId, PoolP!LeastId, Pool!Remove, PoolP!Remove,
    Pool!PushFront, PoolP!PushFront, Pool!OverLimit, PoolP!OverLimit,
    Pool!Cardinality, PoolP!Cardinality, Pool!IsFiniteSet, PoolP!IsFiniteSet

\* Every step that is an operation of the pool keeps the pool's invariant.
LEMMA PoolKeeps ==
  ASSUME PoolOK, [Pool!Next]_poolVars
  PROVE  PoolOK'
<1>1. [PoolP!Next]_(PoolP!vars)
  BY SameNext
<1>2. PoolP!TypeOK /\ PoolP!Owned
  BY SamePool DEF PoolOK
<1>3. PoolP!TypeOK' /\ PoolP!Owned'
  BY <1>1, <1>2, ProxyAssumption, PoolP!TypeStep, PoolP!OwnedStep DEF PoolP!TypeStep, PoolP!OwnedStep
<1> QED
  BY <1>3, SamePoolNext DEF PoolOK

\* What the invariant says of the connections that requests use.
LEMMA PoolFacts ==
  ASSUME PoolOK, Pool!IdsFit
  PROVE  /\ Pool!Active \subseteq Conn
         /\ Pool!Active \subseteq DOMAIN nconn \ closed
         /\ Pool!Active \cap Pool!Idle = {}
         /\ DOMAIN nconn \subseteq Conn
         /\ Pool!Reaping = closed
<1>1. Pool!Active \subseteq Conn
  BY DEF PoolOK, Pool!TypeOK, Pool!Active
<1> QED
  BY <1>1 DEF PoolOK, Pool!TypeOK, Pool!OneOwner, Pool!Heap

\* release(): the connection is closed and no longer active, and stays
\* allocated until reap().
LEMMA PoolRelease ==
  ASSUME PoolOK, Pool!IdsFit, NEW c \in DOMAIN nconn \ closed, Pool!release(c)
  PROVE  /\ PoolOK' /\ Pool!Next
         /\ Pool!Active' = Pool!Active \ {c}
         /\ DOMAIN nconn' = DOMAIN nconn
<1>1. Pool!Next
  BY DEF Pool!Next, Pool!Heap
<1>2. PoolOK'
  BY <1>1, PoolKeeps
<1>3. PoolP!remove_active(c)
  BY DEF Pool!release, Pool!remove_active, PoolP!remove_active
<1>4. /\ PoolP!TypeOK /\ c \in PoolP!Heap
      /\ \A l \in Label : \A d \in m_active_conn_map[l] : nconn[d].label = l
  BY SamePool DEF PoolOK, Pool!IdsMatch, PoolP!Heap
<1>5. PoolP!Active' = PoolP!Active \ {c}
  BY <1>3, <1>4, ProxyAssumption, PoolP!RemoveActiveSet DEF PoolP!RemoveActiveSet
<1> QED
  BY <1>1, <1>2, <1>5, SamePool, SamePoolNext DEF Pool!release

\* add_idle(): the connection is no longer active, and what insert() evicts
\* was idle or is the connection itself.
LEMMA PoolAddIdle ==
  ASSUME PoolOK, Pool!IdsFit, NEW c \in DOMAIN nconn \ closed, m_next_id < MaxInserts,
         Pool!add_idle(c)
  PROVE  /\ PoolOK' /\ Pool!Next
         /\ Pool!Active' = Pool!Active \ {c}
         /\ DOMAIN nconn' = DOMAIN nconn
         /\ closed' \subseteq closed \cup Pool!Idle \cup {c}
<1>1. Pool!Next
  BY DEF Pool!Next, Pool!Heap
<1>2. PoolOK'
  BY <1>1, PoolKeeps
<1>3. PoolP!remove_active(c)
  BY DEF Pool!add_idle, Pool!remove_active, PoolP!remove_active
<1>4. /\ PoolP!TypeOK /\ c \in PoolP!Heap
      /\ \A l \in Label : \A d \in m_active_conn_map[l] : nconn[d].label = l
  BY SamePool DEF PoolOK, Pool!IdsMatch, PoolP!Heap
<1>5. PoolP!Active' = PoolP!Active \ {c}
  BY <1>3, <1>4, ProxyAssumption, PoolP!RemoveActiveSet DEF PoolP!RemoveActiveSet
<1>6. DOMAIN nconn' = DOMAIN nconn
  BY DEF Pool!add_idle, Pool!set_id
<1>7. closed' \subseteq closed \cup Pool!Idle \cup {c}
  <2> DEFINE items == Pool!PushFront(m_item_list, m_next_id, c)
             back  == Pool!LeastId(DOMAIN items)
  <2>1. \/ closed' = closed \cup {items[back]}
        \/ closed' = closed
    BY DEF Pool!add_idle, Pool!cleanup
  <2>2. /\ DOMAIN items = DOMAIN m_item_list \cup {m_next_id} /\ m_next_id \in Nat
        /\ DOMAIN m_item_list \subseteq Nat
        /\ \A i \in DOMAIN items : items[i] = IF i = m_next_id THEN c ELSE m_item_list[i]
    BY DEF Pool!PushFront, PoolOK, Pool!TypeOK
  <2> HIDE DEF items
  <2>3. PoolP!LeastId(DOMAIN items) \in DOMAIN items
    <3>1. DOMAIN items \in SUBSET Nat /\ DOMAIN items # {}
      BY <2>2
    <3> QED
      BY <3>1, ProxyAssumption, PoolP!LeastIdIsLeast DEF PoolP!LeastIdIsLeast
  <2>4. back \in DOMAIN items
    BY <2>3 DEF Pool!LeastId, PoolP!LeastId
  <2> HIDE DEF back
  <2>5. items[back] \in Pool!Idle \cup {c}
    BY <2>2, <2>4 DEF Pool!Idle
  <2> QED
    BY <2>1, <2>5
<1> QED
  BY <1>1, <1>2, <1>5, <1>6, <1>7, SamePool, SamePoolNext

\* get_idle(): one connection becomes active that was not.
LEMMA PoolGetIdle ==
  ASSUME PoolOK, Pool!IdsFit, NEW l \in Label, Pool!get_idle(l)
  PROVE  /\ PoolOK' /\ Pool!Next
         /\ DOMAIN nconn' = DOMAIN nconn
         /\ \E c \in Conn \ Pool!Active : Pool!Active' = Pool!Active \cup {c}
<1>1. Pool!Next
  BY DEF Pool!Next
<1>2. PoolOK'
  BY <1>1, PoolKeeps
<1> DEFINE i == Pool!LeastId(Pool!IdsOf(l))
<1>3. i \in DOMAIN m_item_list
  <2>1. Pool!IdsOf(l) \in SUBSET Nat /\ Pool!IdsOf(l) # {}
    BY DEF Pool!get_idle, Pool!IdsOf, PoolOK, Pool!TypeOK
  <2>2. PoolP!LeastId(Pool!IdsOf(l)) \in Pool!IdsOf(l)
    BY <2>1, ProxyAssumption, PoolP!LeastIdIsLeast DEF PoolP!LeastIdIsLeast
  <2> QED
    BY <2>2 DEF Pool!LeastId, PoolP!LeastId, Pool!IdsOf
<1>4. Pool!add_active(m_item_list[i], l)
  BY DEF Pool!get_idle
<1> HIDE DEF i
<1>5. m_item_list[i] \in Conn /\ m_item_list[i] \in Pool!Idle
  BY <1>3 DEF PoolOK, Pool!TypeOK, Pool!Idle
<1>6. Pool!Active' = Pool!Active \cup {m_item_list[i]}
  BY <1>4 DEF Pool!add_active, Pool!Active, PoolOK, Pool!TypeOK
<1> QED
  BY <1>1, <1>2, <1>5, <1>6, PoolFacts DEF Pool!get_idle

\* get_new_active(): so does one that was not allocated.
LEMMA PoolGetNew ==
  ASSUME PoolOK, Pool!IdsFit, NEW l \in Label, Pool!get_new_active(l)
  PROVE  /\ PoolOK' /\ Pool!Next
         /\ DOMAIN nconn \subseteq DOMAIN nconn'
         /\ \E c \in Conn \ Pool!Active : Pool!Active' = Pool!Active \cup {c}
<1>1. Pool!Next
  BY DEF Pool!Next
<1>2. PoolOK'
  BY <1>1, PoolKeeps
<1>3. PICK c \in Conn \ DOMAIN nconn :
        /\ DOMAIN nconn' = DOMAIN nconn \cup {c}
        /\ Pool!add_active(c, l)
  BY DEF Pool!get_new_active, Pool!Heap
<1>4. Pool!Active' = Pool!Active \cup {c}
  BY <1>3 DEF Pool!add_active, Pool!Active, PoolOK, Pool!TypeOK
<1>5. c \notin Pool!Active
  BY <1>3, PoolFacts
<1> QED
  BY <1>1, <1>2, <1>3, <1>4, <1>5

\* reap(): only closed connections are deleted.
LEMMA PoolReap ==
  ASSUME PoolOK, Pool!IdsFit, Reap
  PROVE  /\ PoolOK' /\ [Pool!Next]_poolVars
         /\ Pool!Active' = Pool!Active
<1>1. [Pool!Next]_poolVars
  BY DEF Reap, Pool!Next
<1>2. m_active_conn_map' = m_active_conn_map
  BY DEF Reap, Pool!reap, poolVars
<1> QED
  BY <1>1, <1>2, PoolKeeps DEF Pool!Active

\* A step that leaves the pool alone.
LEMMA PoolSame ==
  ASSUME PoolOK, UNCHANGED poolVars
  PROVE  PoolOK' /\ Pool!Active' = Pool!Active /\ DOMAIN nconn' = DOMAIN nconn
BY PoolKeeps DEF poolVars, Pool!Active

-----------------------------------------------------------------------------
(* The invariant *)

\* A session has its idle timer, and its events are those its pointers say.
Clients ==
  \A s \in Session :
    /\ SessTimeout(s) \in events <=> s \in DOMAIN session
    /\ Writeable(s) \in events <=> s \in DOMAIN session /\ session[s].m_evr_writeable
    /\ s \in DOMAIN session =>
         /\ session[s].m_evr_timeout
         /\ session[s].out => session[s].m_evr_writeable \/ session[s].blocked

\* A session and its request point at each other.
Links ==
  /\ \A r \in DOMAIN subr : /\ subr[r].m_session \in DOMAIN session
                            /\ session[subr[r].m_session].m_u = r
  /\ \A s \in DOMAIN session : session[s].m_u # NoReq =>
       session[s].m_u \in DOMAIN subr /\ subr[session[s].m_u].m_session = s

\* A connection is active while it serves a request, and the two point at
\* each other.
Conns ==
  /\ \A c \in Conn : c \in Pool!Active <=> nc[c].m_data # NoReq
  /\ \A c \in Conn, r \in Req :
       nc[c].m_data = r <=> r \in DOMAIN subr /\ subr[r].m_nconn = c

\* The upstream timers that are pending are those that requests point at, each
\* with the connection that its request has.
UpsTimers ==
  /\ \A r \in Req, c \in Conn :
       UpsTimeout(r, c) \in events <=>
         r \in DOMAIN subr /\ subr[r].m_evr_timeout /\ subr[r].m_nconn = c
  /\ \A r \in DOMAIN subr : subr[r].m_evr_timeout => subr[r].m_nconn # NoConn

\* What the state of a request says of its connection, and of the callback
\* that is starting it.
Requests ==
  \A r \in DOMAIN subr :
    /\ subr[r].m_state \in {"QUEUED", "DNS_LOOKUP"} => subr[r].m_nconn = NoConn
    /\ subr[r].u = "DONE" => subr[r].m_state = "NONE"
    /\ subr[r].m_state = "ACTIVE" =>
         /\ subr[r].m_nconn # NoConn /\ subr[r].m_evr_timeout
         /\ nc[subr[r].m_nconn].m_nc_state # "FREE"
    /\ running = r =>
         subr[r].m_state = "NONE" /\ subr[r].m_nconn # NoConn /\ subr[r].u # "DONE"

\* A subr is in a list of subrs and cancelled slots, and none is in it twice.
Occurs(list, q) == \E i \in DOMAIN list : list[i] = q

Once(list) ==
  \A i, j \in DOMAIN list : list[i] = list[j] /\ list[i] # NoReq => i = j

\* The list holds the queued requests, each once, and the jobs are lookups
\* that requests wait for.
Queue ==
  /\ \A q \in Req : Occurs(m_subr_list, q) <=> q \in DOMAIN subr /\ subr[q].m_state = "QUEUED"
  /\ Once(m_subr_list)
  /\ \A r \in jobs : r \in DOMAIN subr /\ subr[r].m_state = "DNS_LOOKUP" /\ subr[r].lookup

\* While the list is not empty, subr_dequeue() runs or is going to.
Wakes == m_subr_list # << >> => running # "none" \/ DequeueEvent \in events

\* What wait() reported is still allocated.
PolledAlive == polled \subseteq DOMAIN session \cup DOMAIN nconn

\* The inductive invariant of the thread.
Inv ==
  /\ TypeOK /\ PoolOK
  /\ Clients /\ Links /\ Conns /\ UpsTimers /\ Requests /\ Queue /\ Wakes /\ PolledAlive

-----------------------------------------------------------------------------
(* Events *)

\* Events of the thread are told apart by their callback and its argument.
LEMMA EventsDistinct ==
  ASSUME NEW s, NEW r, NEW c
  PROVE  /\ \A t : SessTimeout(s) = SessTimeout(t) => s = t
         /\ \A t : Writeable(s) = Writeable(t) => s = t
         /\ \A q, d : UpsTimeout(r, c) = UpsTimeout(q, d) => r = q /\ c = d
         /\ \A t : SessTimeout(s) # Writeable(t)
         /\ SessTimeout(s) # UpsTimeout(r, c) /\ Writeable(s) # UpsTimeout(r, c)
         /\ SessTimeout(s) # DequeueEvent /\ Writeable(s) # DequeueEvent
         /\ UpsTimeout(r, c) # DequeueEvent
<1>1. /\ SessTimeout(s).cb = "sess_timeout" /\ Writeable(s).cb = "writeable"
      /\ UpsTimeout(r, c).cb = "ups_timeout" /\ DequeueEvent.cb = "subr_dequeue"
      /\ SessTimeout(s).s = s /\ Writeable(s).s = s
      /\ UpsTimeout(r, c).r = r /\ UpsTimeout(r, c).c = c
  BY DEF SessTimeout, Writeable, UpsTimeout, DequeueEvent
<1>2. \A t : SessTimeout(t).s = t /\ Writeable(t).s = t /\ Writeable(t).cb = "writeable"
  BY DEF SessTimeout, Writeable
<1>3. \A q, d : UpsTimeout(q, d).r = q /\ UpsTimeout(q, d).c = d
  BY DEF UpsTimeout
<1> QED
  BY <1>1, <1>2, <1>3

\* Every event is one of the four kinds.
LEMMA EventKinds ==
  ASSUME NEW e \in EventType
  PROVE  /\ e.cb = "sess_timeout" => e.s \in Session /\ e = SessTimeout(e.s)
         /\ e.cb = "writeable" => e.s \in Session /\ e = Writeable(e.s)
         /\ e.cb = "ups_timeout" => e.r \in Req /\ e.c \in Conn /\ e = UpsTimeout(e.r, e.c)
<1>1. CASE e \in [cb : {"sess_timeout", "writeable"}, s : Session]
  BY <1>1 DEF SessTimeout, Writeable
<1>2. CASE e \in [cb : {"ups_timeout"}, r : Req, c : Conn]
  BY <1>2 DEF UpsTimeout
<1>3. CASE e \in [cb : {"subr_dequeue"}]
  BY <1>3
<1> QED
  BY <1>1, <1>2, <1>3 DEF EventType

\* The events have their type.
LEMMA EventTypes ==
  ASSUME NEW s \in Session, NEW r \in Req, NEW c \in Conn
  PROVE  {SessTimeout(s), Writeable(s), UpsTimeout(r, c), DequeueEvent} \subseteq EventType
BY DEF EventType, SessTimeout, Writeable, UpsTimeout, DequeueEvent

\* The callbacks of the events.
LEMMA EventCallbacks ==
  ASSUME NEW s, NEW r, NEW c
  PROVE  /\ SessTimeout(s).cb = "sess_timeout" /\ Writeable(s).cb = "writeable"
         /\ UpsTimeout(r, c).cb = "ups_timeout" /\ DequeueEvent.cb = "subr_dequeue"
         /\ UpsTimeout(r, c).r = r /\ UpsTimeout(r, c).c = c
BY DEF SessTimeout, Writeable, UpsTimeout, DequeueEvent

-----------------------------------------------------------------------------
(* The invariant gives the properties *)

\* Who owns what follows from the links between the objects.
LEMMA InvOwnership ==
  ASSUME Inv, Pool!IdsFit
  PROVE  Ownership
<1> USE DEF Inv
<1>1. \A e \in events : e.cb \in {"sess_timeout", "writeable"} => e.s \in DOMAIN session
  BY EventKinds DEF TypeOK, Clients
<1>2. ASSUME NEW e \in events, e.cb = "ups_timeout"
      PROVE  e.c \in DOMAIN nconn \ closed /\ nc[e.c].m_data = e.r
  <2>1. e.r \in Req /\ e.c \in Conn /\ UpsTimeout(e.r, e.c) \in events
    BY <1>2, EventKinds DEF TypeOK
  <2>2. nc[e.c].m_data = e.r
    BY <2>1 DEF UpsTimers, Conns
  <2>3. e.c \in Pool!Active
    BY <2>1, <2>2, ProxyAssumption DEF Conns
  <2> QED
    BY <2>2, <2>3, PoolFacts
<1>3. NoDangling
  <2>1. \A s \in DOMAIN session : Deleted(s) \subseteq DOMAIN subr
    BY DEF Links, Deleted
  <2>2. \A i \in DOMAIN m_subr_list : m_subr_list[i] \in Req \cup {NoReq}
    BY DEF TypeOK
  <2>3. \A i \in DOMAIN m_subr_list : m_subr_list[i] \in DOMAIN subr \cup {NoReq}
    BY <2>2 DEF Queue, Occurs
  <2> QED
    BY <1>1, <1>2, <2>1, <2>3 DEF NoDangling, PolledAlive, Queue, Links
<1>4. Pool!Active = {subr[r].m_nconn : r \in DOMAIN subr} \ {NoConn}
  <2>1. ASSUME NEW c \in Pool!Active
        PROVE  c \in {subr[r].m_nconn : r \in DOMAIN subr} \ {NoConn}
    <3>1. c \in Conn /\ nc[c].m_data # NoReq
      BY PoolFacts DEF Conns
    <3>2. nc[c].m_data \in Req
      BY <3>1 DEF TypeOK
    <3>3. nc[c].m_data \in DOMAIN subr /\ subr[nc[c].m_data].m_nconn = c
      BY <3>1, <3>2 DEF Conns
    <3> QED
      BY <3>1, <3>3, ProxyAssumption
  <2>2. ASSUME NEW r \in DOMAIN subr, subr[r].m_nconn # NoConn
        PROVE  subr[r].m_nconn \in Pool!Active
    <3>1. r \in Req /\ subr[r].m_nconn \in Conn
      BY <2>2 DEF TypeOK, SubrType
    <3>2. nc[subr[r].m_nconn].m_data = r
      BY <3>1 DEF Conns
    <3> QED
      BY <3>1, <3>2, ProxyAssumption DEF Conns
  <2> QED
    BY <2>1, <2>2
<1>5. ConnOwnership
  BY <1>4 DEF ConnOwnership, Conns, Requests
<1> QED
  BY <1>3, <1>5 DEF Ownership

\* The timers follow from what the events say of their owners.
LEMMA InvTimersArmed ==
  ASSUME Inv
  PROVE  TimersArmed
<1> USE DEF Inv
<1>1. ASSUME NEW s \in DOMAIN session
      PROVE  /\ session[s].m_evr_timeout /\ SessTimeout(s) \in events
             /\ session[s].m_evr_writeable <=> Writeable(s) \in events
             /\ session[s].out => session[s].m_evr_writeable \/ session[s].blocked
  <2>1. s \in Session /\ session[s] \in SessionType
    BY DEF TypeOK
  <2> QED
    BY <2>1 DEF Clients, SessionType
<1>2. ASSUME NEW r \in DOMAIN subr
      PROVE  /\ subr[r].m_evr_timeout <=> \E c \in Conn : UpsTimeout(r, c) \in events
             /\ subr[r].m_state = "ACTIVE" => subr[r].m_evr_timeout
  <2>1. r \in Req /\ subr[r] \in SubrType
    BY DEF TypeOK
  <2> QED
    BY <2>1 DEF UpsTimers, Requests, SubrType
<1> QED
  BY <1>1, <1>2 DEF TimersArmed

\* That a subr is in the list once is counted as QueueWakes counts it.
LEMMA InvQueueWakes ==
  ASSUME Inv
  PROVE  QueueWakes
<1>1. ASSUME NEW r \in DOMAIN subr
      PROVE  Cardinality({i \in DOMAIN m_subr_list : m_subr_list[i] = r})
               = (IF subr[r].m_state = "QUEUED" THEN 1 ELSE 0)
  <2> DEFINE S == {i \in DOMAIN m_subr_list : m_subr_list[i] = r}
  <2>1. r # NoReq /\ r \in Req
    BY ProxyAssumption DEF Inv, TypeOK
  <2>2. CASE subr[r].m_state = "QUEUED"
    <3>1. PICK i \in DOMAIN m_subr_list : m_subr_list[i] = r
      BY <2>1, <2>2 DEF Inv, Queue, Occurs
    <3>2. S = {i}
      BY <2>1, <3>1 DEF Inv, Queue, Once
    <3> QED
      BY <2>2, <3>2, FS_Singleton
  <2>3. CASE subr[r].m_state # "QUEUED"
    <3>1. S = {}
      BY <2>1, <2>3 DEF Inv, Queue, Occurs
    <3> QED
      BY <2>3, <3>1, FS_EmptySet
  <2> QED
    BY <2>2, <2>3
<1> QED
  BY <1>1 DEF QueueWakes, Inv, Wakes

-----------------------------------------------------------------------------
(* What a step leaves alone *)

ClientEventsSame ==
  \A s \in Session : /\ SessTimeout(s) \in events' <=> SessTimeout(s) \in events
                     /\ Writeable(s) \in events' <=> Writeable(s) \in events

UpsEventsSame ==
  \A r \in Req, c \in Conn : UpsTimeout(r, c) \in events' <=> UpsTimeout(r, c) \in events

DequeueSame == DequeueEvent \in events' <=> DequeueEvent \in events

\* The upstream timers of all requests but r.
OtherUpsEventsSame(r) ==
  \A q \in Req \ {r}, c \in Conn :
    UpsTimeout(q, c) \in events' <=> UpsTimeout(q, c) \in events

\* Output for the session is queued, with its event.
Told(s) ==
  /\ session' = Output(s)
  /\ \A t \in Session : /\ SessTimeout(t) \in events' <=> SessTimeout(t) \in events
                        /\ Writeable(t) \in events' <=> Writeable(t) \in events \/ t = s

\* Nothing, or just that, happens to the sessions.
MaybeTold(s) == (session' = session /\ ClientEventsSame) \/ Told(s)

\* Nothing happens to the events, or one is queued.
LEMMA NoEvent ==
  ASSUME events' = events
  PROVE  ClientEventsSame /\ UpsEventsSame /\ DequeueSame
BY DEF ClientEventsSame, UpsEventsSame, DequeueSame

\* A client is told of output.
LEMMA TellEvent ==
  ASSUME NEW s \in Session, session' = Output(s), events' = events \cup {Writeable(s)}
  PROVE  Told(s) /\ UpsEventsSame /\ DequeueSame
BY EventsDistinct DEF Told, UpsEventsSame, DequeueSame

\* subr_dequeue() is asked for.
LEMMA WakeEvent ==
  ASSUME events' = events \cup {DequeueEvent}
  PROVE  ClientEventsSame /\ UpsEventsSame /\ DequeueEvent \in events'
BY EventsDistinct DEF ClientEventsSame, UpsEventsSame

\* A request is given its timer.
LEMMA TimerEvent ==
  ASSUME NEW r \in Req, NEW c \in Conn, events' = events \cup {UpsTimeout(r, c)}
  PROVE  /\ ClientEventsSame /\ OtherUpsEventsSame(r) /\ DequeueSame
         /\ \A d \in Conn : UpsTimeout(r, d) \in events' <=> UpsTimeout(r, d) \in events \/ d = c
<1>1. \A q \in Req, d \in Conn : UpsTimeout(q, d) = UpsTimeout(r, c) => q = r /\ d = c
  BY EventsDistinct
<1> QED
  BY <1>1, EventsDistinct DEF ClientEventsSame, OtherUpsEventsSame, DequeueSame

\* The timer of a request is cancelled, if it is pending.
LEMMA CancelEvent ==
  ASSUME TypeOK, UpsTimers, NEW r \in DOMAIN subr
  PROVE  /\ cancel_evr_timer(r) = {e \in events : e.cb = "ups_timeout" /\ e.r = r}
         /\ \A q \in Req, c \in Conn :
              UpsTimeout(q, c) \in events \ cancel_evr_timer(r) <=>
                UpsTimeout(q, c) \in events /\ q # r
         /\ \A s \in Session : SessTimeout(s) \notin cancel_evr_timer(r)
         /\ \A s \in Session : Writeable(s) \notin cancel_evr_timer(r)
         /\ DequeueEvent \notin cancel_evr_timer(r)
<1>1. cancel_evr_timer(r) = {e \in events : e.cb = "ups_timeout" /\ e.r = r}
  <2>1. CASE subr[r].m_evr_timeout
    BY <2>1 DEF cancel_evr_timer
  <2>2. CASE ~subr[r].m_evr_timeout
    <3>1. \A e \in events : ~(e.cb = "ups_timeout" /\ e.r = r)
      BY <2>2, EventKinds DEF TypeOK, UpsTimers
    <3> QED
      BY <2>2, <3>1 DEF cancel_evr_timer
  <2> QED
    BY <2>1, <2>2
<1> QED
  BY <1>1, EventCallbacks

\* Queueing output keeps what the invariant says of the sessions.
LEMMA TellKeeps ==
  ASSUME TypeOK, Clients, NEW s \in DOMAIN session, MaybeTold(s)
  PROVE  /\ Clients'
         /\ DOMAIN session' = DOMAIN session
         /\ session' \in [DOMAIN session -> SessionType]
         /\ \A t \in DOMAIN session : session'[t].m_u = session[t].m_u
<1>1. CASE session' = session /\ ClientEventsSame
  BY <1>1 DEF TypeOK, Clients, ClientEventsSame
<1>2. CASE Told(s)
  <2>1. session[s] \in SessionType /\ s \in Session /\ DOMAIN session \subseteq Session
    BY DEF TypeOK
  <2>2. /\ DOMAIN session' = DOMAIN session
        /\ \A t \in DOMAIN session : t # s => session'[t] = session[t]
        /\ session'[s] = [session[s] EXCEPT !.out = TRUE, !.m_evr_writeable = TRUE]
    BY <1>2 DEF Told, Output
  <2>3. /\ session'[s] \in SessionType
        /\ session'[s].m_u = session[s].m_u
        /\ session'[s].m_evr_timeout = session[s].m_evr_timeout
        /\ session'[s].m_evr_writeable = TRUE
    BY <2>1, <2>2 DEF SessionType
  <2>4. session' \in [DOMAIN session -> SessionType]
    BY <1>2, <2>1, <2>2, <2>3 DEF TypeOK, Told, Output
  <2>5. Clients'
    BY <1>2, <2>1, <2>2, <2>3 DEF Clients, Told
  <2> QED
    BY <2>2, <2>3, <2>4, <2>5
<1> QED
  BY <1>1, <1>2 DEF MaybeTold

\* A request is updated to v.
LEMMA UpdateFacts ==
  ASSUME TypeOK, NEW r \in DOMAIN subr, NEW v \in SubrType, subr' = [subr EXCEPT ![r] = v]
  PROVE  /\ DOMAIN subr' = DOMAIN subr
         /\ subr' \in [DOMAIN subr -> SubrType]
         /\ subr'[r] = v
         /\ \A q \in DOMAIN subr : q # r => subr'[q] = subr[q]
         /\ r \in Req /\ DOMAIN subr \subseteq Req /\ subr[r] \in SubrType
BY DEF TypeOK

\* A request never changes hands.
LEMMA LinksKept ==
  ASSUME Links, DOMAIN session' = DOMAIN session, DOMAIN subr' = DOMAIN subr,
         \A t \in DOMAIN session : session'[t].m_u = session[t].m_u,
         \A q \in DOMAIN subr : subr'[q].m_session = subr[q].m_session
  PROVE  Links'
BY DEF Links

\* No connection changes hands.
LEMMA ConnsKept ==
  ASSUME Conns, DOMAIN subr' = DOMAIN subr,
         \A q \in DOMAIN subr : subr'[q].m_nconn = subr[q].m_nconn,
         \A c \in Conn : nc'[c].m_data = nc[c].m_data,
         Pool!Active' = Pool!Active
  PROVE  Conns'
BY DEF Conns

\* No upstream timer is armed or cancelled.
LEMMA UpsTimersKept ==
  ASSUME UpsTimers, DOMAIN subr' = DOMAIN subr, UpsEventsSame,
         \A q \in DOMAIN subr : /\ subr'[q].m_nconn = subr[q].m_nconn
                                /\ subr'[q].m_evr_timeout = subr[q].m_evr_timeout
  PROVE  UpsTimers'
BY DEF UpsTimers, UpsEventsSame

\* No request enters or leaves the queue or a lookup.
LEMMA QueueKept ==
  ASSUME Queue, DOMAIN subr' = DOMAIN subr, UNCHANGED <<m_subr_list, jobs>>,
         \A q \in DOMAIN subr : /\ subr'[q].m_state = subr[q].m_state
                                /\ subr'[q].lookup = subr[q].lookup
  PROVE  Queue'
BY DEF Queue

-----------------------------------------------------------------------------
(* The steps of a request, by what they change *)

NcType == [m_nc_state : {"FREE", "CONNECTING", "CONNECTED"}, m_data : Req \cup {NoReq}]

\* A callback that notes activity, and may pass a part of the response on.
LEMMA TouchStep ==
  ASSUME Inv, NEW r \in DOMAIN subr, NEW v \in SubrType, subr' = [subr EXCEPT ![r] = v],
         v.m_session = subr[r].m_session, v.m_state = subr[r].m_state,
         v.lookup = subr[r].lookup, v.m_nconn = subr[r].m_nconn,
         v.m_evr_timeout = subr[r].m_evr_timeout, v.u \in {subr[r].u, "SENDING"},
         MaybeTold(subr[r].m_session), events' \subseteq EventType, UpsEventsSame, DequeueSame,
         nc' \in [Conn -> NcType],
         \A c \in Conn : /\ nc'[c].m_data = nc[c].m_data
                         /\ nc[c].m_nc_state # "FREE" => nc'[c].m_nc_state # "FREE",
         UNCHANGED poolVars, callbackUnchanged
  PROVE  Inv'
<1> USE DEF Inv
<1>1. UNCHANGED <<m_subr_list, jobs, running, loop, polled>>
  BY DEF callbackUnchanged
<1>2. PoolOK' /\ Pool!Active' = Pool!Active /\ DOMAIN nconn' = DOMAIN nconn
  BY PoolSame
<1>3. /\ Clients' /\ DOMAIN session' = DOMAIN session
      /\ session' \in [DOMAIN session -> SessionType]
      /\ \A t \in DOMAIN session : session'[t].m_u = session[t].m_u
  BY TellKeeps DEF Links
<1>4. /\ DOMAIN subr' = DOMAIN subr /\ subr' \in [DOMAIN subr -> SubrType]
      /\ subr'[r] = v /\ \A q \in DOMAIN subr : q # r => subr'[q] = subr[q]
      /\ DOMAIN subr \subseteq Req
  BY UpdateFacts
<1>5. TypeOK'
  BY <1>1, <1>3, <1>4 DEF TypeOK, NcType
<1>6. Links'
  BY <1>3, <1>4, LinksKept
<1>7. Conns'
  BY <1>2, <1>4, ConnsKept
<1>8. UpsTimers'
  BY <1>4, UpsTimersKept
<1>9. Queue'
  BY <1>1, <1>4, QueueKept
<1>10. Requests'
  <2>1. \A q \in DOMAIN subr : subr[q].m_nconn \in Conn \cup {NoConn}
    BY DEF TypeOK, SubrType
  <2>2. ASSUME NEW q \in DOMAIN subr
        PROVE  /\ subr'[q].m_state = subr[q].m_state /\ subr'[q].m_nconn = subr[q].m_nconn
               /\ subr'[q].m_evr_timeout = subr[q].m_evr_timeout
               /\ subr'[q].u \in {subr[q].u, "SENDING"}
    BY <1>4
  <2> QED
    BY <1>1, <1>4, <2>1, <2>2 DEF Requests
<1>11. Wakes' /\ PolledAlive'
  BY <1>1, <1>2, <1>3 DEF Wakes, PolledAlive, DequeueSame
<1> QED
  BY <1>2, <1>3, <1>5, <1>6, <1>7, <1>8, <1>9, <1>10, <1>11

\* The request is done, and loses its connection.
LEMMA FinishStep ==
  ASSUME Inv, NEW r \in DOMAIN subr, NEW c \in Conn, subr[r].m_nconn = c,
         NEW v \in SubrType, subr' = [subr EXCEPT ![r] = v],
         v.m_session = subr[r].m_session, v.m_state = "NONE", v.u = "DONE",
         v.m_nconn = NoConn, v.m_evr_timeout = FALSE,
         MaybeTold(subr[r].m_session), events' \subseteq EventType, DequeueSame,
         \A q \in Req, d \in Conn :
           UpsTimeout(q, d) \in events' <=> UpsTimeout(q, d) \in events /\ q # r,
         nc' \in [Conn -> NcType], nc'[c].m_data = NoReq,
         \A d \in Conn \ {c} : /\ nc'[d].m_data = nc[d].m_data
                               /\ d \in Pool!Active => nc'[d].m_nc_state = nc[d].m_nc_state,
         PoolOK', Pool!Active' = Pool!Active \ {c}, DOMAIN nconn' = DOMAIN nconn,
         UNCHANGED <<m_subr_list, jobs, loop, polled>>,
         (running = "none" /\ running' = "none") \/ running' = "subr_dequeue"
  PROVE  Inv'
<1> USE DEF Inv
<1>3. /\ Clients' /\ DOMAIN session' = DOMAIN session
      /\ session' \in [DOMAIN session -> SessionType]
      /\ \A t \in DOMAIN session : session'[t].m_u = session[t].m_u
  BY TellKeeps DEF Links
<1>4. /\ DOMAIN subr' = DOMAIN subr /\ subr' \in [DOMAIN subr -> SubrType]
      /\ subr'[r] = v /\ \A q \in DOMAIN subr : q # r => subr'[q] = subr[q]
      /\ DOMAIN subr \subseteq Req /\ r \in Req
  BY UpdateFacts
<1>5. TypeOK'
  BY <1>3, <1>4 DEF TypeOK, NcType
<1>6. Links'
  BY <1>3, <1>4, LinksKept
<1>7. c # NoConn /\ nc[c].m_data = r
  BY <1>4, ProxyAssumption DEF Conns
<1>8. \A q \in DOMAIN subr : q # r => subr[q].m_nconn # c
  BY <1>4, <1>7 DEF Conns
<1>9. Conns'
  <2>1. \A d \in Conn : d \in Pool!Active' <=> nc'[d].m_data # NoReq
    BY DEF Conns
  <2>2. ASSUME NEW d \in Conn, NEW q \in Req
        PROVE  nc'[d].m_data = q <=> q \in DOMAIN subr' /\ subr'[q].m_nconn = d
    <3>1. CASE d = c
      BY <1>4, <1>7, <1>8, <3>1, ProxyAssumption
    <3>2. CASE d # c
      BY <1>4, <3>2, ProxyAssumption DEF Conns
    <3> QED
      BY <3>1, <3>2
  <2> QED
    BY <2>1, <2>2 DEF Conns
<1>10. UpsTimers'
  <2>1. ASSUME NEW q \in Req, NEW d \in Conn
        PROVE  UpsTimeout(q, d) \in events' <=>
                 q \in DOMAIN subr' /\ subr'[q].m_evr_timeout /\ subr'[q].m_nconn = d
    BY <1>4, ProxyAssumption DEF UpsTimers
  <2>2. \A q \in DOMAIN subr' : subr'[q].m_evr_timeout => subr'[q].m_nconn # NoConn
    BY <1>4 DEF UpsTimers
  <2> QED
    BY <2>1, <2>2 DEF UpsTimers
<1>11. Queue'
  <2>1. subr[r].m_state \notin {"QUEUED", "DNS_LOOKUP"}
    BY <1>7 DEF Requests
  <2>2. r \notin jobs
    BY <2>1 DEF Queue
  <2> QED
    BY <1>4, <2>1, <2>2 DEF Queue
<1>12. Requests'
  <2>1. ASSUME NEW q \in DOMAIN subr, q # r, subr[q].m_state = "ACTIVE"
        PROVE  nc'[subr[q].m_nconn].m_nc_state # "FREE"
    <3>1. subr[q].m_nconn \in Conn /\ subr[q].m_nconn # c
      BY <1>8, <2>1 DEF TypeOK, SubrType, Requests
    <3>2. nc[subr[q].m_nconn].m_data = q
      BY <1>4, <3>1 DEF Conns
    <3>3. subr[q].m_nconn \in Pool!Active
      BY <1>4, <3>1, <3>2, ProxyAssumption DEF Conns
    <3> QED
      BY <2>1, <3>1, <3>3 DEF Requests
  <2>2. running' \notin Req
    BY ProxyAssumption
  <2> QED
    BY <1>4, <2>1, <2>2 DEF Requests
<1>13. Wakes' /\ PolledAlive'
  BY <1>3 DEF Wakes, PolledAlive, DequeueSame
<1> QED
  BY <1>3, <1>5, <1>6, <1>9, <1>10, <1>11, <1>12, <1>13

-----------------------------------------------------------------------------
(* Callbacks of upstream connections *)

\* A connection that has m_data serves a live request, which has it, and is
\* open.
LEMMA Served ==
  ASSUME Inv, Pool!IdsFit, NEW c \in Conn, nc[c].m_data # NoReq
  PROVE  /\ nc[c].m_data \in DOMAIN subr /\ nc[c].m_data \in Req
         /\ subr[nc[c].m_data] \in SubrType
         /\ subr[nc[c].m_data].m_nconn = c
         /\ subr[nc[c].m_data].m_session \in DOMAIN session
         /\ subr[nc[c].m_data].m_session \in Session
         /\ c \in DOMAIN nconn \ closed
<1>1. nc[c].m_data \in Req
  BY DEF Inv, TypeOK
<1>2. nc[c].m_data \in DOMAIN subr /\ subr[nc[c].m_data].m_nconn = c
  BY <1>1 DEF Inv, Conns
<1>3. c \in DOMAIN nconn \ closed
  BY PoolFacts DEF Inv, Conns
<1> QED
  BY <1>1, <1>2, <1>3 DEF Inv, TypeOK, Links

\* The request that has a connection is the one the connection serves.
LEMMA Serves ==
  ASSUME Inv, NEW r \in DOMAIN subr, subr[r].m_nconn # NoConn
  PROVE  /\ subr[r].m_nconn \in Conn
         /\ nc[subr[r].m_nconn].m_data = r
         /\ r # NoReq
<1>1. r \in Req /\ subr[r].m_nconn \in Conn
  BY DEF Inv, TypeOK, SubrType
<1> QED
  BY <1>1, ProxyAssumption DEF Inv, Conns

\* The events when a request ends: its timer goes, and the client may be told.
LEMMA CancelTell ==
  ASSUME Inv, NEW r \in DOMAIN subr, NEW W \in SUBSET {Writeable(subr[r].m_session)},
         events' = (events \ cancel_evr_timer(r)) \cup W,
         session' = IF W = {} THEN session ELSE Output(subr[r].m_session)
  PROVE  /\ MaybeTold(subr[r].m_session) /\ events' \subseteq EventType /\ DequeueSame
         /\ \A q \in Req, d \in Conn :
              UpsTimeout(q, d) \in events' <=> UpsTimeout(q, d) \in events /\ q # r
<1> DEFINE s == subr[r].m_session
           T == cancel_evr_timer(r)
<1>1. s \in Session
  BY DEF Inv, TypeOK, SubrType
<1>2. /\ \A q \in Req, d \in Conn :
           UpsTimeout(q, d) \in events \ T <=> UpsTimeout(q, d) \in events /\ q # r
      /\ \A t \in Session : SessTimeout(t) \notin T /\ Writeable(t) \notin T
      /\ DequeueEvent \notin T
  BY CancelEvent DEF Inv
<1> HIDE DEF T
<1>3. events' \subseteq EventType
  <2>1. Writeable(s) \in EventType
    BY <1>1 DEF EventType, Writeable
  <2> QED
    BY <2>1 DEF Inv, TypeOK
<1>4. /\ DequeueSame
      /\ \A q \in Req, d \in Conn :
              UpsTimeout(q, d) \in events' <=> UpsTimeout(q, d) \in events /\ q # r
  <2>0. \A e \in W : e.cb = "writeable"
    BY EventCallbacks
  <2>1. \A q \in Req, d \in Conn : UpsTimeout(q, d) \notin W
    BY <2>0, EventCallbacks
  <2>2. DequeueEvent \notin W
    BY <2>0, EventCallbacks
  <2>3. \A e : e \in events' <=> e \in events \ T \/ e \in W
    BY DEF T
  <2> QED
    BY <1>2, <2>1, <2>2, <2>3 DEF DequeueSame
<1>5. MaybeTold(s)
  <2>1. CASE W = {}
    BY <1>2, <2>1 DEF MaybeTold, ClientEventsSame, T
  <2>2. CASE W = {Writeable(s)}
    BY <1>2, <2>2, EventsDistinct DEF MaybeTold, Told, T
  <2> QED
    BY <2>1, <2>2
<1> QED
  BY <1>3, <1>4, <1>5

\* What becomes of the request's record.
LEMMA EndedRecord ==
  ASSUME NEW u \in SubrType, NEW v \in {TornDown(u), TornDown(Whole(u)), Completed(u)}
  PROVE  /\ v \in SubrType /\ v.m_session = u.m_session /\ v.m_state = "NONE"
         /\ v.u = "DONE" /\ v.m_nconn = NoConn /\ v.m_evr_timeout = FALSE
BY DEF TornDown, Completed, Detached, Whole, SubrType

\* A request ends and its connection is released.
LEMMA ReleaseStep ==
  ASSUME Inv, Pool!IdsFit, NEW c \in Conn, NEW r \in DOMAIN subr, nc[c].m_data = r,
         NEW v \in {TornDown(subr[r]), TornDown(Whole(subr[r])), Completed(subr[r])}, subr' = [subr EXCEPT ![r] = v],
         Pool!release(c), nc' = [nc EXCEPT ![c] = NewConn],
         NEW W \in SUBSET {Writeable(subr[r].m_session)},
         events' = (events \ cancel_evr_timer(r)) \cup W,
         session' = IF W = {} THEN session ELSE Output(subr[r].m_session),
         UNCHANGED <<m_subr_list, jobs, loop, polled>>,
         (running = "none" /\ running' = "none") \/ running' = "subr_dequeue"
  PROVE  Inv'
<1>0. r # NoReq
  BY ProxyAssumption DEF Inv, TypeOK
<1>1. subr[r] \in SubrType /\ subr[r].m_nconn = c /\ c \in DOMAIN nconn \ closed
  BY <1>0, Served
<1>2. /\ v \in SubrType /\ v.m_session = subr[r].m_session /\ v.m_state = "NONE"
      /\ v.u = "DONE" /\ v.m_nconn = NoConn /\ v.m_evr_timeout = FALSE
  BY <1>1, EndedRecord
<1>3. /\ MaybeTold(subr[r].m_session) /\ events' \subseteq EventType /\ DequeueSame
      /\ \A q \in Req, d \in Conn :
              UpsTimeout(q, d) \in events' <=> UpsTimeout(q, d) \in events /\ q # r
  BY CancelTell
<1>4. PoolOK' /\ Pool!Active' = Pool!Active \ {c} /\ DOMAIN nconn' = DOMAIN nconn
  BY <1>1, PoolRelease DEF Inv
<1>5. /\ nc' \in [Conn -> NcType] /\ nc'[c].m_data = NoReq
      /\ \A d \in Conn \ {c} : nc'[d] = nc[d]
  BY DEF NewConn, NcType, Inv, TypeOK
<1> QED
  BY <1>1, <1>2, <1>3, <1>4, <1>5, FinishStep

\* teardown(), of a request or of an idle connection.
LEMMA TeardownStep ==
  ASSUME Inv, Pool!IdsFit, NEW c \in DOMAIN nconn \ closed, NEW r, nc[c].m_data = r,
         NEW error \in BOOLEAN, teardown(r, c, error),
         UNCHANGED <<m_subr_list, jobs, loop, polled>>,
         (running = "none" /\ running' = "none") \/ running' = "subr_dequeue"
  PROVE  Inv'
<1>1. c \in Conn
  BY PoolFacts DEF Inv
<1>2. Pool!release(c) /\ nc' = [nc EXCEPT ![c] = NewConn]
  BY DEF teardown
<1>3. CASE r # NoReq
  <2> DEFINE W == IF error THEN {Writeable(subr[r].m_session)} ELSE {}
  <2>1. r \in DOMAIN subr
    BY <1>1, <1>3, Served
  <2>2. /\ subr' = [subr EXCEPT ![r] = TornDown(subr[r])]
        /\ session' = IF W = {} THEN session ELSE Output(subr[r].m_session)
        /\ events' = (events \ cancel_evr_timer(r)) \cup W
    BY <1>3 DEF teardown
  <2>3. W \in SUBSET {Writeable(subr[r].m_session)}
    OBVIOUS
  <2> HIDE DEF W
  <2> QED
    BY <1>1, <1>2, <2>1, <2>2, <2>3, ReleaseStep
<1>4. CASE r = NoReq
  <2>1. UNCHANGED <<session, subr, events>>
    BY <1>4 DEF teardown
  <2>2. PoolOK' /\ Pool!Active' = Pool!Active /\ DOMAIN nconn' = DOMAIN nconn
    BY <1>1, <1>2, <1>4, PoolRelease DEF Inv, Conns
  <2>3. /\ nc' \in [Conn -> NcType] /\ nc'[c].m_data = NoReq
        /\ \A d \in Conn \ {c} : nc'[d] = nc[d]
    BY <1>1, <1>2 DEF NewConn, NcType, Inv, TypeOK
  <2>4. TypeOK'
    BY <2>1, <2>3 DEF Inv, TypeOK, NcType
  <2>5. Conns'
    BY <1>1, <1>4, <2>1, <2>2, <2>3, ConnsKept DEF Inv
  <2>6. ASSUME NEW q \in DOMAIN subr, subr[q].m_nconn # NoConn
        PROVE  subr[q].m_nconn \in Conn \ {c}
    BY <1>4, <2>6, Serves
  <2>7. Requests'
    BY <2>1, <2>3, <2>6, ProxyAssumption DEF Inv, TypeOK, Requests
  <2>8. Clients' /\ Links' /\ UpsTimers' /\ Queue' /\ Wakes' /\ PolledAlive'
    BY <2>1, <2>2 DEF Inv, Clients, Links, UpsTimers, Queue, Wakes, PolledAlive
  <2> QED
    BY <2>2, <2>4, <2>5, <2>7, <2>8 DEF Inv
<1> QED
  BY <1>3, <1>4

\* Activity was noted in a request's record, or part of the response passed on.
Noted(u, v) ==
  /\ v \in SubrType /\ v.m_session = u.m_session /\ v.m_state = u.m_state
  /\ v.lookup = u.lookup /\ v.m_nconn = u.m_nconn /\ v.m_evr_timeout = u.m_evr_timeout
  /\ v.u \in {u.u, "SENDING"}

\* What the callbacks of a connection change in a request that goes on.
LEMMA NotedRecords ==
  ASSUME NEW u \in SubrType
  PROVE  /\ Noted(u, [u EXCEPT !.m_active = TRUE])
         /\ Noted(u, [u EXCEPT !.m_active = FALSE])
         /\ Noted(u, [u EXCEPT !.out = FALSE, !.m_active = TRUE])
         /\ Noted(u, [u EXCEPT !.m_again = TRUE, !.m_active = TRUE])
         /\ Noted(u, [u EXCEPT !.u = "SENDING", !.m_active = TRUE])
BY DEF Noted, SubrType

\* A callback that notes activity of the request that c serves.
LEMMA TouchConn ==
  ASSUME Inv, Pool!IdsFit, NEW c \in Conn, NEW r, nc[c].m_data = r, r # NoReq,
         NEW v, Noted(subr[r], v), subr' = [subr EXCEPT ![r] = v],
         \/ session' = session /\ events' = events
         \/ /\ session' = Output(subr[r].m_session)
            /\ events' = events \cup {Writeable(subr[r].m_session)},
         nc' = nc \/ nc' = [nc EXCEPT ![c].m_nc_state = "CONNECTED"],
         UNCHANGED poolVars, callbackUnchanged
  PROVE  Inv'
<1> DEFINE s == subr[r].m_session
<1>1. r \in DOMAIN subr /\ s \in Session
  BY Served
<1>2. MaybeTold(s) /\ UpsEventsSame /\ DequeueSame
  BY <1>1, NoEvent, TellEvent DEF MaybeTold
<1>3. events' \subseteq EventType
  <2>1. Writeable(s) \in EventType
    BY <1>1 DEF EventType, Writeable
  <2> QED
    BY <2>1 DEF Inv, TypeOK
<1>4. /\ nc' \in [Conn -> NcType]
      /\ \A d \in Conn : /\ nc'[d].m_data = nc[d].m_data
                         /\ nc[d].m_nc_state # "FREE" => nc'[d].m_nc_state # "FREE"
  <2>1. nc \in [Conn -> NcType]
    BY DEF Inv, TypeOK, NcType
  <2>2. CASE nc' = nc
    BY <2>1, <2>2
  <2>3. CASE nc' = [nc EXCEPT ![c].m_nc_state = "CONNECTED"]
    <3>1. nc'[c] = [nc[c] EXCEPT !.m_nc_state = "CONNECTED"] /\ nc[c] \in NcType
      BY <2>1, <2>3
    <3>2. nc'[c] \in NcType /\ nc'[c].m_data = nc[c].m_data /\ nc'[c].m_nc_state = "CONNECTED"
      BY <3>1 DEF NcType
    <3> QED
      BY <2>1, <2>3, <3>2
  <2> QED
    BY <2>2, <2>3
<1> QED
  BY <1>1, <1>2, <1>3, <1>4, TouchStep DEF Noted

\* The response is complete and the connection is parked.
LEMMA ParkStep ==
  ASSUME Inv, Pool!IdsFit, NEW c \in Conn, UpsCompleteKeep(c, TRUE)
  PROVE  Inv'
<1> DEFINE r == nc[c].m_data
           s == subr[r].m_session
           v == Completed(subr[r])
<1>1. /\ r # NoReq /\ m_next_id < MaxInserts /\ running = "none"
      /\ subr' = [subr EXCEPT ![r] = v] /\ session' = Output(s)
      /\ events' = (events \ cancel_evr_timer(r)) \cup {Writeable(s)}
      /\ Pool!add_idle(c) /\ IdleData(c)
      /\ UNCHANGED <<m_subr_list, jobs, running, loop, polled>>
  BY DEF UpsCompleteKeep, callbackUnchanged, Readable, Connected, OnFd
<1>2. /\ r \in DOMAIN subr /\ subr[r] \in SubrType /\ subr[r].m_nconn = c
      /\ c \in DOMAIN nconn \ closed
  BY <1>1, Served
<1>3. /\ v \in SubrType /\ v.m_session = s /\ v.m_state = "NONE"
      /\ v.u = "DONE" /\ v.m_nconn = NoConn /\ v.m_evr_timeout = FALSE
  BY <1>2, EndedRecord
<1>4. /\ PoolOK' /\ Pool!Active' = Pool!Active \ {c} /\ DOMAIN nconn' = DOMAIN nconn
      /\ closed' \subseteq closed \cup Pool!Idle \cup {c}
  BY <1>1, <1>2, PoolAddIdle DEF Inv
<1>5. /\ nc' \in [Conn -> NcType] /\ nc'[c].m_data = NoReq
      /\ \A d \in Conn \ {c} : /\ nc'[d].m_data = nc[d].m_data
                               /\ d \in Pool!Active => nc'[d].m_nc_state = nc[d].m_nc_state
  <2>1. nc \in [Conn -> NcType] /\ NewConn \in NcType /\ NewConn.m_data = NoReq
    BY DEF Inv, TypeOK, NcType, NewConn
  <2>2. [nc[c] EXCEPT !.m_data = NoReq] \in NcType /\ [nc[c] EXCEPT !.m_data = NoReq].m_data = NoReq
    BY <2>1 DEF NcType
  <2>3. \A d \in Conn : /\ d \in closed' \ closed => nc'[d] = NewConn
                        /\ d \notin closed' \ closed =>
                             nc'[d] = IF d = c THEN [nc[c] EXCEPT !.m_data = NoReq] ELSE nc[d]
    <3> TAKE d \in Conn
    <3>1. nc'[d] = IF d \in closed' \ closed THEN NewConn
                   ELSE IF d = c THEN [nc[d] EXCEPT !.m_data = NoReq]
                   ELSE nc[d]
      BY <1>1, Zenon DEF IdleData
    <3> QED
      BY <3>1
  <2>4. DOMAIN nc' = Conn /\ nc' = [d \in Conn |-> nc'[d]]
    BY <1>1 DEF IdleData
  <2>5. \A d \in Conn : nc'[d] \in NcType
    BY <2>1, <2>2, <2>3
  <2>6. \A d \in Conn \ {c} : d \in closed' \ closed => d \notin Pool!Active /\ nc[d].m_data = NoReq
    BY <1>4, PoolFacts DEF Inv, Conns
  <2> QED
    BY <2>1, <2>2, <2>3, <2>4, <2>5, <2>6
<1>6. /\ MaybeTold(s) /\ events' \subseteq EventType /\ DequeueSame
      /\ \A q \in Req, d \in Conn :
              UpsTimeout(q, d) \in events' <=> UpsTimeout(q, d) \in events /\ q # r
  <2> DEFINE W == {Writeable(s)}
  <2>1. /\ W \in SUBSET {Writeable(s)} /\ events' = (events \ cancel_evr_timer(r)) \cup W
        /\ session' = IF W = {} THEN session ELSE Output(s)
    BY <1>1
  <2> HIDE DEF W
  <2> QED
    BY <1>2, <2>1, CancelTell
<1> HIDE DEF r, v
<1> QED
  BY <1>1, <1>2, <1>3, <1>4, <1>5, <1>6, FinishStep

\* Any callback of an upstream connection.
LEMMA UpsStep ==
  ASSUME Inv, Pool!IdsFit, NEW c \in Conn, UpsCallback(c)
  PROVE  Inv'
<1> DEFINE r == nc[c].m_data
<1>1. OnFd(c) /\ c \in DOMAIN nconn \ closed /\ running = "none"
  BY DEF UpsCallback, UpsActivity, UpsConnected, UpsConnectFails, UpsWritten, UpsWriteFails,
         UpsEof, UpsReadFails, UpsReadUnavailable, UpsPartial, UpsCompleteClose,
         UpsCompleteKeep, Readable, Connected, OnFd, Registered
<1>2. r # NoReq => subr[r] \in SubrType /\ r \in DOMAIN subr
  BY Served
<1>3. CASE UpsActivity(c)
  <2>1. r # NoReq /\ subr' = [subr EXCEPT ![r] = [subr[r] EXCEPT !.m_active = TRUE]]
    BY <1>3 DEF UpsActivity
  <2>2. Noted(subr[r], [subr[r] EXCEPT !.m_active = TRUE])
    BY <1>2, <2>1, NotedRecords
  <2> QED
    BY <1>3, <2>1, <2>2, TouchConn DEF UpsActivity
<1>4. CASE UpsConnected(c)
  <2>1. r # NoReq /\ subr' = [subr EXCEPT ![r] = [subr[r] EXCEPT !.m_active = TRUE]]
    BY <1>4 DEF UpsConnected
  <2>2. Noted(subr[r], [subr[r] EXCEPT !.m_active = TRUE])
    BY <1>2, <2>1, NotedRecords
  <2> QED
    BY <1>4, <2>1, <2>2, TouchConn DEF UpsConnected
<1>5. CASE UpsWritten(c)
  <2>1. r # NoReq /\ subr' = [subr EXCEPT ![r] = [subr[r] EXCEPT !.out = FALSE, !.m_active = TRUE]]
    BY <1>5 DEF UpsWritten
  <2>2. Noted(subr[r], [subr[r] EXCEPT !.out = FALSE, !.m_active = TRUE])
    BY <1>2, <2>1, NotedRecords
  <2> QED
    BY <1>5, <2>1, <2>2, TouchConn DEF UpsWritten
<1>6. CASE UpsReadUnavailable(c)
  <2>1. r # NoReq /\ subr' = [subr EXCEPT ![r] = [subr[r] EXCEPT !.m_again = TRUE, !.m_active = TRUE]]
    BY <1>6 DEF UpsReadUnavailable
  <2>2. Noted(subr[r], [subr[r] EXCEPT !.m_again = TRUE, !.m_active = TRUE])
    BY <1>2, <2>1, NotedRecords
  <2> QED
    BY <1>6, <2>1, <2>2, TouchConn DEF UpsReadUnavailable
<1>7. CASE UpsPartial(c)
  <2>1. r # NoReq /\ subr' = [subr EXCEPT ![r] = [subr[r] EXCEPT !.u = "SENDING", !.m_active = TRUE]]
    BY <1>7 DEF UpsPartial
  <2>2. Noted(subr[r], [subr[r] EXCEPT !.u = "SENDING", !.m_active = TRUE])
    BY <1>2, <2>1, NotedRecords
  <2> QED
    BY <1>7, <2>1, <2>2, TouchConn DEF UpsPartial
<1>8. CASE UpsConnectFails(c) \/ UpsReadFails(c)
  <2>1. teardown(r, c, TRUE) /\ UNCHANGED <<m_subr_list, jobs, running, loop, polled>>
    BY <1>8 DEF UpsConnectFails, UpsReadFails, callbackUnchanged
  <2> QED
    BY <1>1, <2>1, TeardownStep
<1>9. CASE UpsWriteFails(c) \/ UpsEof(c)
  <2>1. teardown(r, c, FALSE) /\ UNCHANGED <<m_subr_list, jobs, running, loop, polled>>
    BY <1>9 DEF UpsWriteFails, UpsEof, callbackUnchanged
  <2> QED
    BY <1>1, <2>1, TeardownStep
<1>10. CASE UpsCompleteClose(c) \/ UpsCompleteKeep(c, FALSE)
  <2> DEFINE s == subr[r].m_session
             W == {Writeable(s)}
  <2>1. /\ r # NoReq /\ W # {}
        /\ \E v \in {TornDown(subr[r]), TornDown(Whole(subr[r])), Completed(subr[r])} : subr' = [subr EXCEPT ![r] = v]
        /\ Pool!release(c) /\ nc' = [nc EXCEPT ![c] = NewConn]
        /\ session' = Output(s)
        /\ events' = (events \ cancel_evr_timer(r)) \cup W
        /\ UNCHANGED <<m_subr_list, jobs, running, loop, polled>>
    BY <1>10 DEF UpsCompleteClose, UpsCompleteKeep, callbackUnchanged
  <2>2. PICK v \in {TornDown(subr[r]), TornDown(Whole(subr[r])), Completed(subr[r])} : subr' = [subr EXCEPT ![r] = v]
    BY <2>1
  <2>3. W \in SUBSET {Writeable(s)}
    OBVIOUS
  <2> HIDE DEF W
  <2> QED
    BY <1>1, <1>2, <2>1, <2>2, <2>3, ReleaseStep
<1>11. CASE UpsCompleteKeep(c, TRUE)
  BY <1>11, ParkStep
<1> QED
  BY <1>3, <1>4, <1>5, <1>6, <1>7, <1>8, <1>9, <1>10, <1>11 DEF UpsCallback

-----------------------------------------------------------------------------
(* The queue of subrequests *)

\* The front of the list is taken off.
LEMMA TailOccurs ==
  ASSUME NEW list \in Seq(Req \cup {NoReq}), list # << >>, Once(list)
  PROVE  /\ Tail(list) \in Seq(Req \cup {NoReq})
         /\ Once(Tail(list))
         /\ \A q \in Req : Occurs(Tail(list), q) <=> Occurs(list, q) /\ q # Head(list)
         /\ Occurs(list, Head(list))
<1> DEFINE n == Len(list)
           rest == Tail(list)
<1>1. n \in Nat /\ n >= 1 /\ DOMAIN list = 1 .. n /\ Head(list) = list[1]
  BY EmptySeq
<1>2. /\ rest \in Seq(Req \cup {NoReq}) /\ DOMAIN rest = 1 .. n - 1
      /\ \A i \in 1 .. n - 1 : rest[i] = list[i + 1]
  BY <1>1
<1> HIDE DEF n, rest
<1>3. ASSUME NEW i \in DOMAIN rest, NEW j \in DOMAIN rest, rest[i] = rest[j], rest[i] # NoReq
      PROVE  i = j
  <2>1. i + 1 \in DOMAIN list /\ j + 1 \in DOMAIN list /\ i \in Int /\ j \in Int
    BY <1>1, <1>2
  <2>2. list[i + 1] = list[j + 1] /\ list[i + 1] # NoReq
    BY <1>2, <1>3
  <2>3. i + 1 = j + 1
    BY <2>1, <2>2 DEF Once
  <2> QED
    BY <2>1, <2>3
<1>4. ASSUME NEW q \in Req
      PROVE  Occurs(rest, q) <=> Occurs(list, q) /\ q # Head(list)
  <2>0. q # NoReq
    BY ProxyAssumption
  <2>1. ASSUME NEW i \in DOMAIN rest, rest[i] = q
        PROVE  Occurs(list, q) /\ q # Head(list)
    <3>1. i + 1 \in DOMAIN list /\ 1 \in DOMAIN list /\ i + 1 # 1 /\ list[i + 1] = q
      BY <1>1, <1>2, <2>1
    <3> QED
      BY <1>1, <2>0, <3>1 DEF Once, Occurs
  <2>2. ASSUME NEW i \in DOMAIN list, list[i] = q, q # Head(list)
        PROVE  Occurs(rest, q)
    <3>1. i # 1 /\ i \in 1 .. n
      BY <1>1, <2>2
    <3>2. i - 1 \in 1 .. n - 1 /\ (i - 1) + 1 = i
      BY <1>1, <3>1
    <3>3. rest[i - 1] = q
      BY <1>2, <2>2, <3>2
    <3> QED
      BY <1>2, <3>2, <3>3 DEF Occurs
  <2> QED
    BY <2>1, <2>2 DEF Occurs
<1>5. Occurs(list, Head(list))
  BY <1>1 DEF Occurs
<1> QED
  BY <1>2, <1>3, <1>4, <1>5 DEF Once, rest

\* A subr that is not in the list is put at its back.
LEMMA AppendOccurs ==
  ASSUME NEW list \in Seq(Req \cup {NoReq}), Once(list), NEW r \in Req, ~Occurs(list, r)
  PROVE  /\ Append(list, r) \in Seq(Req \cup {NoReq})
         /\ Once(Append(list, r))
         /\ \A q \in Req : Occurs(Append(list, r), q) <=> Occurs(list, q) \/ q = r
<1> DEFINE n == Len(list)
           more == Append(list, r)
<1>1. n \in Nat /\ DOMAIN list = 1 .. n
  OBVIOUS
<1>2. /\ more \in Seq(Req \cup {NoReq}) /\ DOMAIN more = 1 .. n + 1
      /\ \A i \in 1 .. n : more[i] = list[i]
      /\ more[n + 1] = r
  BY <1>1
<1> HIDE DEF n, more
<1>3. \A i \in DOMAIN more : i \in DOMAIN list \/ i = n + 1
  BY <1>1, <1>2
<1>4. \A i \in DOMAIN list : i \in DOMAIN more /\ more[i] = list[i] /\ list[i] # r
  BY <1>1, <1>2 DEF Occurs
<1>5. n + 1 \in DOMAIN more
  BY <1>1, <1>2
<1>6. Once(more)
  BY <1>2, <1>3, <1>4 DEF Once
<1>7. \A q \in Req : Occurs(more, q) <=> Occurs(list, q) \/ q = r
  BY <1>2, <1>3, <1>4, <1>5 DEF Occurs
<1> QED
  BY <1>2, <1>6, <1>7 DEF more

\* One request's place in the queue changes.
LEMMA QueueMoved ==
  ASSUME TypeOK, Queue, NEW r \in DOMAIN subr, NEW v \in SubrType,
         subr' = [subr EXCEPT ![r] = v],
         Once(m_subr_list'),
         \A q \in Req : Occurs(m_subr_list', q) <=>
           IF q = r THEN v.m_state = "QUEUED" ELSE Occurs(m_subr_list, q),
         jobs' \subseteq jobs \cup {r},
         r \in jobs' => v.m_state = "DNS_LOOKUP" /\ v.lookup
  PROVE  Queue'
<1>1. /\ DOMAIN subr' = DOMAIN subr /\ subr'[r] = v
      /\ \A q \in DOMAIN subr : q # r => subr'[q] = subr[q]
  BY UpdateFacts
<1> QED
  BY <1>1 DEF Queue

\* A request that has no connection is queued, looked up or given up.
LEMMA QueueStep ==
  ASSUME Inv, NEW r \in DOMAIN subr, NEW v \in SubrType, subr' = [subr EXCEPT ![r] = v],
         subr[r].m_state \in {"QUEUED", "DNS_LOOKUP"}, v.m_state # "ACTIVE",
         v.m_session = subr[r].m_session, v.m_nconn = subr[r].m_nconn,
         v.m_evr_timeout = subr[r].m_evr_timeout, v.u = subr[r].u,
         MaybeTold(subr[r].m_session), events' \subseteq EventType, UpsEventsSame,
         UNCHANGED <<poolVars, nc, loop, polled>>,
         m_subr_list' \in Seq(Req \cup {NoReq}), jobs' \subseteq Req,
         running' \in {"none", "subr_dequeue"}, Queue', Wakes'
  PROVE  Inv'
<1> USE DEF Inv
<1>1. PoolOK' /\ Pool!Active' = Pool!Active /\ DOMAIN nconn' = DOMAIN nconn
  BY PoolSame
<1>2. /\ Clients' /\ DOMAIN session' = DOMAIN session
      /\ session' \in [DOMAIN session -> SessionType]
      /\ \A t \in DOMAIN session : session'[t].m_u = session[t].m_u
  BY TellKeeps DEF Links
<1>3. /\ DOMAIN subr' = DOMAIN subr /\ subr' \in [DOMAIN subr -> SubrType]
      /\ subr'[r] = v /\ \A q \in DOMAIN subr : q # r => subr'[q] = subr[q]
      /\ DOMAIN subr \subseteq Req
  BY UpdateFacts
<1>4. TypeOK'
  BY <1>2, <1>3 DEF TypeOK
<1>5. Links' /\ Conns' /\ UpsTimers'
  BY <1>1, <1>2, <1>3, LinksKept, ConnsKept, UpsTimersKept
<1>6. Requests'
  <2>1. running' \notin Req
    BY ProxyAssumption
  <2>2. subr[r].u # "DONE" /\ subr[r].m_nconn = NoConn
    BY DEF Requests
  <2> QED
    BY <1>3, <2>1, <2>2 DEF Requests
<1>7. PolledAlive'
  BY <1>1, <1>2 DEF PolledAlive
<1> QED
  BY <1>1, <1>2, <1>4, <1>5, <1>6, <1>7

\* adns_resolved_cb(): an answer queues the request, a failure is told.
LEMMA ResolvedStep ==
  ASSUME Inv, NEW r \in Req, NEW found \in BOOLEAN, adns_resolved_cb(r, found)
  PROVE  Inv'
<1> DEFINE s == subr[r].m_session
<1>1. /\ r \in DOMAIN subr /\ subr[r].m_state = "DNS_LOOKUP" /\ subr[r] \in SubrType
      /\ running = "none" /\ s \in Session
  BY DEF Inv, Queue, TypeOK, adns_resolved_cb, SubrType
<1>2. /\ jobs' = jobs \ {r} /\ jobs' \subseteq Req /\ UNCHANGED <<poolVars, nc, running, loop, polled>>
  BY DEF adns_resolved_cb, Inv, TypeOK
<1>3. ~Occurs(m_subr_list, r)
  BY <1>1 DEF Inv, Queue
<1>4. CASE found
  <2> DEFINE v == [subr[r] EXCEPT !.lookup = FALSE, !.m_state = "QUEUED"]
  <2>1. /\ subr' = [subr EXCEPT ![r] = v] /\ session' = session
        /\ m_subr_list' = Append(m_subr_list, r) /\ events' = events \cup {DequeueEvent}
    BY <1>4 DEF adns_resolved_cb, subr_enqueue
  <2>2. /\ v \in SubrType /\ v.m_state = "QUEUED" /\ v.m_session = s
        /\ v.m_nconn = subr[r].m_nconn /\ v.m_evr_timeout = subr[r].m_evr_timeout
        /\ v.u = subr[r].u
    BY <1>1 DEF SubrType
  <2> HIDE DEF v
  <2>3. /\ MaybeTold(s) /\ UpsEventsSame /\ DequeueEvent \in events'
        /\ events' \subseteq EventType
    BY <2>1, WakeEvent, DequeueEvent \in EventType DEF MaybeTold, EventType, DequeueEvent, Inv, TypeOK
  <2>4. /\ m_subr_list' \in Seq(Req \cup {NoReq}) /\ Once(m_subr_list')
        /\ \A q \in Req : Occurs(m_subr_list', q) <=> Occurs(m_subr_list, q) \/ q = r
    BY <1>3, <2>1, AppendOccurs DEF Inv, TypeOK, Queue
  <2>5. Queue'
    BY <1>1, <1>2, <2>1, <2>2, <2>4, QueueMoved DEF Inv
  <2>6. Wakes'
    BY <2>3 DEF Wakes
  <2> QED
    BY <1>1, <1>2, <2>1, <2>2, <2>3, <2>4, <2>5, <2>6, QueueStep
<1>5. CASE ~found
  <2> DEFINE v == [subr[r] EXCEPT !.lookup = FALSE]
  <2>1. /\ subr' = [subr EXCEPT ![r] = v] /\ session' = Output(s)
        /\ m_subr_list' = m_subr_list /\ events' = events \cup {Writeable(s)}
    BY <1>5 DEF adns_resolved_cb
  <2>2. /\ v \in SubrType /\ v.m_state = "DNS_LOOKUP" /\ v.m_session = s
        /\ v.m_nconn = subr[r].m_nconn /\ v.m_evr_timeout = subr[r].m_evr_timeout
        /\ v.u = subr[r].u
    BY <1>1 DEF SubrType
  <2> HIDE DEF v
  <2>3. MaybeTold(s) /\ UpsEventsSame /\ DequeueSame
    BY <1>1, <2>1, TellEvent DEF MaybeTold
  <2>4. events' \subseteq EventType
    BY <1>1, <2>1, Writeable(s) \in EventType DEF EventType, Writeable, Inv, TypeOK
  <2>5. Queue'
    BY <1>1, <1>2, <1>3, <2>1, <2>2, QueueMoved DEF Inv, Queue
  <2>6. Wakes'
    BY <1>1, <1>2, <2>1, <2>3 DEF Inv, Wakes, DequeueSame
  <2>7. m_subr_list' \in Seq(Req \cup {NoReq}) /\ v.m_state # "ACTIVE"
    BY <2>1, <2>2 DEF Inv, TypeOK
  <2> QED
    BY <1>1, <1>2, <2>1, <2>2, <2>3, <2>4, <2>5, <2>6, <2>7, QueueStep
<1> QED
  BY <1>4, <1>5

\* The request at the front of the list.
LEMMA Front ==
  ASSUME Inv, NEW r \in DOMAIN subr, AtFront(r)
  PROVE  /\ r \in Req /\ subr[r] \in SubrType /\ subr[r].m_state = "QUEUED"
         /\ subr[r].m_nconn = NoConn /\ subr[r].u # "DONE"
         /\ subr[r].m_session \in Session /\ subr[r].label \in Label
         /\ Tail(m_subr_list) \in Seq(Req \cup {NoReq})
         /\ Once(Tail(m_subr_list))
         /\ \A q \in Req : Occurs(Tail(m_subr_list), q) <=> Occurs(m_subr_list, q) /\ q # r
         /\ r \notin jobs /\ running = "subr_dequeue"
<1>1. m_subr_list \in Seq(Req \cup {NoReq}) /\ m_subr_list # << >> /\ Once(m_subr_list)
  BY DEF Inv, TypeOK, Queue, AtFront
<1>2. /\ Tail(m_subr_list) \in Seq(Req \cup {NoReq}) /\ Once(Tail(m_subr_list))
      /\ \A q \in Req : Occurs(Tail(m_subr_list), q) <=> Occurs(m_subr_list, q) /\ q # r
      /\ Occurs(m_subr_list, r)
  BY <1>1, TailOccurs DEF AtFront
<1>3. r \in Req /\ subr[r] \in SubrType
  BY DEF Inv, TypeOK
<1>4. subr[r].m_state = "QUEUED"
  BY <1>2, <1>3 DEF Inv, Queue
<1>5. /\ subr[r].m_nconn = NoConn /\ subr[r].u # "DONE" /\ r \notin jobs
  BY <1>4 DEF Inv, Requests, Queue
<1> QED
  BY <1>2, <1>3, <1>4, <1>5 DEF SubrType, AtFront

\* The turns of subr_dequeue() that start no request.
LEMMA TurnStep ==
  ASSUME Inv, NEW r \in DOMAIN subr,
         StartAgain(r) \/ StartLookup(r) \/ (\E told \in BOOLEAN : StartLookupFails(r, told))
  PROVE  Inv'
<1> DEFINE s == subr[r].m_session
           rest == Tail(m_subr_list)
<1>1. AtFront(r)
  BY DEF StartAgain, StartLookup, StartLookupFails, NeedsLookup
<1>2. /\ r \in Req /\ subr[r] \in SubrType /\ subr[r].m_state = "QUEUED"
      /\ s \in Session /\ r \notin jobs /\ running = "subr_dequeue"
      /\ rest \in Seq(Req \cup {NoReq}) /\ Once(rest)
      /\ \A q \in Req : Occurs(rest, q) <=> Occurs(m_subr_list, q) /\ q # r
  BY <1>1, Front
<1>3. jobs \subseteq Req /\ events \subseteq EventType /\ Writeable(s) \in EventType
      /\ DequeueEvent \in EventType
  BY <1>2 DEF Inv, TypeOK, EventType, Writeable, DequeueEvent
<1> HIDE DEF rest
<1>4. CASE StartAgain(r)
  <2> DEFINE v == [subr[r] EXCEPT !.m_state = "QUEUED"]
  <2>1. /\ subr' = [subr EXCEPT ![r] = v] /\ m_subr_list' = Append(rest, r)
        /\ events' = events \cup {DequeueEvent} /\ running' = "none"
        /\ UNCHANGED <<poolVars, session, nc, jobs, loop, polled>>
    BY <1>4 DEF StartAgain, rest
  <2>2. /\ v \in SubrType /\ v.m_state = "QUEUED" /\ v.m_session = s
        /\ v.m_nconn = subr[r].m_nconn /\ v.m_evr_timeout = subr[r].m_evr_timeout
        /\ v.u = subr[r].u
    BY <1>2 DEF SubrType
  <2> HIDE DEF v
  <2>3. /\ MaybeTold(s) /\ UpsEventsSame /\ DequeueEvent \in events'
        /\ events' \subseteq EventType
    BY <1>3, <2>1, WakeEvent DEF MaybeTold
  <2>4. /\ m_subr_list' \in Seq(Req \cup {NoReq}) /\ Once(m_subr_list')
        /\ \A q \in Req : Occurs(m_subr_list', q) <=> Occurs(rest, q) \/ q = r
    BY <1>2, <2>1, AppendOccurs
  <2>5. Queue'
    BY <1>2, <2>1, <2>2, <2>4, QueueMoved DEF Inv
  <2>6. Wakes'
    BY <2>3 DEF Wakes
  <2> QED
    BY <1>2, <1>3, <2>1, <2>2, <2>3, <2>4, <2>5, <2>6, QueueStep
<1>5. CASE StartLookup(r)
  <2> DEFINE v == [subr[r] EXCEPT !.m_state = "DNS_LOOKUP", !.lookup = TRUE]
  <2>1. /\ subr' = [subr EXCEPT ![r] = v] /\ m_subr_list' = rest
        /\ jobs' = jobs \cup {r}
        /\ UNCHANGED <<poolVars, session, nc, events, running, loop, polled>>
    BY <1>5 DEF StartLookup, rest
  <2>2. /\ v \in SubrType /\ v.m_state = "DNS_LOOKUP" /\ v.m_session = s /\ v.lookup
        /\ v.m_nconn = subr[r].m_nconn /\ v.m_evr_timeout = subr[r].m_evr_timeout
        /\ v.u = subr[r].u
    BY <1>2 DEF SubrType
  <2> HIDE DEF v
  <2>3. MaybeTold(s) /\ UpsEventsSame /\ events' \subseteq EventType
    BY <1>3, <2>1, NoEvent DEF MaybeTold
  <2>4. Queue'
    BY <1>2, <2>1, <2>2, QueueMoved DEF Inv
  <2>5. Wakes' /\ jobs' \subseteq Req /\ running' \in {"none", "subr_dequeue"}
        /\ v.m_state # "ACTIVE"
    BY <1>2, <1>3, <2>1, <2>2 DEF Wakes
  <2> QED
    BY <1>2, <2>1, <2>2, <2>3, <2>4, <2>5, QueueStep
<1>6. CASE \E told \in BOOLEAN : StartLookupFails(r, told)
  <2> DEFINE v == [subr[r] EXCEPT !.m_state = "NONE"]
  <2>1. /\ subr' = [subr EXCEPT ![r] = v] /\ m_subr_list' = rest
        /\ UNCHANGED <<poolVars, nc, jobs, running, loop, polled>>
        /\ \/ session' = Output(s) /\ events' = events \cup {Writeable(s)}
           \/ session' = session /\ events' = events
    BY <1>6 DEF StartLookupFails, rest
  <2>2. /\ v \in SubrType /\ v.m_state = "NONE" /\ v.m_session = s
        /\ v.m_nconn = subr[r].m_nconn /\ v.m_evr_timeout = subr[r].m_evr_timeout
        /\ v.u = subr[r].u
    BY <1>2 DEF SubrType
  <2> HIDE DEF v
  <2>3. MaybeTold(s) /\ UpsEventsSame
    BY <1>2, <2>1, NoEvent, TellEvent DEF MaybeTold
  <2>4. events' \subseteq EventType
    BY <1>3, <2>1
  <2>5. Queue'
    BY <1>2, <2>1, <2>2, QueueMoved DEF Inv
  <2>6. Wakes' /\ jobs' \subseteq Req /\ running' \in {"none", "subr_dequeue"}
        /\ v.m_state # "ACTIVE"
    BY <1>2, <1>3, <2>1, <2>2 DEF Wakes
  <2> QED
    BY <1>2, <2>1, <2>2, <2>3, <2>4, <2>5, <2>6, QueueStep
<1> QED
  BY <1>4, <1>5, <1>6

\* subr_start() takes a connection, idle or new, for the request.
LEMMA AttachStep ==
  ASSUME Inv, Pool!IdsFit, NEW r \in DOMAIN subr, StartOnIdle(r) \/ StartOnNew(r)
  PROVE  Inv'
<1> USE DEF Inv
<1>1. AtFront(r)
  BY DEF StartOnIdle, StartOnNew
<1> DEFINE rest == Tail(m_subr_list)
<1>2. /\ r \in Req /\ subr[r] \in SubrType /\ subr[r].m_state = "QUEUED"
      /\ subr[r].m_nconn = NoConn /\ subr[r].u # "DONE" /\ subr[r].label \in Label
      /\ rest \in Seq(Req \cup {NoReq}) /\ Once(rest)
      /\ \A q \in Req : Occurs(rest, q) <=> Occurs(m_subr_list, q) /\ q # r
      /\ r \notin jobs /\ running = "subr_dequeue"
  BY <1>1, Front
<1>3. /\ PoolOK' /\ DOMAIN nconn \subseteq DOMAIN nconn'
      /\ \E c \in Conn \ Pool!Active : Pool!Active' = Pool!Active \cup {c}
  BY <1>2, PoolGetIdle, PoolGetNew DEF StartOnIdle, StartOnNew
<1>4. PICK c \in Conn : /\ c \notin Pool!Active /\ Pool!Active' = Pool!Active \cup {c}
                        /\ Attach(r, c)
  BY <1>3 DEF StartOnIdle, StartOnNew
<1> DEFINE v == [subr[r] EXCEPT !.m_state = "NONE", !.ups = TRUE, !.m_nconn = c, !.out = TRUE]
<1>5. /\ subr' = [subr EXCEPT ![r] = v] /\ nc' = [nc EXCEPT ![c].m_data = r]
      /\ m_subr_list' = rest /\ running' = r
      /\ UNCHANGED <<session, jobs, events, loop, polled>>
  BY <1>4 DEF Attach
<1>6. /\ v \in SubrType /\ v.m_state = "NONE" /\ v.m_session = subr[r].m_session
      /\ v.m_nconn = c /\ v.m_evr_timeout = subr[r].m_evr_timeout /\ v.u = subr[r].u
  BY <1>2 DEF SubrType
<1> HIDE DEF v, rest
<1>7. /\ DOMAIN subr' = DOMAIN subr /\ subr' \in [DOMAIN subr -> SubrType]
      /\ subr'[r] = v /\ \A q \in DOMAIN subr : q # r => subr'[q] = subr[q]
      /\ DOMAIN subr \subseteq Req
  BY <1>5, <1>6, UpdateFacts
<1>8. /\ nc' \in [Conn -> NcType] /\ nc'[c].m_data = r
      /\ \A d \in Conn \ {c} : nc'[d] = nc[d]
      /\ nc[c].m_data = NoReq
  <2>1. nc \in [Conn -> NcType]
    BY DEF TypeOK, NcType
  <2>2. [nc[c] EXCEPT !.m_data = r] \in NcType /\ [nc[c] EXCEPT !.m_data = r].m_data = r
    BY <1>2, <2>1 DEF NcType
  <2>3. nc[c].m_data = NoReq
    BY <1>4 DEF Conns
  <2> QED
    BY <1>5, <2>1, <2>2, <2>3
<1>9. TypeOK'
  BY <1>2, <1>5, <1>7, <1>8 DEF TypeOK, NcType
<1>10. ~subr[r].m_evr_timeout
  BY <1>2 DEF UpsTimers
<1>11. \A q \in DOMAIN subr : subr[q].m_nconn # c
  BY <1>7, <1>8, ProxyAssumption DEF Conns
<1>12. Conns'
  <2>1. \A d \in Conn : d \in Pool!Active' <=> nc'[d].m_data # NoReq
    BY <1>2, <1>4, <1>8, ProxyAssumption DEF Conns
  <2>2. ASSUME NEW d \in Conn, NEW q \in Req
        PROVE  nc'[d].m_data = q <=> q \in DOMAIN subr' /\ subr'[q].m_nconn = d
    <3>1. CASE d = c
      BY <1>6, <1>7, <1>8, <1>11, <3>1
    <3>2. CASE d # c
      BY <1>2, <1>6, <1>7, <1>8, <3>2, ProxyAssumption DEF Conns
    <3> QED
      BY <3>1, <3>2
  <2> QED
    BY <2>1, <2>2 DEF Conns
<1>13. UpsTimers'
  BY <1>5, <1>6, <1>7, <1>10 DEF UpsTimers
<1>14. Links' /\ Clients'
  <2>1. Links'
    BY <1>5, <1>6, <1>7, LinksKept
  <2> QED
    BY <1>5, <2>1 DEF Clients
<1>15. Queue'
  BY <1>2, <1>5, <1>6, QueueMoved
<1>16. Requests'
  <2>1. \A q \in DOMAIN subr : q # r /\ subr[q].m_nconn # NoConn => subr[q].m_nconn \in Conn \ {c}
    BY <1>11 DEF TypeOK, SubrType
  <2>2. c # NoConn
    BY ProxyAssumption
  <2> QED
    BY <1>2, <1>5, <1>6, <1>7, <1>8, <2>1, <2>2 DEF Requests
<1>17. Wakes' /\ PolledAlive'
  BY <1>2, <1>3, <1>5, ProxyAssumption DEF Wakes, PolledAlive
<1> QED
  BY <1>3, <1>9, <1>12, <1>13, <1>14, <1>15, <1>16, <1>17

\* The request r becomes v and its connection n, with the timer armed.
Armed(r, v, n) ==
  /\ subr' = [subr EXCEPT ![r] = v] /\ nc' = [nc EXCEPT ![subr[r].m_nconn] = n]
  /\ v.m_state = "ACTIVE" => n.m_nc_state # "FREE"
  /\ v.m_state \in {"NONE", "ACTIVE"} /\ v.lookup = subr[r].lookup
  /\ v.m_session = subr[r].m_session /\ v.m_nconn = subr[r].m_nconn
  /\ v.m_evr_timeout = TRUE
  /\ v.u = subr[r].u /\ n.m_data = r

\* subr_start() arms the timer of the request; it is active unless ncsetup()
\* failed.
LEMMA ArmStep ==
  ASSUME Inv, NEW r \in DOMAIN subr,
         \/ StartSetupFails(r)
         \/ \E state \in {"CONNECTING", "CONNECTED"}, out \in BOOLEAN : StartOk(r, state, out)
  PROVE  Inv'
<1> USE DEF Inv
<1> DEFINE c == subr[r].m_nconn
<1>1. running = r /\ r \in Req /\ subr[r] \in SubrType
  BY DEF StartSetupFails, StartOk, Starting, TypeOK
<1>2. /\ c \in Conn /\ subr[r].m_state = "NONE" /\ subr[r].u # "DONE" /\ c # NoConn
      /\ nc[c].m_data = r
  BY <1>1, Serves DEF Requests
<1>3. \E v \in SubrType, n \in NcType : Armed(r, v, n)
  <2>0. nc \in [Conn -> NcType]
    BY DEF TypeOK, NcType
  <2>1. CASE StartSetupFails(r)
    <3> DEFINE v == [subr[r] EXCEPT !.m_evr_timeout = TRUE, !.m_active = TRUE]
    <3>1. /\ v \in SubrType /\ v.m_state = "NONE" /\ v.lookup = subr[r].lookup
          /\ v.m_session = subr[r].m_session /\ v.m_nconn = c /\ v.m_evr_timeout = TRUE
          /\ v.u = subr[r].u
      BY <1>1, <1>2 DEF SubrType
    <3>2. subr' = [subr EXCEPT ![r] = v] /\ nc' = nc
      BY <2>1 DEF StartSetupFails
    <3>3. nc' = [nc EXCEPT ![c] = nc[c]] /\ nc[c] \in NcType
      BY <1>2, <2>0, <3>2
    <3> HIDE DEF v
    <3> QED
      BY <1>2, <3>1, <3>2, <3>3 DEF Armed
  <2>2. ASSUME NEW state \in {"CONNECTING", "CONNECTED"}, NEW out \in BOOLEAN,
               StartOk(r, state, out)
        PROVE  \E v \in SubrType, n \in NcType : Armed(r, v, n)
    <3> DEFINE v == [subr[r] EXCEPT !.m_state = "ACTIVE", !.m_evr_timeout = TRUE,
                                    !.m_active = TRUE, !.out = out]
               n == [nc[c] EXCEPT !.m_nc_state = state]
    <3>1. /\ v \in SubrType /\ v.m_state = "ACTIVE" /\ v.lookup = subr[r].lookup
          /\ v.m_session = subr[r].m_session /\ v.m_nconn = c /\ v.m_evr_timeout = TRUE
          /\ v.u = subr[r].u
      BY <1>1, <1>2 DEF SubrType
    <3>2. n \in NcType /\ n.m_nc_state # "FREE" /\ n.m_data = r
      BY <1>2, <2>0 DEF NcType
    <3>3. subr' = [subr EXCEPT ![r] = v] /\ nc' = [nc EXCEPT ![c] = n]
      BY <2>2 DEF StartOk
    <3> HIDE DEF v, n
    <3> QED
      BY <3>1, <3>2, <3>3 DEF Armed
  <2> QED
    BY <2>1, <2>2
<1>4. PICK v \in SubrType, n \in NcType :
        /\ subr' = [subr EXCEPT ![r] = v] /\ nc' = [nc EXCEPT ![c] = n]
        /\ v.m_state = "ACTIVE" => n.m_nc_state # "FREE"
        /\ v.m_state \in {"NONE", "ACTIVE"} /\ v.lookup = subr[r].lookup
        /\ v.m_session = subr[r].m_session /\ v.m_nconn = c /\ v.m_evr_timeout = TRUE
        /\ v.u = subr[r].u /\ n.m_data = r
  BY <1>3 DEF Armed
<1>5. /\ events' = events \cup {UpsTimeout(r, c)} /\ running' = "subr_dequeue"
      /\ UNCHANGED <<poolVars, session, m_subr_list, jobs, loop, polled>>
  BY DEF StartSetupFails, StartOk
<1>6. /\ DOMAIN subr' = DOMAIN subr /\ subr' \in [DOMAIN subr -> SubrType]
      /\ subr'[r] = v /\ \A q \in DOMAIN subr : q # r => subr'[q] = subr[q]
      /\ DOMAIN subr \subseteq Req
  BY <1>4, UpdateFacts
<1>7. /\ nc' \in [Conn -> NcType] /\ nc'[c] = n /\ \A d \in Conn \ {c} : nc'[d] = nc[d]
  BY <1>2, <1>4 DEF TypeOK, NcType
<1>8. PoolOK' /\ Pool!Active' = Pool!Active /\ DOMAIN nconn' = DOMAIN nconn
  BY <1>5, PoolSame
<1>9. TypeOK'
  <2>1. UpsTimeout(r, c) \in EventType
    BY <1>1, <1>2 DEF EventType, UpsTimeout
  <2>2. events' \subseteq EventType
    BY <1>5, <2>1 DEF TypeOK
  <2> QED
    BY <1>5, <1>6, <1>7, <2>2 DEF TypeOK, NcType
<1>10. /\ ClientEventsSame /\ OtherUpsEventsSame(r) /\ DequeueSame
       /\ \A d \in Conn : UpsTimeout(r, d) \in events' <=> UpsTimeout(r, d) \in events \/ d = c
  BY <1>1, <1>2, <1>5, TimerEvent
<1>11. Clients' /\ Links'
  <2>1. Clients'
    BY <1>5, <1>10 DEF Clients, ClientEventsSame
  <2> QED
    BY <1>4, <1>5, <1>6, <2>1, LinksKept
<1>12. Conns'
  BY <1>2, <1>4, <1>6, <1>7, <1>8, ConnsKept
<1>13. UpsTimers'
  <2>1. ASSUME NEW q \in Req, NEW d \in Conn
        PROVE  UpsTimeout(q, d) \in events' <=>
                 q \in DOMAIN subr' /\ subr'[q].m_evr_timeout /\ subr'[q].m_nconn = d
    <3>1. CASE q = r
      BY <1>1, <1>4, <1>6, <1>10, <3>1 DEF UpsTimers
    <3>2. CASE q # r
      BY <1>6, <1>10, <3>2 DEF UpsTimers, OtherUpsEventsSame
    <3> QED
      BY <3>1, <3>2
  <2> QED
    BY <1>2, <1>4, <1>6, <2>1 DEF UpsTimers
<1>14. Queue'
  <2>1. ~Occurs(m_subr_list, r) /\ r \notin jobs
    BY <1>1, <1>2 DEF Queue
  <2> QED
    BY <1>4, <1>5, <1>6, <2>1 DEF Queue
<1>15. Requests'
  <2>1. ASSUME NEW q \in DOMAIN subr, q # r, subr[q].m_nconn # NoConn
        PROVE  subr[q].m_nconn \in Conn \ {c}
    BY <1>2, <2>1, Serves
  <2>2. running' \notin Req
    BY <1>5, ProxyAssumption
  <2> QED
    BY <1>2, <1>4, <1>6, <1>7, <2>1, <2>2 DEF Requests
<1>16. Wakes' /\ PolledAlive'
  BY <1>5, <1>8 DEF Wakes, PolledAlive
<1> QED
  BY <1>8, <1>9, <1>11, <1>12, <1>13, <1>14, <1>15, <1>16

\* subr_start() fails after it took a connection.
LEMMA StartTeardownStep ==
  ASSUME Inv, Pool!IdsFit, NEW r \in DOMAIN subr, NEW error \in BOOLEAN, StartTeardown(r, error)
  PROVE  Inv'
<1> DEFINE c == subr[r].m_nconn
<1>1. /\ running = r /\ teardown(r, c, error) /\ running' = "subr_dequeue"
      /\ UNCHANGED <<m_subr_list, jobs, loop, polled>>
  BY DEF StartTeardown, Starting
<1>2. c \in Conn /\ nc[c].m_data = r /\ r # NoReq
  BY <1>1, Serves DEF Inv, Requests
<1>3. c \in DOMAIN nconn \ closed
  BY <1>2, Served
<1> QED
  BY <1>1, <1>2, <1>3, TeardownStep

\* evr_event_timeout_cb() of an upstream connection.
LEMMA UpsTimerStep ==
  ASSUME Inv, Pool!IdsFit, UpsTimer
  PROVE  Inv'
<1> USE DEF Inv
<1>1. PICK e \in events : e.cb = "ups_timeout" /\ UpsTimedOut(e)
  BY DEF UpsTimer
<1> DEFINE c == e.c
           r == nc[c].m_data
           s == subr[r].m_session
<1>2. e.r \in Req /\ c \in Conn /\ e = UpsTimeout(e.r, c)
  BY <1>1, EventKinds DEF TypeOK
<1>3. r = e.r /\ subr[r].m_evr_timeout /\ r # NoReq
  <2>1. e.r \in DOMAIN subr /\ subr[e.r].m_evr_timeout /\ subr[e.r].m_nconn = c
    BY <1>2 DEF UpsTimers
  <2>2. nc[c].m_data = e.r
    BY <1>2, <2>1 DEF Conns
  <2> QED
    BY <1>2, <2>1, <2>2, ProxyAssumption
<1>4. /\ r \in DOMAIN subr /\ r \in Req /\ subr[r] \in SubrType /\ subr[r].m_nconn = c
      /\ c \in DOMAIN nconn \ closed
  BY <1>2, <1>3, Served
<1>5. cancel_evr_timer(r) = {e}
  <2>1. cancel_evr_timer(r) = {x \in events : x.cb = "ups_timeout" /\ x.r = r}
    BY <1>4, CancelEvent
  <2>2. ASSUME NEW x \in events, x.cb = "ups_timeout", x.r = r
        PROVE  x = e
    <3>1. x.c \in Conn /\ x = UpsTimeout(r, x.c)
      BY <2>2, EventKinds DEF TypeOK
    <3>2. x.c = c
      BY <1>4, <2>2, <3>1 DEF UpsTimers
    <3> QED
      BY <1>2, <1>3, <3>1, <3>2
  <2> QED
    BY <1>1, <1>3, <2>1, <2>2
<1>6. running = "none" /\ callbackUnchanged /\ UNCHANGED <<m_subr_list, jobs, running, loop, polled>>
  BY <1>1 DEF UpsTimedOut, callbackUnchanged
<1>7. CASE /\ Pool!release(c)
           /\ nc' = [nc EXCEPT ![c] = NewConn]
           /\ subr' = [subr EXCEPT ![r] = TornDown(@)]
           /\ session' = Output(s)
           /\ events' = (events \ {e}) \cup {Writeable(s)}
  <2> DEFINE W == {Writeable(s)}
  <2>1. W \in SUBSET {Writeable(s)} /\ W # {} /\ events' = (events \ cancel_evr_timer(r)) \cup W
    BY <1>5, <1>7
  <2> HIDE DEF W
  <2> QED
    BY <1>2, <1>4, <1>6, <1>7, <2>1, ReleaseStep
<1>8. CASE /\ events' = (events \ {e}) \cup Rearm(r, c)
           /\ subr' = [subr EXCEPT ![r].m_active = FALSE]
           /\ UNCHANGED <<poolVars, session, nc>>
  <2>1. events' = events
    BY <1>2, <1>3, <1>8 DEF Rearm
  <2>2. Noted(subr[r], [subr[r] EXCEPT !.m_active = FALSE])
    BY <1>4, NotedRecords
  <2> QED
    BY <1>2, <1>3, <1>6, <1>8, <2>1, <2>2, TouchConn
<1>9. CASE /\ ~Registered(c)
           /\ events' = events \ {e}
           /\ subr' = [x \in DOMAIN subr |->
                        [subr[x] EXCEPT !.m_evr_timeout = @ /\ x # r]]
           /\ UNCHANGED <<poolVars, session, nc>>
  <2>1. nc[c].m_nc_state = "FREE"
    BY <1>4, <1>9 DEF Registered
  <2>2. subr[r].m_state # "ACTIVE"
    BY <1>4, <2>1 DEF Requests
  <2>3. DOMAIN subr' = DOMAIN subr /\ DOMAIN subr \subseteq Req
    BY <1>9 DEF TypeOK
  <2>4. ASSUME NEW q \in DOMAIN subr
        PROVE  /\ subr'[q] \in SubrType /\ subr'[q].m_session = subr[q].m_session
               /\ subr'[q].m_state = subr[q].m_state /\ subr'[q].lookup = subr[q].lookup
               /\ subr'[q].m_nconn = subr[q].m_nconn /\ subr'[q].u = subr[q].u
               /\ subr'[q].m_evr_timeout <=> subr[q].m_evr_timeout /\ q # r
    <3>1. subr[q] \in SubrType
      BY DEF TypeOK
    <3>2. subr'[q] = [subr[q] EXCEPT !.m_evr_timeout = subr[q].m_evr_timeout /\ q # r]
      BY <1>9
    <3> QED
      BY <3>1, <3>2 DEF SubrType
  <2>5. subr' \in [DOMAIN subr -> SubrType]
    BY <1>9, <2>4
  <2>6. TypeOK'
    BY <1>6, <1>9, <2>3, <2>5 DEF TypeOK
  <2>7. PoolOK' /\ Pool!Active' = Pool!Active /\ DOMAIN nconn' = DOMAIN nconn
    BY <1>9, PoolSame
  <2>8. /\ ClientEventsSame /\ DequeueSame
        /\ \A q \in Req, d \in Conn :
             UpsTimeout(q, d) \in events' <=> UpsTimeout(q, d) \in events /\ q # r
    <3>1. \A t : SessTimeout(t) # e /\ Writeable(t) # e /\ DequeueEvent # e
      BY <1>2, EventsDistinct
    <3>2. \A q, d : UpsTimeout(q, d) = e => q = r
      BY <1>2, <1>3, EventsDistinct
    <3>3. \A d \in Conn : UpsTimeout(r, d) \in events => d = c
      BY <1>4 DEF UpsTimers
    <3> QED
      BY <1>2, <1>3, <1>9, <3>1, <3>2, <3>3 DEF ClientEventsSame, DequeueSame
  <2>9. Clients'
    BY <1>9, <2>8 DEF Clients, ClientEventsSame
  <2>10. Links' /\ Conns' /\ Queue'
    BY <1>6, <1>9, <2>3, <2>4, <2>7, LinksKept, ConnsKept, QueueKept
  <2>11. UpsTimers'
    BY <2>3, <2>4, <2>8 DEF UpsTimers
  <2>12. Requests'
    BY <1>6, <1>9, <2>2, <2>3, <2>4 DEF Requests
  <2>13. Wakes' /\ PolledAlive'
    BY <1>6, <1>9, <2>7, <2>8 DEF Wakes, PolledAlive, DequeueSame
  <2> QED
    BY <2>6, <2>7, <2>9, <2>10, <2>11, <2>12, <2>13
<1> QED
  BY <1>1, <1>3, <1>7, <1>8, <1>9 DEF UpsTimedOut

-----------------------------------------------------------------------------
(* The main loop *)

\* A step that changes the list, the events of the queue, and where the loop
\* is, at most.
LEMMA LoopStep ==
  ASSUME Inv, UNCHANGED <<session, subr, nc, jobs>>, PoolOK', Pool!Active' = Pool!Active,
         ClientEventsSame, UpsEventsSame, events' \subseteq EventType,
         m_subr_list' \in Seq(Req \cup {NoReq}), Once(m_subr_list'),
         \A q \in Req : Occurs(m_subr_list', q) <=> Occurs(m_subr_list, q),
         running' \in {"none", "subr_dequeue"}, loop' \in {"events", "fds", "late"},
         polled' \subseteq Session \cup Conn, PolledAlive', Wakes'
  PROVE  Inv'
<1> USE DEF Inv
<1>1. TypeOK'
  BY DEF TypeOK
<1>2. Clients' /\ Links' /\ Conns' /\ UpsTimers' /\ Queue'
  BY DEF Clients, Links, Conns, UpsTimers, Queue, ClientEventsSame, UpsEventsSame
<1>3. Requests'
  BY ProxyAssumption DEF Requests, TypeOK
<1> QED
  BY <1>1, <1>2, <1>3

\* The steps of the main loop and of subr_dequeue() that start no request.
LEMMA LoopSteps ==
  ASSUME Inv, Pool!IdsFit, RunDequeue \/ DequeueEnd \/ DequeueNull \/ Wait \/ WaitNothing \/ EndRound
  PROVE  Inv'
<1>0. /\ events \subseteq EventType /\ m_subr_list \in Seq(Req \cup {NoReq})
      /\ Once(m_subr_list) /\ polled \subseteq Session \cup Conn /\ loop \in {"events", "fds", "late"}
  BY DEF Inv, TypeOK, Queue
<1>1. CASE RunDequeue
  <2>1. /\ ClientEventsSame /\ UpsEventsSame /\ events' \subseteq EventType
    BY <1>0, <1>1, EventsDistinct DEF RunDequeue, ClientEventsSame, UpsEventsSame
  <2>2. /\ PoolOK' /\ Pool!Active' = Pool!Active /\ DOMAIN nconn' = DOMAIN nconn
    BY <1>1, PoolSame DEF RunDequeue, Inv
  <2> QED
    BY <1>0, <1>1, <2>1, <2>2, LoopStep DEF RunDequeue, Inv, PolledAlive, Wakes
<1>2. CASE DequeueEnd
  <2>1. /\ PoolOK' /\ Pool!Active' = Pool!Active /\ DOMAIN nconn' = DOMAIN nconn
    BY <1>2, PoolSame DEF DequeueEnd, Inv
  <2> QED
    BY <1>0, <1>2, <2>1, NoEvent, LoopStep DEF DequeueEnd, Inv, PolledAlive, Wakes
<1>3. CASE DequeueNull
  <2>1. /\ PoolOK' /\ Pool!Active' = Pool!Active /\ DOMAIN nconn' = DOMAIN nconn
    BY <1>3, PoolSame DEF DequeueNull, Inv
  <2>2. /\ m_subr_list' \in Seq(Req \cup {NoReq}) /\ Once(m_subr_list')
        /\ \A q \in Req : Occurs(m_subr_list', q) <=> Occurs(m_subr_list, q)
    BY <1>0, <1>3, TailOccurs, ProxyAssumption DEF DequeueNull
  <2> QED
    BY <1>0, <1>3, <2>1, <2>2, NoEvent, LoopStep DEF DequeueNull, Inv, PolledAlive, Wakes
<1>4. CASE Wait
  <2>1. /\ PoolOK' /\ Pool!Active' = Pool!Active /\ DOMAIN nconn' = DOMAIN nconn
    BY <1>4, PoolSame DEF Wait, Inv
  <2>2. polled' \subseteq Session \cup Conn /\ PolledAlive'
    BY <1>4, <2>1 DEF Wait, Inv, TypeOK, PolledAlive, Registered
  <2> QED
    BY <1>0, <1>4, <2>1, <2>2, NoEvent, LoopStep DEF Wait, Inv, Wakes
<1>5. CASE WaitNothing
  <2>1. /\ PoolOK' /\ Pool!Active' = Pool!Active /\ DOMAIN nconn' = DOMAIN nconn
    BY <1>5, PoolSame DEF WaitNothing, Inv
  <2> QED
    BY <1>0, <1>5, <2>1, NoEvent, LoopStep DEF WaitNothing, Inv, Wakes, PolledAlive
<1>6. CASE EndRound
  <2>1. PoolOK' /\ Pool!Active' = Pool!Active
    BY <1>6, PoolReap DEF EndRound, Inv
  <2> QED
    BY <1>0, <1>6, <2>1, NoEvent, LoopStep DEF EndRound, Inv, Wakes, PolledAlive
<1> QED
  BY <1>1, <1>2, <1>3, <1>4, <1>5, <1>6

-----------------------------------------------------------------------------
(* The client sessions *)

\* The writeable event of s is as w says, and the other events of sessions
\* stay.
ClientEventsAt(s, w) ==
  \A t \in Session :
    /\ SessTimeout(t) \in events' <=> SessTimeout(t) \in events
    /\ Writeable(t) \in events' <=> IF t = s THEN w ELSE Writeable(t) \in events

\* One session changes.
LEMMA SessionAt ==
  ASSUME TypeOK, Clients, NEW s \in DOMAIN session, NEW x \in SessionType,
         session' = [session EXCEPT ![s] = x], x.m_evr_timeout,
         x.out => x.m_evr_writeable \/ x.blocked,
         ClientEventsAt(s, x.m_evr_writeable)
  PROVE  /\ Clients'
         /\ DOMAIN session' = DOMAIN session
         /\ session' \in [DOMAIN session -> SessionType]
         /\ session'[s] = x /\ \A t \in DOMAIN session : t # s => session'[t] = session[t]
<1>1. /\ DOMAIN session' = DOMAIN session
      /\ session' \in [DOMAIN session -> SessionType]
      /\ session'[s] = x /\ \A t \in DOMAIN session : t # s => session'[t] = session[t]
      /\ s \in Session
  BY DEF TypeOK
<1>2. ASSUME NEW t \in Session
      PROVE  /\ SessTimeout(t) \in events' <=> t \in DOMAIN session'
             /\ Writeable(t) \in events' <=> t \in DOMAIN session' /\ session'[t].m_evr_writeable
             /\ t \in DOMAIN session' =>
                  /\ session'[t].m_evr_timeout
                  /\ session'[t].out => session'[t].m_evr_writeable \/ session'[t].blocked
  <2>1. CASE t = s
    BY <1>1, <2>1 DEF Clients, ClientEventsAt
  <2>2. CASE t # s
    BY <1>1, <2>2 DEF Clients, ClientEventsAt
  <2> QED
    BY <2>1, <2>2
<1> QED
  BY <1>1, <1>2 DEF Clients

\* A callback of a session that leaves its request alone.
LEMMA SessionStep ==
  ASSUME Inv, NEW s \in DOMAIN session, NEW x \in SessionType,
         session' = [session EXCEPT ![s] = x], x.m_evr_timeout, x.m_u = session[s].m_u,
         x.out => x.m_evr_writeable \/ x.blocked,
         ClientEventsAt(s, x.m_evr_writeable), UpsEventsSame, DequeueSame,
         events' \subseteq EventType, UNCHANGED <<poolVars, subr, nc>>, callbackUnchanged
  PROVE  Inv'
<1> USE DEF Inv
<1>1. /\ Clients' /\ DOMAIN session' = DOMAIN session
      /\ session' \in [DOMAIN session -> SessionType]
      /\ session'[s] = x /\ \A t \in DOMAIN session : t # s => session'[t] = session[t]
  BY SessionAt
<1>2. PoolOK' /\ Pool!Active' = Pool!Active /\ DOMAIN nconn' = DOMAIN nconn
  BY PoolSame
<1>3. UNCHANGED <<m_subr_list, jobs, running, loop, polled>>
  BY DEF callbackUnchanged
<1>4. TypeOK'
  BY <1>1, <1>3 DEF TypeOK
<1>5. Links'
  BY <1>1, LinksKept
<1>6. Conns' /\ UpsTimers' /\ Requests' /\ Queue'
  BY <1>2, <1>3 DEF Conns, UpsTimers, Requests, Queue, UpsEventsSame
<1>7. Wakes' /\ PolledAlive'
  BY <1>1, <1>2, <1>3 DEF Wakes, PolledAlive, DequeueSame
<1> QED
  BY <1>1, <1>2, <1>4, <1>5, <1>6, <1>7

\* What a live session is.
LEMMA LiveSession ==
  ASSUME Inv, NEW s \in DOMAIN session
  PROVE  /\ s \in Session /\ session[s] \in SessionType /\ session[s].m_evr_timeout
         /\ session[s].out => session[s].m_evr_writeable \/ session[s].blocked
         /\ Writeable(s) \in events <=> session[s].m_evr_writeable
         /\ SessTimeout(s) \in events
         /\ Writeable(s) \in EventType /\ events \subseteq EventType
<1>1. s \in Session /\ session[s] \in SessionType /\ events \subseteq EventType
  BY DEF Inv, TypeOK
<1> QED
  BY <1>1 DEF Inv, Clients, EventType, Writeable

\* READ and the idle timer, where the session only notes activity.
LEMMA ActivityStep ==
  ASSUME Inv, NEW s \in DOMAIN session, NEW active \in BOOLEAN,
         session' = [session EXCEPT ![s].m_active = active], events' = events,
         UNCHANGED <<poolVars, subr, nc>>, callbackUnchanged
  PROVE  Inv'
<1> DEFINE x == [session[s] EXCEPT !.m_active = active]
<1>1. /\ s \in Session /\ session[s] \in SessionType /\ session[s].m_evr_timeout
      /\ session[s].out => session[s].m_evr_writeable \/ session[s].blocked
      /\ Writeable(s) \in events <=> session[s].m_evr_writeable
      /\ events \subseteq EventType
  BY LiveSession
<1>2. /\ x \in SessionType /\ x.m_u = session[s].m_u
      /\ x.m_evr_timeout = session[s].m_evr_timeout
      /\ x.m_evr_writeable = session[s].m_evr_writeable
      /\ x.out = session[s].out /\ x.blocked = session[s].blocked
  BY <1>1 DEF SessionType
<1>3. session' = [session EXCEPT ![s] = x]
  OBVIOUS
<1> HIDE DEF x
<1>4. ClientEventsAt(s, x.m_evr_writeable) /\ UpsEventsSame /\ DequeueSame
  BY <1>1, <1>2, NoEvent DEF ClientEventsAt
<1> QED
  BY <1>1, <1>2, <1>3, <1>4, SessionStep

\* READ: the request is answered here.
LEMMA LocalStep ==
  ASSUME Inv, NEW s \in DOMAIN session, ClientLocal(s)
  PROVE  Inv'
<1> DEFINE x == [session[s] EXCEPT !.out = TRUE, !.m_evr_writeable = TRUE, !.m_active = TRUE]
<1>1. /\ s \in Session /\ session[s] \in SessionType /\ session[s].m_evr_timeout
      /\ Writeable(s) \in EventType /\ events \subseteq EventType
  BY LiveSession
<1>2. /\ x \in SessionType /\ x.m_u = session[s].m_u
      /\ x.m_evr_timeout = session[s].m_evr_timeout /\ x.m_evr_writeable = TRUE
  BY <1>1 DEF SessionType
<1>3. session' = [session EXCEPT ![s] = x]
  <2>1. session' = [Output(s) EXCEPT ![s].m_active = TRUE]
    BY DEF ClientLocal
  <2> QED
    BY <1>1, <2>1 DEF Output, SessionType, Inv, TypeOK
<1>4. events' = events \cup {Writeable(s)} /\ UNCHANGED <<poolVars, subr, nc>> /\ callbackUnchanged
  BY DEF ClientLocal
<1> HIDE DEF x
<1>5. ClientEventsAt(s, x.m_evr_writeable) /\ UpsEventsSame /\ DequeueSame
  BY <1>1, <1>2, <1>4, EventsDistinct DEF ClientEventsAt, UpsEventsSame, DequeueSame
<1>6. events' \subseteq EventType
  BY <1>1, <1>4
<1> QED
  BY <1>1, <1>2, <1>3, <1>4, <1>5, <1>6, SessionStep

\* WRITE: its event is gone, and the pointer to it.
LEMMA WrittenSession ==
  ASSUME Inv, NEW s \in DOMAIN session
  PROVE  /\ Written(s) \in SessionType /\ Written(s).m_evr_timeout
         /\ Written(s).m_u = session[s].m_u /\ Written(s).out = session[s].out
         /\ Written(s).m_evr_writeable <=> Writeable(s) \in events \ WriteEvent(s)
         /\ \A t \in Session : SessTimeout(t) \notin WriteEvent(s)
         /\ \A t \in Session : t # s => Writeable(t) \notin WriteEvent(s)
         /\ \A r \in Req, c \in Conn : UpsTimeout(r, c) \notin WriteEvent(s)
         /\ DequeueEvent \notin WriteEvent(s)
<1>1. /\ s \in Session /\ session[s] \in SessionType /\ session[s].m_evr_timeout
      /\ Writeable(s) \in events <=> session[s].m_evr_writeable
  BY LiveSession
<1>2. /\ Written(s) \in SessionType /\ Written(s).m_evr_timeout = session[s].m_evr_timeout
      /\ Written(s).m_u = session[s].m_u /\ Written(s).out = session[s].out
      /\ Written(s).m_evr_writeable <=> session[s].m_evr_writeable /\ loop = "fds"
  BY <1>1 DEF Written, SessionType
<1>3. WriteEvent(s) = IF loop = "fds" THEN {} ELSE {Writeable(s)}
  BY DEF WriteEvent
<1>4. Written(s).m_evr_writeable <=> Writeable(s) \in events \ WriteEvent(s)
  BY <1>1, <1>2, <1>3
<1>5. \A e \in WriteEvent(s) : e = Writeable(s)
  BY <1>3
<1> QED
  BY <1>1, <1>2, <1>4, <1>5, EventsDistinct

\* WRITE, when the session waits for room or for more of the response.
LEMMA WriteStep ==
  ASSUME Inv, NEW s \in DOMAIN session, WriteAgain(s) \/ WritePart(s)
  PROVE  Inv'
<1>1. /\ Written(s) \in SessionType /\ Written(s).m_evr_timeout
      /\ Written(s).m_u = session[s].m_u
      /\ Written(s).m_evr_writeable <=> Writeable(s) \in events \ WriteEvent(s)
      /\ \A t \in Session : SessTimeout(t) \notin WriteEvent(s)
      /\ \A t \in Session : t # s => Writeable(t) \notin WriteEvent(s)
      /\ \A r \in Req, c \in Conn : UpsTimeout(r, c) \notin WriteEvent(s)
      /\ DequeueEvent \notin WriteEvent(s)
  BY WrittenSession
<1>2. /\ events' = events \ WriteEvent(s) /\ UNCHANGED <<poolVars, subr, nc>> /\ callbackUnchanged
      /\ events' \subseteq EventType
  BY DEF WriteAgain, WritePart, Inv, TypeOK
<1>3. PICK x \in {[Written(s) EXCEPT !.blocked = TRUE], [Written(s) EXCEPT !.out = FALSE]} :
        session' = [session EXCEPT ![s] = x]
  BY DEF WriteAgain, WritePart
<1>4. /\ x \in SessionType /\ x.m_evr_timeout = Written(s).m_evr_timeout
      /\ x.m_u = session[s].m_u /\ x.m_evr_writeable = Written(s).m_evr_writeable
      /\ x.out => x.blocked
  BY <1>1, <1>3 DEF SessionType
<1>5. ClientEventsAt(s, x.m_evr_writeable) /\ UpsEventsSame /\ DequeueSame
  BY <1>1, <1>2, <1>4 DEF ClientEventsAt, UpsEventsSame, DequeueSame
<1> QED
  BY <1>1, <1>2, <1>3, <1>4, <1>5, SessionStep

\* A new session.
LEMMA AcceptStep ==
  ASSUME Inv, NEW s \in Session, Accept(s)
  PROVE  Inv'
<1> USE DEF Inv
<1> DEFINE x == [m_u |-> NoReq, out |-> FALSE, m_evr_timeout |-> TRUE,
                 m_evr_writeable |-> FALSE, m_active |-> FALSE, blocked |-> FALSE]
<1>1. /\ s \notin DOMAIN session /\ session' = With(session, s, x)
      /\ events' = events \cup {SessTimeout(s)}
      /\ UNCHANGED <<poolVars, subr, nc, m_subr_list, jobs, running, loop, polled>>
  BY DEF Accept, callbackUnchanged
<1>2. /\ x \in SessionType /\ x.m_u = NoReq /\ x.m_evr_timeout = TRUE
      /\ x.m_evr_writeable = FALSE /\ x.out = FALSE
  BY DEF SessionType
<1> HIDE DEF x
<1>3. /\ DOMAIN session' = DOMAIN session \cup {s} /\ session'[s] = x
      /\ \A t \in DOMAIN session : session'[t] = session[t]
      /\ session' \in [DOMAIN session' -> SessionType]
  BY <1>1, <1>2 DEF With, TypeOK
<1>4. /\ SessTimeout(s) \in events' /\ UpsEventsSame /\ DequeueSame
      /\ \A t \in Session : /\ Writeable(t) \in events' <=> Writeable(t) \in events
                            /\ t # s => (SessTimeout(t) \in events' <=> SessTimeout(t) \in events)
  BY <1>1, EventsDistinct DEF UpsEventsSame, DequeueSame
<1>5. TypeOK'
  <2>1. events' \subseteq EventType
    BY <1>1 DEF TypeOK, EventType, SessTimeout
  <2> QED
    BY <1>1, <1>3, <2>1 DEF TypeOK
<1>6. PoolOK' /\ Pool!Active' = Pool!Active /\ DOMAIN nconn' = DOMAIN nconn
  BY <1>1, PoolSame
<1>7. Clients'
  <2>1. ASSUME NEW t \in Session
        PROVE  /\ SessTimeout(t) \in events' <=> t \in DOMAIN session'
               /\ Writeable(t) \in events' <=> t \in DOMAIN session' /\ session'[t].m_evr_writeable
               /\ t \in DOMAIN session' =>
                    /\ session'[t].m_evr_timeout
                    /\ session'[t].out => session'[t].m_evr_writeable \/ session'[t].blocked
    <3>1. CASE t = s
      BY <1>1, <1>2, <1>3, <1>4, <3>1 DEF Clients
    <3>2. CASE t # s
      BY <1>3, <1>4, <3>2 DEF Clients
    <3> QED
      BY <3>1, <3>2
  <2> QED
    BY <2>1 DEF Clients
<1>8. Links'
  BY <1>1, <1>2, <1>3 DEF Links
<1>9. Conns' /\ UpsTimers' /\ Requests' /\ Queue'
  BY <1>1, <1>4, <1>6 DEF Conns, UpsTimers, Requests, Queue, UpsEventsSame
<1>10. Wakes' /\ PolledAlive'
  BY <1>1, <1>3, <1>4, <1>6 DEF Wakes, PolledAlive, DequeueSame
<1> QED
  BY <1>5, <1>6, <1>7, <1>8, <1>9, <1>10

\* do_default(): a request is made and queued.
LEMMA ProxyStep ==
  ASSUME Inv, NEW s \in DOMAIN session, NEW r \in Req, NEW l \in Label, do_default(s, r, l)
  PROVE  Inv'
<1> USE DEF Inv
<1> DEFINE v == [NewSubr(s, l) EXCEPT !.m_state = "QUEUED"]
           x == [session[s] EXCEPT !.m_u = r, !.m_active = TRUE]
<1>1. /\ r \notin DOMAIN subr /\ session[s].m_u = NoReq
      /\ subr' = With(subr, r, v) /\ session' = [session EXCEPT ![s] = x]
      /\ m_subr_list' = Append(m_subr_list, r) /\ events' = events \cup {DequeueEvent}
      /\ UNCHANGED <<poolVars, nc, jobs, running, loop, polled>> /\ running = "none"
  BY DEF do_default, Answered, subr_enqueue, OnClientFd
<1>2. /\ s \in Session /\ session[s] \in SessionType /\ session[s].m_evr_timeout
      /\ session[s].out => session[s].m_evr_writeable \/ session[s].blocked
      /\ Writeable(s) \in events <=> session[s].m_evr_writeable
  BY LiveSession
<1>3. /\ v \in SubrType /\ v.m_session = s /\ v.m_state = "QUEUED" /\ v.u = "IDLE"
      /\ v.m_nconn = NoConn /\ v.m_evr_timeout = FALSE
  BY <1>2 DEF NewSubr, SubrType
<1>4. /\ x \in SessionType /\ x.m_u = r /\ x.m_evr_timeout = session[s].m_evr_timeout
      /\ x.m_evr_writeable = session[s].m_evr_writeable
      /\ x.out = session[s].out /\ x.blocked = session[s].blocked
  BY <1>2 DEF SessionType
<1> HIDE DEF v, x
<1>5. /\ DOMAIN subr' = DOMAIN subr \cup {r} /\ subr'[r] = v
      /\ \A q \in DOMAIN subr : subr'[q] = subr[q] /\ q # r
      /\ subr' \in [DOMAIN subr' -> SubrType] /\ DOMAIN subr' \subseteq Req
  BY <1>1, <1>3 DEF With, TypeOK
<1>6. ClientEventsSame /\ UpsEventsSame /\ DequeueEvent \in events'
  BY <1>1, WakeEvent
<1>7. ClientEventsAt(s, x.m_evr_writeable)
  BY <1>2, <1>4, <1>6 DEF ClientEventsAt, ClientEventsSame
<1>8. /\ Clients' /\ DOMAIN session' = DOMAIN session
      /\ session' \in [DOMAIN session -> SessionType]
      /\ session'[s] = x /\ \A t \in DOMAIN session : t # s => session'[t] = session[t]
  BY <1>1, <1>2, <1>4, <1>7, SessionAt
<1>9. ~Occurs(m_subr_list, r)
  BY <1>1 DEF Queue
<1>10. /\ m_subr_list' \in Seq(Req \cup {NoReq}) /\ Once(m_subr_list')
       /\ \A q \in Req : Occurs(m_subr_list', q) <=> Occurs(m_subr_list, q) \/ q = r
  BY <1>1, <1>9, AppendOccurs DEF TypeOK, Queue
<1>11. TypeOK'
  <2>1. events' \subseteq EventType
    BY <1>1 DEF TypeOK, EventType, DequeueEvent
  <2> QED
    BY <1>1, <1>5, <1>8, <1>10, <2>1 DEF TypeOK
<1>12. PoolOK' /\ Pool!Active' = Pool!Active /\ DOMAIN nconn' = DOMAIN nconn
  BY <1>1, PoolSame
<1>13. Links'
  <2>1. ASSUME NEW q \in DOMAIN subr'
        PROVE  /\ subr'[q].m_session \in DOMAIN session'
               /\ session'[subr'[q].m_session].m_u = q
    <3>1. CASE q = r
      BY <1>3, <1>4, <1>5, <1>8, <3>1
    <3>2. CASE q # r
      <4>1. q \in DOMAIN subr /\ q # NoReq
        BY <1>5, <3>2, ProxyAssumption
      <4>2. subr[q].m_session \in DOMAIN session /\ subr[q].m_session # s
        BY <1>1, <4>1 DEF Links
      <4> QED
        BY <1>5, <1>8, <4>1, <4>2 DEF Links
    <3> QED
      BY <3>1, <3>2
  <2>2. ASSUME NEW t \in DOMAIN session', session'[t].m_u # NoReq
        PROVE  /\ session'[t].m_u \in DOMAIN subr'
               /\ subr'[session'[t].m_u].m_session = t
    <3>1. CASE t = s
      BY <1>3, <1>4, <1>5, <1>8, <3>1
    <3>2. CASE t # s
      BY <1>5, <1>8, <2>2, <3>2 DEF Links
    <3> QED
      BY <3>1, <3>2
  <2> QED
    BY <2>1, <2>2 DEF Links
<1>14. Conns'
  BY <1>1, <1>3, <1>5, <1>12, ProxyAssumption DEF Conns
<1>15. UpsTimers'
  <2>1. \A c \in Conn : UpsTimeout(r, c) \notin events'
    BY <1>1, <1>6 DEF UpsTimers, UpsEventsSame
  <2> QED
    BY <1>3, <1>5, <1>6, <2>1 DEF UpsTimers, UpsEventsSame
<1>16. Requests'
  BY <1>1, <1>3, <1>5, ProxyAssumption DEF Requests
<1>17. Queue'
  BY <1>1, <1>3, <1>5, <1>10 DEF Queue
<1>18. Wakes' /\ PolledAlive'
  BY <1>1, <1>6, <1>8, <1>12 DEF Wakes, PolledAlive
<1> QED
  BY <1>8, <1>11, <1>12, <1>13, <1>14, <1>15, <1>16, <1>17, <1>18

\* The connections that go with the request of a session.
ConnsOf(s) == {subr[r].m_nconn : r \in Deleted(s)} \ {NoConn}

\* A session's request is its own, and has its connection for itself.
LEMMA DeletedFacts ==
  ASSUME Inv, Pool!IdsFit, NEW s \in DOMAIN session
  PROVE  /\ Deleted(s) \subseteq DOMAIN subr /\ ConnsOf(s) \subseteq DOMAIN nconn \ closed
         /\ ConnsOf(s) \subseteq Conn
         /\ \A q \in DOMAIN subr : q \in Deleted(s) <=> subr[q].m_session = s
         /\ \A q \in DOMAIN subr \ Deleted(s) : subr[q].m_nconn \notin ConnsOf(s)
         /\ \A q \in Deleted(s) : subr[q].m_nconn # NoConn => subr[q].m_nconn \in ConnsOf(s)
         /\ \A c, d \in ConnsOf(s) : c = d
<1>1. Deleted(s) \subseteq DOMAIN subr
  BY DEF Deleted, Inv, Links
<1>2. \A q \in DOMAIN subr : q \in Deleted(s) <=> subr[q].m_session = s
  <2>1. NoReq \notin DOMAIN subr
    BY ProxyAssumption DEF Inv, TypeOK
  <2> QED
    BY <2>1 DEF Deleted, Inv, Links
<1>3. ASSUME NEW q \in Deleted(s), subr[q].m_nconn # NoConn
      PROVE  /\ subr[q].m_nconn \in DOMAIN nconn \ closed /\ subr[q].m_nconn \in Conn
             /\ nc[subr[q].m_nconn].m_data = q
  <2>1. /\ subr[q].m_nconn \in Conn /\ nc[subr[q].m_nconn].m_data = q /\ q # NoReq
    BY <1>1, <1>3, Serves
  <2> QED
    BY <2>1, Served
<1>4. ASSUME NEW q \in DOMAIN subr \ Deleted(s)
      PROVE  subr[q].m_nconn \notin ConnsOf(s)
  <2>1. ASSUME NEW p \in Deleted(s), subr[p].m_nconn # NoConn, subr[q].m_nconn = subr[p].m_nconn
        PROVE  FALSE
    BY <1>3, <2>1, Serves
  <2> QED
    BY <2>1 DEF ConnsOf
<1>5. \A c, d \in ConnsOf(s) : c = d
  BY DEF ConnsOf, Deleted
<1>6. \A q \in Deleted(s) : subr[q].m_nconn # NoConn => subr[q].m_nconn \in ConnsOf(s)
  BY DEF ConnsOf
<1>7. ConnsOf(s) \subseteq DOMAIN nconn \ closed /\ ConnsOf(s) \subseteq Conn
  BY <1>3 DEF ConnsOf
<1> QED
  BY <1>1, <1>2, <1>4, <1>5, <1>6, <1>7

\* The pool, when a request is deleted with its connection.
LEMMA ReleaseConnPool ==
  ASSUME Inv, Pool!IdsFit, NEW s \in DOMAIN session, ReleaseConn(s)
  PROVE  /\ PoolOK' /\ [Pool!Next]_poolVars
         /\ Pool!Active' = Pool!Active \ ConnsOf(s)
         /\ DOMAIN nconn' = DOMAIN nconn
         /\ nc' \in [Conn -> NcType]
         /\ \A c \in Conn : nc'[c] = IF c \in ConnsOf(s) THEN NewConn ELSE nc[c]
<1> DEFINE conns == ConnsOf(s)
<1>1. /\ IF conns = {} THEN UNCHANGED poolVars ELSE \E c \in conns : Pool!release(c)
      /\ nc' = [c \in Conn |-> IF c \in conns THEN NewConn ELSE nc[c]]
  BY DEF ReleaseConn, ConnsOf
<1>2. conns \subseteq DOMAIN nconn \ closed /\ \A c, d \in conns : c = d
  BY DeletedFacts
<1> HIDE DEF conns
<1>3. nc' \in [Conn -> NcType]
  BY <1>1 DEF Inv, TypeOK, NcType, NewConn
<1>4. CASE conns = {}
  BY <1>1, <1>3, <1>4, PoolSame DEF Inv, conns
<1>5. CASE conns # {}
  <2>1. PICK c \in conns : Pool!release(c)
    BY <1>1, <1>5
  <2>2. /\ PoolOK' /\ Pool!Next /\ Pool!Active' = Pool!Active \ {c}
        /\ DOMAIN nconn' = DOMAIN nconn
    BY <1>2, <2>1, PoolRelease DEF Inv
  <2>3. conns = {c}
    BY <1>2, <2>1
  <2> QED
    BY <1>1, <1>3, <2>2, <2>3 DEF conns
<1> QED
  BY <1>4, <1>5

\* The request of a session goes, with its timer and its connection.
LEMMA RemoveRequest ==
  ASSUME Inv, Pool!IdsFit, NEW s \in DOMAIN session, ReleaseConn(s),
         subr' = Without(subr, Deleted(s)), running' = "none",
         \A r \in Req, c \in Conn : UpsTimeout(r, c) \in events' <=>
           UpsTimeout(r, c) \in events /\ r \notin Deleted(s)
  PROVE  /\ PoolOK' /\ DOMAIN nconn' = DOMAIN nconn /\ nc' \in [Conn -> NcType]
         /\ DOMAIN subr' = DOMAIN subr \ Deleted(s)
         /\ subr' \in [DOMAIN subr' -> SubrType]
         /\ \A q \in DOMAIN subr' : subr'[q] = subr[q]
         /\ Conns' /\ UpsTimers' /\ Requests'
<1> USE DEF Inv
<1>1. /\ PoolOK' /\ Pool!Active' = Pool!Active \ ConnsOf(s) /\ DOMAIN nconn' = DOMAIN nconn
      /\ nc' \in [Conn -> NcType]
      /\ \A c \in Conn : nc'[c] = IF c \in ConnsOf(s) THEN NewConn ELSE nc[c]
  BY ReleaseConnPool
<1>2. /\ ConnsOf(s) \subseteq Conn
      /\ \A q \in DOMAIN subr \ Deleted(s) : subr[q].m_nconn \notin ConnsOf(s)
      /\ \A q \in Deleted(s) : subr[q].m_nconn # NoConn => subr[q].m_nconn \in ConnsOf(s)
      /\ Deleted(s) \subseteq DOMAIN subr
  BY DeletedFacts
<1>3. /\ DOMAIN subr' = DOMAIN subr \ Deleted(s)
      /\ subr' \in [DOMAIN subr' -> SubrType]
      /\ \A q \in DOMAIN subr' : subr'[q] = subr[q]
  BY DEF Without, TypeOK
<1>4. NewConn.m_data = NoReq
  BY DEF NewConn
<1>5. Conns'
  <2>1. \A d \in Conn : d \in Pool!Active' <=> nc'[d].m_data # NoReq
    BY <1>1, <1>4 DEF Conns
  <2>2. ASSUME NEW d \in Conn, NEW q \in Req
        PROVE  nc'[d].m_data = q <=> q \in DOMAIN subr' /\ subr'[q].m_nconn = d
    <3>1. CASE d \in ConnsOf(s)
      BY <1>1, <1>2, <1>3, <1>4, <3>1, ProxyAssumption
    <3>2. CASE d \notin ConnsOf(s)
      <4>1. nc'[d] = nc[d] /\ d # NoConn
        BY <1>1, <3>2, ProxyAssumption
      <4>2. q \in Deleted(s) => subr[q].m_nconn # d
        BY <1>2, <3>2, <4>1
      <4> QED
        BY <1>3, <4>1, <4>2 DEF Conns
    <3> QED
      BY <3>1, <3>2
  <2> QED
    BY <2>1, <2>2 DEF Conns
<1>6. UpsTimers'
  BY <1>3 DEF UpsTimers
<1>7. Requests'
  <2>1. ASSUME NEW q \in DOMAIN subr', subr[q].m_nconn # NoConn
        PROVE  nc'[subr[q].m_nconn] = nc[subr[q].m_nconn]
    <3>1. subr[q].m_nconn \in Conn
      BY <1>3, <2>1 DEF TypeOK, SubrType
    <3> QED
      BY <1>1, <1>2, <1>3, <3>1
  <2>2. running' \notin Req
    BY ProxyAssumption
  <2>3. ASSUME NEW q \in DOMAIN subr'
        PROVE  /\ subr'[q].m_state \in {"QUEUED", "DNS_LOOKUP"} => subr'[q].m_nconn = NoConn
               /\ subr'[q].u = "DONE" => subr'[q].m_state = "NONE"
               /\ subr'[q].m_state = "ACTIVE" =>
                    /\ subr'[q].m_nconn # NoConn /\ subr'[q].m_evr_timeout
                    /\ nc'[subr'[q].m_nconn].m_nc_state # "FREE"
               /\ running' # q
    <3>1. q \in DOMAIN subr /\ subr'[q] = subr[q] /\ q \in Req
      BY <1>3 DEF TypeOK
    <3>2. subr[q].m_state = "ACTIVE" =>
            /\ subr[q].m_nconn # NoConn /\ subr[q].m_evr_timeout
            /\ nc'[subr[q].m_nconn].m_nc_state # "FREE"
      BY <2>1, <3>1 DEF Requests
    <3>3. /\ subr[q].m_state \in {"QUEUED", "DNS_LOOKUP"} => subr[q].m_nconn = NoConn
          /\ subr[q].u = "DONE" => subr[q].m_state = "NONE"
      BY <3>1 DEF Requests
    <3> QED
      BY <2>2, <3>1, <3>2, <3>3
  <2> QED
    BY <2>3 DEF Requests
<1> QED
  BY <1>1, <1>3, <1>5, <1>6, <1>7

\* The timers that go with it are its own.
LEMMA UpsTimersGone ==
  ASSUME Inv, Pool!IdsFit, NEW s \in DOMAIN session
  PROVE  /\ \A r \in Req, c \in Conn : UpsTimeout(r, c) \in events =>
              (UpsTimeout(r, c) \in UpsTimersOf(s) <=> r \in Deleted(s))
         /\ \A t \in Session : SessTimeout(t) \notin UpsTimersOf(s)
         /\ \A t \in Session : Writeable(t) \notin UpsTimersOf(s)
         /\ DequeueEvent \notin UpsTimersOf(s)
<1>1. Deleted(s) \subseteq DOMAIN subr
  BY DeletedFacts
<1>2. \A e : e \in UpsTimersOf(s) <=> \E r \in Deleted(s) : e \in cancel_evr_timer(r)
  BY DEF UpsTimersOf
<1>3. ASSUME NEW q \in Deleted(s)
      PROVE  /\ \A r \in Req, c \in Conn :
                  UpsTimeout(r, c) \in events \ cancel_evr_timer(q) <=>
                    UpsTimeout(r, c) \in events /\ r # q
             /\ \A t \in Session : SessTimeout(t) \notin cancel_evr_timer(q)
             /\ \A t \in Session : Writeable(t) \notin cancel_evr_timer(q)
             /\ DequeueEvent \notin cancel_evr_timer(q)
  BY <1>1, CancelEvent DEF Inv
<1> QED
  BY <1>2, <1>3

\* A slot whose subr is cancelled is left empty.
Slots(list, Q) == [i \in DOMAIN list |-> IF list[i] \in Q THEN NoReq ELSE list[i]]

\* The other ones stay where they are.
LEMMA CancelSlots ==
  ASSUME NEW list \in Seq(Req \cup {NoReq}), Once(list), NEW Q \in SUBSET Req
  PROVE  /\ Slots(list, Q) \in Seq(Req \cup {NoReq}) /\ Once(Slots(list, Q))
         /\ \A q \in Req : Occurs(Slots(list, Q), q) <=> Occurs(list, q) /\ q \notin Q
         /\ list = << >> => Slots(list, Q) = << >>
<1> DEFINE slots == Slots(list, Q)
<1>1. /\ DOMAIN list = 1 .. Len(list) /\ Len(list) \in Nat
      /\ \A i \in DOMAIN list : list[i] \in Req \cup {NoReq}
  OBVIOUS
<1>2. /\ DOMAIN slots = DOMAIN list
      /\ \A i \in DOMAIN list : slots[i] = IF list[i] \in Q THEN NoReq ELSE list[i]
  BY DEF Slots
<1> HIDE DEF slots
<1>3. slots \in [1 .. Len(list) -> Req \cup {NoReq}]
  BY <1>1 DEF slots, Slots
<1>4. slots \in Seq(Req \cup {NoReq})
  BY <1>1, <1>3, SeqDef
<1>5. Once(slots)
  BY <1>2 DEF Once
<1>6. \A q \in Req : Occurs(slots, q) <=> Occurs(list, q) /\ q \notin Q
  BY <1>2, ProxyAssumption DEF Occurs
<1>7. list = << >> => slots = << >>
  <2>1. list = << >> => Len(slots) = 0
    BY <1>1, <1>2, <1>4
  <2> QED
    BY <1>4, <2>1, EmptySeq
<1> QED
  BY <1>4, <1>5, <1>6, <1>7 DEF slots

\* cancel(): the request of the session leaves the list and the jobs.
LEMMA CancelQueue ==
  ASSUME Inv, Pool!IdsFit, NEW s \in DOMAIN session, cancel(s),
         subr' = Without(subr, Deleted(s))
  PROVE  /\ m_subr_list' \in Seq(Req \cup {NoReq}) /\ jobs' \subseteq jobs
         /\ m_subr_list = << >> => m_subr_list' = << >>
         /\ Queue'
<1> USE DEF Inv
<1> DEFINE Q == {r \in {x \in Deleted(s) : subr[x].u # "DONE"} : subr[r].m_state = "QUEUED"}
<1>1. /\ m_subr_list' = Slots(m_subr_list, Q)
      /\ jobs' = jobs \ {r \in {x \in Deleted(s) : subr[x].u # "DONE"} :
                           subr[r].m_state = "DNS_LOOKUP" /\ subr[r].lookup}
  BY DEF cancel, Slots
<1>2. Deleted(s) \subseteq DOMAIN subr /\ DOMAIN subr \subseteq Req
  BY DeletedFacts DEF TypeOK
<1>3. \A q \in DOMAIN subr : q \in Deleted(s) =>
        (subr[q].m_state \in {"QUEUED", "DNS_LOOKUP"} => subr[q].u # "DONE")
  BY DEF Requests
<1>4. Q \in SUBSET Req /\ \A q \in DOMAIN subr : q \in Q <=> q \in Deleted(s) /\ subr[q].m_state = "QUEUED"
  BY <1>2, <1>3
<1> HIDE DEF Q
<1>5. /\ m_subr_list' \in Seq(Req \cup {NoReq}) /\ Once(m_subr_list')
      /\ \A q \in Req : Occurs(m_subr_list', q) <=> Occurs(m_subr_list, q) /\ q \notin Q
      /\ m_subr_list = << >> => m_subr_list' = << >>
  <2>1. m_subr_list \in Seq(Req \cup {NoReq}) /\ Once(m_subr_list)
    BY DEF TypeOK, Queue
  <2> HIDE DEF Inv
  <2> QED
    BY <1>1, <1>4, <2>1, CancelSlots
<1>6. /\ DOMAIN subr' = DOMAIN subr \ Deleted(s)
      /\ \A q \in DOMAIN subr' : subr'[q] = subr[q]
  BY DEF Without
<1>7. \A q \in Req :
        Occurs(m_subr_list', q) <=> q \in DOMAIN subr' /\ subr'[q].m_state = "QUEUED"
  BY <1>4, <1>5, <1>6 DEF Queue
<1>8. \A q \in jobs' : q \in DOMAIN subr' /\ subr'[q].m_state = "DNS_LOOKUP" /\ subr'[q].lookup
  <2>1. ASSUME NEW q \in jobs' PROVE q \notin Deleted(s) /\ q \in jobs
    <3>1. q \in jobs /\ q \in DOMAIN subr /\ subr[q].m_state = "DNS_LOOKUP" /\ subr[q].lookup
      BY <1>1 DEF Queue
    <3> QED
      BY <1>1, <1>3, <3>1
  <2> QED
    BY <1>6, <2>1 DEF Queue
<1> QED
  BY <1>1, <1>5, <1>7, <1>8 DEF Queue

\* teardown() and ~session(): the session goes, and all that was its own.
LEMMA DeleteStep ==
  ASSUME Inv, Pool!IdsFit, NEW s \in DOMAIN session, running = "none", DeleteSession(s)
  PROVE  Inv'
<1> USE DEF Inv
<1>1. /\ cancel(s) /\ ReleaseConn(s) /\ subr' = Without(subr, Deleted(s))
      /\ events' = (events \ cancel_events(s)) \ UpsTimersOf(s)
      /\ session' = Without(session, {s}) /\ polled' = polled \ {s}
      /\ running' = "none" /\ loop' = loop
  BY DEF DeleteSession
<1>2. s \in Session /\ session[s].m_evr_timeout
  BY LiveSession
<1>3. cancel_events(s) = {SessTimeout(s), Writeable(s)}
  BY <1>2 DEF cancel_events
<1>4. /\ \A r \in Req, c \in Conn : UpsTimeout(r, c) \in events' <=>
           UpsTimeout(r, c) \in events /\ r \notin Deleted(s)
      /\ \A t \in Session : SessTimeout(t) \in events' <=> SessTimeout(t) \in events /\ t # s
      /\ \A t \in Session : Writeable(t) \in events' <=> Writeable(t) \in events /\ t # s
      /\ DequeueSame
  <2>1. /\ \A r \in Req, c \in Conn : UpsTimeout(r, c) \in events =>
              (UpsTimeout(r, c) \in UpsTimersOf(s) <=> r \in Deleted(s))
        /\ \A t \in Session : SessTimeout(t) \notin UpsTimersOf(s)
        /\ \A t \in Session : Writeable(t) \notin UpsTimersOf(s)
        /\ DequeueEvent \notin UpsTimersOf(s)
    BY UpsTimersGone
  <2>2. /\ \A r \in Req, c \in Conn : UpsTimeout(r, c) \notin cancel_events(s)
        /\ \A t \in Session : SessTimeout(t) \in cancel_events(s) <=> t = s
        /\ \A t \in Session : Writeable(t) \in cancel_events(s) <=> t = s
        /\ DequeueEvent \notin cancel_events(s)
    BY <1>3, EventsDistinct
  <2> QED
    BY <1>1, <2>1, <2>2 DEF DequeueSame
<1>5. /\ PoolOK' /\ DOMAIN nconn' = DOMAIN nconn /\ nc' \in [Conn -> NcType]
      /\ DOMAIN subr' = DOMAIN subr \ Deleted(s)
      /\ subr' \in [DOMAIN subr' -> SubrType]
      /\ \A q \in DOMAIN subr' : subr'[q] = subr[q]
      /\ Conns' /\ UpsTimers' /\ Requests'
  BY <1>1, <1>4, RemoveRequest
<1>6. /\ m_subr_list' \in Seq(Req \cup {NoReq}) /\ jobs' \subseteq jobs
      /\ m_subr_list = << >> => m_subr_list' = << >>
      /\ Queue'
  BY <1>1, CancelQueue
<1>7. /\ DOMAIN session' = DOMAIN session \ {s}
      /\ session' \in [DOMAIN session' -> SessionType]
      /\ \A t \in DOMAIN session' : session'[t] = session[t]
  BY <1>1 DEF Without, TypeOK
<1>8. TypeOK'
  <2>1. events' \subseteq EventType
    BY <1>1 DEF TypeOK
  <2> QED
    BY <1>1, <1>5, <1>6, <1>7, <2>1 DEF TypeOK, NcType
<1>9. Clients'
  BY <1>4, <1>7 DEF Clients
<1>10. Links'
  <2>1. \A q \in DOMAIN subr : q \in Deleted(s) <=> subr[q].m_session = s
    BY DeletedFacts
  <2>2. \A q \in DOMAIN subr' : /\ subr'[q].m_session \in DOMAIN session'
                                /\ session'[subr'[q].m_session].m_u = q
    BY <1>5, <1>7, <2>1 DEF Links
  <2>3. ASSUME NEW t \in DOMAIN session', session'[t].m_u # NoReq
        PROVE  session'[t].m_u \in DOMAIN subr' /\ subr'[session'[t].m_u].m_session = t
    <3>1. t \in DOMAIN session /\ t # s /\ session'[t].m_u = session[t].m_u
      BY <1>7
    <3>2. session[t].m_u \in DOMAIN subr /\ subr[session[t].m_u].m_session = t
      BY <2>3, <3>1 DEF Links
    <3> QED
      BY <1>5, <2>1, <3>1, <3>2
  <2> QED
    BY <2>2, <2>3 DEF Links
<1>11. Wakes' /\ PolledAlive'
  BY <1>1, <1>4, <1>5, <1>6, <1>7 DEF Wakes, PolledAlive, DequeueSame
<1> QED
  BY <1>5, <1>6, <1>8, <1>9, <1>10, <1>11

\* WRITE, when the request is done and the client is kept.
LEMMA KeepStep ==
  ASSUME Inv, Pool!IdsFit, NEW s \in DOMAIN session, running = "none", WriteDoneKeep(s)
  PROVE  Inv'
<1> USE DEF Inv
<1> DEFINE x == [Written(s) EXCEPT !.out = FALSE, !.m_u = NoReq, !.blocked = FALSE]
<1>1. /\ ReleaseConn(s) /\ subr' = Without(subr, Deleted(s)) /\ UpsDone(s)
      /\ session' = [session EXCEPT ![s] = x]
      /\ events' = (events \ WriteEvent(s)) \ UpsTimersOf(s)
      /\ UNCHANGED <<m_subr_list, jobs, loop, polled>> /\ running' = "none"
  BY DEF WriteDoneKeep, callbackUnchanged
<1>2. /\ Written(s) \in SessionType /\ Written(s).m_evr_timeout
      /\ Written(s).m_evr_writeable <=> Writeable(s) \in events \ WriteEvent(s)
      /\ \A t \in Session : SessTimeout(t) \notin WriteEvent(s)
      /\ \A t \in Session : t # s => Writeable(t) \notin WriteEvent(s)
      /\ \A r \in Req, c \in Conn : UpsTimeout(r, c) \notin WriteEvent(s)
      /\ DequeueEvent \notin WriteEvent(s)
  BY WrittenSession
<1>3. /\ x \in SessionType /\ x.m_evr_timeout = Written(s).m_evr_timeout
      /\ x.m_evr_writeable = Written(s).m_evr_writeable
      /\ x.m_u = NoReq /\ x.out = FALSE
  BY <1>2 DEF SessionType
<1> HIDE DEF x
<1>4. /\ \A r \in Req, c \in Conn : UpsTimeout(r, c) \in events =>
            (UpsTimeout(r, c) \in UpsTimersOf(s) <=> r \in Deleted(s))
      /\ \A t \in Session : SessTimeout(t) \notin UpsTimersOf(s)
      /\ \A t \in Session : Writeable(t) \notin UpsTimersOf(s)
      /\ DequeueEvent \notin UpsTimersOf(s)
  BY UpsTimersGone
<1>5. ClientEventsAt(s, x.m_evr_writeable)
  <2>1. s \in Session
    BY LiveSession
  <2> QED
    BY <1>1, <1>2, <1>3, <1>4, <2>1 DEF ClientEventsAt
<1>6. DequeueSame /\ \A r \in Req, c \in Conn : UpsTimeout(r, c) \in events' <=>
        UpsTimeout(r, c) \in events /\ r \notin Deleted(s)
  BY <1>1, <1>2, <1>4 DEF DequeueSame
<1>7. /\ PoolOK' /\ DOMAIN nconn' = DOMAIN nconn /\ nc' \in [Conn -> NcType]
      /\ DOMAIN subr' = DOMAIN subr \ Deleted(s)
      /\ subr' \in [DOMAIN subr' -> SubrType]
      /\ \A q \in DOMAIN subr' : subr'[q] = subr[q]
      /\ Conns' /\ UpsTimers' /\ Requests'
  BY <1>1, <1>6, RemoveRequest
<1>8. /\ Clients' /\ DOMAIN session' = DOMAIN session
      /\ session' \in [DOMAIN session -> SessionType]
      /\ session'[s] = x /\ \A t \in DOMAIN session : t # s => session'[t] = session[t]
  BY <1>1, <1>2, <1>3, <1>5, SessionAt
<1>9. TypeOK'
  <2>1. events' \subseteq EventType
    BY <1>1 DEF TypeOK
  <2> QED
    BY <1>1, <1>7, <1>8, <2>1 DEF TypeOK, NcType
<1>10. Links'
  <2>1. \A q \in DOMAIN subr : q \in Deleted(s) <=> subr[q].m_session = s
    BY DeletedFacts
  <2>2. \A q \in DOMAIN subr' : /\ subr'[q].m_session \in DOMAIN session'
                                /\ session'[subr'[q].m_session].m_u = q
    BY <1>7, <1>8, <2>1 DEF Links
  <2>3. ASSUME NEW t \in DOMAIN session', session'[t].m_u # NoReq
        PROVE  session'[t].m_u \in DOMAIN subr' /\ subr'[session'[t].m_u].m_session = t
    <3>1. t \in DOMAIN session /\ t # s /\ session'[t].m_u = session[t].m_u
      BY <1>3, <1>8, <2>3
    <3>2. session[t].m_u \in DOMAIN subr /\ subr[session[t].m_u].m_session = t
      BY <2>3, <3>1 DEF Links
    <3> QED
      BY <1>7, <2>1, <3>1, <3>2
  <2> QED
    BY <2>2, <2>3 DEF Links
<1>11. Queue'
  <2>1. \A q \in DOMAIN subr : q \in Deleted(s) => subr[q].m_state = "NONE"
    BY <1>1 DEF UpsDone, Requests
  <2> QED
    BY <1>1, <1>7, <2>1 DEF Queue
<1>12. Wakes' /\ PolledAlive'
  BY <1>1, <1>6, <1>7, <1>8 DEF Wakes, PolledAlive, DequeueSame
<1> QED
  BY <1>7, <1>8, <1>9, <1>10, <1>11, <1>12

-----------------------------------------------------------------------------
(* Every step keeps the invariant *)

\* A callback of a client session that ends it, keeps it or changes it.
LEMMA ClientStep ==
  ASSUME Inv, Pool!IdsFit, NEW s \in Session,
         Accept(s) \/ ClientRead(s) \/ ClientWrite(s) \/ SessionTimedOut(s)
  PROVE  Inv'
<1>1. CASE Accept(s)
  BY <1>1, AcceptStep
<1>2. CASE ClientRead(s)
  <2>1. s \in DOMAIN session /\ running = "none"
    BY <1>2 DEF ClientRead, ClientGone, ClientActivity, ClientLocal, do_default, OnClientFd
  <2>2. CASE ClientGone(s)
    BY <2>1, <2>2, DeleteStep DEF ClientGone
  <2>3. CASE ClientActivity(s)
    BY <2>1, <2>3, ActivityStep DEF ClientActivity
  <2>4. CASE ClientLocal(s)
    BY <2>1, <2>4, LocalStep
  <2>5. ASSUME NEW r \in Req, NEW l \in Label, do_default(s, r, l)
        PROVE  Inv'
    BY <2>1, <2>5, ProxyStep
  <2> QED
    BY <1>2, <2>2, <2>3, <2>4, <2>5 DEF ClientRead
<1>3. CASE ClientWrite(s)
  <2>1. OnWrite(s)
    BY <1>3 DEF ClientWrite, WriteAgain, WriteFails, WritePart, WriteDoneKeep, WriteDoneClose
  <2>2. s \in DOMAIN session /\ running = "none"
    BY <2>1 DEF OnWrite, OnClientFd
  <2>3. CASE WriteAgain(s) \/ WritePart(s)
    BY <2>2, <2>3, WriteStep
  <2>4. CASE WriteFails(s) \/ WriteDoneClose(s)
    BY <2>2, <2>4, DeleteStep DEF WriteFails, WriteDoneClose
  <2>5. CASE WriteDoneKeep(s)
    BY <2>2, <2>5, KeepStep
  <2> QED
    BY <1>3, <2>3, <2>4, <2>5 DEF ClientWrite
<1>4. CASE SessionTimedOut(s)
  <2>1. /\ s \in DOMAIN session /\ running = "none" /\ SessTimeout(s) \in events
        /\ \/ DeleteSession(s)
           \/ /\ session' = [session EXCEPT ![s].m_active = FALSE]
              /\ events' = (events \ {SessTimeout(s)}) \cup {SessTimeout(s)}
              /\ UNCHANGED <<poolVars, subr, nc>> /\ callbackUnchanged
    BY <1>4 DEF SessionTimedOut, SessionRearm
  <2>2. CASE DeleteSession(s)
    BY <2>1, <2>2, DeleteStep
  <2>3. CASE ~DeleteSession(s)
    <3>1. events' = events
      BY <2>1, <2>3
    <3> QED
      BY <2>1, <2>3, <3>1, ActivityStep
  <2> QED
    BY <2>2, <2>3
<1> QED
  BY <1>1, <1>2, <1>3, <1>4

\* Every step of the thread keeps the invariant, while the ids fit.
LEMMA NextStep ==
  ASSUME Inv, Pool!IdsFit, [Next]_vars
  PROVE  Inv'
<1>1. CASE RunDequeue \/ DequeueEnd \/ DequeueNull \/ Wait \/ WaitNothing \/ EndRound
  BY <1>1, LoopSteps
<1>2. ASSUME NEW r \in DOMAIN subr, StartOnIdle(r) \/ StartOnNew(r)
      PROVE  Inv'
  BY <1>2, AttachStep
<1>3. ASSUME NEW r \in DOMAIN subr,
             StartAgain(r) \/ StartLookup(r) \/ (\E told \in BOOLEAN : StartLookupFails(r, told))
      PROVE  Inv'
  BY <1>3, TurnStep
<1>4. ASSUME NEW r \in DOMAIN subr, NEW error \in BOOLEAN, StartTeardown(r, error)
      PROVE  Inv'
  BY <1>4, StartTeardownStep
<1>5. ASSUME NEW r \in DOMAIN subr,
             \/ StartSetupFails(r)
             \/ \E state \in {"CONNECTING", "CONNECTED"}, out \in BOOLEAN : StartOk(r, state, out)
      PROVE  Inv'
  BY <1>5, ArmStep
<1>6. ASSUME Dequeue PROVE Inv'
  BY <1>1, <1>2, <1>3, <1>4, <1>5, <1>6 DEF Dequeue
<1>7. ASSUME NEW r \in Req, NEW found \in BOOLEAN, adns_resolved_cb(r, found)
      PROVE  Inv'
  BY <1>7, ResolvedStep
<1>8. ASSUME NEW c \in Conn, UpsCallback(c)
      PROVE  Inv'
  BY <1>8, UpsStep
<1>9. CASE UpsTimer
  BY <1>9, UpsTimerStep
<1>10. ASSUME NEW s \in Session,
              Accept(s) \/ ClientRead(s) \/ ClientWrite(s) \/ SessionTimedOut(s)
       PROVE  Inv'
  BY <1>10, ClientStep
<1>11. CASE UNCHANGED vars
  <2>1. /\ UNCHANGED poolVars /\ UNCHANGED <<session, subr, nc, m_subr_list, jobs, events,
                                             running, loop, polled>>
    BY <1>11 DEF vars
  <2>2. PoolOK' /\ Pool!Active' = Pool!Active /\ DOMAIN nconn' = DOMAIN nconn
    BY <2>1, PoolSame DEF Inv
  <2>3. TypeOK' /\ Clients' /\ Links' /\ UpsTimers' /\ Requests' /\ Wakes'
    BY <2>1 DEF Inv, TypeOK, Clients, Links, UpsTimers, Requests, Wakes
  <2>4. Conns' /\ PolledAlive'
    BY <2>1, <2>2 DEF Inv, Conns, PolledAlive
  <2>5. Queue'
    BY <2>1 DEF Inv, Queue
  <2> QED
    BY <2>2, <2>3, <2>4, <2>5 DEF Inv
<1> QED
  BY <1>1, <1>6, <1>7, <1>8, <1>9, <1>10, <1>11 DEF Next

\* An idle thread satisfies it.
LEMMA InitInv ==
  ASSUME Init
  PROVE  Inv
<1>1. /\ session = << >> /\ subr = << >> /\ nc = [c \in Conn |-> NewConn]
      /\ m_subr_list = << >> /\ jobs = {} /\ events = {}
      /\ running = "none" /\ loop = "events" /\ polled = {}
      /\ Pool!Init
  BY DEF Init
<1>2. DOMAIN session = {} /\ DOMAIN subr = {} /\ DOMAIN m_subr_list = {}
  BY <1>1
<1>3. Pool!Active = {}
  BY <1>1 DEF Pool!Init, Pool!Active
<1>4. PoolOK
  <2>1. DOMAIN nconn = {} /\ DOMAIN m_item_list = {}
    BY <1>1 DEF Pool!Init
  <2>2. Pool!IsFiniteSet(DOMAIN m_item_list)
    <3>1. IsFiniteSet(DOMAIN m_item_list)
      BY <2>1, FS_EmptySet
    <3> QED
      BY <3>1 DEF IsFiniteSet, Pool!IsFiniteSet
  <2>3. Pool!TypeOK
    BY <1>1, <2>1, <2>2 DEF Pool!Init, Pool!TypeOK, Pool!Heap
  <2>4. Pool!OneOwner /\ Pool!IdsMatch
    BY <1>1, <1>3, <2>1 DEF Pool!Init, Pool!OneOwner, Pool!IdsMatch, Pool!Idle, Pool!Reaping, Pool!Heap
  <2> QED
    BY <2>3, <2>4 DEF PoolOK
<1>5. /\ nc \in [Conn -> [m_nc_state : {"FREE", "CONNECTING", "CONNECTED"},
                          m_data : Req \cup {NoReq}]]
      /\ \A c \in Conn : nc[c].m_data = NoReq
  BY <1>1 DEF NewConn
<1>6. TypeOK
  BY <1>1, <1>2, <1>5 DEF TypeOK
<1>7. Clients /\ Links /\ UpsTimers /\ Requests /\ Wakes /\ PolledAlive
  BY <1>1, <1>2 DEF Clients, Links, UpsTimers, Requests, Wakes, PolledAlive
<1>8. Conns
  BY <1>2, <1>3, <1>5, ProxyAssumption DEF Conns
<1>9. Queue
  BY <1>1, <1>2 DEF Queue, Occurs, Once
<1> QED
  BY <1>4, <1>6, <1>7, <1>8, <1>9 DEF Inv

-----------------------------------------------------------------------------
(* The theorems *)

\* The thread's invariant holds as long as the ids of the pool fit.
LEMMA Invariance == Spec /\ []Pool!IdsFit => []Inv
<1>1. Init => Inv
  BY InitInv
<1>2. Inv /\ Pool!IdsFit /\ [Next]_vars => Inv'
  BY NextStep
<1> QED
  BY <1>1, <1>2, PTL DEF Spec

\* No event, list, job or connection leads the thread to a session or a
\* request that was deleted, no connection is shared by two requests and none
\* is leaked, however sessions, upstream servers, lookups and timers interleave.
THEOREM ProxyOwnership == Spec /\ []Pool!IdsFit => []Ownership
<1>1. Inv /\ Pool!IdsFit => Ownership
  BY InvOwnership
<1> QED
  BY <1>1, Invariance, PTL

\* Every session has its idle timer and every active request its own, and the
\* pointers that cancel them agree with the event queue.
THEOREM ProxyTimers == Spec /\ []Pool!IdsFit => []TimersArmed
<1>1. Inv => TimersArmed
  BY InvTimersArmed
<1> QED
  BY <1>1, Invariance, PTL

\* A queued subr is in the list once, and the list is never left without
\* somebody to serve it.
THEOREM ProxyQueue == Spec /\ []Pool!IdsFit => []QueueWakes
<1>1. Inv => QueueWakes
  BY InvQueueWakes
<1> QED
  BY <1>1, Invariance, PTL

\* Every step is an operation of the pool, on a connection that is open, or
\* leaves the pool alone.
LEMMA PoolStep ==
  ASSUME Inv, Pool!IdsFit, [Next]_vars
  PROVE  [Pool!Next]_poolVars
<1>1. ASSUME NEW c \in DOMAIN nconn \ closed, Pool!release(c)
      PROVE  Pool!Next
  BY <1>1, PoolRelease DEF Inv
<1>2. ASSUME NEW s \in DOMAIN session, ReleaseConn(s)
      PROVE  [Pool!Next]_poolVars
  BY <1>2, ReleaseConnPool
<1>3. CASE \/ RunDequeue \/ DequeueEnd \/ DequeueNull \/ Wait \/ WaitNothing \/ UNCHANGED vars
           \/ \E r \in Req, found \in BOOLEAN : adns_resolved_cb(r, found)
  BY <1>3 DEF RunDequeue, DequeueEnd, DequeueNull, Wait, WaitNothing, adns_resolved_cb, vars
<1>4. CASE EndRound
  BY <1>4, PoolReap DEF EndRound, Inv
<1>5. ASSUME NEW r \in DOMAIN subr, StartOnIdle(r) \/ StartOnNew(r)
      PROVE  Pool!Next
  <2>1. subr[r].label \in Label
    BY DEF Inv, TypeOK, SubrType
  <2> QED
    BY <1>5, <2>1 DEF StartOnIdle, StartOnNew, Pool!Next
<1>6. ASSUME NEW r \in DOMAIN subr,
             \/ StartAgain(r) \/ StartLookup(r) \/ StartSetupFails(r)
             \/ (\E told \in BOOLEAN : StartLookupFails(r, told))
             \/ \E state \in {"CONNECTING", "CONNECTED"}, out \in BOOLEAN : StartOk(r, state, out)
      PROVE  UNCHANGED poolVars
  BY <1>6 DEF StartAgain, StartLookup, StartLookupFails, StartSetupFails, StartOk
<1>7. ASSUME NEW r \in DOMAIN subr, NEW error \in BOOLEAN, StartTeardown(r, error)
      PROVE  Pool!Next
  <2>1. running = r /\ Pool!release(subr[r].m_nconn)
    BY <1>7 DEF StartTeardown, Starting, teardown
  <2>2. subr[r].m_nconn # NoConn
    BY <2>1 DEF Inv, Requests
  <2>3. subr[r].m_nconn \in DOMAIN nconn \ closed
    BY <2>2, Serves, Served
  <2> QED
    BY <1>1, <2>1, <2>3
<1>8. ASSUME Dequeue PROVE [Pool!Next]_poolVars
  BY <1>3, <1>5, <1>6, <1>7, <1>8 DEF Dequeue
<1>9. ASSUME NEW c \in Conn, UpsCallback(c)
      PROVE  [Pool!Next]_poolVars
  <2>1. c \in DOMAIN nconn \ closed
    BY <1>9 DEF UpsCallback, UpsActivity, UpsConnected, UpsConnectFails, UpsWritten, UpsWriteFails,
         UpsEof, UpsReadFails, UpsReadUnavailable, UpsPartial, UpsCompleteClose,
         UpsCompleteKeep, Readable, Connected, OnFd, Registered
  <2>2. \/ UNCHANGED poolVars \/ Pool!release(c)
        \/ m_next_id < MaxInserts /\ Pool!add_idle(c)
    BY <1>9 DEF UpsCallback, UpsActivity, UpsConnected, UpsConnectFails, UpsWritten, UpsWriteFails,
         UpsEof, UpsReadFails, UpsReadUnavailable, UpsPartial, UpsCompleteClose,
         UpsCompleteKeep, teardown
  <2> QED
    BY <1>1, <2>1, <2>2, PoolAddIdle DEF Inv
<1>10. ASSUME UpsTimer PROVE [Pool!Next]_poolVars
  <2>1. PICK e \in events : UpsTimedOut(e)
    BY <1>10 DEF UpsTimer
  <2>2. UNCHANGED poolVars \/ (Registered(e.c) /\ Pool!release(e.c))
    BY <2>1 DEF UpsTimedOut
  <2> QED
    BY <1>1, <2>2 DEF Registered
<1>11. ASSUME NEW s \in Session,
              Accept(s) \/ ClientRead(s) \/ ClientWrite(s) \/ SessionTimedOut(s)
       PROVE  [Pool!Next]_poolVars
  <2>1. \/ UNCHANGED poolVars
        \/ s \in DOMAIN session /\ ReleaseConn(s)
    BY <1>11 DEF Accept, ClientRead, ClientGone, ClientActivity, ClientLocal, do_default,
         ClientWrite, WriteAgain, WriteFails, WritePart, WriteDoneKeep, WriteDoneClose,
         SessionTimedOut, OnWrite, OnClientFd, DeleteSession
  <2> QED
    BY <1>2, <2>1
<1> QED
  BY <1>3, <1>4, <1>8, <1>9, <1>10, <1>11 DEF Next

\* The thread uses the pool as NconnPool specifies it, so what is proved of
\* the pool holds of the pool in the thread.
THEOREM ProxyUsesPool == Spec /\ []Pool!IdsFit => PoolSpec
<1>1. Init => Pool!Init
  BY DEF Init
<1>2. Inv /\ Pool!IdsFit /\ [Next]_vars => [Pool!Next]_(Pool!vars)
  BY PoolStep DEF poolVars, Pool!vars
<1> QED
  BY <1>1, <1>2, Invariance, PTL DEF Spec, PoolSpec, Pool!Spec

\* What holds of the pool on its own, for that reason, when requests, timers and
\* clients drive it: the counter of active connections is exact, and with the
\* idle ones they stay within the limits that get_new_active() and add_idle() check.
THEOREM ProxyLimits == Spec /\ []Pool!IdsFit => []Pool!LimitsHold
<1>1. Pool!Init => PoolP!Init
  BY DEF Pool!Init, PoolP!Init
<1>2. [Pool!Next]_(Pool!vars) => [PoolP!Next]_(PoolP!vars)
  BY SameNext DEF poolVars, Pool!vars
<1>3. PoolP!LimitsHold => Pool!LimitsHold
  BY SamePool DEF Pool!LimitsHold, PoolP!LimitsHold, Pool!ActiveCountExact, PoolP!ActiveCountExact,
    Pool!TrackedBound, PoolP!TrackedBound, Pool!IdsFit, PoolP!IdsFit,
    Pool!Cardinality, PoolP!Cardinality, Pool!IsFiniteSet, PoolP!IsFiniteSet
<1>4. PoolP!Spec => []PoolP!LimitsHold
  BY ProxyAssumption, PoolP!PoolLimits
<1>5. PoolSpec => PoolP!Spec
  BY <1>1, <1>2, PTL DEF PoolSpec, Pool!Spec, PoolP!Spec
<1> QED
  BY <1>3, <1>4, <1>5, ProxyUsesPool, PTL

\* Which steps delete a request: those that end its session, and WRITE when
\* the response is complete and the client may be kept.
LEMMA RequestDeleted ==
  ASSUME Inv, [Next]_vars, NEW r \in DOMAIN subr, r \notin DOMAIN subr'
  PROVE  \E s \in DOMAIN session : DeleteSession(s) \/ WriteDoneKeep(s)
<1> SUFFICES ASSUME \A s \in DOMAIN session : ~DeleteSession(s) /\ ~WriteDoneKeep(s)
             PROVE  DOMAIN subr \subseteq DOMAIN subr'
  OBVIOUS
<1>1. CASE \/ RunDequeue \/ DequeueEnd \/ DequeueNull \/ Wait \/ WaitNothing \/ EndRound
           \/ UNCHANGED vars \/ \E q \in Req, found \in BOOLEAN : adns_resolved_cb(q, found)
  BY <1>1 DEF RunDequeue, DequeueEnd, DequeueNull, Wait, WaitNothing, EndRound, vars,
       adns_resolved_cb
<1>2. ASSUME NEW q, NEW c, NEW error, teardown(q, c, error)
      PROVE  DOMAIN subr \subseteq DOMAIN subr'
  BY <1>2 DEF teardown
<1>3. CASE Dequeue
  BY <1>1, <1>2, <1>3 DEF Dequeue, StartOnIdle, StartOnNew, Attach, StartAgain, StartLookup,
       StartLookupFails, StartSetupFails, StartOk, StartTeardown
<1>4. ASSUME NEW c \in Conn, UpsCallback(c)
      PROVE  DOMAIN subr \subseteq DOMAIN subr'
  BY <1>2, <1>4 DEF UpsCallback, UpsActivity, UpsConnected, UpsConnectFails, UpsWritten,
       UpsWriteFails, UpsEof, UpsReadFails, UpsReadUnavailable, UpsPartial, UpsCompleteClose,
       UpsCompleteKeep
<1>5. CASE UpsTimer
  BY <1>5 DEF UpsTimer, UpsTimedOut
<1>6. ASSUME NEW s \in Session,
             Accept(s) \/ ClientRead(s) \/ ClientWrite(s) \/ SessionTimedOut(s)
      PROVE  DOMAIN subr \subseteq DOMAIN subr'
  <2>1. \/ subr' = subr
        \/ \E q \in Req, l \in Label : do_default(s, q, l)
    BY <1>6 DEF Accept, ClientRead, ClientGone, ClientActivity, ClientLocal,
         ClientWrite, WriteAgain, WriteFails, WritePart, WriteDoneClose,
         SessionTimedOut, OnWrite, OnClientFd, WriteDoneKeep
  <2> QED
    BY <2>1 DEF do_default, With
<1> QED
  BY <1>1, <1>3, <1>4, <1>5, <1>6 DEF Next

\* A request that is done was answered to the end, or the client is to be shut
\* down.
Ended ==
  \A r \in DOMAIN subr : subr[r].u = "DONE" => subr[r].m_shutdown \/ subr[r].m_complete

\* What a step may do to the record of a request: u becomes DONE only together
\* with one of the two flags, and neither is ever taken back.
EndsWell(u, v) ==
  /\ u.m_shutdown => v.m_shutdown
  /\ u.m_complete => v.m_complete
  /\ v.u = "DONE" => u.u = "DONE" \/ v.m_shutdown \/ v.m_complete

\* The records that steps leave.
LEMMA EndsWellRecords ==
  ASSUME NEW u \in SubrType
  PROVE  /\ EndsWell(u, TornDown(u)) /\ EndsWell(u, TornDown(Whole(u)))
         /\ EndsWell(u, Completed(u))
         /\ EndsWell(u, [u EXCEPT !.lookup = FALSE, !.m_state = "QUEUED"])
         /\ EndsWell(u, [u EXCEPT !.lookup = FALSE])
         /\ \A c : EndsWell(u, [u EXCEPT !.m_state = "NONE", !.ups = TRUE, !.m_nconn = c,
                                          !.out = TRUE])
         /\ EndsWell(u, [u EXCEPT !.m_state = "QUEUED"])
         /\ EndsWell(u, [u EXCEPT !.m_state = "DNS_LOOKUP", !.lookup = TRUE])
         /\ EndsWell(u, [u EXCEPT !.m_state = "NONE"])
         /\ EndsWell(u, [u EXCEPT !.m_evr_timeout = TRUE, !.m_active = TRUE])
         /\ \A out : EndsWell(u, [u EXCEPT !.m_state = "ACTIVE", !.m_evr_timeout = TRUE,
                                            !.m_active = TRUE, !.out = out])
         /\ EndsWell(u, [u EXCEPT !.m_active = TRUE])
         /\ EndsWell(u, [u EXCEPT !.m_active = FALSE])
         /\ EndsWell(u, [u EXCEPT !.out = FALSE, !.m_active = TRUE])
         /\ EndsWell(u, [u EXCEPT !.m_again = TRUE, !.m_active = TRUE])
         /\ EndsWell(u, [u EXCEPT !.u = "SENDING", !.m_active = TRUE])
BY DEF EndsWell, TornDown, Whole, Completed, Detached, SubrType

\* A step that replaces one record.
LEMMA OneEnds ==
  ASSUME TypeOK, Ended, NEW r \in DOMAIN subr, NEW v, subr' = [subr EXCEPT ![r] = v],
         EndsWell(subr[r], v)
  PROVE  Ended'
BY DEF Ended, EndsWell, TypeOK

\* Every step keeps Ended.
LEMMA EndedStep ==
  ASSUME Inv, Pool!IdsFit, Ended, [Next]_vars
  PROVE  Ended'
<1>1. CASE subr' = subr
  BY <1>1 DEF Ended
<1>2. ASSUME NEW r \in DOMAIN subr
      PROVE  subr[r] \in SubrType
  BY DEF Inv, TypeOK
<1>3. ASSUME NEW r \in DOMAIN subr, NEW v, EndsWell(subr[r], v), subr' = [subr EXCEPT ![r] = v]
      PROVE  Ended'
  BY <1>3, OneEnds DEF Inv
<1>4. ASSUME NEW q, NEW c \in Conn, NEW error, teardown(q, c, error), nc[c].m_data = q
      PROVE  Ended'
  <2>1. CASE q = NoReq
    BY <1>1, <1>4, <2>1 DEF teardown
  <2>2. CASE q # NoReq
    <3>1. q \in DOMAIN subr /\ subr[q] \in SubrType
      BY <1>4, <2>2, Served
    <3>2. subr' = [subr EXCEPT ![q] = TornDown(subr[q])]
      BY <1>4, <2>2 DEF teardown
    <3> QED
      BY <3>1, <3>2, EndsWellRecords, OneEnds DEF Inv
  <2> QED
    BY <2>1, <2>2
<1>5. CASE \/ RunDequeue \/ DequeueEnd \/ DequeueNull \/ Wait \/ WaitNothing \/ EndRound
           \/ UNCHANGED vars
  BY <1>1, <1>5 DEF RunDequeue, DequeueEnd, DequeueNull, Wait, WaitNothing, EndRound, vars
<1>6. ASSUME NEW q \in Req, NEW found \in BOOLEAN, adns_resolved_cb(q, found)
      PROVE  Ended'
  <2>1. q \in DOMAIN subr
    BY <1>6 DEF adns_resolved_cb, Inv, Queue
  <2>2. \/ subr' = [subr EXCEPT ![q] = [subr[q] EXCEPT !.lookup = FALSE, !.m_state = "QUEUED"]]
        \/ subr' = [subr EXCEPT ![q] = [subr[q] EXCEPT !.lookup = FALSE]]
    BY <1>6 DEF adns_resolved_cb
  <2> QED
    BY <1>2, <1>3, <2>1, <2>2, EndsWellRecords
<1>7. CASE Dequeue
  <2>1. CASE DequeueEnd \/ DequeueNull
    BY <1>5, <2>1
  <2>2. ASSUME NEW r \in DOMAIN subr,
               StartOnIdle(r) \/ StartOnNew(r) \/ StartAgain(r) \/ StartLookup(r)
                 \/ (\E told \in BOOLEAN : StartLookupFails(r, told)) \/ StartSetupFails(r)
        PROVE  Ended'
    <3> DEFINE u == subr[r]
    <3>1. \/ \E c : subr' = [subr EXCEPT ![r] = [u EXCEPT !.m_state = "NONE", !.ups = TRUE,
                                                       !.m_nconn = c, !.out = TRUE]]
                     /\ c \in Pool!Active'
          \/ subr' = [subr EXCEPT ![r] = [u EXCEPT !.m_state = "QUEUED"]]
          \/ subr' = [subr EXCEPT ![r] = [u EXCEPT !.m_state = "DNS_LOOKUP", !.lookup = TRUE]]
          \/ subr' = [subr EXCEPT ![r] = [u EXCEPT !.m_state = "NONE"]]
          \/ subr' = [subr EXCEPT ![r] = [u EXCEPT !.m_evr_timeout = TRUE, !.m_active = TRUE]]
      BY <2>2 DEF StartOnIdle, StartOnNew, Attach, StartAgain, StartLookup, StartLookupFails,
           StartSetupFails
    <3> QED
      BY <1>2, <1>3, <3>1, EndsWellRecords
  <2>3. ASSUME NEW r \in DOMAIN subr, NEW error \in BOOLEAN, StartTeardown(r, error)
        PROVE  Ended'
    <3>1. teardown(r, subr[r].m_nconn, error) /\ running = r
      BY <2>3 DEF StartTeardown, Starting
    <3>2. subr[r].m_nconn \in Conn /\ nc[subr[r].m_nconn].m_data = r
      BY <3>1, Serves DEF Inv, Requests
    <3> QED
      BY <1>4, <3>1, <3>2
  <2>4. ASSUME NEW r \in DOMAIN subr, NEW state \in {"CONNECTING", "CONNECTED"},
               NEW out \in BOOLEAN, StartOk(r, state, out)
        PROVE  Ended'
    <3>1. subr' = [subr EXCEPT ![r] = [subr[r] EXCEPT !.m_state = "ACTIVE",
                     !.m_evr_timeout = TRUE, !.m_active = TRUE, !.out = out]]
      BY <2>4 DEF StartOk
    <3> QED
      BY <1>2, <1>3, <3>1, EndsWellRecords
  <2> QED
    BY <1>7, <2>1, <2>2, <2>3, <2>4 DEF Dequeue
<1>8. ASSUME NEW c \in Conn, UpsCallback(c)
      PROVE  Ended'
  <2> DEFINE r == nc[c].m_data
             u == subr[r]
  <2>1. CASE UpsConnectFails(c) \/ UpsReadFails(c) \/ UpsWriteFails(c) \/ UpsEof(c)
    BY <1>4, <2>1 DEF UpsConnectFails, UpsReadFails, UpsWriteFails, UpsEof
  <2>2. CASE UpsActivity(c) \/ UpsConnected(c) \/ UpsWritten(c) \/ UpsReadUnavailable(c)
             \/ UpsPartial(c)
    <3>1. r \in DOMAIN subr /\ u \in SubrType
      BY <2>2, Served DEF UpsActivity, UpsConnected, UpsWritten, UpsReadUnavailable, UpsPartial
    <3>2. \/ subr' = [subr EXCEPT ![r] = [u EXCEPT !.m_active = TRUE]]
          \/ subr' = [subr EXCEPT ![r] = [u EXCEPT !.out = FALSE, !.m_active = TRUE]]
          \/ subr' = [subr EXCEPT ![r] = [u EXCEPT !.m_again = TRUE, !.m_active = TRUE]]
          \/ subr' = [subr EXCEPT ![r] = [u EXCEPT !.u = "SENDING", !.m_active = TRUE]]
      BY <2>2 DEF UpsActivity, UpsConnected, UpsWritten, UpsReadUnavailable, UpsPartial
    <3> QED
      BY <1>3, <3>1, <3>2, EndsWellRecords
  <2>3. CASE UpsCompleteClose(c) \/ \E idle \in BOOLEAN : UpsCompleteKeep(c, idle)
    <3>1. r \in DOMAIN subr /\ u \in SubrType
      BY <2>3, Served DEF UpsCompleteClose, UpsCompleteKeep
    <3>2. \/ subr' = [subr EXCEPT ![r] = TornDown(Whole(u))]
          \/ subr' = [subr EXCEPT ![r] = Completed(u)]
      BY <2>3 DEF UpsCompleteClose, UpsCompleteKeep
    <3> QED
      BY <3>1, <3>2, EndsWellRecords, OneEnds DEF Inv
  <2> QED
    BY <1>8, <2>1, <2>2, <2>3 DEF UpsCallback
<1>9. CASE UpsTimer
  <2>1. PICK e \in events : e.cb = "ups_timeout" /\ UpsTimedOut(e)
    BY <1>9 DEF UpsTimer
  <2> DEFINE c == e.c
             r == nc[c].m_data
             u == subr[r]
  <2>2. c \in Conn
    BY <2>1, EventKinds DEF Inv, TypeOK
  <2>3. r # NoReq => r \in DOMAIN subr /\ u \in SubrType
    BY <2>2, Served
  <2>4. CASE r # NoReq /\ subr' = [subr EXCEPT ![r] = TornDown(u)]
    BY <2>3, <2>4, EndsWellRecords, OneEnds DEF Inv
  <2>5. CASE r # NoReq /\ subr' = [subr EXCEPT ![r] = [u EXCEPT !.m_active = FALSE]]
    BY <1>3, <2>3, <2>5, EndsWellRecords
  <2>6. CASE subr' = [x \in DOMAIN subr |-> [subr[x] EXCEPT !.m_evr_timeout = @ /\ x # r]]
    <3>1. ASSUME NEW q \in DOMAIN subr
          PROVE  /\ subr'[q].u = subr[q].u /\ subr'[q].m_shutdown = subr[q].m_shutdown
                 /\ subr'[q].m_complete = subr[q].m_complete
      <4>1. subr'[q] = [subr[q] EXCEPT !.m_evr_timeout = subr[q].m_evr_timeout /\ q # r]
        BY <2>6
      <4> QED
        BY <1>2, <4>1 DEF SubrType
    <3> QED
      BY <2>6, <3>1 DEF Ended
  <2> QED
    BY <2>1, <2>4, <2>5, <2>6 DEF UpsTimedOut
<1>10. ASSUME NEW s \in Session,
              Accept(s) \/ ClientRead(s) \/ ClientWrite(s) \/ SessionTimedOut(s)
       PROVE  Ended'
  <2>1. ASSUME subr' = Without(subr, Deleted(s))
        PROVE  Ended'
    BY <2>1 DEF Without, Ended
  <2>2. ASSUME NEW q \in Req, NEW l \in Label, do_default(s, q, l)
        PROVE  Ended'
    <3>1. [NewSubr(s, l) EXCEPT !.m_state = "QUEUED"].u = "IDLE"
      BY DEF NewSubr
    <3> QED
      BY <2>2, <3>1 DEF do_default, With, Ended
  <2>3. \/ subr' = subr \/ subr' = Without(subr, Deleted(s))
        \/ \E q \in Req, l \in Label : do_default(s, q, l)
    BY <1>10 DEF Accept, ClientRead, ClientGone, ClientActivity, ClientLocal,
         ClientWrite, WriteAgain, WriteFails, WritePart, WriteDoneClose,
         SessionTimedOut, WriteDoneKeep, DeleteSession
  <2> QED
    BY <1>1, <2>1, <2>2, <2>3
<1> QED
  BY <1>5, <1>6, <1>7, <1>8, <1>9, <1>10 DEF Next

\* A client is kept after a proxied request only when the upstream answer was
\* read to its end: every other end of a request shuts the client down.
THEOREM ProxyKeepsWhole == Spec /\ []Pool!IdsFit => KeptOnlyIfWhole
<1>1. ASSUME Inv, Pool!IdsFit, Ended, [Next]_vars, NEW r \in DOMAIN subr, r \notin DOMAIN subr',
             subr[r].m_session \in DOMAIN session'
      PROVE  subr[r].m_complete
  <2>1. PICK s \in DOMAIN session : DeleteSession(s) \/ WriteDoneKeep(s)
    BY <1>1, RequestDeleted
  <2>2. DOMAIN subr' = DOMAIN subr \ Deleted(s)
    BY <2>1 DEF DeleteSession, WriteDoneKeep, Without
  <2>3. r \in Deleted(s)
    BY <1>1, <2>2
  <2>4. subr[r].m_session = s
    BY <1>1, <2>3, DeletedFacts
  <2>5. ~DeleteSession(s)
    BY <1>1, <2>4 DEF DeleteSession, Without
  <2>6. subr[r].u = "DONE" /\ ~subr[r].m_shutdown
    BY <2>1, <2>3, <2>5 DEF WriteDoneKeep, MayKeep, UpsDone
  <2> QED
    BY <1>1, <2>6 DEF Ended
<1> DEFINE Keeps == \A r \in DOMAIN subr :
                      r \notin DOMAIN subr' /\ subr[r].m_session \in DOMAIN session'
                        => subr[r].m_complete
<1>2. Inv /\ Pool!IdsFit /\ Ended /\ [Next]_vars => [Keeps]_vars
  BY <1>1
<1>3. Init => Ended
  BY DEF Init, Ended
<1>4. Inv /\ Pool!IdsFit /\ Ended /\ [Next]_vars => Ended'
  BY EndedStep
<1>5. Spec /\ []Pool!IdsFit => []Ended
  BY <1>3, <1>4, Invariance, PTL DEF Spec
<1>6. Spec /\ []Pool!IdsFit => [][Keeps]_vars
  BY <1>2, <1>5, Invariance, PTL DEF Spec
<1> QED
  BY <1>6 DEF KeptOnlyIfWhole

\* The hypothesis is met by every thread that parks no more connections than
\* there are ids, which MaxInserts bounds.
THEOREM ProxyIdsFit ==
  ASSUME MaxInserts <= IdSpan
  PROVE  Spec => []Pool!IdsFit
<1> DEFINE Parked == m_next_id <= MaxInserts
<1>1. Init => Inv /\ Parked
  BY InitInv, ProxyAssumption DEF Init, Pool!Init
<1>2. Inv /\ Parked => Pool!IdsFit
  BY ProxyAssumption DEF Inv, PoolOK, Pool!TypeOK, Pool!IdsFit
<1>3. Inv /\ Parked /\ [Next]_vars => Inv' /\ Parked'
  <2> SUFFICES ASSUME Inv, Parked, [Next]_vars PROVE Inv' /\ Parked'
    OBVIOUS
  <2>1. Inv' /\ [Pool!Next]_poolVars
    BY <1>2, NextStep, PoolStep
  <2>2. m_next_id \in Nat /\ m_next_id' \in Nat
    BY <2>1 DEF Inv, PoolOK, Pool!TypeOK
  <2>3. m_next_id' = m_next_id \/ (m_next_id < MaxInserts /\ m_next_id' = m_next_id + 1)
    BY <2>1 DEF Pool!Next, poolVars, Pool!get_new_active, Pool!get_idle, Pool!add_idle,
         Pool!release, Pool!evict_all_idle, Pool!reap
  <2> QED
    BY <2>1, <2>2, <2>3, ProxyAssumption
<1> QED
  BY <1>1, <1>2, <1>3, PTL DEF Spec

==============================================================================
