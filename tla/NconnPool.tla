------------------------------ MODULE NconnPool ------------------------------
(***************************************************************************)
(* The pool of upstream (proxy) connections of one server thread:          *)
(* src/srvr/nconn_pool.cc over the label-keyed LRU of src/support/nlru.h.  *)
(*                                                                         *)
(* A connection is an nconn object on the heap, named here by its address. *)
(* It is created active (get_new_active), may be parked idle in the LRU    *)
(* (add_idle) and taken back (get_idle), and is closed and put on the reap *)
(* list when it is released or evicted.  The thread's main loop deletes    *)
(* what is on the reap list after each round of callbacks (reap).          *)
(*                                                                         *)
(* m_item_list is kept as a function from id to nconn: insert() pushes at  *)
(* the front under the id m_next_id++, so list order is descending id      *)
(* order, the back of the list being the least id.  The indexes            *)
(* m_label_id_set_map, m_item_list_map, m_id_label_map and the counter     *)
(* m_item_list_size are functions of the list.  The order of m_reap_list   *)
(* does not matter, how often a connection is on it does: it is a bag.     *)
(***************************************************************************)
EXTENDS Integers, FiniteSets

CONSTANTS
  Conn,        \* heap addresses an nconn can have
  Label,       \* upstream labels (scheme, host and port)
  MaxActive,   \* m_active_conn_map_max_size: the thread's m_num_parallel
  MaxIdle,     \* the LRU's m_max_entries
  IdSpan,      \* how many values the id_t has that add_idle keeps an id in (2^32)
  CountSpan,   \* how many values the uint64_t counters have (2^64)
  MaxInserts   \* bound on m_next_id

ASSUME PoolAssumption ==
  /\ MaxActive \in Nat
  /\ MaxIdle \in Nat
  /\ MaxInserts \in Nat
  /\ IdSpan \in Nat \ {0}
  /\ CountSpan \in Nat /\ MaxActive + MaxIdle < CountSpan

VARIABLES
  nconn,                  \* live nconn objects: address -> [label, id]
  closed,                 \* addresses of the live ones nc_cleanup() has closed
  m_active_conn_map,      \* label -> set of active connections
  m_active_conn_map_size, \* the counter kept beside that map
  m_item_list,            \* the LRU: id -> idle connection
  m_next_id,              \* the LRU's next id
  m_reap_list             \* Conn -> how often it is on the list of those to delete

vars == <<nconn, closed, m_active_conn_map, m_active_conn_map_size,
          m_item_list, m_next_id, m_reap_list>>

-----------------------------------------------------------------------------
(* Derived state *)

Heap == DOMAIN nconn

Active == UNION {m_active_conn_map[l] : l \in Label}

Idle == {m_item_list[i] : i \in DOMAIN m_item_list}

Reaping == {c \in Conn : m_reap_list[c] > 0}

\* Open connections that no structure of the pool refers to.
Lost == (Heap \ closed) \ (Active \cup Idle)

\* Mutant: one more entry than the limit is let in.
OverLimitOffByOne(items) == Cardinality(DOMAIN items) > MaxIdle + 1

\* The LRU is over its limit, after an insert.
OverLimit(items) == Cardinality(DOMAIN items) > MaxIdle

\* The id of the entry inserted longest ago: the back of the LRU list.
LeastId(ids) == CHOOSE i \in ids : \A j \in ids : i <= j

\* m_label_id_set_map[l]: the ids of the idle connections of a label.
IdsOf(l) == {i \in DOMAIN m_item_list : nconn[m_item_list[i]].label = l}

\* nlru::remove(id): an id that is not in the LRU is ignored.
Remove(items, id) == [i \in DOMAIN items \ {id} |-> items[i]]

\* The LRU list after insert() has pushed c at the front.
PushFront(items, id, c) ==
  [i \in DOMAIN items \cup {id} |-> IF i = id THEN c ELSE items[i]]

\* get_active_available(): an unsigned difference.
get_active_available == (MaxActive - m_active_conn_map_size) % CountSpan

-----------------------------------------------------------------------------
(* Operations of nconn_pool *)

Init ==
  /\ nconn = << >> /\ closed = {}
  /\ m_active_conn_map = [l \in Label |-> {}]
  /\ m_active_conn_map_size = 0
  /\ m_item_list = << >>
  /\ m_next_id = 0
  /\ m_reap_list = [c \in Conn |-> 0]

\* add_active(): map the connection under its label and count it.
add_active(c, l) ==
  /\ m_active_conn_map' = [m_active_conn_map EXCEPT ![l] = @ \cup {c}]
  /\ m_active_conn_map_size' = (m_active_conn_map_size + 1) % CountSpan

\* Mutant: the count goes down even for a connection that is not active.
RemoveActiveAlwaysCounts(c) ==
  /\ m_active_conn_map' = [m_active_conn_map EXCEPT ![nconn[c].label] = @ \ {c}]
  /\ m_active_conn_map_size' = (m_active_conn_map_size - 1) % CountSpan

\* remove_active(): a connection that is not active is left alone.
remove_active(c) ==
  LET l == nconn[c].label IN
  /\ m_active_conn_map' = [m_active_conn_map EXCEPT ![l] = @ \ {c}]
  /\ m_active_conn_map_size' =
       IF c \in m_active_conn_map[l]
       THEN (m_active_conn_map_size - 1) % CountSpan
       ELSE m_active_conn_map_size

\* Mutant: the new connection is mapped, and never given its label.
GetNewActiveNoLabel(l) ==
  /\ m_active_conn_map_size < MaxActive
  /\ \E c \in Conn \ Heap :
       /\ nconn' = [d \in Heap \cup {c} |->
                      IF d = c THEN [label |-> "", id |-> 0] ELSE nconn[d]]
       /\ add_active(c, l)
  /\ UNCHANGED <<closed, m_item_list, m_next_id, m_reap_list>>

\* get_new_active(): NULL at the limit, otherwise a new nconn at some free
\* address; its constructor sets m_id to 0.
get_new_active(l) ==
  /\ m_active_conn_map_size < MaxActive
  /\ \E c \in Conn \ Heap :
       /\ nconn' = [d \in Heap \cup {c} |->
                      IF d = c THEN [label |-> l, id |-> 0] ELSE nconn[d]]
       /\ add_active(c, l)
  /\ UNCHANGED <<closed, m_item_list, m_next_id, m_reap_list>>

\* get_idle(): the connection of that label that has been idle longest
\* leaves the LRU and is active again, whatever the number of active ones.
get_idle(l) ==
  /\ IdsOf(l) # {}
  /\ LET i == LeastId(IdsOf(l)) IN
       /\ add_active(m_item_list[i], l)
       /\ m_item_list' = Remove(m_item_list, i)
  /\ UNCHANGED <<nconn, closed, m_next_id, m_reap_list>>

\* cleanup(): close the connection and queue it to be deleted.
cleanup(c) ==
  /\ closed' = closed \cup {c}
  /\ m_reap_list' = [m_reap_list EXCEPT ![c] = @ + 1]

\* Mutants: the id is read after it was stepped, or not kept at all.
SetIdAfterStep(c) == nconn' = [nconn EXCEPT ![c].id = (m_next_id + 1) % IdSpan]

SetIdMissing(c) == UNCHANGED nconn

\* set_id(): the connection carries the id that insert() returned, in an id_t
\* of 32 bits.
set_id(c) == nconn' = [nconn EXCEPT ![c].id = m_next_id % IdSpan]

\* add_idle(): refused for a connection that is not active.  insert() evicts
\* the back of the list, through s_delete_cb, when the LRU is over its limit.
add_idle(c) ==
  /\ c \in m_active_conn_map[nconn[c].label]
  /\ remove_active(c)
  /\ LET items == PushFront(m_item_list, m_next_id, c)
         back  == LeastId(DOMAIN items) IN
     IF OverLimit(items)
     THEN m_item_list' = Remove(items, back) /\ cleanup(items[back])
     ELSE m_item_list' = items /\ UNCHANGED <<closed, m_reap_list>>
  /\ m_next_id' = m_next_id + 1
  /\ set_id(c)

\* Mutant: an idle connection is closed and stays in the LRU.
ReleaseLeavesIdle(c) ==
  /\ remove_active(c)
  /\ cleanup(c)
  /\ UNCHANGED <<nconn, m_item_list, m_next_id>>

\* release(): remove_active(), remove_idle() by the id the nconn carries,
\* and cleanup(), each whether or not the one before found the connection.
release(c) ==
  /\ remove_active(c)
  /\ m_item_list' = Remove(m_item_list, nconn[c].id)
  /\ cleanup(c)
  /\ UNCHANGED <<nconn, m_next_id>>

\* evict_all_idle(): evict() closes the back of the list until none is left.
evict_all_idle ==
  /\ DOMAIN m_item_list # {}
  /\ m_item_list' = << >>
  /\ closed' = closed \cup Idle
  /\ m_reap_list' = [c \in Conn |->
       m_reap_list[c] + Cardinality({i \in DOMAIN m_item_list : m_item_list[i] = c})]
  /\ UNCHANGED <<nconn, m_active_conn_map, m_active_conn_map_size, m_next_id>>

\* reap(): delete everything on the reap list.
reap ==
  /\ Reaping # {}
  /\ nconn' = [c \in Heap \ Reaping |-> nconn[c]]
  /\ closed' = closed \ Reaping
  /\ m_reap_list' = [c \in Conn |-> 0]
  /\ UNCHANGED <<m_active_conn_map, m_active_conn_map_size, m_item_list, m_next_id>>

-----------------------------------------------------------------------------
(* The callers.  subr_start() asks for a connection, the upstream state    *)
(* machine parks or releases one that it got a callback for, and no        *)
(* callback arrives for a connection that has been closed: nc_cleanup()    *)
(* takes its descriptor out of the event loop.  Module Proxy models them.  *)

Next ==
  \/ \E l \in Label : get_new_active(l)
  \/ \E l \in Label : get_idle(l)
  \/ \E c \in Heap \ closed : m_next_id < MaxInserts /\ add_idle(c)
  \/ \E c \in Heap \ closed : release(c)
  \/ evict_all_idle
  \/ reap

Spec == Init /\ [][Next]_vars

-----------------------------------------------------------------------------
(* Properties *)

\* The variables keep their types.
TypeOK ==
  /\ Heap \subseteq Conn
  /\ nconn \in [Heap -> [label : Label, id : Nat]]
  /\ closed \subseteq Conn
  /\ m_active_conn_map \in [Label -> SUBSET Conn]
  /\ m_active_conn_map_size \in Nat
  /\ DOMAIN m_item_list \subseteq Nat /\ IsFiniteSet(DOMAIN m_item_list)
  /\ m_item_list \in [DOMAIN m_item_list -> Conn]
  /\ m_next_id \in Nat
  /\ m_reap_list \in [Conn -> Nat]

\* Ids handed out so far fit the 32 bits that add_idle keeps them in.
IdsFit == m_next_id <= IdSpan

\* nconn_pool's three structures never share a connection and never refer to
\* a deleted one: a connection get_idle() hands out is open and used by
\* nobody, and reap() deletes each connection once, after it was closed.
OneOwner ==
  IdsFit =>
    /\ Active \cap Idle = {}
    /\ Active \cup Idle \subseteq Heap \ closed
    /\ \A i, j \in DOMAIN m_item_list : m_item_list[i] = m_item_list[j] => i = j
    /\ Reaping = closed /\ closed \subseteq Heap
    /\ \A c \in Conn : m_reap_list[c] <= 1

\* The counter that get_new_active() and get_active_available() rely on is the
\* number of active connections.
ActiveCountExact == IdsFit => m_active_conn_map_size = Cardinality(Active)

\* get_idle() may pass the active limit, and by no more than the idle limit:
\* the pool never tracks more than MaxActive + MaxIdle open connections, and
\* the idle ones stay within the LRU's limit.
TrackedBound ==
  IdsFit =>
    /\ Cardinality(DOMAIN m_item_list) <= MaxIdle
    /\ m_active_conn_map_size + Cardinality(DOMAIN m_item_list) <= MaxActive + MaxIdle

\* remove_idle() looks a connection up by an id that is 0 until its first
\* add_idle(): releasing such a connection can drop from the LRU only the
\* entry with id 0, so at most one connection is ever lost track of.
OnlyFirstIdLost ==
  IdsFit =>
    /\ \A c, d \in Lost : c = d
    /\ \A c \in Lost : nconn[c].id = 0 /\ 0 \notin DOMAIN m_item_list

\* The link between the LRU and the ids that connections carry, on which
\* release() rests: an idle connection carries the id it is filed under, and
\* the id of any other open connection, unless it is 0, is not in the LRU;
\* an active connection is filed under its own label.
IdsMatch ==
  IdsFit =>
    /\ \A l \in Label : \A c \in m_active_conn_map[l] : nconn[c].label = l
    /\ \A i \in DOMAIN m_item_list : i < m_next_id /\ nconn[m_item_list[i]].id = i
    /\ \A c \in Heap \ closed : nconn[c].id # 0 =>
         /\ nconn[c].id < m_next_id
         /\ nconn[c].id \in DOMAIN m_item_list => m_item_list[nconn[c].id] = c

\* Releasing an active connection leaves the idle ones idle, as the test
\* tests/whitebox/srvr/wb_nconn_pool.cc expects of get_idle_size().
ReleaseActiveKeepsIdle ==
  [][\A c \in Active : release(c) => m_item_list' = m_item_list]_vars

\* The pool's counter is exact and its limits hold: what get() decides by.
LimitsHold == ActiveCountExact /\ TrackedBound
==============================================================================
