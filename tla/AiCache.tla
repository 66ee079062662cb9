------------------------------ MODULE AiCache ------------------------------
(***************************************************************************)
(* The address cache (ai_cache.cc) that all server threads share through   *)
(* one nresolver.  A thread looks a host up (lookup_tryfast()), stores an  *)
(* answer (dns_a4_cb()) or stores a literal address (lookup_inline()).     *)
(* The first two hold m_cache_mutex while they are in the map and use the  *)
(* host_info they got after they have released it; the third never takes   *)
(* the mutex.  The cache is written to its file by the destructor and read *)
(* by the constructor; a crash leaves the file of an earlier run, or a     *)
(* file that cannot be parsed if it comes while the file is written.       *)
(***************************************************************************)
EXTENDS Integers, FiniteSets, Functions

CONSTANTS
  Thread,
  Key,        \* host:port
  Literal,    \* the keys looked up inline: literal addresses, or all in sync mode
  Ttl,        \* the lifetimes of answers, S_MIN_TTL_S applied
  MaxNow,     \* bound: the last second
  MaxInfo     \* bound: host_infos allocated by one process

ASSUME AiCacheAssumption ==
  Literal \subseteq Key /\ Ttl \subseteq Nat \ {0} /\ MaxNow \in Nat \ {0} /\ MaxInfo \in Nat

VARIABLES
  now,       \* get_time_s()
  info,      \* the host_infos allocated: m_expires_s, and whether deleted
  map,       \* m_ai_cache_map: keys to host_infos
  mutex,     \* the holder of m_cache_mutex, if any
  th,        \* the threads
  file       \* m_ai_cache_file: keys to m_expires_s

vars == <<now, info, map, mutex, th, file>>

None == 0
Idle == [op |-> "idle", key |-> None, ptr |-> None, at |-> 0]

Init ==
  /\ now = 1 /\ info = << >> /\ map = << >> /\ mutex = {} /\ file = << >>
  /\ th = [t \in Thread |-> Idle]

----------------------------------------------------------------------------
(* ai_cache *)

\* m_expires_s is never 0, which would mean that the entry does not expire.
Expired(i) == now > info[i].m_expires_s
HasAny(k) == k \in DOMAIN map
HasLive(k) == k \in DOMAIN map /\ ~Expired(map[k])
HasExpired(k) == k \in DOMAIN map /\ Expired(map[k])

\* delete
Deleted(is) ==
  [i \in DOMAIN info |-> IF i \in is THEN [info[i] EXCEPT !.deleted = TRUE] ELSE info[i]]
ExpiredAt(k) == {map[x] : x \in {x \in {k} : HasExpired(x)}}

\* lookup(label): an expired entry is erased and deleted.
LookupKeepsEntry(k) == /\ map' = map
                       /\ info' = Deleted(ExpiredAt(k))
lookup(k) ==
  /\ map' = IF HasExpired(k) THEN Restrict(map, DOMAIN map \ {k}) ELSE map
  /\ info' = Deleted(ExpiredAt(k))

Stored(k, new) == [x \in DOMAIN map \cup {k} |-> IF x = k THEN new ELSE map[x]]

\* lookup(label, info): an entry that has not expired is kept, and the new
\* host_info is deleted.
AddKeepsNew(k, new) ==
  /\ map' = IF HasLive(k) THEN map ELSE Stored(k, new)
  /\ info' = Deleted(ExpiredAt(k))
AddReplaces(k, new) ==
  /\ map' = Stored(k, new)
  /\ info' = Deleted({map[x] : x \in {k} \cap DOMAIN map})
lookupOrAdd(k, new) ==
  /\ map' = IF HasLive(k) THEN map ELSE Stored(k, new)
  /\ info' = Deleted(IF HasLive(k) THEN {new} ELSE ExpiredAt(k))

----------------------------------------------------------------------------
(* The threads *)

\* Threads inside the map, and those of them without the mutex.
InMap == {t \in Thread : th[t].op \in {"tryfast", "store", "inline"}}
Unlocked == {t \in Thread : th[t].op = "inline"}

\* Two threads in the map race, and nothing is known of what follows.
Racing == Cardinality(InMap) > 1

\* What a thread is doing, the host_info in its hands, and when it was got.
Set(t, op, k, p) == th' = [th EXCEPT ![t] = [op |-> op, key |-> k, ptr |-> p, at |-> now]]

\* new host_info(), with the expiry of the answer.
Alloc(t, op, k) ==
  /\ Cardinality(DOMAIN info) < MaxInfo
  /\ \E ttl \in Ttl :
       info' = [i \in 1 .. Cardinality(DOMAIN info) + 1 |->
                  IF i \in DOMAIN info THEN info[i]
                  ELSE [m_expires_s |-> now + ttl, deleted |-> FALSE]]
  /\ Set(t, op, k, Cardinality(DOMAIN info) + 1)

\* pthread_mutex_lock(), and into the map.
Lock(t) == mutex = {} /\ mutex' = {t}

\* lookup_tryfast()
TryfastEnter(t, k) ==
  /\ th[t] = Idle
  /\ Lock(t) /\ Set(t, "tryfast", k, None)
  /\ UNCHANGED <<now, info, map, file>>

\* Found: the pointer is kept past the unlock.
TryfastFound(t) ==
  /\ th[t].op = "tryfast"
  /\ HasLive(th[t].key)
  /\ lookup(th[t].key)
  /\ Set(t, "held", th[t].key, map[th[t].key])
  /\ mutex' = {} /\ UNCHANGED <<now, file>>

\* Not found: a literal address is looked up inline, any other by a job.
TryfastMissed(t) ==
  /\ th[t].op = "tryfast"
  /\ ~HasLive(th[t].key)
  /\ lookup(th[t].key)
  /\ th' = [th EXCEPT ![t] = IF @.key \in Literal THEN [@ EXCEPT !.op = "nlookup"] ELSE Idle]
  /\ mutex' = {} /\ UNCHANGED <<now, file>>

\* lookup_inline(): nlookup(), and into the map without the mutex.
InlineEnter(t) ==
  /\ th[t].op = "nlookup"
  /\ Alloc(t, "inline", th[t].key)
  /\ UNCHANGED <<now, map, mutex, file>>

\* nlookup() fails, and the new host_info is deleted again.
InlineFails(t) ==
  /\ th[t].op = "nlookup"
  /\ th' = [th EXCEPT ![t] = Idle]
  /\ UNCHANGED <<now, info, map, mutex, file>>

\* dns_a4_cb(): a new host_info, the mutex, the map.
StoreAlloc(t, k) ==
  /\ th[t] = Idle /\ k \notin Literal
  /\ Alloc(t, "answer", k)
  /\ UNCHANGED <<now, map, mutex, file>>

StoreUnlocked(t) ==
  /\ th[t].op = "answer"
  /\ th' = [th EXCEPT ![t].op = "store"]
  /\ UNCHANGED <<now, info, map, mutex, file>>
StoreEnter(t) ==
  /\ th[t].op = "answer"
  /\ Lock(t) /\ th' = [th EXCEPT ![t].op = "store"]
  /\ UNCHANGED <<now, info, map, file>>

Add(t) ==
  /\ th[t].op \in {"store", "inline"}
  /\ lookupOrAdd(th[t].key, th[t].ptr)
  /\ th' = [th EXCEPT ![t] = [op |-> "held", key |-> @.key, ptr |-> map'[@.key],
                              at |-> IF HasLive(@.key) THEN now ELSE @.at]]
  /\ mutex' = mutex \ {t} /\ UNCHANGED <<now, file>>

\* ao_host_info = *l_host_info, or the copy in adns_resolved_cb().
Copy(t) ==
  /\ th[t].op = "held"
  /\ th' = [th EXCEPT ![t] = Idle]
  /\ UNCHANGED <<now, info, map, mutex, file>>

\* A second passes.
Tick == now < MaxNow /\ now' = now + 1 /\ UNCHANGED <<info, map, mutex, th, file>>

\* ~ai_cache() after the threads have ended: sync() writes every entry.
sync == [k \in DOMAIN map |-> info[map[k]].m_expires_s]

\* read(): a new process has the entries of the file.
read(f) ==
  \E id \in [DOMAIN f -> 1 .. Cardinality(DOMAIN f)] :
    /\ IsInjective(id)
    /\ map' = id
    /\ info' = [i \in 1 .. Cardinality(DOMAIN f) |->
         [m_expires_s |-> f[CHOOSE k \in DOMAIN f : id[k] = i], deleted |-> FALSE]]

Restart ==
  /\ \A t \in Thread : th[t] = Idle
  /\ file' = sync
  /\ read(sync)
  /\ UNCHANGED <<now, mutex, th>>

Crash ==
  /\ read(file)
  /\ th' = [t \in Thread |-> Idle] /\ mutex' = {}
  /\ UNCHANGED <<now, file>>

\* A crash in sync(), which truncates the file first: what is left of it is no
\* array, and read() takes nothing from it.
CrashInSync ==
  /\ \A t \in Thread : th[t] = Idle
  /\ file' = << >>
  /\ read(<< >>)
  /\ UNCHANGED <<now, mutex, th>>

Next ==
  /\ ~Racing
  /\ \/ \E t \in Thread :
          \/ \E k \in Key : TryfastEnter(t, k) \/ StoreAlloc(t, k)
          \/ TryfastFound(t) \/ TryfastMissed(t)
          \/ InlineEnter(t) \/ InlineFails(t)
          \/ StoreEnter(t) \/ Add(t) \/ Copy(t)
     \/ Tick \/ Restart \/ Crash \/ CrashInSync

Spec == Init /\ [][Next]_vars

----------------------------------------------------------------------------
(* Properties *)

\* Every variable keeps its type, and the mutex is held by the thread that is
\* in the map under it.
TypeOK ==
  /\ now \in 1 .. MaxNow
  /\ \A i \in DOMAIN info : info[i] \in [m_expires_s : Nat, deleted : BOOLEAN]
  /\ DOMAIN map \subseteq Key /\ \A k \in DOMAIN map : map[k] \in DOMAIN info
  /\ th \in [Thread -> [op : {"idle", "tryfast", "nlookup", "answer", "store", "inline", "held"},
                        key : Key \cup {None}, ptr : {None} \cup DOMAIN info, at : 0 .. MaxNow]]
  /\ mutex = InMap \ Unlocked

\* The map holds no host_info that was deleted, and no host_info twice: what
\* lookup() returns and what the destructor deletes is allocated.
MapLive ==
  /\ \A k \in DOMAIN map : ~info[map[k]].deleted
  /\ IsInjective(map)

\* "ownership of l_host_info is confusing and possibly leaks": with the cache
\* in use, every host_info that is not deleted is in the map or in the hands of
\* the thread that allocated it.
NoLeak ==
  \A i \in DOMAIN info : ~info[i].deleted =>
    \/ i \in Range(map)
    \/ \E t \in Thread : th[t].op \in {"answer", "store", "inline"} /\ th[t].ptr = i

\* A thread is given a host_info that had not expired when it was looked up, or
\* when the answer that it stores had come, whatever other threads, restarts
\* and crashes did to the cache.
FreshServed ==
  \A t \in Thread : th[t].op = "held" => th[t].at <= info[th[t].ptr].m_expires_s

\* The host_info is used after the mutex was released.  It can have been
\* deleted by another thread only if it expired after it was looked up: a
\* thread that copies within the same second copies live memory.
DeletedOnlyIfExpired ==
  \A t \in Thread : th[t].op = "held" /\ info[th[t].ptr].deleted =>
    th[t].at < now /\ info[th[t].ptr].m_expires_s < now

\* Two threads are in the map at once only when one of them is in
\* lookup_inline(), which does not take the mutex.
OnlyInlineRaces == Racing => Unlocked # {}

\* Every entry of the map is alive, and every live entry is in the map or in
\* the hands of a thread that will put it there.
EntriesOwned == TypeOK /\ MapLive /\ NoLeak
=============================================================================
