# is2: a TLA+ verification project

is2 is an embeddable HTTP/HTTPS server library in C++: an event loop per thread,
client sessions, handlers for files, statistics and proxying, subrequests to
upstream servers over a pool of kept-alive connections, asynchronous DNS, and a
URL router. This directory models its control logic in TLA+, checks the models
with TLC on small instances, and proves part of it with TLAPS for every instance.

All paths below are relative to the repository.

## 1. Inventory

| Component | State it keeps | Operations | Talks to |
|---|---|---|---|
| Connection pool `src/srvr/nconn_pool.cc`, LRU `src/support/nlru.h` | active connections by label and their count, idle connections in LRU order, reap list | `get_new_active`, `get_idle`, `add_idle`, `release`, `evict_all_idle`, `reap` | called by upstream sessions and by the thread's main loop |
| Upstream session `src/srvr/ups_session.cc`, `subr.cc` | the subr's state, its connection, timer, `m_again`, request and response queues; the thread's list of queued subrs | `subr_enqueue`, `subr_dequeue`, `subr_start`, `run_state_machine` (read, write, timeout, error), `teardown`, `cancel`, `adns_resolved_cb` | pool, resolver, client session, event loop |
| Client session `src/srvr/session.cc` | the request in progress (`m_u`), output queue, idle timer, write event | `run_state_machine`, `handle_req`, `queue_output`, `teardown`, destructor | handlers, event loop |
| Proxy handler `src/handler/proxy/proxy_h.cc` | `proxy_u`: IDLE, SENDING, DONE; shutdown flag | `do_default`, `ups_read`, `ups_cancel`, `s_error_cb` | session, subr |
| Event loop `src/evr/evr.cc`, `evr_epoll.cc` | priority queue of timed events, registered descriptors, control eventfd | `run`, `dequeue_events`, `add_event`, `cancel_event`, `add_fd`/`mod_fd`/`del_fd`, `signal` | calls back everything else |
| Threads `src/srvr/srvr.cc`, `t_srvr.cc` | `m_stopped`, counters and their published copies | `run`, `stop`, `wait_till_stopped`, `t_run`, `stat_update`, `get_stat` | event loop |
| Listener `src/srvr/lsnr.cc` | listening socket | accept callback | makes sessions |
| Connections `src/nconn/*.cc` | `m_nc_state`, descriptor, `m_data`, TLS state | `ncsetup`, `ncconnect`, `ncaccept`, `nc_read`, `nc_write`, `nc_cleanup` | event loop |
| Resolver `src/dns/*.cc` | job queue, expiry queue, cached addresses, file cache | `lookup_tryfast`, `lookup_sync`, `lookup_async`, job callbacks and timeouts | upstream sessions |
| Block queue `src/support/nbq.cc` | list of blocks, read and write cursors | `write`, `read`, `split`, `join_ref`, `reset_*`, `shrink` | sessions, connections |
| URL router `src/url_router/url_router.cc` | edge-compressed tree of routes | `add_route`, `find_route` | `session::handle_req` |
| HTTP messages `src/srvr/hmsg.cc`, `cb.cc` | offset and length of URL, headers and body in the input queue | parser callbacks, `get_header_list`, `get_body_q` | block queue, sessions |
| File handler `src/handler/file/file_h.cc` | open file, bytes read | `get_file`, `ups_read_ahead` | client session, block queue |
| Statistics handler, utilities | | formatting, thin wrappers | |

How they interact. A thread runs one callback at a time. `evr_loop::run()` first
serves the events that are due, in order of time, then waits for descriptors and
calls back for each one reported; `t_run()` then reaps the pool and starts over.
A client's readable descriptor leads through `handle_req()` to
`proxy_h::do_default()`, which makes a subr and queues it with an event for now;
`subr_dequeue()` runs from that event, takes an idle connection or makes one (after
a lookup), attaches a new `ups_session` and writes the request. The response is
read in callbacks of the upstream connection straight into the client's output
queue; `queue_output()` queues an event that writes it to the client. Threads share
only the stop flags, the control descriptors and the published statistics.

What is hard here. Sessions, subrs, upstream sessions, connections and events
refer to each other through raw pointers and are deleted from callbacks at many
places: a client can go away in each state of its request, an upstream connection
can fail or be evicted while a batch of descriptors is being served, a timer can
fire for a connection that has changed hands. Released connections are deleted
only after the round (`reap()`). Wakeups are events in a queue that somebody has
to remember to add. At the pool's limit the subr queue spins in the event queue.
`stop()` races the start of the threads and their wait without timeout. The full
list, with lines and the properties that cover it, is under "hazards" in
PROJECT.json.

What makes each component correct:

* pool: a connection is owned once; the count is right; limits hold; nothing is
  deleted while referred to, or deleted twice;
* upstream and client sessions: no callback is ever handed something deleted; no
  connection is leaked or shared; a queued subr is going to be started, queued
  output to be written, every session and active request has a timer; a client
  whose upstream failed is not kept; timers alone clean everything up;
* threads: a stop is heard; totals never go back;
* event loop: events in time order, none lost, no wait that sleeps past one;
* connections: under edge-triggered polling no input, output or handshake is left
  with nothing to wake it;
* block queue: bytes come out once and in order, whatever the block boundaries;
* messages: offsets lead to the bytes the parser reported, however reads cut them;
* resolver: a query ends, a subr that waits has a job that is queued or active
  with its callback set, a cancelled one has none; cache: entries alive, owned once and fresh;
* router: a lookup finds what a linear scan of the routes would.

## 2. Modules

| Module | Models | Notes |
|---|---|---|
| `NconnPool` | `nconn_pool.cc`, `nlru.h` | also the abstract specification of the pool for `Proxy` |
| `NconnPoolProofs` | | theorems about `NconnPool` |
| `UpsSession` | `ups_session.cc`, `subr.cc`, `proxy_u` | the upstream actions, over `Pool == INSTANCE NconnPool` |
| `Proxy` | `session.cc`, accept, `proxy_h`, `evr_loop::run`, `t_run` | EXTENDS `UpsSession`; the whole specification of a thread, its fairness and its properties |
| `ProxyProofs` | | theorems about `Proxy`, on top of those about the pool |
| `SrvrThreads` | `srvr.cc`, `t_srvr.cc` | start, stop, join, statistics |
| `SrvrThreadsProofs` | | theorems about `SrvrThreads` |
| `EvrLoop` | `evr.cc`, `evr.h`, `evr_epoll::wait` | timer events with their times; the callbacks are any program |
| `EvrLoopProofs` | | theorems about `EvrLoop` |
| `ClntConn` | `session.cc`, `nconn_tcp.cc`, `nconn_tls.cc`, `evr_epoll.cc`, `file_h.cc` for one client connection | interest masks, edges, passes of the state machine |
| `ClntConnProofs` | | theorems about `ClntConn` |
| `NbqOps` | `nbq.cc` | the operations of a block queue, as operators |
| `Nbq` | the callers of the block queue | input, body and output queue; implements `ByteQueue` |
| `NbqProofs` | | theorems about `Nbq`, and lemmas about every operation of `NbqOps` |
| `ByteQueue` | | what a queue of bytes promises |
| `Hmsg` | `cb.cc`, `hmsg.cc`, and the read loops that call the parser | uses `NbqOps` |
| `Nresolver` | `nresolver.cc`, `subr::cancel`, the query engine of `ext/udns-0.4` | one thread's resolver context |
| `NresolverProofs` | | theorems about `Nresolver` |
| `AiCache` | `ai_cache.cc`, its use in `nresolver.cc` | threads share it |
| `AiCacheProofs` | | theorems about `AiCache` |
| `UrlRouter` | `url_router.cc` | RECURSIVE operators; checked by TLC only |
| `MCNconnPool`, `MCClntConn`, `MCHmsg`, `MCUrlRouter` | | model values, instances and symmetry |

Operators named in the code's style (`get_idle`, `subr_enqueue`, `teardown`) are
the functions of that name; capitalised ones are outcomes of a callback
(`UpsEof`, `WriteDoneKeep`) or ideas of the model. An operator marked "Mutant" is
a plausible bug in the definition that follows it; PROJECT.json says which
property it breaks.

### NconnPool

A connection is an address; `nconn` maps the live addresses to label and id, so
that deletion and reuse of an address are visible. The LRU list is a function
from id to connection: ids only grow, so list order is id order, and the indexes
of `nlru.h` are functions of it. `release()` is modelled as it is written: it
removes from the LRU whatever has the id that the connection carries, and that id
is 0 before the first parking. `m_reap_list` is a bag, to see double deletions.
Ids and counters keep their widths as `IdSpan` and `CountSpan`.

### UpsSession and Proxy

`subr` holds for each live request the subr, its `proxy_u` and its `ups_session`
in one record, since they are deleted together. `nc` is the part of an nconn that
the state machines use; `events` is the event queue without the cancelled ones;
`m_subr_list` has `NoReq` where a subr was cancelled; `jobs` are the lookups whose
callback is still set. `loop`, `running` and `polled` say where the thread is:
events are served in `"events"` and `"late"`, descriptors in `"fds"`; `subr_dequeue()`
is one action per turn of its loop, and `subr_start()` is two, since it touches the
pool and then the connection.

Every early return that leaves a different state is an action: `StartAgain`
(no connection), `StartLookup`, `StartLookupFails`, `StartSetupFails` (which leaves
the connection with a request that is not active), `StartTeardown`, `StartOk`; for
descriptors, end of file, errors, a full client queue, part of a response, a
complete one with the connection closed or kept. A connection that `add_idle()`
evicts is closed in the same step.

Abstractions, all of them adding behaviour and removing none unless noted:

* any registered descriptor may be reported, any number of times in a round; event
  masks and edge triggering are not kept;
* time is one bit: activity since the timer was armed. A timer may fire at once;
* responses, requests and their text are reduced to "some", "complete", "keep";
* a lookup is synchronous or asynchronous each time, as `set_dns_use_sync()` may change
  it while the server runs; a lookup job's callback may come at any time, or never;
* *left out:* pipelined requests (a second request before the answer to the first
  overwrites `session.m_u`, see hazards), subrequests through the API (`subr_u`),
  the TLS handshake, a failed submission in `lookup_async()` of a job queued
  earlier by another request, and the callback that `lookup_async()` makes itself when a
  query is over before it returns; the last two are in `Nresolver`.

Setting an option of a new connection (`SET_NCONN_OPT`) is not an outcome of its own:
`set_opt()` refuses only options it does not know, and knows all that are set.

### SrvrThreads

One action for each access to what threads share: the two steps of
`t_srvr::stop()`, the reset of `m_stopped` in the new thread, the test of the loop,
the wait. The control descriptor is edge-triggered and never read, so a write is an
edge that one wait reports. With `m_num_threads` 0 the caller of `run()` runs
`t_run()` itself; that is the instance with one thread and no join.

### EvrLoop

The queue is a set of addresses, `Tops` what `top()` may return (ties are in any
order), and `evr_event` maps live addresses to their records, so that deletion and
reuse are visible. `dequeue_events()` is one action per turn of its loop; callbacks
add and cancel events step by step, and time passes in between. `now` is the clock
`get_time_ms()` reads; it can be set. `timeout` is counted by the kernel and is not
affected by that. The timeout goes through the conversion of the code: 64 bits to
32, then to an int whose negative values wait for ever (`UintSpan`). The history
field `far` is the largest distance the clock has had from an event, which says
whether that conversion was ever lossy; `served` is the time of the last event
served. The check of an event's magic number, which never fails for an event that
`add_event()` made, is left out. The cached clock of `get_time_ms()` is at most 10
microseconds old, below the model's unit.

### ClntConn

One connection of a client: the socket (bytes received, room to send, end of file),
the descriptor's interest mask and the edge that is pending, the connection's state
with the handshake, the request being read, the response (`m_u`, `m_out_q`), the
writeable event, and where the loop is. A request is a sequence of pieces that
`recv()` returns together or not; a piece may be malformed, end a request, or ask for
"100 Continue". With TLS, `recv()` is of the SSL object: `ssl` says how many of the bytes
it has decrypted and not handed out, of which epoll knows nothing. `Wait`, `Dispatch` and `RunWriteable` are the loop; `mode` says in which
pass of `run_state_machine()` the thread is, and each turn of `state_top` is one action
(`ReadPart`, `ReadRqst`, `ReadBad`, `ReadAgain`, `ReadEof`, `WriteSome`, `WriteDone`, ...). A
call of `mod_fd()` replaces the mask and, as `EPOLL_CTL_MOD` does, reports again what
is ready. `Proxy` composes many sessions and leaves this out; `ClntConn` has this and one
session.

A file is read as often as `conf.reads` says. With `conf.faults` every read may fail or
find the file shorter than `fstat()` said, the first one included (`get_file_dry`,
`WriteReadFails`); `dry` is the history of a read after which nothing was queued. `late`
is 1 when a handshake ended in a WRITE pass.

What the connection is (`conf`: TLS or TCP, the handlers, a client that pipelines or
waits, file faults) is chosen in `Init` and kept, so that one run covers the kinds.

Facts about the code the module shows, and why some properties name a kind of
connection:

* `DoneOnce` fails for files longer than one read-ahead: `ups_read_ahead()` queues a
  writeable event during a WRITE pass, which is still there when the response is
  finished, and runs the done callback again. It fails as well for a proxied
  response that a poll event finishes while a writeable event is queued.
* With TLS, when `SSL_accept` completes in a WRITE pass, the pass goes on, finds neither
  output nor response, runs the done callback and closes the connection before any
  request. `DoneOnce` counts that call (`late`).
* With pipelining, `m_rqst->init()` after a response forgets a half-read next request,
  which is then answered 400; two requests in one `recv()` are merged; a blocked "100
  Continue" ends in a spurious done; and a second proxied request overwrites `m_u`.
* A read of a file that fails or finds nothing queues no writeable event. If it is the
  first one, the headers stay in `m_out_q`; if it is a later one, the response stays open.
  Either way only the idle timer ends it: `ResponseAdvances` and `NoLostInput` name it
  (`dry`). A failed handshake leaves its session to the idle timer too (`FailedClosed`).
* After a bad request the pass returns without reading on. If an upstream response is
  open then, what else the client sent waits until it ends, and bytes that the SSL object
  had decrypted are not reported again by `EPOLL_CTL_MOD`: they wait for the client's next
  bytes (`NoLostInput` names both).

No line of the repository promises otherwise for these, so they are stated as
properties of the connections for which they hold and listed under the hazards.
Time is not modelled: the idle timer may fire at any turn of the loop.

### NbqOps, Nbq, ByteQueue

A queue is its list of blocks with the cursors as positions in it, `End` being
`m_q.end()`. The bytes that enter, from a socket, a
file or a handler, are numbered in the order they come, in `Nbq` and in `ByteQueue` alike,
so that loss, repetition, reordering and garbling show, on the way in too. `Nbq`
has an input queue, the body that `split()` cuts from it, and an output queue, and
calls the operations as `session.cc`, `ups_session.cc`, `subr.cc`, `file_h.cc` and
`nconn.cc` do. `IsByteQueue` is the refinement: with the content and the position that
blocks and cursors stand for, every step is a step of `ByteQueue`. A body is
cut where `split()` is asked to cut it, unless a block starts there (`Late`): then it is cut
further on, and what is before the cut stays with the head. Nothing is lost by that from
the two together, but the body lacks its first block, against what `nbq.h` says
(`SplitAtOffset`, violated in `nbq_boundary`).

Not reached by the callers, and therefore not in the model: `join_ref()` onto a queue
with a spare empty block would leave the reader stuck; writing after `join_ref()` has no
block to write to; a second `split()` of one request would run off the list
(`reset_body_q()` prevents it).

### Hmsg

A message is numbered bytes with the places of URL, status, header names, values and
body, in one piece or in chunks. The parser reports the part of each that is in the
bytes of one read (`Reported`); the callbacks record offset and length (`Record`), and
`Copied` is what `copy_part()` then returns. There are three sides: a request
(`ReadRqst`), an answer read into a queue of its own, and a proxied answer, read into the
client's output queue, which `nc_write` drains and shrinks between reads. `ReadRqst` and
`ReadResp` differ as `session.cc` and `ups_session.cc` do in the pointer and the offset they
give the callbacks. `side` is chosen in `Init`; `cuts` is the history of where reads ended,
`gone` of how much of a proxied answer was freed.

What the code does with the harder messages, and what is claimed of them:

* `shrink()` lowers the offset that the next read starts from, and nobody corrects the
  offsets recorded before: they are off by what was freed since. `OffsetsExact` says just
  that. Nothing in `proxy_h` reads them.
* `hp_on_body()` runs for each chunk and adds up lengths, so that offset and length of a
  chunked body take in the chunk headers and miss the end. `BodyWhole` says where the
  first chunk is found and that the length is that of all chunks; the body is whole if it
  came in one piece.
* `hp_on_body()` takes a body at offset 0 for one that has not started. The body of a
  proxied answer can start there, once what came before has been drained; it is therefore
  not claimed to be whole, though each piece is recorded where it is.

Left out: a proxied answer that is queued behind bytes of an earlier, pipelined response.

### Nresolver and AiCache

`Nresolver`: jobs, the queue `m_job_q`, the jobs submitted `m_job_pq`, the queries of udns
with round, server, search list and due time, the timer, and the subr that waits for
each job. Datagrams are lost whenever nobody answers; a send may fail; an answer may
be an error, and then the next server is tried; a name may be refused
(`BadName`; `refused` and `failed` are the history of it). Time is kept as far as it decides something: what is due, and a job's age up
to its expiry. A callback made inside `lookup_async()` leaves a stale handle in the
subr, which is harmless because jobs are never deleted (`HandleSafe`). Putting the expiry
loop right on its own would delete jobs with active queries, since the retries take
longer than the expiry: that is the mutant `DeleteOld`.

`AiCache`: threads go in and out of the map with the mutex, or without it
(`lookup_inline`), and use the pointer they found after the unlock. A restart writes
and reads the file, a crash reads the one of an earlier run, and after a crash in the
middle of `sync()`, which truncates the file first, nothing is read (`CrashInSync`). An
entry that never expires (`m_expires_s` 0) is not made by any caller. Behaviour ends where
two threads are in the map at once, since nothing is known of what a data race on
a `std::map` does. With the cache switched off `dns_a4_cb()` leaks each `host_info`; that
is outside the module.

### UrlRouter

The tree is a value (nodes with data and a sequence of edges), a path a sequence of
characters; `insert_route` and `find_route` are recursive operators with the code's order
of edges. `runaway` records an insertion deeper than any that ends. `Confused` is the exception of
`FoundMatches`: pairs of routes that `pattern_diff()` takes to agree where they do not, because
at the first part in which they differ two parameters begin alike, or the text of one
is a prefix of the other's and is followed by a parameter that begins like what comes
next there. Parameter values and
the NUL-terminated reading of a route beyond its length are left out.

## 3. Runs

| Run | Instance | Checks | Shows |
|---|---|---|---|
| `pool` | 4 connections, 2 labels, limits 2 and 2, 4 parkings; 4,137 states | `TypeOK OneOwner LimitsHold OnlyFirstIdLost IdsMatch` | the pool is consistent under any sequence of calls, and the id-0 defect loses at most one connection |
| `pool_release` | the same | `ReleaseActiveKeepsIdle` (violated) | releasing a connection that was never parked drops another one from the LRU |
| `proxy` | 2 clients, 2 requests, 1 active and 1 idle connection, 1 parking, synchronous and asynchronous lookups, fairness; 308,688 states | `Ownership TimersArmed QueueWakes PoolSpec KeptOnlyIfWhole SilenceCleansUp KeepsPolling` | two clients compete for the only connection, with requests, lookups, timeouts and failures in any order; timers are enough to clean up, and the spinning queue does not hold up the loop for ever |
| `threads` | 2 threads, with and without the statistics timer, 2 requests each, fairness; 142,609 states | `StatsHonest StatsGrow StopWorks` | stop against a wait without timeout, totals read while threads publish |
| `evr` | 3 events, delays 0, 1 and 2, the last too far for the timeout (`UintSpan` 4), clock up to 2, set once each way, fairness; 598,515 states | `TypeOK QueueOwnsEvents ServedInOrder WakesInTime TimersFire` | timers whatever callbacks add and cancel; none starves |
| `clnt_conn` | TLS with "Expect", files that fail or are cut short and every handler, pipelining or not; TCP and TLS with whole responses; 3 requests in halves, fairness; 483,570 states | `NothingStalls NeverRefused DoneOnce NoOverwrite FailedClosed` | no mask leaves the connection with nothing to wake it, but for what the property names; a client that waits for answers is read right |
| `nbq` | blocks of 2 bytes, 6 bytes, splits inside blocks and between them; 149,009 states | `CursorsRight IsByteQueue` | the block queue implements a queue of bytes, with late cuts between blocks |
| `nbq_boundary` | the same, split between blocks only | `SplitAtOffset` (violated) | a split at the start of a block leaves that block with the head |
| `hmsg` | requests, answers and proxied answers of 8 to 18 bytes, whole and chunked, in blocks of 6, two on a connection; 252,298 states | `OffsetsExact MessageWhole` | where the offsets and strings of a message are right |
| `nresolver` | 2 jobs and 1 with a name that is refused, 1 slot, 1 server, 2 rounds, 2 domain names, fairness; 83,077 states | `PointersSafe ActiveBound WaitersServed TimerArmed QueriesEnd` | lookups with losses, refusals and cancellation |
| `ai_cache` | 2 threads, literal and name, restart, crash, crash in `sync()`; 426,955 states | `EntriesOwned FreshServed DeletedOnlyIfExpired OnlyInlineRaces` | the shared cache |
| `url_router` | 4 routes out of 19, all paths of up to 5 characters; 108,631 states | `FoundMatches AddedFound` | lookups return a matching route, whichever routes were added, if no two are `Confused`; routes in order are all found |

Some of these are conjunctions of parts that the modules state one by one:

| Property | Parts |
|---|---|
| `LimitsHold` (pool) | `ActiveCountExact TrackedBound` |
| `Ownership` (proxy) | `TypeOK NoDangling ConnOwnership` |
| `StopWorks` (threads) | `StopIsHeard StopJoins` |
| `NothingStalls` (clnt_conn) | `TypeOK NoLostInput ResponseAdvances HandshakeAdvances` |
| `CursorsRight` (nbq) | `TypeOK OffsetExact ReadProgress WriterAhead` |
| `MessageWhole` (hmsg) | `TypeOK BodyWhole StringsWhole` |
| `PointersSafe` (nresolver) | `TypeOK JobOutlivesQuery HandleSafe CancelRemoves` |
| `EntriesOwned` (ai_cache) | `TypeOK MapLive NoLeak` |

The bounds. Conflicts in `Proxy` are between two requests: for one connection, for
the one idle slot, in one queue, in one batch; two clients and two requests show
each of them. One active connection makes requests queue at the limit, and one
parking is enough for a connection to be parked and used again. That parking one
connection evicts another takes two parkings, and is not reached in `proxy`; it is in
`pool`, and the invariants of `Proxy` are theorems for every bound. `Conn` is large enough that an
address is always free when one is asked for (with one more the number of states
is the same). In `EvrLoop` three
events are the timer, the event being served and the one that its callback queues
for now, which is the least that can starve a timer; `MaxTime` leaves a timer time to
fall due after a jump of the clock. Symmetry is used in `pool` only. Deadlock is checked
except in `SrvrThreads`, where a server that has been stopped stops, and where a bound on
bytes, messages, time or routes ends the run (`Nbq`, `Hmsg`, `UrlRouter` and others).

In `ClntConn` six halves are three requests, each in one `recv()` or two or together with
the next; room for one write makes every response block. In `Nbq` six bytes in blocks of
two fill three blocks, so that a cursor can be before, in and after a middle
block; bodies start inside the first and the second block, and where the second starts. In `Hmsg`
a message spans up to three blocks and every string can be cut. In `Nresolver`
one slot makes the second job queue and the refused one wait before or behind it; two
rounds and two domain names give a retry and a new query. With one server there is no
skipping of servers: `dns_find_serv` is trivial there. In `AiCache` two threads and one name and one literal give every pair of accesses. In
`UrlRouter` four routes are the least that can lose one; with parameters they include the same
name and another one, at the same depth and at different depths.

`PoolSpec` is a refinement: `Proxy` implements the specification of `NconnPool`, so
that what is proved of the pool holds for the pool inside a thread. `IsByteQueue` is
one too: `Nbq` implements `ByteQueue`.

Fairness (`FairSpec`). In `Proxy`: callbacks return and the loop goes on (weak
fairness); the queue's own event and the sessions' idle timers are served (strong
fairness), since the event queue is ordered by time and one that is due comes before one
queued later. Nothing is assumed of the other events. `EvrLoop` shows what that strong fairness rests on: with weak fairness of
the thread and of the clock only, no timer starves. In `SrvrThreads`: threads are scheduled, and a wait that has something to
report returns. In `Nresolver`: time passes, the timer event is served
whenever it keeps falling due (strong fairness, as in `Proxy`), and the readable callback returns; datagrams may all be lost. In
`ClntConn`: the loop runs and the idle timer fires. Nothing is assumed of clients, upstream servers, the resolver, or
the callers of `stop()` and `get_stat()`.

`StopIsHeard` and `StopJoins` are stated for threads that are past the start of
`t_run()`. A `stop()` that comes earlier is undone by `m_stopped = false` in the
new thread; the model has that behaviour, and no line of the repository promises
otherwise.

### What the runs found

`pool_release` is a run that TLC must find violated: `nconn_pool::release()` on a
connection that was never parked removes the LRU entry with id 0, if there is one. The
connection that was parked there stays open and registered, and the pool has lost it.
`OnlyFirstIdLost` shows that this is the extent of it: one connection per thread.

`nbq_boundary` is another: `split()` at an offset where a block starts steps over that block,
which stays with the head (`nbq.cc:505`), while `nbq.h:54` promises "tail at offset". The body
of a proxied request that starts there is sent on without its first block. `IsByteQueue`
shows that nothing else goes wrong.

Other places where a property as one would first state it fails. Each is in the model
as it is in the code; the property checked says where the code is right.

| Code | What it does | Checked instead |
|---|---|---|
| `session.cc:617`, `:622` | the base of a request's offsets is the block's start and the offset of the read before; `ups_session.cc:682` has it right | `OffsetsExact` for requests of at most two reads in the first block |
| `cb.cc:54`, `:90` | of a url that a read cuts the last piece is kept; a header name or value cut by a read, or ended right at its end, becomes two entries | `StringsWhole` for strings no read cuts |
| `cb.cc:162` | offset and length of a chunked body take in chunk headers and miss the end | `BodyWhole`: the first chunk and the sum of the lengths |
| `nbq.cc:404`, `ups_session.cc:682` | what is recorded of a proxied answer is not corrected when the queue it is in is shrunk | `OffsetsExact`, less what was freed |
| `file_h.cc:220`, `:369`, `:383` | after a read of a file that fails or finds nothing no event is queued: headers or an open response wait for the idle timer | `ResponseAdvances` and `NoLostInput` with such reads excepted (`dry`) |
| `session.cc:635` | after a bad request, bytes that the SSL object has decrypted are read only when the client sends more | `NoLostInput`: only after a bad request |
| `nresolver.cc:641`, `:788` | the timer event that ends the last query submits nothing, and queued jobs wait for the next asker | `WaitersServed`: the job is still queued |
| `nresolver.cc:620` | a refused name returns before the timer is armed, and before the asker's `m_state` is set, so that `subr::cancel()` leaves its job a callback to a deleted subr | `TimerArmed`, `CancelRemoves` and `QueriesEnd` while calls do not fail |
| `nresolver.cc:647` | the expiry loop runs on an empty queue only: no job is ever deleted | `JobOutlivesQuery`, `HandleSafe` |
| `url_router.cc:914` | `find_longest_common_prefix()` returns the length for the last edge: "/a", "/b", "/a" is accepted (`tests/whitebox/url_router/wb_url_router.cc` expects a refusal), and "/aa", "/b", "/a", "/ab" loses a route | `AddedFound` for routes in the order of a dictionary |
| `url_router.cc:175`, `:188` | names of parameters are compared with text and with each other by their first letters, and a text that is a prefix of another's is taken for the same: "/&lt;aa&gt;", "/&lt;ab&gt;" recurses without end, "/&lt;aa&gt;", "/a/b" mixes two routes up, and after "/b/&lt;a&gt;", "/&lt;a&gt;" the path "/b/x" leads to "/&lt;a&gt;", which it does not match | `FoundMatches` with such pairs excepted (`Confused`) |

## 4. Proofs

Every theorem is about the specification that the runs check, and holds for every
value of the constants that satisfies the named assumption. TLC evaluates the
assumptions on every run.

| Module | Theorem | States | Inductive with |
|---|---|---|---|
| `NconnPoolProofs` | `TypeCorrect` | `[]TypeOK` | itself |
| | `PoolOwnership`, `PoolIds` | `[](OneOwner /\ IdsMatch)`, `[]IdsMatch` | `TypeOK` |
| | `PoolLimits` | `[]LimitsHold` | `OneOwner`, `IdsMatch`, and that the active connections are finitely many |
| | `PoolLosesOne` | `[]OnlyFirstIdLost` | the same, and that nothing is lost before the first id is given out |
| `EvrLoopProofs` | `EventOwnership`, `EventTypes` | `[](TypeOK /\ QueueOwnsEvents)`, `[]TypeOK` | each other |
| | `CallbackOrder` | `[]ServedInOrder` | `served <= now` |
| | `WakeUp` | `[]WakesInTime` | `FarBounds` |
| `SrvrThreadsProofs` | `TotalsHonest`, `TotalsGrow` | `[]StatsHonest`, `StatsGrow` | `StatsInv` |
| | `NoMissedStop` | `[]StopNotMissed` | types |
| `NbqProofs` | `Cursors` | `[]CursorsRight` | `Inv`: `Good`, `Full` and `Usable` queues |
| | `ByteQueues` | `IsByteQueue`: the blocks implement `ByteQueue` | `Inv` |
| `AiCacheProofs` | `CacheOwnership`, `Freshness`, `LateUse`, `Races` | `[]EntriesOwned`, `[]FreshServed`, `[]DeletedOnlyIfExpired`, `[]OnlyInlineRaces` | `IInv` |
| `NresolverProofs` | `LookupPointers`, `LookupBound`, `LookupServes`, `LookupTimer` | `[]PointersSafe`, `[]ActiveBound`, `[]WaitersServed`, `[]TimerArmed` | `IInv` |
| `ClntConnProofs` | `ConnAdvances`, `ConnNeverRefused`, `ConnDoneOnce`, `ConnKeepsResponse` | `[]NothingStalls`, `[]NeverRefused`, `[]DoneOnce`, `NoOverwrite` | `IInv` |
| `ProxyProofs` | `ProxyOwnership`, `ProxyTimers`, `ProxyQueue` | `[]Ownership`, `[]TimersArmed`, `[]QueueWakes` | `Inv` |
| | `ProxyUsesPool` | `PoolSpec`: the thread implements `NconnPool` | `Inv` |
| | `ProxyLimits` | `Pool!LimitsHold` in the thread | `PoolLimits` and `ProxyUsesPool` |
| | `ProxyKeepsWhole` | `KeptOnlyIfWhole` | `Inv` |
| | `ProxyIdsFit` | `[]Pool!IdsFit` where `MaxInserts <= IdSpan` | `Inv` and `m_next_id <= MaxInserts` |

**The pool** (`PoolAssumption`: limits are naturals, and the counter's range is larger
than the two limits together, as 2^64 is). `OneOwner` alone is not inductive:
`release()` removes an entry of the LRU by the id that the connection carries, so
that it removes the right entry, or a lost one, only because of the link between ids
and entries. `IdsMatch` states that link: an idle connection carries the id it is
filed under, and no other open connection carries an id that is in the LRU, unless it
is 0. The two together with `TypeOK` are inductive, one lemma per operation. All are
guarded by `IdsFit`: after 2^32 parkings ids are truncated and the link is gone. On
top of them `Limits` carries the counter through every operation as a cardinality,
and `FirstLost` shows that only the entry filed under id 0 is ever lost.

**The event loop** (`EvrAssumption`: the delays are naturals and the width is at least
two values). An event that is cancelled or served is live because the queue owns it.
For the order of callbacks, `served <= now`, so that an event added now is not before
one that was served. For the wait, two facts: no callback runs while the thread
waits, so nothing is added behind the timeout's back; and `FarBounds`, the clock is
never further from an event than `far` says. From these the timeout for the top of
the queue survives the conversion whenever that of any queued event does. All use one
lemma, `KeepsTimesStep`: no operation changes the time of a queued event.

**Threads** (`ThreadsAssumption`: there is a thread). `get_stat()` adds up copies that
were published at different times. `StatsInv` says that what it returned last, and
what it has added so far, are sums of one value per thread, each no more than that
thread has counted and, thread by thread, the new no less than the last (`ReadBy`).
That sums keep such an order is shown by induction along the list of threads
(`SetInduction`). `StopNotMissed` is the safety half of `StopWorks`: a thread
that waits with its stop flag set has an edge pending, or the stopper's next step makes
one.

**The block queue** (`BSizeAssumption`, `OffsetsAssumption`: a block holds a byte or more, and the
bounds are naturals). `CursorsRight` says what is seen between two calls, and is not inductive:
`Good` adds how the numbers hang together. The blocks have no gap (`Contig`: no empty block
before one with bytes), what is before the read cursor has been read and nothing after
it has, and `avail` is what was written less the place of the cursor (`Reader`). `Contig` matters because `b_read_incr()`
moves on by one block only, and would stop at an empty one. `Full` says that a queue that can be
written to owns its blocks and that they are full up to the write cursor: the second half
of `WriterAhead`, and why a block at the front that is read can be freed. Each operation has a lemma that says
what it leaves of the queue and of its bytes (`WriteIs`, `WriteFdIs`, `WriteQIs`, `ReadIs`,
`ReadFromIs`, `SplitHeadIs`, `SplitTailIs`, `JoinRefIs`, `ShrinkIs`, `ResetWriteIs`). The loops
are recursive functions of the number of rounds; a round that is not the last moves a byte or more,
so that there are enough of them (`LoopEnds`), and what a round keeps, the loop keeps. `ByteQueues`
holds wherever a body starts: the lemmas about `split()` cover the cut between two
blocks, which is the step of `ByteQueue` with a late place.

**The address cache** (`AiCacheAssumption`). `IInv` adds to the properties who has what in
hand: a thread between finding and using an entry (`Hands`), at most one holder of the
mutex, entries numbered in order of allocation. An entry in hand can be deleted by
others only after it has expired, which is what `LateUse` says. `Races` turns "at most
one holder" into a statement about how many threads are in the map.

**The resolver** (`NresolverAssumption`). `IInv` has one part per job, `JobInv(j)`: where it is
(queued, active, ended), whether it still has its callback, and what its asker was
told, together with the bound on the queries, the timer, and the range of round,
server and search list of a query. Jobs do not meet except through the bound and the
timer, so that a step is checked for the job it is about and for all others at once.

**The client's connection** (`ConfigAssumption`). `NothingStalls` looks at quiet states only, and
says nothing of how they come about. `IInv` says for every state who knows of what is
left to do: input that the mask covers is known to epoll, or harvested, or being read
(`InputKnown`), and the SSL object holds bytes only during a READ pass or after a bad request; an open handshake has the mask its next step needs (`HandshakeArmed`); output
with no writeable event has the WRITE bit and an edge to come (`OutputArmed`). For clients
that wait, `RqstInv` lists what the socket and the parser can hold, which is never more
than one request, and only while no response is under way (`AtRest`); `HalfKept` is why a
half-read request is not forgotten by the end of the response before it: a writeable
event is not queued then, and the mask has no WRITE bit. That last part needs the
client of "100 Continue" to leave room for the interim answer, which it does by having
received the last response whole. `DoneOnce` is a matter of counting (`Logged`): each
request or error pays for one writeable event, and an event, a WRITE pass or the WRITE
bit is spent by the done callback; a handshake that ends in a WRITE pass has not been paid for.

**The proxying thread** (`ProxyAssumption`: the pool's assumption, and null pointers are
addresses of nothing). The theorems have the hypothesis `[]Pool!IdsFit`, without which
the pool hands out connections twice (see the pool above); `ProxyIdsFit` shows that it is met by
every thread that parks no more connections than there are ids. `ProxyKeepsWhole` rests on a
strengthening of its own: a `proxy_u` that is done has its shutdown flag or a complete answer. `Inv` states every link of
the heap from both ends, because a callback follows it from one end and a destructor
cuts it at the other: sessions and their events (`Clients`), sessions and requests
(`Links`), requests and connections (`Conns`), requests and their timers (`UpsTimers`),
requests and their slots in the list (`Queue`). `Ownership` says only that what is reached
is alive, and would not survive `teardown()`, which finds the timer to cancel through a
flag: `UpsTimers` says that the flag is right, and that the timer has the connection the
request has *now*, so that a timer that outlived its connection cannot end the
request that uses it next. `Requests` says what a request's state tells of it: a request
that is done is in no list and no lookup, which is why `WRITE` may delete it without
`cancel()`; one that is active has a connection that is registered; and the one
`subr_start()` is working on is not done. `PoolOK` is the pool's own invariant,
taken from `NconnPoolProofs` through an instance; each callback needs of the pool only what
its operation does to the active connections (`PoolRelease`, `PoolAddIdle`, `PoolGetIdle`,
`PoolGetNew`, `PoolReap`). `ProxyUsesPool` needs `Inv` too: `release()` is specified for open
connections only, and that a torn down request still has one is `Conns`.
The attempt to prove `UpsCompleteKeep` showed one thing about the model: with `MaxIdle = 0`,
`add_idle()` evicts the connection it was given, and `IdleData` had two arms of a `CASE` that
applied. It now says which comes first, as in the code: the pool's cleanup resets
the connection after its `m_data` was cleared.

Only model-checked, and why:

* everything temporal beyond invariants and action properties (`TimersFire`, `StopWorks`,
  `QueriesEnd`, `FailedClosed`, `SilenceCleansUp`, `KeepsPolling`): liveness under
  fairness is outside what TLAPS proves;
* `UrlRouter`, whose search and insertion are RECURSIVE operators over a tree;
* `Hmsg`, whose parser is a fold over the elements of any message: what it records is an
  induction over that list. The queue it stores into is covered by the lemmas about `NbqOps`.

## 5. Not modelled

* Parsing and formatting of JSON, URIs and queries, the text of responses (`uri.cc`,
  `rqst.cc`, `resp.cc`, `api_resp.cc`), MIME types, the statistics report.
* Thin wrappers (`time_util.cc`, `tls_util.cc`, `os.cc`), TLS options, certificate checks
  and ALPN, the select and kqueue back ends of the event loop.
* Subrequests through the API (`subr_u`); the connecting side of TLS as more than an
  outcome; `destroy_async()`, which runs after the thread has ended.
* Vendored code, except the query engine of udns and the calls of http_parser. It is
  by far the larger part of the repository: nghttp2, the test framework
  catch, http_parser and the rest of udns, none of which is is2's own logic.
  The modules stand for about a quarter of the lines of `src/src` and `include`, and for
  8% of the repository's code with the vendored libraries counted in.

## 6. Plan

Done: `NconnPool`, `EvrLoop`, `SrvrThreads`, `ClntConn`, `Nresolver`, `AiCache`, `UpsSession` and
`Proxy` with their theorems; `Nbq` with its refinement, proved as well as checked; `Hmsg`;
`UrlRouter`.

Theorems to follow: the safety part of the liveness properties, where it says more than
the invariants do, as `StopNotMissed` does for `StopWorks`; `OffsetsExact` of `Hmsg`, on top of the
lemmas about the blocks; facts about the lookups of `UrlRouter` that do not go through recursion.

Models to follow: the upstream connection's interest mask and TLS connect, as
`ClntConn` has for the client's; `subr_u`; `Nresolver`'s jobs in place of the abstract
ones in `Proxy`.
