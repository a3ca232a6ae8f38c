# RProxy in TLA+

RProxy is a multi-threaded HTTP reverse proxy in C: GLib objects, libevent and
libevhtp underneath, and above them a design taken over from Envoy, with
dispatchers, thread local slots, a cluster manager, connection pools, filter
chains and a router. This directory holds TLA+ models of its core, the TLC
configurations that check them on small instances, and TLAPS proofs of the
results that hold for instances of every size.

`PROJECT.json` gives for every definition the lines of the source it models,
lists the runs, the mutants that show that each property can fail, the hazards
and the findings.

## The system

| Part | State | Operations | Interacts by |
|---|---|---|---|
| Dispatcher (`event/`) | post list under a mutex, two double-buffered deferred lists, three schedulable callbacks | post (any thread); deferred delete, deferred destroy, clear, run, exit, shutdown (loop thread) | libevent; calls every other part back |
| Schedulable callback (`event/`) | `m_enabled`, an eventfd, a libevent event | schedule for this or the next iteration, cancel | written by posters, run by the loop |
| Thread local storage (`thread_local/`) | registered dispatchers, slots, one array of objects per thread | register, allocate, set, run on all threads (with a completion), shut down | posts to every dispatcher |
| Life cycle (`rproxy.c`, `server/`) | counters and two conditions of the start-up barrier, thread pools | worker init and exit, initialization, main loop, termination | barrier; posts |
| Connection pool (`common/conn_pool`, `http1/`, `tcp/`) | clients in lists by state, pending streams, capacity counters | new stream, cancel, connection events, stream end, drain, destruct | router above, network connections below, deferred deletion |
| Cluster manager (`upstream/`) | active and warming clusters, the initialization helper's lists; per worker cluster entries and pool maps | add or update, initialize, thread local updates | slots; posts; pools |
| Hosts, priorities, load balancers (`upstream/`, `upstream.c`) | host vectors and maps, round robin positions | update, choose | read and written by all workers without a lock |
| Clusters (`clusters/`, `dynamic_forward_proxy/`) | resolve targets, timers | resolve, update hosts, make sub-clusters | DNS callbacks; cluster manager |
| DNS resolver (`network/dns_resolver/`) | pending resolutions | resolve, cancel, answers | evdns callbacks |
| Network connection (`rp-net-*`, `network/`) | buffers, read disable count, close state, filter chains | read, write, close, read disable | socket events; codec |
| HTTP/1 codec (`http1/`) | parser, active request or response | dispatch, encode, reset | connection manager; codec client |
| HTTP connection manager, filter manager (`rp-http-conn-*`, `rp-filter-manager.c`) | active streams, filter iteration state | headers, data, trailers in both directions, local replies, end, reset | codec; filters; router |
| Router (`router/`) | upstream request, timeouts, retry state | decode, upstream events, reset | pools; filter manager |
| Configuration, rules, virtual hosts, logging, TLS | records made at start-up | parse | read only afterwards |

One main thread builds the configuration and the clusters; worker threads
accept connections and serve them. A worker's objects are used by its own
thread only. Threads meet in few places: a dispatcher's post list, the
schedulable callback behind it, the start-up barrier, the map of sub-clusters
(under a lock) and the load balancers (without one). Everything else that
is hard happens within one thread: callbacks that re-enter the object that made
them, and deletions that are deferred to the loop because the object is still
on the stack.

What makes each part correct, and hard to test:

- Dispatcher: no posted callback and no deferred object is forgotten, whatever
  the order of posts, wakeups and callbacks; none is run twice; order is kept.
- Thread local storage: the completion of an update comes after all threads
  are done, though threads register meanwhile; workers see updates in one order.
- Life cycle: barrier and shutdown do not wait for ever.
- Connection pool: lists, states and counters agree after every order of
  connects, closes, resets, cancels and drains; a request that waits is served,
  failed or cancelled; nothing outlives the pool.
- Filter manager: every filter gets the request in order, once, and after the
  filters in front of it, whatever stops, holds and continues it; an aborted
  request reaches no filter any more.
- Network connection: a peer that has gone is noticed, data that was kept back
  is dispatched, nothing is delivered after the end, though users close, write
  and disable reads from inside the callbacks.
- Connection manager and codec: requests are kept apart and answered in order,
  however they are cut into reads, and every stream ends once, whichever of
  response, reset and close comes first. (Two pipelined requests in one read are
  not kept apart, see the deviations.)
- Router: one response per request and a request forwarded whole, whatever the
  order of the pool's answer, the upstream's and the downstream's end.
- Clusters: a request that waits for a cluster is woken, main thread and workers
  agree on the clusters, and DNS answers reach all who wait for them.
- Host selection: shared positions and vectors without a lock lead to a host.
- Messages: the peer finds the end of every message where it was sent.

## Modules

| Module | Models | Checked by |
|---|---|---|
| `Mailbox` | abstract: a FIFO whose elements are put once, taken once, until it is closed | refined by `Dispatcher` |
| `SchedulableCallback` | `event/rp-schedulable-cb-impl.c` and the libevent event behind it | with `Dispatcher` |
| `Dispatcher` | `event/rp-dispatcher-impl.c` | `DispatcherSafety`, `DispatcherLiveness`, proofs |
| `DispatcherProofs` | theorems about `Dispatcher`, its refinement of `Mailbox` among them | TLAPS |
| `ThreadLocal` | `thread_local/`, the start-up and shutdown of `rproxy.c` and `server/` | `ThreadLocal`, proofs |
| `ThreadLocalProofs`, `NetConnectionProofs`, `RouterProofs`, `ClustersProofs`, `ConnPoolProofs`, `HttpServerProofs`, `MessageFramingProofs` | theorems about the modules they are named after, `RouterProofs` also about `HostSelection` | TLAPS |
| `ConnPool` | `common/conn_pool/`, `http1/rp-http1-conn-pool.c`, `http1/rp-active-client-stream-wrapper.c` | `ConnPool`, `ConnPoolPending`, proofs |
| `FilterBase` | `rp-active-stream-filter-base.c`: what both halves of the filter manager share | with the chains |
| `DecoderFilterChain` | the request half of `rp-filter-manager.c`, `rp-active-stream-decoder-filter.c`; local replies as far as they end a request | `FilterChains`, `DecoderFilterChainHolders` |
| `EncoderFilterChain` | the response half, `rp-active-stream-encoder-filter.c`, local replies, the body filters' own buffers | `FilterChains` |
| `MCDecoderFilterChain`, `MCFilterChains` | the chains the runs use; either half in one run | |
| `NetConnection` | `rp-net-conn-impl*.c`, `rp-net-client-conn-impl.c`, `rp-net-filter-mgr-impl.c`, `network/rp-raw-buffer-socket.c`, `network/rp-io-bev-socket-handle-impl.c` | `NetConnection`, proofs |
| `HttpServer`, `MCHttpServer` | `http1/rp-http1-connection-impl.c`, `http1/rp-http1-server-connection-impl.c`, the response encoder, `rp-http-conn-manager-impl.c`, `rp-http-conn-mgr-impl-active-stream.c` | `HttpServer`, proofs |
| `MessageFraming`, `MCMessageFraming` | framing in `http1/`, header changes of the connection manager, the decompressor and URL rewriting filters | `MessageFraming` |
| `Router` | `router/`, the generic pools and upstreams of `upstream/`, the client codec's pending response | `Router`, proofs |
| `HostSelection` | `upstream.c`, the load balancers of the static and strict DNS clusters, the host set's vectors | `Router`, proofs |
| `MCRouter` | either of the two in one run | |
| `Clusters`, `MCClusters` | `upstream/rp-cluster-manager*.c`, `clusters/strict_dns/`, `dynamic_forward_proxy/`, `rp-dynamic-forward-proxy.c`, `network/dns_resolver/` | `Clusters`, proofs |

How they stand to each other: a module takes its neighbours as the environment
that their own modules establish. `ThreadLocal` and `Clusters` have FIFO queues
where `Dispatcher` proves that posts are delivered once and in order.
`HttpServer` sees of its connection what `NetConnection` does to a user;
`DecoderFilterChain` and `EncoderFilterChain` are the application that
`HttpServer` calls; the router is the terminal filter of the first and the
source of the second. `Router` takes from `ConnPool` that a stream is attached or
failed once, and from `HostSelection` the host, or its absence (`nohost`).

### SchedulableCallback and Dispatcher

`m_enabled`, the eventfd's counter and the state of the raw libevent event
(`"idle"`, `"pending"` after `event_add` with a zero timeout, `"active"` after
`event_active`) are functions of the three callbacks (post, delete, destroy).
`post_i` is four steps, because only its first is under the mutex: append and
remember whether the list was empty (`Post`), test `m_enabled` (`PostCheck`),
set it (`PostSet`), write the eventfd (`PostWrite`). The loop thread's program
counter `loop` says where in `event_base_loop`, `run_post_callbacks` or
`timer_cb` it is; clears of the two deferred lists can be on top of it.
Wherever the C code calls out to the rest of the proxy (a posted callback, a
dispose, a socket handler) the model allows any sequence of posts, deferrals
and clears (`InBody`). `executed` and `disposed` are history variables.

Two posts that both see the flag clear write 1 twice, which is read as 2 and
schedules the next iteration instead of the current one: the model keeps the
counter as a number for that reason.

### ThreadLocal

One slot, the cluster manager's. The main thread's steps are those of
`rproxy_init`: `rp_slot_set` walks the registered threads and posts, then
updates may run, and only then the main thread waits at the barrier; workers
register at any moment. The list is walked without a lock, and an update walks
it twice: once to count references for the guard, once to post it. The message
queues are the dispatchers, with the guarantee that `Dispatcher` establishes
(every post is delivered, in order). A callback on a guard that is gone or a
slot without an object is undefined behaviour and is modelled by its possible
outcomes (`GuardCbUndefined`): the process crashes, or nothing shows, or the
memory belongs to another guard.

A worker that registers after the slot was set (`late`), or while a guard is
being posted (`Raced`), is a real possibility in the code: the properties state
what holds for the others. The start-up code makes it unlikely, not impossible,
since the barrier comes after the initialization of the cluster manager.

### ConnPool

One pool of one host on one worker. All runs on the worker's thread, so an
action is one entry into the pool, run to its end, with all the pool operations
it calls: these are operators from pool to pool, and the pool is one record.
A client identifier is free for reuse once its deferred deletion is done.
`deferred` is the dispatcher's deferred delete list, as far as it concerns the
pool. Numbers are modelled as they are used: the capacity is signed, the sum of
`should_connect` unsigned, on 16 bits instead of 64.

All four limits of the resource manager are the same counter
(`rp-resource-manager-impl.c`), and it counts up for every pending stream and
never down again. The program's limit is so high that this never shows
(`cluster-info-impl.c` passes the largest unsigned number); the run uses
a small one so that the overflow paths are taken too.

### DecoderFilterChain

One request through one chain. The code iterates by nested calls: a data
callback can continue its filter, which calls `decode_headers`, `decode_data`
and `decode_trailers` for the filters behind while the first loop is still on
the C stack. `stack` holds these calls, innermost last, and an action is one
round of the innermost loop: the filter's callback with the status it returns
and what `common_handle_after_*_callback` makes of it. `common_continue` is four
steps between its calls. `base` is the state of `RpActiveStreamFilterBase`,
`buffered` the one `m_buffered_request_data` of the stream. `saw` and `absorbed`
record what the callbacks were given. A frame names its evbuffer (the codec's or
the stream's), as `common_handle_buffer_data` compares the two.

What a filter returns is a parameter. `WaitingChain` has filters that stop
everything until an event, as the dynamic forward proxy does, in front of the
router. `BodyChain` has a filter that uses every single-stop status of the
interface, a pass-through filter and the router. `UpstreamChain` ends in the
upstream codec filter, which stops everything until there is a connection; its
local replies abort the chain (`rp-upstream-filter-manager.c`), where those of a
downstream chain also mark it complete, since `rp_filter_manager_maybe_end_encode_`
calls `maybe_end_decode`. Half-close is off, as it is in both kinds of chain.

The HTTP/1 codec delivers no trailers today
(`rp_http1_connection_impl_enable_trailers` returns false); the filter manager
handles them, so they are modelled, under `EnableTrailers`.

A chain with a filter that stops everything in front of one that stops single
callbacks does not have these properties when there are trailers:
`common_continue` of the later filter delivers them while the earlier one still
waits. No such chain is configured in the repository.

### EncoderFilterChain

The response half has the same nested iteration, with `FilterBase` for what the
halves share, and these differences, all of them in the code: behind the last
filter stands the codec, whose call may reset the stream; an aborted chain turns
the status of a filter into a stop instead of ending the iteration;
`can_continue` asks only whether the chain is complete; and the decompressor and
the URL rewriter keep pieces of the body in buffers of their own (`kept`) and
give them back with a later piece. The chains of the run have the repository's
filters (pass-through, rewriting, decompressing) and three that an embedding
program may install: one that replies locally, one that waits with the headers,
one that has the filter manager buffer. Response trailers are left out: no
codec delivers any.

### NetConnection

One connection, of a client (upstream) or a server (downstream), on its worker's
loop. An action is one call into it, from libevent or from a user. Where it
calls a user back (`on_data`, `on_event` of each connection callback) the rest
of the call is a frame of `stack`, and the user may write, close, disable reads
and so on before it returns. The bufferevent is `open`, `flushing` (closed with
output left: it still counts as open for every guard) or `freed`; the
activation callback, through which the handle injects events into itself, has
`m_enabled`, eventfd and event as in `SchedulableCallback`, with `cancel`. Bytes
are counted in units. `g_assert` is compiled in, so a failed one ends the
process: `abort` names it. `errno` is the thread's and may be left over from
another socket (`OtherSocket`), as the read path looks at it without a failing
call before.

Who disables reads differs by role. Pool and upstream do it to a client's
connection at any time (`SetReadDisable`). The server codec does it to an accepted
one, from inside `on_data` (`DispatchDisables`), and only the dispose of the response
encoder undoes it (`DisposeEncoder`), with the loop described below, which no
connection survives. `revived` records that `read_disable` gave a flushing handle its
callbacks back, or left a read scheduled that a close does not take back.

### HttpServer

One downstream connection from bytes to streams: the client sends requests of
five kinds (without a body, with `connection: close`, with a body, malformed,
without a host), pipelined or one by one. A request is one token or three
(headers, body, end); a read is a slice of any number of consecutive tokens, of
several requests if the client pipelines (`spans`). The parser's pause is a flag
that is read when a slice begins, so within a slice a request may begin while
`m_active_request` has another one (`TakesPlace`); `overrun` records it, and the
model follows what the code then does. The filter chain is an application that answers, replies locally or
resets, from inside a decoding call or later. Objects (`ActiveRequest`, active
stream) are `live`, `deferred` or `freed`. `busy` separates the behaviours in
which a client pipelines and the application answers early or locally: some
properties hold for the others only, see the deviations. `Scripts` are the kinds of
requests a client may send one after the other; the run takes all for the first two
and a request without a body as the third.

### MessageFraming

A function of one message more than a state machine: what the sender sent
(method, status, length, chunks, upgrade, compression, the pieces it comes in),
the rule that routes it, and what is written. `PeerReads` is the reference: what
RFC 7230 lets the peer read from the framing headers. `FramingAgrees` is an
equivalence, so that it also pins down exactly which messages the peer cannot
delimit. A response whose headers the codec takes for those of a message without a
body (HEAD, 204, 304, or without a length) is deferred until the parser
completes the message, which it does only if no body is declared (`AwaitsBody`);
100, 102 and 103 end the process (`Decode1xxHeaders`). A body is a sequence of letters, with a URL of two letters that a
piece may end within; a compressed one is a sequence of symbols that inflate to
more than one letter, closed by the symbol that ends it or, if it is incomplete,
not closed.

### Router

One request, or one CONNECT tunnel, from the downstream chain to the upstream
connection and back. The calls between router filter, upstream request, codec
filter, bridge, generic pool and upstream are synchronous, so an action is one
event of the loop and the functions are operators from state to state.
Sequences of pieces (headers, body, end) record what was given, held, sent and
answered. The pool may attach at once, later or never; upstream and downstream
may end or vanish between any two events, and the upstream may send a 1xx response.

### HostSelection

Each worker has a cluster entry of its own but `lb_create_fn` gives all of them
the main thread's cluster as load balancer: the round robin position, a plain
integer or list pointer, and the vector of hosts are shared without a lock.
Their reads and writes are steps of their own. The main thread replaces the
vector by clearing the pointer and setting it (`rp-host-set-impl.c:356`). The
initial vector is freed by that, so a worker that holds it may read freed memory
(`crashed`); later vectors have one reference too many and are never freed. An
endpoint has one address, and is resolved once: resolving again is a TODO.

### Clusters

The main thread (cluster manager, init helper, strict DNS clusters, resolver)
and the workers (dynamic forward proxy filter, thread local clusters). A worker
enters a sub-cluster into the map shared by the workers and then posts it to the
main thread, in two steps (`posting`). The main thread adds it, resolves its
endpoints, and posts the cluster to every worker, where waiting requests go on.
Queries for the same name are joined, and try the two families one after the
other.

## Runs

| Run | Bounds | States | Shows |
|---|---|---|---|
| `DispatcherSafety` | 2 posters and the loop, 3 callbacks, 2 objects | 789 303 | no lost wakeup or stranded object; refinement of `Mailbox` by the post queue and the deferred lists |
| `DispatcherLiveness` | 2 posters, 2 callbacks, 1 object | 9 008 | delivery |
| `ThreadLocal` | 2 workers, 2 updates | 103 159 | completions come last and once, slots are defined and agree; updates complete, the barrier opens, shutdown ends |
| `ConnPool` | 3 streams, 3 clients, 2 requests per connection, limit 3, both policies | 217 801 | lists, states, counters and deferred deletions agree; each stream one outcome; draining ends |
| `FilterChains` | 3 decoder or 2 encoder filters, 3 chunks, request trailers, every chain | 17 177 | order, no bypass, nothing lost, silence after an abort, no assertion fails, messages are delivered |
| `NetConnection` | both roles, 2 callbacks, 4 user operations, 2 units | 317 737 | writes reach the socket, no data after the close but by the user's own doing, silence after the end, a lost peer is noticed, kept data is dispatched |
| `HttpServer` | 3 requests, two of any of 5 kinds, in reads of every size | 268 200 | responses in order, reads keep requests apart, streams and draining connections end, requests are served |
| `MessageFraming` | 5 plain and 3 compressed bodies of up to 3 letters, cut in every way, all framings and rules, interim responses | 13 310 | the peer finds the end; bodies are delivered inflated and rewritten; which responses are never sent |
| `Router` | HTTP and CONNECT, 2 pieces each way, 4 kinds of targets; 2 workers, 3 hosts, 6 methods | 9 383 | one well formed response, the request whole and in order, nothing dangles, an answer in the end; a host is found and every host serves |
| `Clusters` | 2 workers, 1 configured and 1 sub-cluster that share a name, 2 requests | 87 928 | waiting requests have their wakeup on its way and go on; views agree |
| `ConnPoolPending` | 2 streams, 4 clients | | **violated**, see findings |
| `DecoderFilterChainHolders` | 3 filters, 3 chunks, both filters hold data | | **violated**, see findings |

Bounds. Two posters are enough for every race in `post_i`: its steps test and
set one flag, and a third poster can only find what the second did. Three
callbacks let one be posted by a callback while another is being stolen and a
third waits. Two objects let the dispose of one defer the other. Two workers
let one register between the two walks while the other is counted. A client
serves at most two requests, so that it is reused once and drained by its
lifetime limit; three streams against three clients let one connect, one serve
and one await deletion. A step that would need a fourth client at the
same time is not taken (`Enter`). Three filters are one that stops, one behind it
and the terminal one, which is treated apart by the code; three chunks let one be
buffered, one arrive on top of it and one come after the filter continued. In
the response the codec is a stage of its own, so two filters are enough for the
same cases. Two connection callbacks let one close under the other, and four
user operations disable, enable, write and close. Three requests let a third be
buffered while the second waits for the first, or follow two that shared a read;
a slice holds up to all tokens of all requests (`MaxSlice`); read disable counts saturate at
`MaxDisable`, beyond what the code's pairs reach. Two pieces of body let one be
held and one follow the connection. Three hosts let a position be past the end
of a vector of two. Two clusters that share a host name let a query be joined
by the other cluster, and the second endpoint lets a cluster be initialised by
one answer and updated by another.

`CHECK_DEADLOCK FALSE` stands where the system stops by design: a dispatcher
after its shutdown, a process that has exited, a pool that was disposed of, a
request or connection that is over, all names resolved.

Fairness. Dispatcher: a thread inside `post_i` goes on, the loop finishes what
it has begun, and libevent visits every pending event in each iteration.
ThreadLocal: the same for every thread, with delivery of posts as
`DispatcherLiveness` shows it, and a worker whose pool is being stopped leaves
its loop in the end; nobody has to terminate the server. ConnPool: a connect
succeeds or fails in the end, a stream ends or is reset (the router's and the
peers' duty), and the loop runs what is scheduled. The chains: the codec
delivers the rest of the request and the upstream the rest of the response,
calls return, and a filter that waits for an event of its own gets it.
NetConnection: libevent delivers events, wakeups and the bufferevent's writes,
and callbacks return; no user and no peer has to do anything. HttpServer: the
parser goes on, calls return, and the loop clears the deferred list; the
application need not answer. Router: the pool attaches or fails, an upstream
ends its response or closes, the loop frees what is deferred. HostSelection: DNS
answers, the main thread finishes an update and the workers go on choosing.
Clusters: main thread and workers run what is posted to them and evdns answers,
if only by its timeout.

Mutants. For every property `PROJECT.json` names a definition and a plausible
wrong version of it, kept beside it and marked "Mutant", under which TLC finds
the property violated.

## Findings

`ConnPoolPending`: `rp-pending-stream.h:17` says that a pending stream is one
"for which a connection has been created but not yet established". A request
arrives, two connections are started for it (one more stream is anticipated),
it is cancelled, one of the two connects, both are closed. Line 1028 of
`rp-conn-pool-base.c` takes the capacity of the connected client off the sum of
connecting and connected capacity, although it is still connected, and the
close takes it off again: the capacity is now −1. The next request finds
`should_connect` adding that to an unsigned number: no connection is made, and
the request stays pending in a pool without clients.

`DecoderFilterChainHolders`: `rp-http-filter.h:39-40` says that the calls of the
next filters follow "the return code of the previous filter", and lines 349-350
that filters may hold data. All of them hold it in one buffer. The second filter
holds chunk 1, the first returns `StopIterationAndBuffer` for chunk 2, the second
continues: `do_data` gives the whole buffer to the third, chunk 2 included, which
the first still holds and the second has never seen. No filter of the repository
holds request data this way yet.

## Deviations the models reproduce

Where the code does something its design does not intend, the model does the
same, and the property says what holds besides. No run is made to fail for
these, because no line of the repository promises the contrary; they are the
places to look at first.

Network connection
- The activation callback's cancel leaves `m_enabled` and a written eventfd
  behind: it then runs with nothing injected, and two assertions
  (`rp-io-bev-socket-handle-impl.c:191`, `:341`) can end the process.
- `Closed` merged with an injected `Read` meets the assertion of
  `rp-net-conn-impl.c:876`.
- `freecb` replaces the callbacks of a flushing handle (`:181`, `:274`), which
  still says `Open`.
- A read of zero bytes is taken for the end of the stream
  (`rp-raw-buffer-socket.c:93`).
- An `errno` left over from another socket turns an end of file into a reset
  (`rp-io-bev-socket-handle-impl.c:473`, `rp-net-conn-impl.c:167`).

Connection manager and codec
- `read_disable(false)` of the response encoder does not count down, so the loop in
  its dispose (`rp-stream-encoder-impl.c:303`) does not end: on a connection that is
  open or flushing it meets the assertion of `rp-net-conn-impl.c:523`, on a closed one
  it spins for ever (`:95`). Any connection whose reads the codec disabled
  comes to this (`abort` of `HttpServer` and `NetConnection`).
- Two requests in one read: pausing the parser only sets a flag
  (`rp-legacy-http-parser-impl.c:304`), which is read when a slice begins (`:249`).
  Unless the first is answered during its own decoding, the second begins in its
  place (`rp-http1-server-connection-impl.c:222`), the first `ActiveRequest` is never
  freed, and the completion of either response is taken for the second's, or finds no
  request at all (`:270` follows a NULL pointer; `overrun`).
- After a protocol error the connection manager dispatches again
  (`rp-http-conn-manager-impl.c:186`, `rp-http1-connection-impl.c:122`).
- A response that is complete before its request leaves the codec a freed
  decoder (`rp-http-conn-mgr-impl-active-stream.c:499`).
- A local reply does not end its stream, which keeps a draining connection open
  (`rp-filter-manager.c:1497`).
- HTTP/1.0 that is not accepted only sets an error code
  (`rp-http1-server-connection-impl.c:321`).

Filter chains
- A filter that holds the headers and continues after a local reply gives the
  codec a second response (`rp-active-stream-encoder-filter.c:147`; `revived`).
- `common_continue` gives data to the codec after its headers call has reset the
  stream.
- `has_trailers` of an encoder filter asks for the request's trailers (`:130`).
- A decompressor whose input is cut short withholds the end for ever
  (`rp-decompressor-filter.c:239`; `Withheld`).

Router
- A reset during `encode_headers` is dropped (`rp-codec-bridge.c:133`), and the
  next piece of the request uses a freed encoder (`dropped`).
- A request without a body for a cluster without a host is never answered
  (`rp-router-filter.c:265`).
- A 100, 102 or 103 response calls `encode_1xx_headers` of the filter callbacks
  (`rp-codec-bridge.c:77`, `rp-http-filter.h:412`), which no class implements: the
  process ends (`Ends1xx`).
- Trailers do not call `on_request_complete`, and the bridge's `decode_data`
  does not record the last received byte.

Hosts
- `m_rtt` and `num_idle` are never written, so the methods "rtt", "most-idle"
  and "none" always choose the first upstream (`upstream.c:96`, `:135`, `:163`).
- "random" is accepted (`cfg.c:282`) but chooses no host, so that requests stay
  without an answer.
- A choice while the vector is being replaced finds no host, and one that
  borrowed the initial vector may read freed memory (`rp-host-set-impl.c:356`).
- `rproxy.h:217` calls RTT the default method; it is round robin.

Clusters
- A filter that is destroyed while its handle is pending is called back
  (`rp-dynamic-forward-proxy.c:262`).
- With no interface up for either family a query is answered before its waiter
  is entered, and the cluster warms for ever
  (`rp-addr-info-pending-resolution.c:697`; `stranded`).
- Every DNS error counts as an empty answer (`:238`).
- Later answers of a cluster are not posted to the workers, who see them only
  because they share the load balancer.
- The TCP pool's container is looked up in the table of the HTTP pools
  (`rp-thread-local-cluster-manager-impl.c:269`).

Messages
- `Content-Length` stays as it was when a body is rewritten or inflated
  (`rp-rewrite-urls-filter.c:246`).
- A chunked request that asks for an upgrade loses its framing
  (`rp-request-encoder-impl.c:63`), and so does one on a connection whose last
  response was HTTP/1.0 (`rp-http1-connection-impl.c:520`).
- An upgraded response keeps `Transfer-Encoding` over a raw body
  (`rp-stream-encoder-impl.c:426`).
- A response to HEAD, or a 304, that declares a length or chunks is never sent: its
  headers wait for the end of the message (`rp-http1-client-connection-impl.c:241`),
  and the parser, which is not told that there is no body
  (`rp-legacy-http-parser-impl.c:172`), waits for the body (`Withheld`).
- The stream of a 101 response ends behind its headers: only a CONNECT makes the
  client codec handle an upgrade.
- A response that its upstream ends by closing is taken for an empty one
  (`rp-http1-client-connection-impl.c:360`).

## Proofs

Each proof module has an inductive invariant `IInv` as a conjunction of named
parts, a lemma per action that it is kept, and the theorems that follow from it.
TLC has checked every one of these invariants on the instance of the module's
run before it was proved. The results hold for every value of the constants that
satisfies the assumptions named here.

### Dispatcher

`DispatcherProofs`, for any number of threads, callbacks and objects; the loop
thread is not one of the posters, and the three callbacks have their names.

- `TypeCorrect`: `Spec => []TypeOK`.
- `WakeupNeverLost`: a non-empty post list has a poster between its append and
  its write, a wakeup or a pending event, or the loop on its way to the steal.
  `NoLostWakeup` is not inductive by itself: a poster that finds `m_enabled`
  set relies on what that flag promises. The inductive invariant `WakeupInv`
  is the conjunction with `EnabledMeansScheduled` (the flag is set only while a
  wakeup or an event is pending, or a poster is about to write).
- `EnabledNeverStale`: that second part, on its own.
- `DeferredNeverStranded`, `DoubleBufferCorrect`: for the deferred lists, from
  the inductive invariant `ListInv`: the batch buffer is empty unless a clear is
  in progress, `pos` stays within the batch, the disposed objects end with the
  part of the batch that is done, and a buffer with objects has its callback
  scheduled.
- `PostRefinesMailbox`, `DeferredRefinesMailbox`: the post queue (stolen list
  followed by the post list) and each deferred list (rest of the batch followed
  by the buffer being filled) implement `Mailbox`: initial states map to initial
  states, every step to a step or a stutter.

### ThreadLocal

`SlotsAlwaysAgree` and `CompletesAfterAll`, for any finite set of workers and any
set of updates whose names are no thread and no other message
(`UpdatesAssumption`). The invariant has to say where in the two walks the main
thread is: `StartInv` (registered threads are listed once; barrier and counts),
`SetInv` (a worker that is not late has the set message in front of everything
else, or the object), `GuardInv` (a guard was sent to the part of the list that
the walk has passed), `RefsInv` (the references left are those of the threads on
which the callback has not returned), `OnceInv` (a completion is posted when the
last reference goes, so once), `SentInv` and `OrderInv` (what a worker has
applied is a prefix of the main thread's updates, and its queue has the rest).
`CompletionAfterAll` follows from `RefsInv` with the cardinality of the set of
threads that are done; `SlotsAgree` from the last two.

### Router

`NothingEverDangles`, `ResponsesWellFormed` and `RequestsForwarded`, for requests
and tunnels and bodies of any length. The invariant (`RequestPhases`) is a
disjunction: a request is fresh, waiting for the pool, streaming or over, and each
phase fixes the flags of the router, of the upstream request and of the codec, and
how what was sent and held makes up what was received; or a 1xx response has ended
the process in the middle of a stream (`Interrupted`). The code keeps these flags
in five objects and clears them one by one, so each operator is first shown to be
one update of the record in the phases in which it is called.

### HostSelection (in `RouterProofs`)

`HostAlwaysFound`, for any number of workers and hosts `N`. The position that the
workers share may be past the end of the vector that a worker holds; what holds is
that a position computed by `NextElement` lies within the vector it was computed
for (`PickInv`), and that only the initial vector can be empty (`VectorInv`).

### NetConnection

`WritesAlwaysReachTheSocket`, `NeverDataAfterClose` and the action property
`AlwaysSilentOnceFreed`, for any number (at least one) of callbacks, user
operations and units of data. `Flushed` says that unwritten data after the connect
has a flush waiting on the stack of calls: a write from a `Connected` callback goes
out with the flush of the call below it. `Quiet` says what a freed or flushing
handle has lost; and of a handle that `read_disable` has not revived, or that was
accepted, that it has delivered no data late, has injected nothing into itself and,
while flushing, has no read callback. For accepted connections the argument is that
the codec only ever disables reads, which gives a flushing handle its event callback
back but not the read callback, and that what undoes it ends the process.

### Clusters

`ViewsAlwaysAgree` and `WakeUpAlwaysOnItsWay`, for any number of workers, clusters,
endpoints and requests. The assumptions: configured clusters and sub-clusters
differ, every cluster has an endpoint, there are finitely many (the properties
count), and there is a worker and a sub-cluster. An endpoint is in one place
(`ResolveInv`: queued, waiting for a query, or answered); an uninitialised cluster
has an endpoint that is still to be answered, or is stranded (`PendingInv`); a
cluster is with a worker, or posted to it, exactly when its initialization is done
(`WorkersInv`); a name in the shared map has its worker about to post it, the post
in the queue, or the cluster with the manager (`KnownInv`). A waiting request is
then led from one to the next without a gap.

### ConnPool

`BooksAlwaysAgree`, `EveryStreamAccounted`, `NoStreamStalls` and
`NothingOutlivesThePool`, for any number of streams and clients, any limit of the
resource manager and at least one request per connection (`ConnPoolAssumption`).
An entry into the pool calls operation after operation, and between them less
holds than when it returns. The invariant has two halves (`Inductive`):

- `Books` holds between any two operations: the lists follow the states of the
  clients (`ListInv`), a state bounds the wrapper and the streams a client has left
  (`ClientInv`), the dispatcher has each closed client once and a wrapper only in
  front of its client (`DeferInv`), a stream waits, is with one client or is over
  (`StreamInv`), and the counters count (`CountInv`, `CapacityInv`: the connecting
  capacity is at least the number of connecting clients, which keeps the unsigned
  counter from wrapping). What the dispatcher still has to delete is a parameter,
  so that `Books` also describes a pool in the middle of the pass over that list.
- `Settled` holds when an entry returns: clients that are busy or drain have a
  stream, nothing waits beside a ready client without the callback scheduled, a
  pool that drains for deletion has no ready client, a destroyed one no client.

Every operation has a lemma that it keeps `Books` and which clients, streams and
flags it may change (`Creates`, `Closes`, `Serves`, `Disposes`, `Drains`); every
entry has one that it leaves the pool settled, from the lemmas of what it calls.
A loop over a list is a function of the position, shown to exist and followed to
its end by `UpTo`: induction up to a bound, from the least counterexample.

### HttpServer

`StreamsEnd`, `InOrder` and `ReadsApart`, for any number (at least one) of requests
of any of the kinds, in reads of any size. Also here a step is made of operations
between which less holds, and a failed assertion or a freed decoder leaves off in the
middle of one. So the invariant (`Inductive`) again has halves. Both follow the
connection until a request takes another one's place (`overrun`); that this needs a
read with parts of two requests is the second conjunct of `IInv`, and is what `FlowInv`
is for.

- `Core` holds between any two operations, also of a connection that an assertion
  stopped: the list of streams has each live stream once and its counter is its
  length, an encoder has listeners exactly while its stream is in the list, and
  the dispatcher has exactly the deferred streams (`StreamInv`); the codec's
  request, if any, is the last one begun, only the application of that one may
  still act, and it was given the end only if the request is complete
  (`CodecInv`); and what was written is in order, of requests that have begun, and as
  far as the application has come (`OutInv`).
- `FlowInv` holds when a step is over. It ties the codec to the client: the requests
  begun and those whose first token is still in the slice are the ones the client has
  begun to send, the tokens left follow each other as those of requests do, and an
  incomplete request has tokens to come (`Accounted`). As long as every slice was of
  one request, nothing follows in it behind the request that the codec has in place;
  without this nothing would keep the next read from beginning under it. `deferEnd`
  is set only during the call it is for, and there is one slice at a time while the
  parser runs.
- `QuietInv`: where the client waits for responses a connection that is not open
  has no streams and nothing to parse, so that no stream can begin on a closed
  connection. `DrainInv`: a draining connection without streams is not open; it is
  kept by every way to answer, `busy` or not.

`StreamsEnd` states `EveryStreamEnds` without a condition on `overrun`, because its
clients wait for their responses and never send two requests in one read; types and
drains it states up to an overrun, where TLC checks them beyond it as well.

An operation that answers a request has a lemma that it `Keeps` the codec's place in
the input and closes the connection only without streams; one lemma per token says
that the parser's callbacks lead back into the invariant (`TokenG`, `TokenH`,
`TokenB`, `TokenE`, `TokenX`). `reset_all_streams` and the pass over the deferred
list are loops over a list that changes meanwhile; they are functions of the
position, followed by `UpTo` as in `ConnPool`, with what is done so far in
`Resetting` and `Clearing`.

### MessageFraming

`FramingAlwaysAgrees` and `BodyAlwaysDelivered`, for every set of bodies, of any
length, and every way to cut one into pieces. The one assumption about the bodies,
`BodiesAssumption`, is what a body is: letters, or the symbols of one gzip stream,
whose end is its last symbol if it is there. The messages of `Init` are first
reduced to nine kinds (`MessageInv`), which say what a message of each may declare.

- Until its headers are written nothing of a message is (`StartInv`): that is so for
  one that is refused, for an interim response and for deferred headers, which stay
  deferred as long as the parser awaits a body.
- While the body arrives (`BodyInv`), all state is a function of the message and of
  the part `q` of its body that was decoded: `FiltersInv(q)` says what decompressor
  and rewriting filter hold of `q`, `SentInv(q)` what was written of it, `HeadersInv`
  what the encoder decided. This is what `BodyDelivered`, which speaks of the end
  only, lacks.
- The argument about the filters is that flattening and inflating are homomorphisms
  (`FlattenCat`, `InflateCat`), so that the pieces' results make up the result of the
  whole, whereas rewriting is not: it is applied once, to all of the body. The
  decompressor's end comes with the last piece (`NotReady`).
- A message ends in one of four ways: streamed, with its headers, held back by the
  decompressor, or as a tunnel (`StreamEnd`, `HeadersEnd`, `HeldEnd`, `TunnelEnd`).
  `EndsWell` derives the two properties from these, with one case per way the encoder
  frames a message.

`FlattenSeq` and `Rewrite` are recursive functions. That their defining equation has a
solution, and what they return for a longer sequence, is shown by the least number for
which it would fail (`LeastNat`, from the well-foundedness of `<` on the naturals), which
needs no induction theorem with an operator parameter.

### Only model-checked

- Liveness: the prover has no fairness and no ENABLED.
- The filter chains: which statuses a chain's filters return is a parameter, and
  the properties hold for the chains the repository's filters make, not for every
  chain (see `DecoderFilterChainHolders`).

## Not modelled

- Timers and signals: wrappers around one libevent call each.
- TCP connection pool: the base pool that `ConnPool` models, with a client that
  serves one stream. Pool maps and containers: only `get_pool` is reached, and
  no idle callback is registered, so that a pool lives as long as its worker.
- Addresses, socket factories, stream info: values without control.
- Routes and virtual hosts: one call of libevhtp's match; route configuration
  providers: built once at start-up.
- Configuration, logging and TLS: parsing, text and library calls.
- Interface headers (a quarter of the source's 78 000 lines) and the declarations
  of GObject classes, properties and interfaces, which make up half of the `.c`
  files and have no behaviour. The definitions here stand for 9 900 lines; some
  12 000 lines of function bodies are left, of which configuration, TLS, logging
  and utilities are the largest part and the others are constructors, accessors
  and functions without a caller.
- Of modelled parts, what has no caller: early data, preconnecting and
  connection duration timeouts of the pool, slot removal, injected data,
  `ContinueAndDontEndStream`, watermarks, metadata, retries, shadowing, health
  checks, re-resolution, removal of clusters. The filter factories have no
  caller in the repository either: an embedding program installs them; the runs
  use the repository's filters in the combinations that the interface allows.
- Calls back into the pool from the callbacks it makes; CONNECT through the URL
  rewriter; request validation and header tables of the codec.

## Plan

1. Done: dispatcher, thread local storage, connection pool, filter chains in
   both directions, network connection, connection manager with the server
   codec, router, host selection, clusters with DNS and dynamic forward proxy,
   message framing.
2. Proofs. Done: dispatcher, thread local storage, router, host selection,
   network connection, clusters, connection pool, connection manager with the
   server codec, message framing.
3. Stay with TLC: liveness and the filter chains.
4. Further models: the TCP pool, and `Router` composed with `ConnPool` instead
   of its promise.
