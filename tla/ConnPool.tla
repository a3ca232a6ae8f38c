------------------------------ MODULE ConnPool ------------------------------
(***************************************************************************)
(* The HTTP/1 upstream connection pool of one host on one worker:          *)
(* common/conn_pool/rp-conn-pool-base.c and -active-client.c with the      *)
(* HTTP/1 clients of http1/rp-http1-conn-pool.c and the stream wrappers of *)
(* http1/rp-active-client-stream-wrapper.c.                                *)
(*                                                                         *)
(* Everything runs on the worker's loop thread: an action is one entry     *)
(* into the pool (a call by the router, an event of a connection, the end  *)
(* of a request or of a response, the upstream-ready callback, a pass over *)
(* the dispatcher's deferred delete list) run to its end.  An entry calls  *)
(* further pool operations, so these are operators from a pool to a pool,  *)
(* and the whole pool is one record.                                       *)
(*                                                                         *)
(* Left out: early data (supports_early_data is false for every client, so *)
(* m_early_data_clients stays empty), idle callbacks (nothing in the proxy *)
(* registers one), and calls back into the pool from within the callbacks  *)
(* it makes.                                                               *)
(***************************************************************************)
EXTENDS Integers, SequencesExt, FiniteSetsExt

CONSTANTS
    Streams,        \* requests of the router, each asks for one stream
    MaxClients,     \* bound on the clients that exist at one time
    MaxRequests,    \* max_requests_per_connection of the cluster
    MaxResources,   \* the limit of the cluster's resource manager
    Policies,       \* the RpCancelPolicy values that Cancel is called with
    NoStream        \* the NULL m_stream_wrapper

ASSUME ConnPoolAssumption ==
    /\ MaxClients \in Nat /\ MaxRequests \in Nat \ {0} /\ MaxResources \in Nat
    /\ Policies \subseteq {"Default", "CloseExcess"}
    /\ NoStream \notin Streams

Clients == 1..MaxClients

\* "None": not allocated.  Closed clients await their deferred deletion.
ClientStates == {"None", "Connecting", "Ready", "Busy", "Draining", "Closed"}
ListNames == {"connecting", "ready", "busy"}

\* A stream before new_stream, in the pending list, attached to a client (the
\* wrapper's m_encode_complete not yet set, and set), over, told that it gets
\* no connection, withdrawn while it was pending.
StreamStates == {"new", "pending", "sending", "sent", "done", "failed", "cancelled"}

VARIABLE pool

vars == <<pool>>

PoolType ==
    [ list : [ListNames -> Seq(Clients)],   \* m_ready_clients and its kin
      pending : Seq(Streams),               \* m_pending_streams
      state : [Clients -> ClientStates],
      remaining : [Clients -> 0..MaxRequests],          \* m_remaining_streams
      wrapper : [Clients -> Streams \cup {NoStream}],   \* m_stream_wrapper
      capacity : Int,             \* m_connecting_and_connected_stream_capacity
      connecting_capacity : Nat,            \* m_connecting_stream_capacity
      active : Nat,                         \* m_num_active_streams
      resources : Nat,                      \* the resource manager's m_current
      scheduled : BOOLEAN,                  \* m_upstream_ready_cb is scheduled
      draining : BOOLEAN,                   \* m_is_draining_for_deletion
      deferred : Seq({"wrapper", "client"} \X Clients), \* the dispatcher's list
      status : [Streams -> StreamStates],
      destroyed : BOOLEAN,                  \* the pool has been disposed of
      exhausted : BOOLEAN ]                 \* more than MaxClients were needed

Init ==
    pool = [ list |-> [l \in ListNames |-> <<>>],
             pending |-> <<>>,
             state |-> [c \in Clients |-> "None"],
             remaining |-> [c \in Clients |-> 0],
             wrapper |-> [c \in Clients |-> NoStream],
             capacity |-> 0, connecting_capacity |-> 0,
             active |-> 0, resources |-> 0,
             scheduled |-> FALSE, draining |-> FALSE,
             deferred |-> <<>>,
             status |-> [s \in Streams |-> "new"],
             destroyed |-> FALSE, exhausted |-> FALSE ]

-----------------------------------------------------------------------------
(* One client.                                                             *)

NumActiveStreams(p, c) == IF p.wrapper[c] = NoStream THEN 0 ELSE 1

\* The concurrent stream limit of an HTTP/1 client is 1.
CurrentUnusedCapacity(p, c) == Min({p.remaining[c], 1 - NumActiveStreams(p, c)})

HasHandshakeCompleted(p, c) == p.state[c] # "Connecting"

DecrCapacity(p, delta, c) ==
    [p EXCEPT !.capacity = @ - delta,
              !.connecting_capacity = IF HasHandshakeCompleted(p, c) THEN @ ELSE @ - delta]

IncrCapacity(p, delta, c) ==
    [p EXCEPT !.capacity = @ + delta,
              !.connecting_capacity = IF HasHandshakeCompleted(p, c) THEN @ ELSE @ + delta]

OwningList(s) ==
    CASE s = "Connecting" -> "connecting"
      [] s = "Ready" -> "ready"
      [] s \in {"Busy", "Draining"} -> "busy"

\* drain(): a client that starts draining gives its unused capacity back.
DrainClient(p, c) ==
    IF CurrentUnusedCapacity(p, c) > 0
    THEN [DecrCapacity(p, CurrentUnusedCapacity(p, c), c) EXCEPT !.remaining[c] = 0]
    ELSE p

TransitionActiveClientState(p, c, s) ==
    LET old == OwningList(p.state[c])
        new == OwningList(s)
        q   == [(IF s = "Draining" THEN DrainClient(p, c) ELSE p) EXCEPT !.state[c] = s]
    IN  IF old = new THEN q
        ELSE [q EXCEPT !.list[old] = RemoveFirst(@, c), !.list[new] = Append(@, c)]

-----------------------------------------------------------------------------
(* Creating connections.                                                   *)

NoClients(p) == \A l \in ListNames : p.list[l] = <<>>

\* rp_resource_limit_can_create.  connections(), pending_requests() and
\* requests() all return the one limit m_connection_pools.
CanCreate(p) == p.resources < MaxResources

\* gsize arithmetic, on 16 bits instead of 64.
GSize(n) == n % 2^16

\* The capacity is signed, the number of active streams a gsize: their sum is
\* unsigned.  The preconnect ratio is 1.0 and one more stream is anticipated.
ShouldConnect(p) == Len(p.pending) + p.active + 1 > GSize(p.capacity + p.active)

TryCreateNewConnection(p) ==
    IF ~ShouldConnect(p) \/ ~(CanCreate(p) \/ NoClients(p)) THEN p
    ELSE IF \A c \in Clients : p.state[c] # "None" THEN [p EXCEPT !.exhausted = TRUE]
    ELSE LET c == CHOOSE d \in Clients : p.state[d] = "None"
             q == [p EXCEPT !.state[c] = "Connecting",
                            !.remaining[c] = MaxRequests,
                            !.list["connecting"] = <<c>> \o @]
         IN  IncrCapacity(q, CurrentUnusedCapacity(q, c), c)

\* The loop of three goes on only after CreatedNewConnection; in every other
\* case one more turn would change nothing.
TryCreateNewConnections(p) ==
    TryCreateNewConnection(TryCreateNewConnection(TryCreateNewConnection(p)))

-----------------------------------------------------------------------------
(* Attaching streams to clients.                                           *)

OnPoolFailure(p, s) == [p EXCEPT !.status[s] = "failed"]

\* attach_stream_to_client, with on_pool_ready, which makes the wrapper.
AttachStreamToClient(p, c, s) ==
    IF ~CanCreate(p) THEN OnPoolFailure(p, s)
    ELSE LET capacity == CurrentUnusedCapacity(p, c)
             q == [p EXCEPT !.remaining[c] = @ - 1]
             r == IF q.remaining[c] = 0 THEN TransitionActiveClientState(q, c, "Draining")
                  ELSE IF capacity = 1 THEN TransitionActiveClientState(q, c, "Busy")
                  ELSE q
         IN  [DecrCapacity(r, 1, c) EXCEPT !.active = @ + 1, !.resources = @ + 1,
                                           !.wrapper[c] = s, !.status[s] = "sending"]

\* Mutant: the first stream is removed, not the one that was attached.
AttachLastRemovesFirst(p) ==
    IF p.pending = <<>> \/ p.list["ready"] = <<>> THEN p
    ELSE [AttachStreamToClient(p, Head(p.list["ready"]), Last(p.pending)) EXCEPT !.pending = Tail(@)]

\* One turn of on_upstream_ready: the first ready client, the last stream.
AttachLastPending(p) ==
    IF p.pending = <<>> \/ p.list["ready"] = <<>> THEN p
    ELSE [AttachStreamToClient(p, Head(p.list["ready"]), Last(p.pending)) EXCEPT !.pending = Front(@)]

\* Its loop: every turn takes a stream off the list, or nothing is left to do.
AttachPendingStreams(p) ==
    LET after[i \in 0..Len(p.pending)] == IF i = 0 THEN p ELSE AttachLastPending(after[i - 1])
    IN  after[Len(p.pending)]

OnUpstreamReady(p) ==
    LET q == AttachPendingStreams(p)
    IN  IF q.pending = <<>> THEN q ELSE TryCreateNewConnections(q)

-----------------------------------------------------------------------------
(* Closing clients.                                                        *)

PurgePendingStreams(p) ==
    [p EXCEPT !.pending = <<>>,
              !.status = [s \in Streams |-> IF s \in ToSet(p.pending) THEN "failed" ELSE @[s]]]

\* Mutant: the wrapper is handed to the dispatcher after its client.
ReleaseAfterClient(p, c) ==
    LET q == [p EXCEPT !.list[OwningList(p.state[c])] = RemoveFirst(@, c),
                       !.deferred = Append(@, <<"client", c>>)]
    IN  IF p.wrapper[c] = NoStream THEN q
        ELSE [q EXCEPT !.deferred = Append(@, <<"wrapper", c>>),
                       !.status[p.wrapper[c]] = "done",
                       !.wrapper[c] = NoStream]

\* release_resources, then the client itself: the wrapper's dispose uses the
\* client, so it must come first in the deferred delete list.
ReleaseClient(p, c) ==
    LET q == IF p.wrapper[c] = NoStream THEN p
             ELSE [p EXCEPT !.deferred = Append(@, <<"wrapper", c>>),
                            !.status[p.wrapper[c]] = "done",
                            !.wrapper[c] = NoStream]
    IN  [q EXCEPT !.list[OwningList(p.state[c])] = RemoveFirst(@, c),
                  !.deferred = Append(@, <<"client", c>>)]

\* on_connection_event with a close: the connection was open, by
\* close_socket.  The codec client resets the active request first.
CloseClient(p, c) ==
    LET q == [DecrCapacity(p, CurrentUnusedCapacity(p, c), c) EXCEPT !.remaining[c] = 0]
        r == IF HasHandshakeCompleted(p, c) THEN q ELSE PurgePendingStreams(q)
        t == [ReleaseClient(r, c) EXCEPT !.state[c] = "Closed"]
    IN  IF t.pending = <<>> THEN t ELSE TryCreateNewConnections(t)

\* Those of the clients cs that are in chosen, one after the other.
CloseClients(p, cs, chosen) ==
    LET after[i \in 0..Len(cs)] ==
            IF i = 0 THEN p
            ELSE IF cs[i] \in chosen THEN CloseClient(after[i - 1], cs[i])
            ELSE after[i - 1]
    IN  after[Len(cs)]

\* close_idle_connection_for_draining_pool: chosen first, closed afterwards.
CloseIdleConnections(p) ==
    LET connecting == IF p.pending = <<>> THEN p.list["connecting"] ELSE <<>>
        idle == {c \in Clients : p.wrapper[c] = NoStream}
    IN  CloseClients(p, p.list["ready"] \o connecting, idle)

CheckForIdleAndCloseIdleConnsIfDraining(p) ==
    IF p.draining THEN CloseIdleConnections(p) ELSE p

\* Mutant: a client of a finished stream is not closed when it drains.
OnStreamClosedNoClose(p, c) ==
    LET q == [p EXCEPT !.active = @ - 1, !.resources = @ - 1]
    IN  IF q.state[c] = "Busy" /\ CurrentUnusedCapacity(q, c) > 0
        THEN TransitionActiveClientState(q, c, "Ready")
        ELSE q

\* on_stream_closed with delay_attaching_stream, the wrapper's dispose.
OnStreamClosed(p, c) ==
    LET q == [p EXCEPT !.active = @ - 1, !.resources = @ - 1]
    IN  IF q.state[c] = "Draining" /\ NumActiveStreams(q, c) = 0 THEN CloseClient(q, c)
        ELSE IF q.state[c] = "Busy" /\ CurrentUnusedCapacity(q, c) > 0
        THEN TransitionActiveClientState(q, c, "Ready")
        ELSE q

\* The dispatcher drops its reference to one deferred object.
DisposeDeferred(p, item) ==
    IF item[1] = "wrapper" THEN OnStreamClosed(p, item[2])
    ELSE [p EXCEPT !.state[item[2]] = "None"]

\* Objects deferred during the pass go to the dispatcher's other buffer.
ClearDeferredDeleteList(p) ==
    LET after[i \in 0..Len(p.deferred)] ==
            IF i = 0 THEN [p EXCEPT !.deferred = <<>>]
            ELSE DisposeDeferred(after[i - 1], p.deferred[i])
    IN  after[Len(p.deferred)]

-----------------------------------------------------------------------------
(* The entries into the pool.  Enter takes the step unless it needs more   *)
(* than MaxClients clients at a time.                                      *)

Live(c) == pool.state[c] \notin {"None", "Closed"}

Enter(p) == ~p.exhausted /\ pool' = p

(* new_stream_impl.                                                        *)
NewStream(s) ==
    /\ pool.status[s] = "new"
    /\ Enter(IF pool.list["ready"] # <<>>
             THEN TryCreateNewConnections(
                    AttachStreamToClient(pool, Head(pool.list["ready"]), s))
             ELSE IF ~CanCreate(pool) THEN OnPoolFailure(pool, s)
             ELSE TryCreateNewConnections(
                    [pool EXCEPT !.pending = Append(@, s), !.status[s] = "pending",
                                 !.resources = @ + 1]))

ConnectingConnectionIsExcess(p, c) ==
    Len(p.pending) + p.active
        <= p.connecting_capacity - CurrentUnusedCapacity(p, c) + p.active

(* on_pending_stream_cancel; only a waiting stream has a handle to cancel. *)
Cancel(s, policy) ==
    /\ pool.status[s] = "pending"
    /\ LET p == [pool EXCEPT !.pending = RemoveFirst(@, s), !.status[s] = "cancelled"]
           c == Head(p.list["connecting"])
           excess == /\ policy = "CloseExcess"
                     /\ p.list["connecting"] # <<>>
                     /\ ConnectingConnectionIsExcess(p, c)
       IN  Enter(CheckForIdleAndCloseIdleConnsIfDraining(
                   IF excess
                   THEN CloseClient(TransitionActiveClientState(p, c, "Draining"), c)
                   ELSE p))

(* on_connection_event, Connected.                                         *)
Connected(c) ==
    /\ pool.state[c] = "Connecting"
    /\ LET unused == CurrentUnusedCapacity(pool, c)
           p == TransitionActiveClientState([pool EXCEPT !.capacity = @ - unused], c,
                                            IF unused > 0 THEN "Ready" ELSE "Busy")
       IN  Enter(CheckForIdleAndCloseIdleConnsIfDraining(
                   IF p.state[c] = "Ready" THEN OnUpstreamReady(p) ELSE p))

(* on_connection_event, RemoteClose, or the failure of the connect.        *)
RemoteClose(c) == Live(c) /\ Enter(CloseClient(pool, c))

(* The wrapper's on_encode_complete: the whole request has been sent.      *)
OnEncodeComplete(c) ==
    /\ pool.wrapper[c] # NoStream
    /\ pool.status[pool.wrapper[c]] = "sending"
    /\ Enter([pool EXCEPT !.status[pool.wrapper[c]] = "sent"])

\* Mutant: the pool is not told that a client is about to be ready.
OnDecodeCompleteUnscheduled(c, close) ==
    /\ pool.wrapper[c] # NoStream
    /\ Enter(IF pool.status[pool.wrapper[c]] = "sending" \/ close THEN CloseClient(pool, c)
             ELSE CheckForIdleAndCloseIdleConnsIfDraining(
                    OnStreamClosed([pool EXCEPT !.status[pool.wrapper[c]] = "done",
                                                !.wrapper[c] = NoStream], c)))

(* The wrapper's on_decode_complete: the whole response has been received; *)
(* "close" is m_close_connection.                                          *)
OnDecodeComplete(c, close) ==
    /\ pool.wrapper[c] # NoStream
    /\ Enter(IF pool.status[pool.wrapper[c]] = "sending" \/ close THEN CloseClient(pool, c)
             ELSE CheckForIdleAndCloseIdleConnsIfDraining(
                    OnStreamClosed([pool EXCEPT !.scheduled = TRUE,
                                                !.status[pool.wrapper[c]] = "done",
                                                !.wrapper[c] = NoStream], c)))

(* The wrapper's on_reset_stream: the router gives the request up.         *)
OnResetStream(c) ==
    /\ pool.wrapper[c] # NoStream
    /\ Enter(CloseClient(pool, c))

(* schedule_upstream_ready, the callback of m_upstream_ready_cb.           *)
UpstreamReadyCb ==
    /\ pool.scheduled
    /\ Enter(OnUpstreamReady([pool EXCEPT !.scheduled = FALSE]))

(* The dispatcher's pass over its deferred delete list.                    *)
DeferredDelete ==
    /\ pool.deferred # <<>>
    /\ Enter(ClearDeferredDeleteList(pool))

(* drain_connections_impl.                                                 *)
DrainAndDelete ==
    /\ ~pool.draining
    /\ Enter(CheckForIdleAndCloseIdleConnsIfDraining([pool EXCEPT !.draining = TRUE]))

\* drain_clients, and the loop over the busy clients.
DrainClients(p, cs) ==
    LET after[i \in 0..Len(cs)] ==
            IF i = 0 THEN p
            ELSE IF after[i - 1].state[cs[i]] = "Draining" THEN after[i - 1]
            ELSE TransitionActiveClientState(after[i - 1], cs[i], "Draining")
    IN  after[Len(cs)]

DrainExistingConnections ==
    LET p == CloseIdleConnections(pool)
        q == DrainClients(p, p.list["ready"])
    IN  Enter(DrainClients(q, q.list["busy"]))

\* Mutant: the deferred delete list is not cleared.
DestructWithoutClear ==
    LET p == CloseClients(pool, pool.list["ready"] \o pool.list["busy"], Clients)
        q == CloseClients(p, p.list["connecting"], Clients)
    IN  Enter([q EXCEPT !.destroyed = TRUE])

(* destruct_all_connections, from the pool's dispose.                      *)
DestructAllConnections ==
    LET p == CloseClients(pool, pool.list["ready"] \o pool.list["busy"], Clients)
        q == CloseClients(p, p.list["connecting"], Clients)
    IN  Enter([ClearDeferredDeleteList(q) EXCEPT !.destroyed = TRUE])

Next ==
    /\ ~pool.destroyed
    /\ \/ \E s \in Streams : NewStream(s)
       \/ \E s \in Streams : \E policy \in Policies : Cancel(s, policy)
       \/ \E c \in Clients : Connected(c)
       \/ \E c \in Clients : RemoteClose(c)
       \/ \E c \in Clients : OnEncodeComplete(c)
       \/ \E c \in Clients : \E close \in BOOLEAN : OnDecodeComplete(c, close)
       \/ \E c \in Clients : OnResetStream(c)
       \/ UpstreamReadyCb
       \/ DeferredDelete
       \/ DrainAndDelete
       \/ DrainExistingConnections
       \/ DestructAllConnections

Spec == Init /\ [][Next]_vars

(* Fairness: no connect goes on for ever (the kernel reports success or an *)
(* error), no stream does (its server answers, or somebody gives up), and  *)
(* the loop runs what is scheduled.  Each condition can be met in every    *)
(* state by the actions it names, so it is fairness to those actions.      *)
Fairness ==
    /\ \A c \in Clients :
          /\ []<>(pool.state[c] # "Connecting")     \* Connected, RemoteClose
          /\ []<>(pool.wrapper[c] = NoStream)       \* OnDecodeComplete, OnResetStream
    /\ []<>(~pool.scheduled)                        \* UpstreamReadyCb
    /\ []<>(pool.deferred = <<>>)                   \* DeferredDelete

FairSpec == Spec /\ Fairness

-----------------------------------------------------------------------------
(* Properties.                                                             *)

\* The record has its type; in particular the unsigned counters
\* m_num_active_streams and m_connecting_stream_capacity and the resource
\* manager's count never go below zero.
TypeOK == pool \in PoolType

InList(c) == {l \in ListNames : c \in ToSet(pool.list[l])}

DeferredSet(kind) == {c \in Clients : <<kind, c>> \in ToSet(pool.deferred)}

\* A live client is in exactly the list that owning_list names for its state,
\* once; a closed one is in none and waits in the deferred delete list.  The
\* close handler relies on it: it removes the client from owning_list(state).
ListsMatchStates ==
    \A c \in Clients :
        /\ InList(c) = IF Live(c) THEN {OwningList(pool.state[c])} ELSE {}
        /\ \A l \in ListNames :
              Cardinality({i \in DOMAIN pool.list[l] : pool.list[l][i] = c}) <= 1
        /\ pool.state[c] = "Closed" <=> c \in DeferredSet("client")

\* m_num_active_streams counts the stream wrappers that exist: those attached
\* to a client and those in the deferred delete list.
ActiveStreamsExact ==
    pool.active = Cardinality({c \in Clients : pool.wrapper[c] # NoStream})
                  + Cardinality(DeferredSet("wrapper"))

\* A wrapper that awaits deletion is deleted before the client its dispose
\* calls back into.
WrapperBeforeClient ==
    \A i \in DOMAIN pool.deferred :
        pool.deferred[i][1] = "wrapper" =>
            \E j \in DOMAIN pool.deferred :
                j > i /\ pool.deferred[j] = <<"client", pool.deferred[i][2]>>

\* A ready client can take a stream: it has no wrapper (the assertion of
\* new_stream_encoder) and has not reached its lifetime limit.  A draining
\* one has a stream, whose end will close it.
ReadyCanServe ==
    \A c \in Clients :
        /\ pool.state[c] = "Ready" => pool.wrapper[c] = NoStream /\ pool.remaining[c] > 0
        /\ pool.state[c] = "Draining" => pool.wrapper[c] # NoStream

\* A pool that is draining for deletion holds no idle established connection.
DrainingHoldsNoIdle == pool.draining => pool.list["ready"] = <<>>

\* The books agree after every call into the pool: lists, states, wrappers and
\* counters, which the code adjusts in many places and never recomputes.
Bookkeeping ==
    /\ TypeOK
    /\ ListsMatchStates /\ ActiveStreamsExact /\ ReadyCanServe
    /\ DrainingHoldsNoIdle /\ WrapperBeforeClient

\* Every stream is told one outcome, once: it waits in the pending list
\* exactly while its status says so, and is served by exactly one client
\* while it is active.
StreamsAccounted ==
    \A s \in Streams :
        /\ Cardinality({i \in DOMAIN pool.pending : pool.pending[i] = s})
             = IF pool.status[s] = "pending" THEN 1 ELSE 0
        /\ Cardinality({c \in Clients : pool.wrapper[c] = s})
             = IF pool.status[s] \in {"sending", "sent"} THEN 1 ELSE 0

\* A stream never waits beside a ready client unless the upstream-ready
\* callback is on its way.
NoStalledStream ==
    pool.pending # <<>> /\ pool.list["ready"] # <<>> => pool.scheduled

\* The dispose of the pool leaves no client and no wrapper behind, in no list
\* and not with the dispatcher: nothing is left to call into the freed pool.
DestructReleasesAll ==
    pool.destroyed =>
        /\ \A c \in Clients : pool.state[c] = "None"
        /\ pool.active = 0
        /\ pool.deferred = <<>>

\* A pool that drains for deletion gets rid of all of its connections, the
\* ones that are still connecting and the ones that are serving included.
DrainEnds == pool.draining ~> NoClients(pool)

\* rp-pending-stream.h: a pending stream is one "for which a connection has
\* been created but not yet established".  Weakly: some client exists.
PendingHasClient == pool.pending # <<>> => ~NoClients(pool)
=============================================================================
