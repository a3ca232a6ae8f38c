--------------------------- MODULE NetConnection ---------------------------
(***************************************************************************)
(* One network connection of a worker: RpNetworkConnectionImpl (with its   *)
(* base, client and server classes and its filter manager), the raw buffer *)
(* transport socket and RpIoBevSocketHandleImpl on a libevent bufferevent. *)
(*                                                                         *)
(* Everything runs on the worker's loop.  Code of the connection calls     *)
(* back into its users (a read filter's on_data, the on_event of the       *)
(* connection callbacks) and they call the connection again before they    *)
(* return; `stack' holds the calls that are waiting for such a callback.   *)
(* Bytes are counted, in units; the user consumes what it likes of the     *)
(* read buffer.  g_assert is live in every build, so a failed assertion    *)
(* ends the process: `abort' names it and nothing follows.                 *)
(***************************************************************************)
EXTENDS Naturals, Sequences, FiniteSets

CONSTANTS
    Callbacks,      \* number of registered connection callbacks
    UserOps,        \* bound: operations the users perform
    PeerUnits       \* bound: units of data the peer sends

ASSUME CallbacksAssumption == Callbacks \in Nat \ {0}
ASSUME BoundsAssumption == UserOps \in Nat /\ PeerUnits \in Nat

VARIABLES
    conn,           \* the connection and its handle, see Conn
    stack,          \* the calls in progress, innermost first
    seen,           \* [1..Callbacks -> Seq(events)] what on_event was told
    peer,           \* [units, gone]: what the peer still sends; EOF or RST
    errno,          \* the thread's errno: "reset" once some socket was reset
    ops             \* user operations left

vars == <<conn, stack, seen, peer, errno, ops>>

(* An upstream connection connects, is closed without a flush, has its     *)
(* reads disabled and enabled and is half closed by a TCP upstream.  One   *)
(* that was accepted is open from the start, has its reads disabled by the *)
(* codec, from on_data, and enabled by the dispose of a response encoder;  *)
(* the connection manager closes it, with a flush or without.              *)
Roles == {"client", "server"}
CloseTypes(role) ==
    IF role = "client" THEN {"NoFlush"} ELSE {"FlushWrite", "Abort", "FlushWriteAndDelay"}

Closes == {"RemoteClose", "LocalClose"}
FileReady == {"Read", "Write", "Closed"}
Aborts == {"none", "file_event_activate:191", "activation_cb:341",
           "on_file_event:876", "can_flush_close", "read_disable:523", "dispose:303 spins"}

(* struct _RpNetworkConnectionImplPrivate and _RpIoBevSocketHandleImpl.    *)
(* bev is "open", "flushing" (closed, with output left) or "freed"; cbs    *)
(* are the bufferevent's callbacks that do something (writecb does not).   *)
(* act is the activation callback's m_enabled, eventfd and libevent event. *)
(* cause records why the first RemoteClose was raised; revived, that       *)
(* read_disable gave a flushing handle callbacks, or left a read scheduled *)
(* that a close does not take back.                                        *)
Conn ==
    [role: Roles, connecting: BOOLEAN, dis: Nat, wend: BOOLEAN, rend: BOOLEAN,
     rendRaised: BOOLEAN, half: BOOLEAN, early: BOOLEAN, dispatch: BOOLEAN,
     immErr: BOOLEAN, wbuf: Nat, rbuf: Nat,
     bev: {"open", "flushing", "freed"}, up: BOOLEAN, out: Nat, inp: Nat,
     shut: BOOLEAN, cbs: SUBSET {"read", "free", "event"},
     events: SUBSET FileReady, injected: SUBSET FileReady,
     enabled: BOOLEAN, wake: BOOLEAN, armed: BOOLEAN,
     closes: Nat, lateData: BOOLEAN, revived: BOOLEAN, cause: {"none", "peer", "connect", "errno", "empty"},
     abort: Aborts]

TypeOK ==
    /\ conn \in Conn
    /\ \A i \in 1 .. Len(stack) :
          stack[i] \in [k: {"cb"}, ev: Closes \cup {"Connected"}, i: 1 .. Callbacks]
                       \cup [k: {"data"}, close: BOOLEAN]
                       \cup [k: {"flush", "write"}]
    /\ seen \in [1 .. Callbacks -> Seq(Closes \cup {"Connected"})]
    /\ peer \in [units: 0 .. PeerUnits, gone: BOOLEAN]
    /\ errno \in {"other", "reset"}
    /\ ops \in 0 .. UserOps

(* rp_network_connection_impl_init, constructed and the handle's           *)
(* initialize_file_event: Read and Write are enabled.                      *)
ConnInit(role) ==
    [role |-> role, connecting |-> role = "client", dis |-> 0, wend |-> FALSE, rend |-> FALSE,
     rendRaised |-> FALSE, half |-> FALSE, early |-> TRUE, dispatch |-> FALSE,
     immErr |-> FALSE, wbuf |-> 0, rbuf |-> 0,
     bev |-> "open", up |-> role = "server", out |-> 0, inp |-> 0,
     shut |-> FALSE, cbs |-> {"read", "event"},
     events |-> {"Read", "Write"}, injected |-> {},
     enabled |-> FALSE, wake |-> FALSE, armed |-> FALSE,
     closes |-> 0, lateData |-> FALSE, revived |-> FALSE, cause |-> "none", abort |-> "none"]

----------------------------------------------------------------------------
(* A machine is the connection with the calls in progress; the operations  *)
(* below are functions of it.                                              *)
M(c, st) == [c |-> c, st |-> st]

(* is_open of the handle; state_i of the connection, whose delayed close   *)
(* never begins: a handle that is still flushing counts as open.           *)
IsOpen(c) == c.bev # "freed"

\* Mutant: the callbacks of a bufferevent that is flushing stay installed.
HandleCloseKeepsCallbacks(c) ==
    IF c.out > 0
    THEN [c EXCEPT !.bev = "flushing", !.cbs = @ \cup {"free"}]
    ELSE [c EXCEPT !.bev = "freed", !.cbs = {}, !.inp = 0]

(* close_i of the handle: with output left the bufferevent stays and       *)
(* freecb alone is installed, else it is freed.                            *)
HandleClose(c) ==
    IF c.out > 0
    THEN [c EXCEPT !.bev = "flushing", !.cbs = {"free"}]
    ELSE [c EXCEPT !.bev = "freed", !.cbs = {}, !.inp = 0]

(* The next callback of raise_connection_event's loop, from the i-th on.   *)
RaiseFrom(m, ev, i) ==
    IF i <= Callbacks /\ (ev \in Closes \/ IsOpen(m.c))
    THEN M(m.c, <<[k |-> "cb", ev |-> ev, i |-> i]>> \o m.st)
    ELSE m

\* Mutant: the check that the socket is open is dropped.
CloseSocketAgain(m, ev, cause) ==
    RaiseFrom(M([HandleClose([m.c EXCEPT !.wbuf = 0]) EXCEPT
                    !.closes = @ + 1, !.cause = IF @ = "none" THEN cause ELSE @],
                m.st), ev, 1)

(* close_socket.                                                           *)
CloseSocket(m, ev, cause) ==
    IF ~IsOpen(m.c) THEN m
    ELSE RaiseFrom(M([HandleClose([m.c EXCEPT !.wbuf = 0]) EXCEPT
                         !.closes = @ + 1,
                         !.cause = IF @ = "none" THEN cause ELSE @],
                     m.st), ev, 1)

(* RawBufferSocket's do_write and bufferevent_write_buffer, which moves    *)
(* everything; shutdown(SHUT_RDWR) also disables the bufferevent.          *)
DoWrite(c, end) ==
    IF c.wbuf = 0
    THEN IF end THEN [c EXCEPT !.shut = TRUE] ELSE c
    ELSE [c EXCEPT !.out = @ + c.wbuf, !.wbuf = 0]

(* on_write_ready after the connecting phase.  do_write passes errno on    *)
(* though bufferevent_write_buffer succeeded and did not set it.           *)
WriteReady(m) ==
    IF m.c.wbuf > 0 /\ errno = "reset"
    THEN CloseSocket(M(DoWrite(m.c, m.c.wend), m.st), "RemoteClose", "errno")
    ELSE M(DoWrite(m.c, m.c.wend), m.st)

(* on_write_ready: the first one makes the connection connected; the rest  *)
(* of the function waits for the Connected callbacks.                      *)
OnWriteReady(m) ==
    IF m.c.connecting
    THEN RaiseFrom(M([m.c EXCEPT !.connecting = FALSE],
                     <<[k |-> "flush"], [k |-> "write"]>> \o m.st), "Connected", 1)
    ELSE WriteReady(m)

\* Mutant: a write does not flush, it waits for a write event.
WriteInternalDeferred(m, n, end) ==
    IF m.c.wend \/ ~IsOpen(m.c) THEN m
    ELSE M([m.c EXCEPT !.wend = end, !.wbuf = @ + n], m.st)

(* write_internal through the (empty) write filter chain, whose on_write   *)
(* stops unless the connection is open.                                    *)
WriteInternal(m, n, end) ==
    IF m.c.wend \/ ~IsOpen(m.c) THEN m
    ELSE LET c == [m.c EXCEPT !.wend = end, !.wbuf = @ + n]
         IN  IF (n = 0 /\ ~end) \/ c.connecting THEN M(c, m.st) ELSE OnWriteReady(M(c, m.st))

----------------------------------------------------------------------------
(* The handle's file events.                                               *)

(* file_event_assign_events: bufferevent_setcb with readcb if Read is      *)
(* enabled, and always eventcb.                                            *)
AssignEvents(c, evs) ==
    [c EXCEPT !.events = evs,
              !.cbs = {"event"} \cup (IF "Read" \in evs THEN {"read"} ELSE {})]

(* rp_schedulable_callback_cancel: the libevent event is deleted; the      *)
(* eventfd and m_enabled stay as they are.                                 *)
Cancel(c) == [c EXCEPT !.armed = FALSE]

(* file_event_set_enabled and file_event_update_events.                    *)
EnableFileEvents(c, evs) ==
    LET d == IF c.injected # {} THEN Cancel([c EXCEPT !.injected = {}]) ELSE c
    IN  IF evs = d.events THEN d ELSE AssignEvents(d, evs)

\* Mutant: the events are injected without scheduling the callback.
ActivateUnscheduled(c, ev) ==
    IF c.injected = {} /\ c.enabled
    THEN [c EXCEPT !.abort = "file_event_activate:191"]
    ELSE [c EXCEPT !.injected = @ \cup {ev}]

(* file_event_activate.                                                    *)
Activate(c, ev) ==
    IF c.injected = {} /\ c.enabled
    THEN [c EXCEPT !.abort = "file_event_activate:191"]
    ELSE [c EXCEPT !.enabled = TRUE, !.injected = @ \cup {ev},
                   !.wake = c.injected = {} \/ @]

(* A handle that is flushing counts as open, and the read that is injected *)
(* for data left in the buffer stays when the connection is closed.        *)
Revives(c, disable) == c.bev = "flushing" \/ (IsOpen(c) /\ ~disable /\ c.rbuf > 0)

(* read_disable_i; its caller holds a disable when it enables.             *)
ReadDisable(c, disable) ==
    IF disable
    THEN LET d == [c EXCEPT !.dis = @ + 1, !.revived = @ \/ Revives(c, disable)]
         IN  IF ~IsOpen(c) \/ d.dis > 1 THEN d
             ELSE EnableFileEvents(d, {"Write"} \cup
                      (IF c.early /\ ~c.half THEN {"Closed"} ELSE {}))
    ELSE LET d == [c EXCEPT !.dis = @ - 1, !.revived = @ \/ Revives(c, disable)]
             e == EnableFileEvents(d, {"Read", "Write"})
         IN  IF ~IsOpen(c) \/ d.dis > 0 THEN d
             ELSE IF c.rbuf = 0 THEN e
             ELSE Activate([e EXCEPT !.dispatch = TRUE], "Read")

(* close_i of the connection.  FlushWriteAndDelay without data does        *)
(* nothing; the raw socket has no can_flush_close, whose call would be a   *)
(* call of NULL.                                                           *)
Close(m, type) ==
    IF ~IsOpen(m.c) THEN m
    ELSE IF type = "AbortReset" THEN CloseSocket(m, "LocalClose", "none")
    ELSE IF m.c.wbuf > 0 /\ type \notin {"Abort", "NoFlush"}
         THEN M([m.c EXCEPT !.abort = "can_flush_close"], m.st)
    ELSE IF type = "FlushWriteAndDelay" THEN m
    ELSE CloseSocket(M(IF m.c.wbuf > 0 /\ type # "Abort" THEN DoWrite(m.c, TRUE) ELSE m.c,
                       m.st), "LocalClose", "none")

(* both_sides_half_closed                                                  *)
BothSidesHalfClosed(c) == c.rend /\ c.wend /\ c.wbuf = 0

(* The end of on_read_ready: close, if the read said so.                   *)
AfterRead(m, close) ==
    IF close \/ BothSidesHalfClosed(m.c)
    THEN CloseSocket(m, "RemoteClose", IF peer.gone THEN "peer" ELSE "empty")
    ELSE m

(* on_read_ready, do_read and on_read up to the call of the filter's       *)
(* on_data: everything the bufferevent holds is moved; nothing is taken    *)
(* for the end of the stream.                                              *)
OnReadReady(m) ==
    LET latched == m.c.dispatch
        n == m.c.inp
        end == n = 0
        c == [m.c EXCEPT !.dispatch = FALSE, !.rbuf = @ + n, !.inp = 0,
                         !.rend = @ \/ (end /\ m.c.half)]
        close == end /\ ~m.c.half
        onRead == n > 0 \/ (end /\ m.c.half) \/ (latched /\ c.rbuf > 0)
        deliver == onRead /\ (c.rbuf > 0 \/ c.rend) /\ ~(c.rend /\ c.rendRaised)
    IN  IF m.c.dis # 0 THEN M([m.c EXCEPT !.dispatch = FALSE], m.st)
        ELSE IF deliver
        THEN M([c EXCEPT !.rendRaised = @ \/ c.rend, !.lateData = @ \/ c.closes > 0],
               <<[k |-> "data", close |-> close]>> \o m.st)
        ELSE AfterRead(M(c, m.st), close)

(* on_file_event.  Write comes from the connect alone, before any Read     *)
(* can have been injected, so that the two do not come together.           *)
OnFileEvent(m, evs) ==
    IF m.c.immErr THEN CloseSocket(m, "RemoteClose", "connect")
    ELSE IF "Closed" \in evs
    THEN IF "Read" \in evs
         THEN M([m.c EXCEPT !.abort = "on_file_event:876"], m.st)
         ELSE CloseSocket(m, "RemoteClose", IF peer.gone THEN "peer" ELSE "connect")
    ELSE IF "Write" \in evs THEN OnWriteReady(m)
    ELSE IF "Read" \in evs /\ IsOpen(m.c) THEN OnReadReady(m)
    ELSE m

(* file_event_merge_injected_events_and_run_cb                             *)
MergeInjectedAndRun(c, evs) ==
    OnFileEvent(M(IF c.injected # {} THEN Cancel([c EXCEPT !.injected = {}]) ELSE c, <<>>),
                evs \cup c.injected)

----------------------------------------------------------------------------
Running == conn.abort = "none"
Idle == Running /\ stack = <<>>

\* The innermost call is a user's: a connection callback or a read filter.
InUser == Running /\ (stack # <<>> => stack[1].k \in {"cb", "data"})

(* The on_event that the topmost frame of m is about to run is recorded    *)
(* when the frame is entered.                                              *)
SeenNext(m) ==
    IF Len(m.st) >= Len(stack) /\ m.st # stack /\ m.st[1].k = "cb"
    THEN [seen EXCEPT ![m.st[1].i] = Append(@, m.st[1].ev)]
    ELSE seen

Become(m) ==
    /\ conn' = m.c
    /\ stack' = m.st
    /\ seen' = SeenNext(m)

(* connect_i of the client, before anybody else has the connection: in     *)
(* progress (Init), or an error that the next file                         *)
(* event reports.                                                          *)
ConnectFails ==
    /\ Idle /\ conn.connecting /\ ~conn.up /\ ~peer.gone /\ ops = UserOps
    /\ Become(M([conn EXCEPT !.immErr = TRUE, !.connecting = FALSE], <<>>))
    /\ peer' = [peer EXCEPT !.gone = TRUE, !.units = 0]
    /\ UNCHANGED <<errno, ops>>

(* eventcb with BEV_EVENT_CONNECTED.                                       *)
EventcbConnected ==
    /\ Idle /\ conn.role = "client" /\ ~conn.up /\ ~peer.gone /\ "event" \in conn.cbs
    /\ LET c == [conn EXCEPT !.up = TRUE, !.cbs = {"read", "event"}]
       IN  Become(IF "Write" \in c.events THEN MergeInjectedAndRun(c, {"Write"}) ELSE M(c, <<>>))
    /\ UNCHANGED <<peer, errno, ops>>

(* The bufferevent reads a unit from the socket; readcb.                   *)
Readcb ==
    /\ Idle /\ conn.up /\ IsOpen(conn) /\ ~conn.shut /\ peer.units > 0
    /\ LET c == [conn EXCEPT !.inp = @ + 1]
       IN  Become(IF "read" \in c.cbs THEN MergeInjectedAndRun(c, {"Read"}) ELSE M(c, <<>>))
    /\ peer' = [peer EXCEPT !.units = @ - 1]
    /\ UNCHANGED <<errno, ops>>

(* The peer closes or resets, or the connect is refused.                   *)
PeerGoes ==
    /\ Running /\ ~peer.gone
    /\ peer' = [gone |-> TRUE, units |-> IF conn.up THEN peer.units ELSE 0]
    /\ UNCHANGED <<conn, stack, seen, errno, ops>>

\* Mutant: end of file is only looked at while reads are enabled.
EventcbClosedIfReading ==
    /\ Idle /\ IsOpen(conn) /\ ~conn.shut /\ peer.gone /\ peer.units = 0
    /\ {"event", "read"} \subseteq conn.cbs
    /\ Become(MergeInjectedAndRun(conn, {"Closed"}))
    /\ errno' \in {"other", "reset"}
    /\ UNCHANGED <<peer, ops>>

(* eventcb with BEV_EVENT_EOF or BEV_EVENT_ERROR, once everything that was *)
(* received before has been read.                                          *)
EventcbClosed ==
    /\ Idle /\ IsOpen(conn) /\ ~conn.shut /\ peer.gone /\ peer.units = 0
    /\ "event" \in conn.cbs
    /\ Become(MergeInjectedAndRun(conn, {"Closed"}))
    /\ errno' \in {"other", "reset"}
    /\ UNCHANGED <<peer, ops>>

(* The bufferevent writes a unit to the socket; freecb at the last one.    *)
BevWrites ==
    /\ Idle /\ conn.up /\ IsOpen(conn) /\ ~conn.shut /\ conn.out > 0 /\ ~peer.gone
    /\ LET c == [conn EXCEPT !.out = @ - 1]
       IN  Become(M(IF c.out = 0 /\ "free" \in c.cbs
                    THEN [c EXCEPT !.bev = "freed", !.cbs = {}, !.inp = 0] ELSE c, <<>>))
    /\ UNCHANGED <<peer, errno, ops>>

(* wakeup_cb: the eventfd is read and the libevent event is added.         *)
WakeupCb ==
    /\ Idle /\ conn.wake
    /\ Become(M([conn EXCEPT !.wake = FALSE, !.armed = TRUE], <<>>))
    /\ UNCHANGED <<peer, errno, ops>>

(* timer_cb and activation_cb.                                             *)
ActivationCb ==
    /\ Idle /\ conn.armed
    /\ LET c == [conn EXCEPT !.armed = FALSE, !.enabled = FALSE]
       IN  Become(IF c.injected = {}
                  THEN M([c EXCEPT !.abort = "activation_cb:341"], <<>>)
                  ELSE MergeInjectedAndRun(c, {}))
    /\ UNCHANGED <<peer, errno, ops>>

(* Another socket of the thread is reset, or one of its calls fails in     *)
(* another way.                                                            *)
OtherSocket ==
    /\ Idle
    /\ errno' \in {"other", "reset"} \ {errno}
    /\ UNCHANGED <<conn, stack, seen, peer, ops>>

----------------------------------------------------------------------------
(* The users.                                                              *)
User(m) ==
    /\ InUser /\ ops > 0
    /\ ops' = ops - 1
    /\ Become(m)
    /\ UNCHANGED <<peer, errno>>

Write == \E n \in 0 .. 1, end \in BOOLEAN :
            /\ end => conn.half
            /\ User(WriteInternal(M(conn, stack), n, end))

CloseConnection == \E type \in CloseTypes(conn.role) : User(Close(M(conn, stack), type))

(* read_disable of an upstream connection by its pool or its upstream.     *)
SetReadDisable == \E disable \in BOOLEAN :
            /\ conn.role = "client" /\ (IF disable THEN conn.dis < 2 ELSE conn.dis > 0)
            /\ User(M(ReadDisable(conn, disable), stack))

(* The server codec's dispatch disables the reads of an accepted           *)
(* connection, from on_data and while the connection counts as open.       *)
DispatchDisables ==
            /\ conn.role = "server" /\ conn.dis < 2 /\ IsOpen(conn)
            /\ stack # <<>> /\ stack[1].k = "data"
            /\ User(M(ReadDisable(conn, TRUE), stack))

(* dispose of a response encoder that disabled reads.  Its loop enables    *)
(* them without counting down, and so ends in the assertion of             *)
(* read_disable_i, or not at all on a connection that is closed.           *)
DisposeEncoder ==
            /\ conn.role = "server" /\ conn.dis > 0
            /\ User(M([conn EXCEPT !.abort = IF IsOpen(conn) THEN "read_disable:523"
                                             ELSE "dispose:303 spins"], stack))

EnableHalfClose ==
            /\ conn.role = "client" /\ ~conn.half
            /\ User(M([conn EXCEPT !.half = TRUE], stack))

(* on_data drains what it has used of the read buffer.                     *)
Consume == /\ InUser /\ stack # <<>> /\ stack[1].k = "data" /\ conn.rbuf > 0
           /\ \E n \in 1 .. conn.rbuf : conn' = [conn EXCEPT !.rbuf = @ - n]
           /\ UNCHANGED <<stack, seen, peer, errno, ops>>

(* A user's callback returns to the connection.  After the Connected       *)
(* callbacks raise_event flushes the write buffer and on_write_ready goes  *)
(* on if the connection is open.                                           *)
Return ==
    /\ Running /\ stack # <<>>
    /\ LET f == stack[1]
           m == M(conn, Tail(stack))
       IN  CASE f.k = "cb"    -> Become(RaiseFrom(m, f.ev, f.i + 1))
             [] f.k = "data"  -> Become(AfterRead(m, f.close))
             [] f.k = "flush" -> Become(IF IsOpen(conn) /\ conn.wbuf > 0 THEN WriteReady(m) ELSE m)
             [] f.k = "write" -> Become(IF IsOpen(conn) THEN WriteReady(m) ELSE m)
    /\ UNCHANGED <<peer, errno, ops>>

Init ==
    /\ \E role \in Roles : conn = ConnInit(role)
    /\ stack = <<>>
    /\ seen = [i \in 1 .. Callbacks |-> <<>>]
    /\ peer = [units |-> PeerUnits, gone |-> FALSE]
    /\ errno = "other"
    /\ ops = UserOps

Loop == ConnectFails \/ EventcbConnected \/ Readcb \/ EventcbClosed
        \/ BevWrites \/ WakeupCb \/ ActivationCb \/ Return

Next == Loop \/ PeerGoes \/ OtherSocket
        \/ Write \/ CloseConnection \/ SetReadDisable \/ DispatchDisables \/ DisposeEncoder
        \/ EnableHalfClose \/ Consume

(* The loop does not stop and the users' callbacks return.                 *)
Fairness == WF_vars(EventcbClosed) /\ WF_vars(WakeupCb) /\ WF_vars(ActivationCb)
            /\ WF_vars(Return) /\ WF_vars(Readcb) /\ WF_vars(BevWrites)

Spec == Init /\ [][Next]_vars
FairSpec == Spec /\ Fairness

----------------------------------------------------------------------------
(* Properties.                                                             *)

(* Outside of the connecting phase everything that was written has reached *)
(* the bufferevent when the loop goes on (write_internal flushes at once,  *)
(* raise_event after Connected).  A close that flushes therefore never has *)
(* data to flush, and close_i never calls can_flush_close, which the raw   *)
(* buffer socket leaves NULL.                                              *)
WritesReachTheSocket ==
    /\ TypeOK
    /\ conn.abort # "can_flush_close"
    /\ Idle /\ IsOpen(conn) /\ ~conn.connecting => conn.wbuf = 0

(* No read filter gets data after the close event, though a handle that    *)
(* has output left still counts as open: it has lost its callbacks.  The   *)
(* exception is an upstream connection whose user calls read_disable on    *)
(* such a handle, or enabled reads with data in the buffer shortly before. *)
(* On an accepted connection, whose reads are disabled and enabled through *)
(* the response encoder, it never happens.                                 *)
NoDataAfterClose == conn.lateData => conn.revived /\ conn.role = "client"

(* Once the bufferevent is gone the connection raises no event and         *)
(* delivers no data, whatever is still called or scheduled.                *)
SilentOnceFreed ==
    [][conn.bev = "freed" => /\ conn'.closes = conn.closes
                             /\ Len(stack') <= Len(stack)]_vars

(* A peer that has gone, or that cannot be reached, is noticed, reads      *)
(* enabled or not, unless a zero-length write with end_stream has shut     *)
(* both directions down.                                                   *)
LostPeerNoticed ==
    (peer.gone /\ conn.bev = "open") ~> (conn.closes > 0 \/ conn.shut \/ ~Running)

(* Data that was left in the read buffer when reads were disabled is       *)
(* dispatched again after they are enabled, without another byte arriving. *)
BufferedDataDispatched ==
    (conn.dispatch /\ conn.dis = 0 /\ conn.rbuf > 0) ~>
        ((stack # <<>> /\ stack[Len(stack)].k = "data") \/ conn.dis > 0 \/ conn.rbuf = 0
         \/ conn.closes > 0 \/ ~Running)
============================================================================
