----------------------------- MODULE HttpServer -----------------------------
(***************************************************************************)
(* One downstream connection: the HTTP/1 server codec (connection, parser  *)
(* and response encoder), RpHttpConnectionManagerImpl and its active       *)
(* streams.  The network connection below is NetConnection seen from the   *)
(* HTTP connection manager; the filter chain above is an application that, *)
(* once it was given the headers, encodes a response, sends a local reply  *)
(* or resets the stream, from inside a decode call or later.               *)
(*                                                                         *)
(* The client sends one request after another.  A request without a body   *)
(* is one token, G; one with a body is H B E: headers, body, end of        *)
(* message.  A read of the network is a slice of consecutive tokens, of    *)
(* several requests if the client pipelines them.  The numbers of requests *)
(* name the codec's ActiveRequests, the response encoders and the active   *)
(* streams.                                                                *)
(***************************************************************************)
EXTENDS Naturals, Sequences, SequencesExt

CONSTANTS
    N,              \* number of requests the client sends
    Scripts         \* what the client may send: the kinds of its requests

(* Bound on the counts of disabled reads, which saturate.                  *)
MaxDisable == 3
Count(n) == IF n < MaxDisable THEN n + 1 ELSE n

(* Bound on the tokens of a slice: all that the client sends.              *)
MaxSlice == 3 * N

Kinds == {"get", "close", "post", "bad", "nohost"}

ASSUME NAssumption == N \in Nat \ {0}
ASSUME ScriptsAssumption == Scripts \subseteq [1 .. N -> Kinds]

VARIABLES
    busy,           \* whether the client sends before it has the response and the
                    \* application answers before the request's end or locally
    kind,           \* the script the client follows
    sent,           \* <<r, n>>: the request being sent and its tokens sent
    spans,          \* whether a slice has held tokens of two requests
    overrun,        \* whether a request has begun in the place of another
    w               \* the connection, see World

vars == <<busy, kind, sent, spans, overrun, w>>

R == 1 .. N
Objects == {"none", "live", "deferred", "freed"}

(* net is "flushing" after a close with output left, which still counts as *)
(* open.  pend: output is left.  active is m_active_request, 0 for NULL.   *)
(* run holds the tokens of the slice the parser is executing; next is what *)
(* follows the call of the application.                                    *)
World ==
    [net: {"open", "flushing", "closed"}, pend: BOOLEAN, dis: 0 .. MaxDisable, data: Seq(Seq({"G", "H", "B", "E", "X"})),
     active: 0 .. N, last: 0 .. N, resetCalled: BOOLEAN, deferEnd: BOOLEAN,
     status: {"Ok", "CodecProtocolError"}, body: BOOLEAN, paused: BOOLEAN,
     run: Seq({"G", "H", "B", "E", "X"}), pc: {"idle", "parse", "app", "done", "tail"},
     next: {"none", "headers", "bodyThenEnd", "end", "bodyThenDone"},
     drain: BOOLEAN, streams: Seq(R), rqActive: Nat,
     req: [R -> [obj: Objects, remote: BOOLEAN]],
     enc: [R -> [dis: 0 .. MaxDisable, reset: BOOLEAN, event: BOOLEAN]],
     st: [R -> [obj: Objects, sawLocal: BOOLEAN, encComplete: BOOLEAN, onReset: BOOLEAN,
                zombie: BOOLEAN, lastByte: BOOLEAN, shouldDrain: BOOLEAN,
                decoded: {"none", "headers", "end"}, app: {"none", "called", "headers", "done"}]],
     deferred: Seq([k: {"req", "st"}, r: R]),
     out: Seq([r: R, t: {"headers", "end"}]),
     abort: {"none", "dispatch_slice:122", "read_disable:523", "on_encode_complete:270",
             "dispose:303 spins", "freed decoder"}]

TypeOK ==
    /\ busy \in BOOLEAN /\ kind \in Scripts
    /\ sent \in (1 .. N + 1) \X (0 .. 2)
    /\ spans \in BOOLEAN /\ overrun \in BOOLEAN
    /\ w \in World

IsOpen(v) == v.net # "closed"

----------------------------------------------------------------------------
(* The network connection.                                                 *)

(* read_disable of the codec's connection and of the network connection.   *)
ConnReadDisable(v, disable) ==
    IF ~IsOpen(v) THEN v
    ELSE IF disable THEN [v EXCEPT !.dis = Count(@)]
    ELSE IF v.dis = 0 THEN [v EXCEPT !.abort = "read_disable:523"]
    ELSE [v EXCEPT !.dis = @ - 1]

(* disable_read: read_disable(true) of the response encoder.               *)
DisableRead(v, r) == ConnReadDisable([v EXCEPT !.enc[r].dis = Count(@)], TRUE)

(* dispose of the encoder.  read_disable(false) does not count down, so    *)
(* that the loop goes on until the connection's assertion stops it; on a   *)
(* closed connection nothing does, and the thread is lost.                 *)
DisposeEncoder(v, r) ==
    IF v.enc[r].dis = 0 THEN v
    ELSE IF IsOpen(v) THEN ConnReadDisable([v EXCEPT !.dis = 0], FALSE)
    ELSE [v EXCEPT !.abort = "dispose:303 spins"]

\* Mutant: the stream is taken off the list without the end of its request.
DeferredStreamDestroyUncounted(v, r) ==
    IF ~(v.st[r].onReset \/ v.st[r].encComplete) THEN [v EXCEPT !.st[r].zombie = TRUE]
    ELSE [v EXCEPT !.enc[r].event = FALSE, !.enc[r].reset = FALSE,
                   !.st[r].app = "done", !.st[r].obj = "deferred",
                   !.streams = RemoveFirst(@, r),
                   !.deferred = Append(@, [k |-> "st", r |-> r])]

(* do_deferred_stream_destroy.  A zombie is never looked at again.         *)
DeferredStreamDestroy(v, r) ==
    IF ~(v.st[r].onReset \/ v.st[r].encComplete) THEN [v EXCEPT !.st[r].zombie = TRUE]
    ELSE [v EXCEPT !.enc[r].event = FALSE, !.enc[r].reset = FALSE,
                   !.rqActive = @ - 1, !.st[r].app = "done", !.st[r].obj = "deferred",
                   !.streams = RemoveFirst(@, r),
                   !.deferred = Append(@, [k |-> "st", r |-> r])]

(* on_reset_stream of the active stream.                                   *)
OnResetStream(v, r) == DeferredStreamDestroy([v EXCEPT !.st[r].onReset = TRUE], r)

(* reset_all_streams.                                                      *)
ResetAllStreams(v) ==
    LET after[i \in 0 .. Len(v.streams)] ==
            IF i = 0 THEN v
            ELSE OnResetStream([after[i - 1] EXCEPT !.enc[v.streams[i]].reset = FALSE], v.streams[i])
    IN  after[Len(v.streams)]

(* close(FlushWrite) of the network connection raises LocalClose, on which *)
(* on_event runs do_connection_close once more, without a close type.      *)
CloseConnection(v) ==
    IF ~IsOpen(v) THEN v
    ELSE ResetAllStreams([v EXCEPT !.net = IF v.pend THEN "flushing" ELSE "closed"])

(* check_for_deferred_close and do_connection_close.                       *)
CheckForDeferredClose(v) ==
    IF v.drain /\ v.streams = <<>> THEN CloseConnection(v) ELSE v

----------------------------------------------------------------------------
(* The codec's stream.                                                     *)

(* deferred_destroy of the ActiveRequest m_active_request points to.       *)
DestroyActiveRequest(v) ==
    [v EXCEPT !.req[v.active].obj = "deferred", !.active = 0,
              !.deferred = Append(@, [k |-> "req", r |-> v.active])]

(* reset_stream of the encoder: on_reset_stream_base and the server's      *)
(* on_reset_stream.                                                        *)
ResetStream(v) ==
    LET u == [v EXCEPT !.resetCalled = TRUE]
    IN  IF u.active = 0 THEN u
        ELSE DestroyActiveRequest(IF u.enc[u.active].reset THEN OnResetStream(u, u.active) ELSE u)

\* Mutant: the completion of the response leaves the request in place.
OnEncodeCompleteKeeps(v) ==
    IF v.active = 0 THEN [v EXCEPT !.abort = "on_encode_complete:270"] ELSE v

(* on_encode_complete.                                                     *)
OnEncodeComplete(v) ==
    IF v.active = 0 THEN [v EXCEPT !.abort = "on_encode_complete:270"]
    ELSE IF v.req[v.active].remote THEN DestroyActiveRequest(v) ELSE v

(* flush_output: written whatever happens to the connection.               *)
Write(v, r, t) ==
    IF IsOpen(v) THEN [v EXCEPT !.pend = TRUE, !.out = Append(@, [r |-> r, t |-> t])] ELSE v

(* end_encode and notify_encode_complete.                                  *)
EndEncode(v, r) ==
    LET u == Write(v, r, "end")
    IN  OnEncodeComplete(IF u.enc[r].event THEN [u EXCEPT !.st[r].encComplete = TRUE] ELSE u)

(* do_end_stream, which resets a stream that is not complete on both       *)
(* sides.                                                                  *)
DoEndStream(v, r) ==
    CheckForDeferredClose(
        IF v.st[r].lastByte /\ v.st[r].sawLocal
        THEN DeferredStreamDestroy(v, r)
        ELSE [ResetStream([v EXCEPT !.st[r].sawLocal = TRUE]) EXCEPT !.drain = TRUE])

(* end_stream of the active stream, called by maybe_end_encode.            *)
EndStream(v, r) == DoEndStream([v EXCEPT !.st[r].sawLocal = TRUE], r)

(* encode_headers of the active stream and of the response encoder.        *)
EncodeHeadersTo(v, r, end) ==
    LET u == Write([v EXCEPT !.drain = @ \/ v.st[r].shouldDrain \/ ~v.st[r].lastByte], r, "headers")
    IN  IF end THEN EndEncode(u, r) ELSE u

\* Mutant: a local reply does not ask whether the response has begun.
SendLocalReplyAgain(v, r) == EncodeHeadersTo([v EXCEPT !.st[r].app = "done"], r, TRUE)

(* send_direct_local_reply with an empty body: the headers end the         *)
(* response, after which rp_filter_manager_maybe_end_encode_ ends the      *)
(* decoding side only.  A reply after the response's headers is a reset.   *)
SendLocalReply(v, r) ==
    IF v.st[r].app = "headers" THEN DoEndStream([v EXCEPT !.st[r].app = "done"], r)
    ELSE EncodeHeadersTo([v EXCEPT !.st[r].app = "done"], r, TRUE)

----------------------------------------------------------------------------
(* Decoding.  A call of the application waits for it: pc is "app".         *)

Call(v, next) == [v EXCEPT !.pc = "app", !.next = next]

(* new_stream of the HTTP connection manager, which appends an active      *)
(* stream that listens to its encoder's resets and codec events.           *)
NewStream(v, r) ==
    [v EXCEPT !.st[r].obj = "live", !.rqActive = @ + 1, !.streams = Append(@, r),
              !.enc[r] = [dis |-> 0, reset |-> TRUE, event |-> TRUE]]

(* on_message_begin_base, which overwrites m_active_request: an            *)
(* ActiveRequest that was there is never freed.                            *)
OnMessageBegin(v) ==
    LET r == v.last + 1
        u == [v EXCEPT !.last = r]
    IN  IF v.resetCalled THEN u
        ELSE [NewStream(u, r) EXCEPT !.active = r, !.req[r].obj = "live"]

(* The parser comes to a request while m_active_request has another one.   *)
TakesPlace(v) == v.run # <<>> /\ Head(v.run) \in {"G", "H", "X"} /\ v.active # 0

(* The active stream is called through the ActiveRequest's decoder, which  *)
(* has to exist still; after is the state its method leaves.               *)
Decode(v, after) ==
    IF v.st[v.active].obj = "freed" THEN [v EXCEPT !.abort = "freed decoder"] ELSE after

(* decode_headers of the active stream: whatever end_stream, the last byte *)
(* is recorded as received.  Without a Host header it replies itself.      *)
DecodeHeaders(v, end) ==
    LET r == v.active
        u == [v EXCEPT !.st[r].lastByte = TRUE, !.st[r].shouldDrain = kind[r] = "close",
                       !.st[r].decoded = IF end THEN "end" ELSE "headers"]
    IN  IF kind[r] = "nohost" THEN SendLocalReply(u, r)
        ELSE [u EXCEPT !.st[r].app = IF @ = "none" THEN "called" ELSE @]

(* decode_data of the active stream.                                       *)
DecodeData(v, end) ==
    [v EXCEPT !.st[v.active].decoded = IF end THEN "end" ELSE @]

(* on_message_complete_base; what follows the call is in Return.           *)
OnMessageComplete(v) ==
    IF v.active = 0 THEN [v EXCEPT !.paused = TRUE, !.pc = "parse"]
    ELSE LET u == [v EXCEPT !.req[v.active].remote = TRUE]
         IN  Call(Decode(u, IF u.deferEnd THEN DecodeHeaders(u, TRUE) ELSE DecodeData(u, TRUE)),
                  "end")

(* dispatch_buffered_body: the call of the decoder, if there is a body to  *)
(* pass on, or else the state `after`.                                     *)
DispatchBufferedBody(v, next, after) ==
    LET u == [v EXCEPT !.body = FALSE]
    IN  IF v.body /\ v.active # 0 THEN Call(Decode(u, DecodeData(u, FALSE)), next) ELSE after

(* on_headers_complete_base: the headers of a request without a body are   *)
(* kept until the message is complete.                                     *)
OnHeadersComplete(v, hasBody) ==
    IF v.active = 0 THEN v
    ELSE IF hasBody THEN Call(Decode(v, DecodeHeaders(v, FALSE)), "headers")
    ELSE [v EXCEPT !.deferEnd = TRUE]

(* on_headers_complete_impl for headers it refuses.  send_protocol_error   *)
(* replies only if a response has begun, which is not so yet.              *)
OnBadHeaders(v) ==
    [v EXCEPT !.status = "CodecProtocolError", !.pc = "done", !.run = <<>>]

(* The parser's callbacks for one token of the slice it executes.  It does *)
(* not look at paused: pause_i sets a flag that execute_i reads when the   *)
(* next slice begins.                                                      *)
OnToken(v, t) ==
    LET u == [v EXCEPT !.run = Tail(@)]
    IN  CASE t = "G" -> OnMessageComplete(OnHeadersComplete(OnMessageBegin(u), FALSE))
          [] t = "H" -> OnHeadersComplete(OnMessageBegin(u), TRUE)
          [] t = "B" -> [u EXCEPT !.body = TRUE]
          [] t = "E" -> DispatchBufferedBody(u, "bodyThenEnd",
                            OnMessageComplete([u EXCEPT !.body = FALSE]))
          [] t = "X" -> OnBadHeaders(OnMessageBegin(u))

(* rp_parser_execute of the next slice; dispatch_slice asserts that the    *)
(* codec has seen no error.                                                *)
ExecuteSlice(v) ==
    IF v.status # "Ok" THEN [v EXCEPT !.abort = "dispatch_slice:122"]
    ELSE [v EXCEPT !.run = Head(v.data), !.pc = "parse"]

\* Mutant: the next read is parsed though the request has no response yet.
DispatchConcurrently(v) == ExecuteSlice([v EXCEPT !.paused = FALSE])

(* dispatch of the server connection and the start of the base class's.    *)
Dispatch(v) ==
    IF v.active # 0 /\ v.req[v.active].remote
    THEN [DisableRead(v, v.active) EXCEPT !.pc = "tail"]
    ELSE ExecuteSlice([v EXCEPT !.paused = FALSE])

----------------------------------------------------------------------------
Init ==
    /\ busy \in BOOLEAN
    /\ kind \in Scripts
    /\ ~busy => \A r \in R : kind[r] \notin {"bad", "nohost"}
    /\ sent = <<1, 0>> /\ spans = FALSE /\ overrun = FALSE
    /\ w = [net |-> "open", pend |-> FALSE, dis |-> 0, data |-> <<>>,
            active |-> 0, last |-> 0, resetCalled |-> FALSE, deferEnd |-> FALSE,
            status |-> "Ok", body |-> FALSE, paused |-> FALSE,
            run |-> <<>>, pc |-> "idle", next |-> "none",
            drain |-> FALSE, streams |-> <<>>, rqActive |-> 0,
            req |-> [r \in R |-> [obj |-> "none", remote |-> FALSE]],
            enc |-> [r \in R |-> [dis |-> 0, reset |-> FALSE, event |-> FALSE]],
            st |-> [r \in R |-> [obj |-> "none", sawLocal |-> FALSE, encComplete |-> FALSE,
                       onReset |-> FALSE, zombie |-> FALSE, lastByte |-> FALSE,
                       shouldDrain |-> FALSE, decoded |-> "none", app |-> "none"]],
            deferred |-> <<>>, out |-> <<>>, abort |-> "none"]

Running == w.abort = "none"
Idle == Running /\ w.pc = "idle"

(* The tokens of a request.                                                *)
Tokens(r) == CASE kind[r] = "post" -> <<"H", "B", "E">>
               [] kind[r] = "bad" -> <<"X">>
               [] OTHER -> <<"G">>

Answered(r) == \E i \in DOMAIN w.out : w.out[i] = [r |-> r, t |-> "end"]

(* The client sends one more token; at the end it has sent <<N + 1, 0>>.   *)
After(p) ==
    IF p[1] > N THEN p
    ELSE IF p[2] + 1 = Len(Tokens(p[1])) THEN <<p[1] + 1, 0>> ELSE <<p[1], p[2] + 1>>

(* readcb: the client's next n tokens arrive in one slice, all of one      *)
(* request unless it pipelines, and on_data of the HTTP connection manager *)
(* is called.                                                              *)
OnData ==
    /\ Idle /\ w.net = "open" /\ w.dis = 0
    /\ busy \/ sent[1] = 1 \/ sent[2] > 0 \/ Answered(sent[1] - 1)
    /\ LET at[i \in 0 .. MaxSlice] == IF i = 0 THEN sent ELSE After(at[i - 1])
       IN  \E n \in 1 .. MaxSlice :
              LET slice == [i \in 1 .. n |-> Tokens(at[i - 1][1])[at[i - 1][2] + 1]]
              IN  /\ at[n - 1][1] <= N
                  /\ sent' = at[n]
                  /\ spans' = (spans \/ at[n - 1][1] # sent[1])
                  /\ spans' => busy
                  /\ w' = Dispatch([w EXCEPT !.data = Append(@, slice)])
    /\ UNCHANGED <<busy, kind, overrun>>

(* The parser goes on in its slice, or the dispatch loop takes the next    *)
(* slice unless the parser is paused.                                      *)
Parse ==
    /\ Running /\ w.pc = "parse"
    /\ w' = IF w.run # <<>> THEN OnToken(w, Head(w.run))
            ELSE LET v == [w EXCEPT !.data = Tail(@)]
                 IN  IF v.data = <<>> \/ v.paused
                     THEN DispatchBufferedBody(v, "bodyThenDone", [v EXCEPT !.body = FALSE, !.pc = "done"])
                     ELSE ExecuteSlice(v)
    /\ overrun' = (overrun \/ TakesPlace(w))
    /\ UNCHANGED <<busy, kind, sent, spans>>

(* The application returns from the call and the codec goes on.            *)
Return ==
    /\ Running /\ w.pc = "app"
    /\ LET v == [w EXCEPT !.next = "none", !.pc = "parse"]
       IN  w' = CASE w.next = "headers" -> [v EXCEPT !.paused = @ \/ ~IsOpen(v)]
                  [] w.next = "bodyThenEnd" -> OnMessageComplete(v)
                  [] w.next = "bodyThenDone" -> [v EXCEPT !.pc = "done"]
                  [] w.next = "end" -> [v EXCEPT !.paused = TRUE, !.deferEnd = FALSE]
    /\ UNCHANGED <<busy, kind, sent, spans, overrun>>

(* The end of dispatch, which disables reads if more data follows a        *)
(* complete request, and of on_data's loop, which dispatches again while   *)
(* there is data, an open connection and no stream.                        *)
DispatchDone ==
    /\ Running /\ w.pc \in {"done", "tail"}
    /\ LET v == IF w.pc = "done" /\ w.active # 0 /\ w.req[w.active].remote /\ w.data # <<>>
                THEN DisableRead(w, w.active) ELSE w
           c == CheckForDeferredClose(v)
       IN  w' = IF IsOpen(c) /\ c.data # <<>> /\ c.streams = <<>>
                THEN Dispatch(c) ELSE [c EXCEPT !.pc = "idle"]
    /\ UNCHANGED <<busy, kind, sent, spans, overrun>>

----------------------------------------------------------------------------
(* The application.                                                        *)

MayAct(r) ==
    /\ Running /\ w.pc \in {"idle", "app"}
    /\ w.st[r].obj = "live" /\ w.st[r].app \in {"called", "headers"}
    /\ busy \/ w.st[r].decoded = "end"

(* rp_filter_manager_encode_headers of a response, with or without a body. *)
EncodeHeaders(r) ==
    /\ MayAct(r) /\ w.st[r].app = "called"
    /\ \E end \in BOOLEAN :
          LET v == EncodeHeadersTo([w EXCEPT !.st[r].app = IF end THEN "done" ELSE "headers"], r, end)
          IN  w' = IF end THEN EndStream(v, r) ELSE v
    /\ UNCHANGED <<busy, kind, sent, spans, overrun>>

(* rp_filter_manager_encode_data that ends the response.                   *)
EncodeEnd(r) ==
    /\ MayAct(r) /\ w.st[r].app = "headers"
    /\ w' = EndStream(EndEncode([w EXCEPT !.st[r].app = "done"], r), r)
    /\ UNCHANGED <<busy, kind, sent, spans, overrun>>

LocalReply(r) ==
    /\ MayAct(r) /\ busy
    /\ w' = SendLocalReply(w, r)
    /\ UNCHANGED <<busy, kind, sent, spans, overrun>>

(* reset_stream of the filter manager callbacks, as for an upstream that   *)
(* resets a response that has begun.                                       *)
Reset(r) ==
    /\ MayAct(r) /\ w.st[r].app = "headers"
    /\ w' = DoEndStream([w EXCEPT !.st[r].app = "done"], r)
    /\ UNCHANGED <<busy, kind, sent, spans, overrun>>

----------------------------------------------------------------------------
(* The loop.                                                               *)

(* An ActiveRequest or an active stream is freed, and the encoder with the *)
(* last of the two that hold it.                                           *)
DisposeDeferred(v, d) ==
    LET u == IF d.k = "req" THEN [v EXCEPT !.req[d.r].obj = "freed"]
                            ELSE [v EXCEPT !.st[d.r].obj = "freed"]
    IN  IF u.req[d.r].obj = "freed" /\ u.st[d.r].obj = "freed" THEN DisposeEncoder(u, d.r) ELSE u

(* clear_deferred_list.                                                    *)
ClearDeferred(v) ==
    LET after[i \in 0 .. Len(v.deferred)] ==
            IF i = 0 THEN [v EXCEPT !.deferred = <<>>]
            ELSE DisposeDeferred(after[i - 1], v.deferred[i])
    IN  after[Len(v.deferred)]

ClearDeferredList ==
    /\ Idle /\ w.deferred # <<>>
    /\ w' = ClearDeferred(w)
    /\ UNCHANGED <<busy, kind, sent, spans, overrun>>

(* The bufferevent has written its output; freecb frees a closed one.      *)
Flushed ==
    /\ Idle /\ w.pend
    /\ w' = [w EXCEPT !.pend = FALSE, !.net = IF @ = "flushing" THEN "closed" ELSE @]
    /\ UNCHANGED <<busy, kind, sent, spans, overrun>>

(* on_event with RemoteClose.                                              *)
RemoteClose ==
    /\ Idle /\ w.net = "open"
    /\ w' = ResetAllStreams([w EXCEPT !.net = "closed"])
    /\ UNCHANGED <<busy, kind, sent, spans, overrun>>

Next ==
    \/ OnData \/ Parse \/ Return \/ DispatchDone
    \/ \E r \in R : EncodeHeaders(r) \/ EncodeEnd(r) \/ LocalReply(r) \/ Reset(r)
    \/ ClearDeferredList \/ Flushed \/ RemoteClose

Spec == Init /\ [][Next]_vars

(* The loop runs: calls return and deferred objects are freed.             *)
Fairness == WF_vars(Parse \/ Return \/ DispatchDone) /\ WF_vars(ClearDeferredList)

LiveSpec == Spec /\ Fairness

----------------------------------------------------------------------------
(* The bytes of responses reach the connection in the order of the         *)
(* requests and never interleave, and none has two ends (dispatch_i,       *)
(* on_encode_complete), also where one read holds several requests, as     *)
(* long as each is answered before the parser comes to the next.           *)
ResponsesInOrder ==
    ~overrun =>
        \A i, j \in DOMAIN w.out : i < j =>
            \/ w.out[i].r < w.out[j].r
            \/ w.out[i].r = w.out[j].r /\ w.out[i].t = "headers" /\ w.out[j].t = "end"

(* A request takes m_active_request from another only if both were in one  *)
(* read: across reads, whatever they split, the test of dispatch_i, the    *)
(* disabled reads and on_data's loop keep a request back until the one     *)
(* before it was answered.                                                 *)
ReadsKeepRequestsApart == overrun => spans

(* A draining connection without streams has been closed: check_for_       *)
(* deferred_close is called wherever the last stream may have ended.       *)
DrainedIsClosed == Idle /\ w.drain /\ w.streams = <<>> => w.net # "open"

(* When the connection is gone and the loop has freed what was deferred,   *)
(* no active stream is left and downstream_rq_active is back at zero:      *)
(* every way a stream can end (response, reset, close of the connection)   *)
(* passes do_deferred_stream_destroy exactly once.  (Not so for early      *)
(* responses and local replies, see the README.)                           *)
EveryStreamEnds ==
    ~busy /\ Idle /\ w.net = "closed" /\ w.deferred = <<>> =>
        /\ w.streams = <<>> /\ w.rqActive = 0
        /\ \A r \in R : w.st[r].obj \in {"none", "freed"}

(* Both, with the types: streams and connections end when they should.     *)
StreamsAndDrainsEnd == TypeOK /\ EveryStreamEnds /\ DrainedIsClosed

(* A complete request reaches the filter chain unless the connection is    *)
(* closed: the codec does not keep the previous request's place.           *)
RequestsReachTheApplication ==
    \A r \in R : ~busy /\ sent[1] > r ~> w.st[r].decoded = "end" \/ w.net # "open" \/ w.resetCalled

(* on_data's loop ends: whenever it dispatches again the codec consumes    *)
(* something or a stream begins.                                           *)
OnDataReturns == ~busy /\ w.pc # "idle" ~> w.pc = "idle"

(* Both: no request is left behind and no read handler spins.              *)
RequestsAreServed == RequestsReachTheApplication /\ OnDataReturns
=============================================================================
