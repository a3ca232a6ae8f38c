------------------------------- MODULE Router -------------------------------
(***************************************************************************)
(* One request from the downstream filter chain to an upstream connection  *)
(* and its response back: RpRouterFilter, RpUpstreamRequest with its       *)
(* filter manager, RpUpstreamCodecFilter and RpCodecBridge, the generic    *)
(* connection pools, RpHttpUpstream, RpTcpUpstream and the pending         *)
(* response of the HTTP/1 client codec.  The pools behind the generic ones *)
(* are ConnPool, the downstream stream is HttpServer; here they answer and *)
(* end as those modules allow.                                             *)
(*                                                                         *)
(* The calls between these objects are synchronous and nested: an action   *)
(* is one event of the loop, and the operators below are the functions it  *)
(* runs, each from the state w to the state after the call.                *)
(***************************************************************************)
EXTENDS Naturals, Sequences, SequencesExt

CONSTANTS
    Kinds,          \* subset of {"http", "connect"}: CONNECT goes to a TCP upstream
    Targets,        \* subset of {"ok", "noroute", "nocluster", "nohost"}
    MaxBody         \* bound: pieces of body in each direction

ASSUME KindsAssumption == Kinds \subseteq {"http", "connect"}
ASSUME TargetsAssumption == Targets \subseteq {"ok", "noroute", "nocluster", "nohost"}
ASSUME MaxBodyAssumption == MaxBody \in Nat

VARIABLE w          \* see World

vars == <<w>>

(* down is what the router had encoded to the downstream: headers, body,   *)
(* end of the response, or a local reply; gone: the downstream stream was  *)
(* destroyed, and the router with it.  got is what the router was given of *)
(* the request; list: the upstream request is in m_upstream_requests;      *)
(* ended is m_downstream_end_stream.  handle is the pending pool stream,   *)
(* up m_upstream; latched, paused and held are the codec filter's latched  *)
(* headers, m_paused_for_connect and the data that the upstream filter     *)
(* manager buffers.  pend is the codec's pending response ("done" once its *)
(* message is complete), or the TCP connection.  sent is what the upstream *)
(* was sent.  dropped records a reset that the bridge dropped, abort what  *)
(* ends the process.                                                       *)
Pieces == {"h", "b", "e"}
World ==
    [kind: Kinds, target: Targets,
     down: Seq(Pieces \cup {"local"}), gone: BOOLEAN, aborted: BOOLEAN,
     got: Seq(Pieces), list: BOOLEAN, ended: BOOLEAN,
     obj: {"none", "live", "deferred", "freed"},
     handle: BOOLEAN, up: BOOLEAN, tx: BOOLEAN, rx: BOOLEAN,
     latched: {"none", "more", "end"}, paused: BOOLEAN, held: Seq(Pieces),
     pend: {"none", "open", "done"}, resp: {"none", "headers", "deferred"},
     sent: Seq(Pieces), dropped: BOOLEAN,
     abort: {"none", "freed encoder", "no upstream request:661", "deferred twice",
             "upstream and handle:416", "no encode_1xx_headers:412"}]

Fails(v, why) == IF v.abort = "none" THEN [v EXCEPT !.abort = why] ELSE v
Piece(end) == IF end THEN <<"b", "e">> ELSE <<"b">>
Headers(end) == IF end THEN <<"h", "e">> ELSE <<"h">>

----------------------------------------------------------------------------
(* Resetting.                                                              *)

(* rp_dispatcher_deferred_delete_take of the upstream request.             *)
Defer(v) ==
    IF v.obj # "live" THEN Fails(v, "deferred twice") ELSE [v EXCEPT !.obj = "deferred"]

(* reset_stream of the HTTP upstream: its callbacks are taken off the      *)
(* encoder, which goes with the pending response, and the codec drops a    *)
(* response that is not complete.  The TCP upstream lets go of its request *)
(* and closes the connection.                                              *)
UpstreamReset(v) ==
    IF v.pend = "none" THEN Fails(v, "freed encoder")
    ELSE IF v.pend = "done" /\ v.kind = "http" THEN v
    ELSE [v EXCEPT !.pend = "none"]

\* Mutant: a stream that still waits in the pool is not cancelled.
ResetStreamKeepsHandle(v) ==
    IF v.tx /\ v.rx THEN v
    ELSE IF v.up THEN [UpstreamReset(v) EXCEPT !.up = FALSE] ELSE v

(* rp_upstream_request_reset_stream, with cancel_any_pending_stream and    *)
(* clear_request_encoder.                                                  *)
ResetStream(v) ==
    LET c == IF v.handle /\ v.up THEN Fails(v, "upstream and handle:416")
             ELSE [v EXCEPT !.handle = FALSE]
    IN  IF c.tx /\ c.rx THEN c
        ELSE IF c.up THEN [UpstreamReset(c) EXCEPT !.up = FALSE] ELSE c

(* on_destroy of the router filter, with reset_all.                        *)
OnDestroy(v) ==
    LET u == [v EXCEPT !.gone = TRUE]
    IN  IF u.list THEN Defer(ResetStream([u EXCEPT !.list = FALSE])) ELSE u

(* The downstream filter manager encodes a piece of the response.  At the  *)
(* end, or when the write closes the connection (dies), the downstream     *)
(* stream is destroyed from inside the call.                               *)
Encode(v, pieces, dies) ==
    IF v.gone THEN v
    ELSE LET u == [v EXCEPT !.down = @ \o pieces]
         IN  IF dies \/ Last(pieces) = "e" THEN OnDestroy(u) ELSE u

\* Mutant: a response that has begun is not reset.
SendLocalReplyAnyway(v) ==
    IF v.gone THEN v ELSE [v EXCEPT !.down = Append(@, "local"), !.aborted = TRUE]

(* send_local_reply of the downstream filter manager: a response that has  *)
(* begun is reset, else the reply aborts the decoder chain.                *)
SendLocalReply(v) ==
    IF v.gone THEN v
    ELSE IF "h" \in ToSet(v.down) THEN OnDestroy(v)
    ELSE [v EXCEPT !.down = Append(@, "local"), !.aborted = TRUE]

\* Mutant: only a response that has begun is cut short.
OnUpstreamResetSilently(v) ==
    LET u == Defer([v EXCEPT !.up = FALSE, !.list = FALSE])
    IN  IF "h" \in ToSet(v.down) THEN SendLocalReply(u) ELSE u

(* on_reset_stream of the upstream request and on_upstream_reset of the    *)
(* router, which has no other request to wait for and does not retry.      *)
OnUpstreamReset(v) ==
    SendLocalReply(Defer([v EXCEPT !.up = FALSE, !.list = FALSE]))

----------------------------------------------------------------------------
(* The response on its way down: the bridge, the upstream filter manager's *)
(* callbacks, the upstream request and the router.                         *)

(* on_upstream_complete.                                                   *)
OnUpstreamComplete(v) ==
    LET u == IF v.ended THEN v ELSE ResetStream(v)
    IN  Defer([u EXCEPT !.list = FALSE])

(* decode_headers of the bridge: a CONNECT is answered and no longer       *)
(* paused.  rx is recorded here and not for data (decode_data).            *)
BridgeDecodeHeaders(v, end) == [v EXCEPT !.paused = FALSE, !.rx = @ \/ end]

(* on_upstream_headers.                                                    *)
OnUpstreamHeaders(v, end, dies) ==
    LET u == BridgeDecodeHeaders(v, end)
    IN  Encode(IF end THEN OnUpstreamComplete(u) ELSE u, Headers(end), dies)

(* on_upstream_data.                                                       *)
OnUpstreamData(v, pieces, dies) ==
    IF ~v.list THEN Fails(v, "no upstream request:661")
    ELSE Encode(IF Last(pieces) = "e" THEN OnUpstreamComplete(v) ELSE v, pieces, dies)

----------------------------------------------------------------------------
(* The request on its way up: the router, the upstream filter manager with *)
(* the codec filter, and the upstream.                                     *)

(* encode_data and encode_trailers of the upstream.                        *)
EncodeUp(v, pieces) ==
    IF ~v.up THEN v
    ELSE IF v.pend = "none" THEN Fails(v, "freed encoder")
    ELSE [v EXCEPT !.sent = @ \o pieces, !.tx = @ \/ Last(pieces) = "e"]

(* continue_decoding of the codec filter: what was held goes on.           *)
ContinueDecoding(v) ==
    IF v.held = <<>> THEN v ELSE EncodeUp([v EXCEPT !.held = <<>>], v.held)

\* Mutant: what was held while the pool was busy is not passed on.
CodecDecodeHeadersForgets(v, end, dies) ==
    LET s == [v EXCEPT !.sent = @ \o Headers(end), !.tx = end, !.held = <<>>]
        r == CASE v.kind = "http" /\ dies -> [s EXCEPT !.pend = "none", !.dropped = TRUE]
               [] v.kind = "http" /\ ~dies -> s
               [] OTHER -> OnUpstreamHeaders(s, FALSE, dies)
    IN  IF r.paused THEN r ELSE ContinueDecoding(r)

(* decode_headers of the codec filter with an upstream, and what follows   *)
(* when it returns Continue.  The TCP upstream answers at once.  An HTTP   *)
(* upstream whose connection the write closes (dies) resets the stream     *)
(* from inside; the bridge drops the reset, because the filter is calling  *)
(* encode_headers, and m_deferred_reset_status is not set.                 *)
CodecDecodeHeaders(v, end, dies) ==
    LET s == [v EXCEPT !.sent = @ \o Headers(end), !.tx = end]
        r == CASE v.kind = "http" /\ dies -> [s EXCEPT !.pend = "none", !.dropped = TRUE]
               [] v.kind = "http" /\ ~dies -> s
               [] OTHER -> OnUpstreamHeaders(s, FALSE, dies)
    IN  IF r.paused THEN r ELSE ContinueDecoding(r)

(* on_pool_ready of the generic pool and of the upstream request, and the  *)
(* codec filter's on_upstream_connection_established.  A TCP upstream      *)
(* needs no pause for CONNECT.                                             *)
OnPoolReady(v, dies) ==
    LET u == [v EXCEPT !.handle = FALSE, !.up = TRUE, !.pend = "open",
                       !.paused = IF v.kind = "connect" THEN FALSE ELSE @]
    IN  IF u.latched = "none" THEN u
        ELSE CodecDecodeHeaders([u EXCEPT !.latched = "none"], v.latched = "end", dies)

(* on_pool_failure mimics a reset of the stream.                           *)
OnPoolFailure(v) == OnUpstreamReset([v EXCEPT !.handle = FALSE])

(* accept_headers_from_router.  The pool attaches the stream at once, lets *)
(* it wait or fails; the headers go to the codec filter in any case.       *)
AcceptHeadersFromRouter(v, end, pool, dies) ==
    LET u == [v EXCEPT !.obj = "live", !.list = TRUE, !.paused = v.kind = "connect"]
        p == CASE pool = "ready" -> OnPoolReady(u, FALSE)
               [] pool = "wait" -> [u EXCEPT !.handle = TRUE]
               [] pool = "fail" -> OnPoolFailure(u)
    IN  IF p.up THEN CodecDecodeHeaders(p, end, dies)
        ELSE [p EXCEPT !.latched = IF end THEN "end" ELSE "more"]

(* on_request_complete.                                                    *)
OnRequestComplete(v, end) == IF end THEN [v EXCEPT !.ended = TRUE] ELSE v

(* accept_data_from_router: the upstream filter manager buffers while the  *)
(* codec filter has stopped all iteration.                                 *)
AcceptDataFromRouter(v, pieces) ==
    IF v.latched # "none" \/ v.paused THEN [v EXCEPT !.held = @ \o pieces]
    ELSE EncodeUp(v, pieces)

----------------------------------------------------------------------------
InitialWorld(k, t) ==
    [kind |-> k, target |-> t, down |-> <<>>, gone |-> FALSE, aborted |-> FALSE,
     got |-> <<>>, list |-> FALSE, ended |-> FALSE, obj |-> "none",
     handle |-> FALSE, up |-> FALSE, tx |-> FALSE, rx |-> FALSE,
     latched |-> "none", paused |-> FALSE, held |-> <<>>,
     pend |-> "none", resp |-> "none", sent |-> <<>>,
     dropped |-> FALSE, abort |-> "none"]

Init == \E k \in Kinds, t \in Targets : w = InitialWorld(k, t)

Running == w.abort = "none"
Decoding == Running /\ ~w.gone /\ ~w.aborted
Bodies(s) == Len(SelectSeq(s, LAMBDA p : p = "b"))

(* decode_headers of the router filter.  A CONNECT request does not end:   *)
(* the server codec treats what follows as the tunnel's data.              *)
DecodeHeaders ==
    /\ Decoding /\ w.got = <<>>
    /\ \E end \in IF w.kind = "connect" THEN {FALSE} ELSE BOOLEAN,
          pool \in {"ready", "wait", "fail"}, dies \in BOOLEAN :
          LET v == [w EXCEPT !.got = Headers(end)]
          IN  w' = CASE w.target \in {"noroute", "nocluster"} -> SendLocalReply(v)
                     [] w.target = "nohost" -> v
                     [] w.target = "ok" ->
                          OnRequestComplete(AcceptHeadersFromRouter(v, end, pool, dies), end)

(* decode_data of the router filter.                                       *)
DecodeData ==
    /\ Decoding /\ w.got # <<>> /\ Last(w.got) # "e" /\ Bodies(w.got) < MaxBody
    /\ \E end \in IF w.kind = "connect" THEN {FALSE} ELSE BOOLEAN :
          LET v == [w EXCEPT !.got = @ \o Piece(end)]
          IN  w' = IF v.list THEN OnRequestComplete(AcceptDataFromRouter(v, Piece(end)), end)
                   ELSE SendLocalReply(v)

(* decode_trailers of the router filter: the request has ended, but        *)
(* on_request_complete is not called.                                      *)
DecodeTrailers ==
    /\ Decoding /\ w.kind = "http" /\ w.got # <<>> /\ Last(w.got) # "e"
    /\ LET v == [w EXCEPT !.got = Append(@, "e")]
       IN  w' = IF v.list THEN AcceptDataFromRouter(v, <<"e">>) ELSE v

(* The downstream connection is closed or the stream reset.                *)
DownstreamGone == Running /\ ~w.gone /\ w.got # <<>> /\ w' = OnDestroy(w)

(* The pool attaches the stream that waits, or fails it.                   *)
PoolReady == Running /\ w.handle /\ \E dies \in BOOLEAN : w' = OnPoolReady(w, dies)
PoolFailure == Running /\ w.handle /\ w' = OnPoolFailure(w)

Responding == Running /\ w.pend = "open"

(* on_headers_complete_base: headers, or the headers of a response that    *)
(* cannot have a body, which are decoded at the end of the message.        *)
ResponseHeaders ==
    /\ Responding /\ w.kind = "http" /\ w.resp = "none"
    /\ \/ \E dies \in BOOLEAN : w' = OnUpstreamHeaders([w EXCEPT !.resp = "headers"], FALSE, dies)
       \/ w' = [w EXCEPT !.resp = "deferred"]

(* on_body of the codec, on_upstream_data of the TCP upstream.             *)
ResponseBody ==
    /\ Responding /\ (w.kind = "http" => w.resp = "headers") /\ Bodies(w.down) < MaxBody
    /\ \E dies \in BOOLEAN : w' = OnUpstreamData(w, <<"b">>, dies)

(* on_message_complete_base: the response is done before it is decoded and *)
(* freed afterwards.                                                       *)
ResponseEnd ==
    /\ Responding /\ w.kind = "http" /\ w.resp # "none"
    /\ \E dies \in BOOLEAN :
          LET v == [w EXCEPT !.pend = "done"]
              u == IF w.resp = "deferred" THEN OnUpstreamHeaders(v, TRUE, dies)
                   ELSE OnUpstreamData(v, <<"e">>, dies)
          IN  w' = [u EXCEPT !.pend = "none"]

(* decode_1xx_headers of the bridge calls encode_1xx_headers of its filter *)
(* callbacks, which no class implements: on_upstream_1xx_headers of the    *)
(* router is never reached.                                                *)
Response1xx ==
    /\ Responding /\ w.kind = "http" /\ w.resp = "none"
    /\ w' = Fails(w, "no encode_1xx_headers:412")

(* The upstream closes its half of a tunnel: on_upstream_data with         *)
(* end_stream.                                                             *)
TunnelEnd ==
    /\ Responding /\ w.kind = "connect"
    /\ \E dies \in BOOLEAN : w' = OnUpstreamData(w, <<"e">>, dies)

(* The upstream connection closes: on_reset_stream of the codec runs the   *)
(* reset callbacks and frees the response, on_event of the TCP upstream.   *)
UpstreamGone ==
    /\ Responding
    /\ w' = [OnUpstreamReset([w EXCEPT !.pend = "done"]) EXCEPT !.pend = "none"]

(* clear_deferred_list: dispose of the upstream request.                   *)
FreeUpstreamRequest ==
    /\ Running /\ w.obj = "deferred"
    /\ w' = [w EXCEPT !.obj = "freed", !.up = FALSE]

Next ==
    \/ DecodeHeaders \/ DecodeData \/ DecodeTrailers \/ DownstreamGone
    \/ PoolReady \/ PoolFailure
    \/ ResponseHeaders \/ ResponseBody \/ ResponseEnd \/ Response1xx
    \/ TunnelEnd \/ UpstreamGone
    \/ FreeUpstreamRequest

Spec == Init /\ [][Next]_vars

(* The pool attaches or fails every stream (ConnPool), an upstream ends    *)
(* its response or closes, and the loop frees deferred objects.            *)
Fairness ==
    /\ WF_vars(PoolReady \/ PoolFailure)
    /\ WF_vars(ResponseHeaders \/ ResponseEnd \/ TunnelEnd \/ UpstreamGone)
    /\ WF_vars(FreeUpstreamRequest)

FairSpec == Spec /\ Fairness

----------------------------------------------------------------------------
(* Properties.  A 1xx response and a reset inside encode_headers break     *)
(* what they exclude (Ends1xx, w.dropped), see the README.                 *)

Ends1xx == w.abort = "no encode_1xx_headers:412"

(* The downstream is given one response: a local reply alone, or headers,  *)
(* body and one end, with nothing after the end, however the response is   *)
(* interleaved with resets, failures and the end of the downstream.        *)
ResponseWellFormed ==
    \/ w.down \in {<<>>, <<"local">>}
    \/ /\ w.down[1] = "h"
       /\ \A i \in 2 .. Len(w.down) :
             \/ w.down[i] = "b"
             \/ w.down[i] = "e" /\ i = Len(w.down)

(* The upstream gets what the router was given, in order: nothing of the   *)
(* request is lost or passed on twice while the pool is waited for, and    *)
(* once the upstream is there nothing is kept back.                        *)
RequestForwarded == ~w.dropped =>
    /\ IsPrefix(w.sent, w.got)
    /\ w.list => w.got = w.sent \o (IF w.latched = "none" THEN w.held
                                    ELSE IF w.latched = "end" THEN <<"h", "e">>
                                    ELSE <<"h">> \o w.held)
    /\ w.list /\ w.up => w.held = <<>> /\ w.latched = "none"

(* No part that outlives the upstream request still refers to it: once it  *)
(* is freed, or the router gone, no stream waits in the pool and neither   *)
(* the codec nor a TCP connection would call back.  No assertion fails, no *)
(* encoder is used after it was freed, and the request is deferred once.   *)
NothingDangles ==
    /\ w \in World
    /\ w.obj = "freed" \/ w.gone => ~w.handle /\ w.pend = "none"
    /\ w.gone => ~w.list /\ w.obj # "live"
    /\ ~w.dropped => Running \/ Ends1xx

(* Every request that finds a host is answered, unless the downstream goes *)
(* first: a pool failure, a reset before the headers and a missing route   *)
(* or cluster end in a local reply, a reset after them ends the stream.    *)
EveryRequestAnswered ==
    (w.got # <<>> /\ w.target # "nohost") ~>
        (w.gone \/ w.dropped \/ Ends1xx \/ "local" \in ToSet(w.down))
=============================================================================
