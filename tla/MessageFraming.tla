-------------------------- MODULE MessageFraming --------------------------
(***************************************************************************)
(* One message on its way through the proxy: the HTTP/1 codec that decodes *)
(* it, the header changes of the connection manager, the filters that      *)
(* decompress and rewrite bodies, the HTTP/1 encoder that frames it anew,  *)
(* and the peer that has to find its end.  A request goes upstream, a      *)
(* response downstream.                                                    *)
(*                                                                         *)
(* A body is a sequence of letters: "u" followed by "v" is a URL that the  *)
(* rule rewrites to "w".  A gzip body is a sequence of symbols that stand  *)
(* for the letters Inflated says, closed by "eos".                         *)
(***************************************************************************)
EXTENDS Integers, Sequences, SequencesExt

CONSTANTS
    Bodies,         \* the bodies of messages that are not compressed
    ZipBodies       \* the bodies of compressed responses

ASSUME BodiesAssumption ==
    /\ \A b \in Bodies : b \in Seq({"x", "u", "v"})
    /\ \A b \in ZipBodies :
          /\ b \in Seq({"zxu", "zv", "eos"})
          /\ \A i \in 1 .. Len(b) - 1 : b[i] # "eos"

VARIABLES
    m,              \* the message as its sender sent it
    pc,             \* "start", "deferred", "body", "done", "error" or "abort"
    n,              \* the pieces of the body decoded so far
    f,              \* what the filters hold: inflated and held letters
    e,              \* the encoder: chunk is m_chunk_encoding
    w               \* what was written, see Wire

vars == <<m, pc, n, f, e, w>>

None == -1

(* The ways a body arrives: in pieces, none of which is empty.             *)
Pieces(b) == {SubSeq(b, r[1], r[2]) : r \in {q \in (1 .. Len(b)) \X (1 .. Len(b)) : q[1] <= q[2]}}
Splits(b) == {p \in SeqOf(Pieces(b), Len(b)) : FlattenSeq(p) = b}

(* A message: the request's method and the response's status, 0 for a      *)
(* request; how its sender framed it and the length it declared; upgrade,  *)
(* whether it has the upgrade headers, and peerUpgrade, whether the        *)
(* request it answers had them; rule, how the rule that routes it treats   *)
(* bodies; moved, whether the upstream's URI differs from the client's;    *)
(* http10, whether the connection it is written to speaks HTTP/1.0.        *)
Message(method, status, te, cl, pieces, upgrade, peerUpgrade, zip, text, rule, moved, http10) ==
    [method |-> method, status |-> status, te |-> te, cl |-> cl, pieces |-> pieces,
     upgrade |-> upgrade, peerUpgrade |-> peerUpgrade, zip |-> zip, text |-> text,
     rule |-> rule, moved |-> moved, http10 |-> http10]

Rules == {"passthrough", "plain", "urls"}

(* Requests: without a body, with one of a declared length or in chunks,   *)
(* with both, and CONNECT, whose data follow the headers unframed.         *)
BareRequests ==
    {Message(a, 0, FALSE, None, <<>>, up, FALSE, FALSE, FALSE, r, mv, old) :
        a \in {"GET", "HEAD", "POST"}, up, mv, old \in BOOLEAN, r \in Rules}
BodyRequests(b) ==
    {Message("POST", 0, te, IF te THEN None ELSE Len(b), p, up, FALSE, FALSE, FALSE, r, mv, old) :
        p \in Splits(b), te, up, mv, old \in BOOLEAN, r \in Rules}
TwiceFramed == Message("POST", 0, TRUE, 1, <<<<"x">>>>, FALSE, FALSE, FALSE, FALSE, "plain", FALSE, FALSE)
ConnectRequests ==
    {Message("CONNECT", 0, te, cl, p, FALSE, FALSE, FALSE, FALSE, "passthrough", FALSE, FALSE) :
        te \in BOOLEAN, cl \in {None, 0, 1}, p \in {<<>>, <<<<"x">>>>}}
Requests ==
    BareRequests \cup {TwiceFramed} \cup ConnectRequests \cup (UNION {BodyRequests(b) : b \in Bodies})

(* Responses: without a body, interim ones, ones with a body of a declared *)
(* length, in chunks or up to the close of the connection, and the tunnel  *)
(* of a CONNECT.                                                           *)
EmptyResponses ==
    {Message(a, s, te, cl, <<>>, FALSE, FALSE, FALSE, FALSE, r, FALSE, old) :
        a \in {"GET", "HEAD"}, s \in {204, 304}, te, old \in BOOLEAN, cl \in {None, 0, 2}, r \in Rules}
HeadResponses ==
    {Message("HEAD", 200, te, cl, <<>>, FALSE, FALSE, FALSE, TRUE, r, FALSE, old) :
        te, old \in BOOLEAN, cl \in {None, 2}, r \in Rules}
InterimResponses ==
    {Message("GET", s, te, cl, <<>>, up, rqup, FALSE, FALSE, r, FALSE, old) :
        s \in {100, 101}, te, up, rqup, old \in BOOLEAN, cl \in {None, 0, 2}, r \in Rules}
GetResponses(b, zip) ==
    {Message("GET", 200, k = "te", IF k = "cl" THEN Len(b) ELSE None, p, up, rqup, zip, text, r, FALSE, old) :
        k \in {"te", "cl", "close"}, p \in Splits(b), up, rqup, text, old \in BOOLEAN, r \in Rules}
ConnectResponses ==
    {Message("CONNECT", s, FALSE, IF s = 200 THEN None ELSE 1, <<<<"x">>>>, FALSE, FALSE, FALSE, FALSE, r, FALSE, old) :
        s \in {200, 403}, r \in Rules, old \in BOOLEAN}
Responses ==
    EmptyResponses \cup HeadResponses \cup InterimResponses \cup ConnectResponses
        \cup (UNION {GetResponses(b, FALSE) : b \in Bodies}) \cup (UNION {GetResponses(b, TRUE) : b \in ZipBodies})

IsRequest == m.status = 0
Body == FlattenSeq(m.pieces)

-----------------------------------------------------------------------------
(* Decoding.                                                               *)

(* on_headers_complete_impl of the codec: a CONNECT with a body, a length  *)
(* next to a transfer encoding and a CONNECT with one are errors.          *)
ConnectWithBody == IsRequest /\ m.method = "CONNECT" /\ (m.cl > 0 \/ m.te)
Malformed == ConnectWithBody \/ (m.te /\ m.cl # None)

(* handling_upgrade_: the data that follow the headers are not framed.     *)
Tunnel == m.method = "CONNECT" /\ (IsRequest \/ m.status \in 200 .. 299)

(* on_headers_complete_base of the server connection: whether the headers  *)
(* are kept back until the end of the message is known.                    *)
RequestDeferred == ~(m.te \/ m.cl > 0 \/ Tunnel)

Interim == m.status \in 100 .. 199

(* on_headers_complete_base of the client connection: no framing in a 1xx  *)
(* or a 204.                                                               *)
ResponseRefused == (Interim \/ m.status = 204) /\ (m.te \/ m.cl > 0)

(* rp_header_utility_is_special_1xx: the 1xx that are no response.         *)
Special1xx == m.status \in {100, 102, 103}

(* rp_http1_client_connection_impl_cannot_have_body: a response without a  *)
(* length counts as one of length zero.                                    *)
CannotHaveBody ==
    \/ m.method = "HEAD"
    \/ m.status \in {204, 304}
    \/ m.status >= 200 /\ ~m.te /\ m.cl \in {None, 0}

ResponseDeferred == CannotHaveBody /\ ~Tunnel

Refused == Malformed \/ (~IsRequest /\ ResponseRefused)
Deferred == IF IsRequest THEN RequestDeferred ELSE ResponseDeferred

(* External: on_hdrs_complete of the parser's hooks drops the NoBody that  *)
(* cannot_have_body asks for, so the parser goes by the headers: framing   *)
(* announces a body, and none comes behind a HEAD or a 304.                *)
AwaitsBody == m.te \/ m.cl > 0

(* The headers the decoder hands on; the length of a 1xx, a 204 and a      *)
(* CONNECT is dropped.                                                     *)
Decoded ==
    [cl |-> IF Interim \/ m.status = 204 \/ (IsRequest /\ m.method = "CONNECT") THEN None ELSE m.cl,
     te |-> m.te, upgrade |-> m.upgrade, connection |-> "none", zip |-> m.zip]

-----------------------------------------------------------------------------
(* The connection manager.                                                 *)

(* mutate_request_headers.                                                 *)
MutateRequest(h) == [h EXCEPT !.te = FALSE]

(* mutate_response_headers: an upgrade stays one if both sides agree.      *)
MutateResponse(h) == [h EXCEPT !.te = FALSE, !.upgrade = @ /\ m.peerUpgrade]

IsTunneling(h) == h.upgrade \/ (m.method = "CONNECT" /\ m.status = 200)

\* Mutant: the connection to an HTTP/1.0 client stays open.
DrainsNever(h) == FALSE

(* encode_headers of the active stream: an HTTP/1.0 client finds the end   *)
(* of a response without a length by the close of the connection.          *)
Drains(h) == m.http10 /\ h.cl = None
ConnectionHeader(h) ==
    IF Drains(h) THEN (IF IsTunneling(h) THEN "none" ELSE "close")
    ELSE IF m.http10 THEN "keep-alive" ELSE h.connection

-----------------------------------------------------------------------------
(* The filters.                                                            *)

(* decode_headers of the state filter, which tells the others.             *)
Passthrough == m.rule = "passthrough"
RewriteUrls == m.rule = "urls"

(* External: what the converter makes of a gzip symbol.                    *)
Inflated == [zxu |-> <<"x", "u">>, zv |-> <<"v">>, eos |-> <<>>]
Inflate(s) == FlattenSeq([i \in DOMAIN s |-> Inflated[s[i]]])

(* External: the regular expression and its replacement.                   *)
RewriteLetter(done, c) ==
    IF c = "v" /\ done # <<>> /\ Last(done) = "u" THEN Append(Front(done), "w") ELSE Append(done, c)
Rewrite(s) ==
    LET rewritten[i \in 0 .. Len(s)] ==
            IF i = 0 THEN <<>> ELSE RewriteLetter(rewritten[i - 1], s[i])
    IN  rewritten[Len(s)]

(* details_init of the decompressor: it works for the rewriting filter     *)
(* only, and drops the encoding header.                                    *)
Decompresses == m.zip /\ RewriteUrls

(* encode_headers and should_rewrite_data of the rewriting filter.         *)
RewritesResponse == RewriteUrls /\ m.text

(* decode_headers of the upstream rewriting filter and create_regex of the *)
(* request rewriter: active if the URI it would write is another one.      *)
RewritesRequest == ~Passthrough /\ m.moved

Rewrites == IF IsRequest THEN RewritesRequest ELSE RewritesResponse

(* decompress_data_common: what was inflated is kept back until the        *)
(* converter is finished, and so is the end of the stream.                 *)
Decompress(g, data) ==
    LET finished == g.finished \/ (data # <<>> /\ Last(data) = "eos")
        all == g.inflated \o Inflate(data)
    IN  IF finished THEN [go |-> TRUE, data |-> all, g |-> [g EXCEPT !.inflated = <<>>, !.finished = TRUE]]
        ELSE [go |-> FALSE, data |-> <<>>, g |-> [g EXCEPT !.inflated = all]]

\* Mutant: every piece is rewritten and sent on its own.
CollectPiece(g, data, end) == [go |-> TRUE, data |-> Rewrite(data), g |-> g]

(* encode_data of the rewriting filter: the whole body is collected and    *)
(* rewritten at the end of the stream.                                     *)
Collect(g, data, end) ==
    IF end THEN [go |-> TRUE, data |-> Rewrite(g.held \o data), g |-> [g EXCEPT !.held = <<>>]]
    ELSE [go |-> FALSE, data |-> <<>>, g |-> [g EXCEPT !.held = @ \o data]]

(* decode_data of the upstream rewriting filter.                           *)
FilterRequest(data, end) ==
    IF RewritesRequest THEN Collect(f, data, end) ELSE [go |-> TRUE, data |-> data, g |-> f]

(* encode_data of the filter manager: a filter that stops keeps the data   *)
(* and the end of the stream from the ones behind it.                      *)
FilterResponse(data, end) ==
    LET a == IF Decompresses THEN Decompress(f, data) ELSE [go |-> TRUE, data |-> data, g |-> f]
    IN  IF a.go /\ RewritesResponse THEN Collect(a.g, a.data, end) ELSE a

-----------------------------------------------------------------------------
(* The encoder.                                                            *)

(* rp_header_utility_request_should_have_no_body.                          *)
ShouldHaveNoBody == m.method \in {"GET", "HEAD", "CONNECT"}

(* disable_chunk_encoding of the request encoder.                          *)
DisableChunks == IsRequest /\ (m.method = "CONNECT" \/ m.upgrade)

(* set_is_response_to_head_request and set_is_response_to_connect_request, *)
(* the second of which a refused CONNECT takes back.                       *)
ToHead == ~IsRequest /\ m.method = "HEAD"
ToConnect == ~IsRequest /\ m.method = "CONNECT" /\ m.status < 300

(* rp_stream_encoder_impl_encode_headers_base: the framing headers written *)
(* and whether the body will be encoded in chunks.                         *)
EncodeHeadersBase(h, end) ==
    LET unframed == [cl |-> h.cl, te |-> FALSE, chunk |-> FALSE]
    IN  IF h.cl # None \/ DisableChunks \/ Interim \/ m.status \in {204, 304} THEN unframed
        ELSE IF end /\ ~ToHead
        THEN [unframed EXCEPT !.cl = IF IsRequest /\ ShouldHaveNoBody THEN None ELSE 0]
        ELSE IF m.http10 THEN unframed
        ELSE [cl |-> None, te |-> ~ToConnect, chunk |-> ~h.upgrade /\ ~ToHead /\ ~ToConnect]

(* Written: the framing headers, the connection header, what was written   *)
(* of the body, whether the encoder ended it and whether the connection    *)
(* closes behind it.                                                       *)
Wire ==
    [cl: {None} \cup Nat, te: BOOLEAN, connection: {"none", "close", "keep-alive"},
     body: Seq([chunk: BOOLEAN, data: Seq(STRING)]), ended: BOOLEAN, closes: BOOLEAN]

(* encode_headers of the request encoder.                                  *)
EncodeRequest(h, end) ==
    LET b == EncodeHeadersBase(h, end)
    IN  [chunk |-> b.chunk, w |-> [w EXCEPT !.cl = b.cl, !.te = b.te]]

(* encode_headers of the response encoder.                                 *)
EncodeResponse(h, end) ==
    LET b == EncodeHeadersBase(h, end)
    IN  [chunk |-> b.chunk,
         w |-> [w EXCEPT !.cl = b.cl, !.te = b.te, !.connection = ConnectionHeader(h), !.closes = Drains(h)]]

(* end_encode: the last chunk is the empty one.                            *)
EndEncode(v, chunk) ==
    [v EXCEPT !.ended = TRUE, !.body = IF chunk THEN Append(@, [chunk |-> TRUE, data |-> <<>>]) ELSE @]

(* encode_data of the stream encoder: empty data are not written.          *)
EncodeData(data, end) ==
    LET v == [w EXCEPT !.body = IF data = <<>> THEN @ ELSE Append(@, [chunk |-> e.chunk, data |-> data])]
    IN  IF end THEN EndEncode(v, e.chunk) ELSE v

-----------------------------------------------------------------------------
Init ==
    /\ m \in Requests \cup Responses
    /\ pc = "start" /\ n = 0
    /\ f = [inflated |-> <<>>, held |-> <<>>, finished |-> FALSE]
    /\ e = [chunk |-> TRUE]
    /\ w = [cl |-> None, te |-> FALSE, connection |-> "none", body |-> <<>>, ended |-> FALSE, closes |-> FALSE]

(* The message is refused: send_protocol_error.                            *)
ProtocolError ==
    /\ pc = "start" /\ Refused
    /\ pc' = "error"
    /\ UNCHANGED <<m, n, f, e, w>>

(* decode_1xx_headers of the codec bridge calls encode_1xx_headers of the  *)
(* filter callbacks, which no class implements: a NULL pointer.            *)
Decode1xxHeaders ==
    /\ pc = "start" /\ ~Refused /\ ~IsRequest /\ Special1xx
    /\ pc' = "abort"
    /\ UNCHANGED <<m, n, f, e, w>>

(* on_headers_complete_base keeps the headers for on_message_complete_base.*)
DeferHeaders ==
    /\ pc = "start" /\ ~Refused /\ ~Special1xx /\ Deferred
    /\ pc' = "deferred"
    /\ UNCHANGED <<m, n, f, e, w>>

(* encode_headers of the filter manager, or decode_headers of the codec    *)
(* filter.                                                                 *)
EncodeHeaders(end) ==
    LET a == IF IsRequest THEN EncodeRequest(MutateRequest(Decoded), end)
             ELSE EncodeResponse(MutateResponse(Decoded), end)
    IN  /\ e' = [chunk |-> a.chunk]
        /\ w' = IF end THEN EndEncode(a.w, a.chunk) ELSE a.w

DecodeHeaders ==
    /\ pc = "start" /\ ~Refused /\ ~Special1xx /\ ~Deferred
    /\ EncodeHeaders(FALSE)
    /\ pc' = "body"
    /\ UNCHANGED <<m, n, f>>

(* on_message_complete_base: headers that were deferred end the stream.    *)
(* The parser comes here behind the headers only if it awaits no body.     *)
DeferredComplete ==
    /\ pc = "deferred" /\ ~AwaitsBody
    /\ EncodeHeaders(TRUE)
    /\ pc' = "done"
    /\ UNCHANGED <<m, n, f>>

(* The filters and the encoder of the message's direction.                 *)
Decode(data, end) ==
    LET a == IF IsRequest THEN FilterRequest(data, end) ELSE FilterResponse(data, end)
    IN  /\ f' = a.g
        /\ w' = IF a.go THEN EncodeData(a.data, end) ELSE w

(* on_body.                                                                *)
DecodeData ==
    /\ pc = "body" /\ n < Len(m.pieces)
    /\ Decode(m.pieces[n + 1], FALSE)
    /\ n' = n + 1
    /\ UNCHANGED <<m, pc, e>>

(* on_message_complete_base: empty data end the stream.  A tunnel has no   *)
(* such end.  m_ignore_message_complete_for_1xx is never set.              *)
MessageComplete ==
    /\ pc = "body" /\ n = Len(m.pieces)
    /\ IF Tunnel THEN UNCHANGED <<f, w>> ELSE Decode(<<>>, TRUE)
    /\ pc' = "done"
    /\ UNCHANGED <<m, n, e>>

Next ==
    \/ ProtocolError \/ Decode1xxHeaders \/ DeferHeaders \/ DeferredComplete
    \/ DecodeHeaders \/ DecodeData \/ MessageComplete

Spec == Init /\ [][Next]_vars
-----------------------------------------------------------------------------
(* The peer.                                                               *)

Sent == FlattenSeq([i \in DOMAIN w.body |-> w.body[i].data])

(* No response to HEAD and none with these status codes has a body.        *)
PeerExpectsNone == ~IsRequest /\ (m.method = "HEAD" \/ Interim \/ m.status \in {204, 304})

PeerReads ==
    CASE PeerExpectsNone -> w.body = <<>>
      [] ~PeerExpectsNone /\ Tunnel -> \A i \in DOMAIN w.body : ~w.body[i].chunk
      [] OTHER ->
         IF w.te
         THEN /\ \A i \in DOMAIN w.body : w.body[i].chunk /\ (w.body[i].data = <<>> <=> i = Len(w.body))
              /\ w.body # <<>>
         ELSE /\ \A i \in DOMAIN w.body : ~w.body[i].chunk
              /\ IF w.cl # None THEN Len(Sent) = w.cl
                 ELSE IF IsRequest THEN Sent = <<>>
                 ELSE w.closes /\ w.connection # "keep-alive"

(* The messages the peer cannot delimit: a body the filters changed the    *)
(* length of behind a declared length (rp-rewrite-urls-filter.c:229,       *)
(* rp-decompressor-filter.c:216 and rp-http-rewrite-upstream.c:84 leave    *)
(* the header), a request in chunks that asks for an upgrade or goes to a  *)
(* connection whose last response was HTTP/1.0, and a response that keeps  *)
(* its upgrade headers.                                                    *)
Changed == LET p == IF Decompresses THEN Inflate(Body) ELSE Body IN IF Rewrites THEN Rewrite(p) ELSE p
LengthStale == m.cl # None /\ Len(Changed) # m.cl
RequestUnframed == IsRequest /\ m.te /\ Body # <<>> /\ (m.upgrade \/ m.http10)
UpgradeUnframed == ~IsRequest /\ m.upgrade /\ m.peerUpgrade /\ m.te /\ ~m.http10

(* When the encoder has ended a message, the peer finds its end where it   *)
(* was sent and sees no other byte: the framing headers, the chunks        *)
(* written, the close of the connection and the rules for messages without *)
(* a body agree, whatever framing the message arrived with.  The only      *)
(* exceptions are the three kinds of message above.                        *)
FramingAgrees ==
    w.ended => (PeerReads <=> ~((LengthStale /\ ~PeerExpectsNone) \/ RequestUnframed \/ UpgradeUnframed))

(* A response without a length ends before its body; an incomplete gzip    *)
(* body never ends.                                                        *)
BodyIgnored == ~IsRequest /\ CannotHaveBody /\ ~Tunnel
Unfinished == Decompresses /\ (Body = <<>> \/ Last(Body) # "eos")

(* The answers to HEAD and the 304s that announce a body: their headers    *)
(* wait for its end.                                                       *)
Withheld == ~IsRequest /\ CannotHaveBody /\ AwaitsBody

(* Once a message is decoded the peer has been sent its whole body, in     *)
(* order, inflated and with every URL rewritten, the ones that two pieces  *)
(* of it share included, and the encoder has ended it: the filters hold    *)
(* nothing back.  Of a withheld response it is never sent anything.        *)
BodyDelivered ==
    /\ Withheld => Sent = <<>> /\ ~w.ended
    /\ pc = "done" =>
        IF BodyIgnored THEN Sent = <<>> /\ w.ended
        ELSE IF Unfinished THEN Sent = <<>> /\ ~w.ended
        ELSE Sent = Changed /\ (w.ended \/ Tunnel)

=============================================================================
