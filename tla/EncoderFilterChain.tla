-------------------------- MODULE EncoderFilterChain --------------------------
(***************************************************************************)
(* The response ("encoder") half of RpFilterManager: how the headers and    *)
(* the body of one response travel from the router through the encoder      *)
(* filters to the codec.  The code is rp-filter-manager.c (encode_headers,  *)
(* encode_data), rp-active-stream-encoder-filter.c and, shared with the     *)
(* request half, rp-active-stream-filter-base.c.                            *)
(*                                                                         *)
(* The response half differs from the request half: behind the last filter  *)
(* is no terminal filter but the codec, whose call may reset the stream;    *)
(* an aborted chain changes the status of a filter instead of ending the    *)
(* iteration; common_continue asks whether the chain is complete, not       *)
(* whether it was aborted; and filters that work on the body keep it in     *)
(* buffers of their own and give it back with a later piece.                *)
(*                                                                         *)
(* The calls under way are the frames of `stack`, the innermost last.  The  *)
(* body is a sequence of chunk numbers.  Response trailers are left out: no *)
(* codec of the repository delivers any.                                    *)
(***************************************************************************)
EXTENDS FilterBase

CONSTANTS N,        \* number of encoder filters
          Chunks,   \* most body chunks a response has
          Chains    \* the chains: for each filter, what it returns for
                    \* headers, for a piece of the body and for the last one,
                    \* whether it sends local replies or continues later

Filters == 1 .. N
Codec == N + 1

VARIABLES
    chain,       \* the filters of this stream
    stack,       \* the calls under way, innermost last
    router,      \* how much of the response the router has encoded
    sent,        \* chunks the router encoded
    wire,        \* the evbuffer the router passes to encode_data
    buffered,    \* m_buffered_response_data: whether it exists, its chunks
    kept,        \* what each filter holds in a buffer of its own
    base,        \* RpActiveStreamFilterBase of every filter
    observed,    \* m_observed_encode_end_stream
    complete,    \* m_encoder_filter_chain_complete
    aborted,     \* m_encoder_filter_chain_aborted
    reset,       \* m_saw_downstream_reset
    replied,     \* a local reply went to the codec directly
    revived,     \* a filter continued an aborted chain
    saw,         \* what the filters and the codec were given
    failed       \* a g_assert failed

dataVars == <<wire, buffered, kept>>
endVars  == <<observed, complete, aborted, reset, replied, revived>>
vars     == <<chain, stack, router, sent, dataVars, base, endVars, saw, failed>>

-----------------------------------------------------------------------------
\* Frames.  f is the filter the loop has reached, Codec past the last one.
HeadersFrame(f, es) == [op |-> "headers", f |-> f, es |-> es]
DataFrame(f, es, buf) == [op |-> "data", f |-> f, es |-> es, buf |-> buf]
ContinueFrame(f) == [op |-> "continue", f |-> f, pc |-> "headers"]

Top == stack[Len(stack)]
Below == SubSeq(stack, 1, Len(stack) - 1)
Running(op) == stack # << >> /\ Top.op = op
Return == stack' = Below
Goto(frame) == stack' = Append(Below, frame)
Call(frame, callee) == stack' = Append(Append(Below, frame), callee)

Provided(buf) == IF buf = "wire" THEN wire ELSE buffered.data

\* common_encode_prefix: where an iteration that resumes at filter f starts
FirstFilter(f) == IF base[f].from_current THEN f ELSE f + 1

\* can_continue of the encoder filter: aborted is not asked for
CanContinue == ~complete

Sees(f, headers, data, end) ==
    saw' = [saw EXCEPT ![f] = [headers |-> @.headers + headers,
                               data    |-> @.data \o data,
                               ends    |-> @.ends + end]]

End(es) == IF es THEN 1 ELSE 0

\* send_local_reply from an encoding callback: the chain is aborted; the reply
\* goes to the codec past all filters while no headers are out, and after
\* that the stream is reset.  The reply does not complete the encoder chain:
\* rp_filter_manager_maybe_end_encode_ runs maybe_end_decode.
SendLocalReply ==
    /\ aborted' = TRUE
    /\ IF saw[Codec].headers = 0
       THEN replied' = TRUE /\ UNCHANGED reset
       ELSE reset' = TRUE /\ UNCHANGED replied

\* What the filter, and for a reply the codec, are given in one callback.
SeesReplying(f, headers, data, end, reply) ==
    saw' = [saw EXCEPT
              ![f] = [headers |-> @.headers + headers, data |-> @.data \o data,
                      ends |-> @.ends + end],
              ![Codec] = IF reply /\ @.headers = 0
                         THEN [@ EXCEPT !.headers = 1, !.ends = 1] ELSE @]

Init ==
    /\ chain \in Chains
    /\ stack = << >>
    /\ router = "idle"
    /\ sent = 0
    /\ wire = << >>
    /\ buffered = [exists |-> FALSE, data |-> << >>]
    /\ kept = [f \in Filters |-> << >>]
    /\ base = [f \in Filters |-> NewBase]
    /\ observed = FALSE /\ complete = FALSE /\ aborted = FALSE
    /\ reset = FALSE /\ replied = FALSE /\ revived = FALSE
    /\ saw = [f \in Filters \cup {Codec} |-> [headers |-> 0, data |-> << >>, ends |-> 0]]
    /\ failed = FALSE

-----------------------------------------------------------------------------
(* The router's calls: encode_headers_i and encode_data_i of               *)
(* rp-active-stream-decoder-filter.c.  A stream that was reset or has       *)
(* ended has let go of its upstream request.                               *)

RouterMay == stack = << >> /\ ~reset /\ ~complete

EncodeHeadersEntry(es) ==
    /\ RouterMay /\ router = "idle"
    /\ router' = IF es THEN "ended" ELSE "body"
    /\ observed' = es
    /\ stack' = <<HeadersFrame(1, es)>>
    /\ UNCHANGED <<chain, sent, dataVars, base, complete, aborted, reset, replied,
                   revived, saw, failed>>

EncodeDataEntry(es) ==
    /\ RouterMay /\ router = "body"
    /\ es \/ sent < Chunks
    /\ router' = IF es THEN "ended" ELSE "body"
    /\ \E more \in {TRUE} \cup (IF es THEN {FALSE} ELSE {}) :
          /\ more => sent < Chunks
          /\ sent' = IF more THEN sent + 1 ELSE sent
          /\ wire' = IF more THEN <<sent + 1>> ELSE << >>
    /\ observed' = (observed \/ es)
    /\ stack' = <<DataFrame(1, es, "wire")>>
    /\ UNCHANGED <<chain, buffered, kept, base, complete, aborted, reset, replied,
                   revived, saw, failed>>

\* The router answers an upstream failure itself: the reply goes past the
\* filters.
RouterReplies ==
    /\ RouterMay /\ router = "idle"
    /\ router' = "ended"
    /\ replied' = TRUE
    /\ Sees(Codec, 1, << >>, 1)
    /\ UNCHANGED <<chain, stack, sent, dataVars, base, observed, complete, aborted,
                   reset, revived, failed>>

\* The client goes away, or the upstream fails once the response is under way.
ResetStream ==
    /\ RouterMay
    /\ reset' = TRUE
    /\ UNCHANGED <<chain, stack, router, sent, dataVars, base, observed, complete,
                   aborted, replied, revived, saw, failed>>

-----------------------------------------------------------------------------
(* encode_headers and encode_data: one round of their loops.               *)

HeadersCallback(returned, reply) ==
    LET f == Top.f
        status == IF aborted \/ reply THEN "StopIteration" ELSE returned
    IN
    /\ Running("headers") /\ f \in Filters
    /\ returned \in chain[f].headers
    /\ reply => chain[f].replies
    /\ SeesReplying(f, 1, << >>, End(Top.es), reply)
    /\ IF reply THEN SendLocalReply ELSE UNCHANGED <<aborted, reset, replied>>
    /\ base' = [base EXCEPT ![f] = AfterHeaders([@ EXCEPT !.end_stream = Top.es], status)]
    /\ IF status = "Continue" THEN Goto([Top EXCEPT !.f = f + 1]) ELSE Return
    /\ UNCHANGED <<chain, router, sent, dataVars, observed, complete, revived, failed>>

\* handle_data_if_stop_all, and the return for a filter that saw the end
DataNotWanted ==
    LET f == Top.f IN
    /\ Running("data") /\ f \in Filters
    /\ HasStoppedAll(base[f]) \/ base[f].end_stream
    /\ IF HasStoppedAll(base[f]) /\ Top.buf = "wire"
       THEN /\ buffered' = [exists |-> TRUE, data |-> buffered.data \o wire]
            /\ wire' = << >>
       ELSE UNCHANGED <<buffered, wire>>
    /\ Return
    /\ UNCHANGED <<chain, router, sent, kept, base, endVars, saw, failed>>

\* What the filter leaves in the evbuffer, and in its own: encode_data of the
\* decompressor and of the URL rewriter take the data over as long as they
\* return StopIterationNoBuffer, and put all of it in front of the last piece.
Released(f, data, status) ==
    IF status = "StopIterationNoBuffer" THEN [out |-> << >>, kept |-> kept[f] \o data]
    ELSE [out |-> kept[f] \o data, kept |-> << >>]

\* Mutant: a filter that had stopped is not continued, its data go on alone.
DataContinuesUnbuffered(fr, out) ==
    /\ wire' = out /\ UNCHANGED buffered
    /\ Goto([fr EXCEPT !.f = fr.f + 1])
    /\ UNCHANGED failed
\* common_handle_after_data_callback for Continue: a filter that had stopped
\* is continued, the data going through the stream's buffer
DataContinues(fr, out) ==
    LET f == fr.f IN
    IF base[f].state = "StopSingleIteration"
    THEN /\ wire' = << >>
         /\ buffered' = [exists |-> TRUE,
                         data |-> IF fr.buf = "wire" THEN buffered.data \o out ELSE out]
         /\ Goto(ContinueFrame(f))
         /\ UNCHANGED failed
    ELSE /\ IF fr.buf = "wire"
            THEN wire' = out /\ UNCHANGED buffered
            ELSE buffered' = [buffered EXCEPT !.data = out] /\ UNCHANGED wire
         /\ Goto([fr EXCEPT !.f = f + 1])
         /\ failed' = (failed \/ ~base[f].headers_continued)

\* ... for the others.  A filter that swallowed the end of the body leaves an
\* empty buffer, so that common_continue has an end to deliver.
DataStops(fr, out, status, es) ==
    /\ wire' = << >>
    /\ IF status # "StopIterationNoBuffer"
       THEN /\ buffered' = [exists |-> TRUE,
                            data |-> IF fr.buf = "wire" THEN buffered.data \o out ELSE out]
            /\ UNCHANGED failed
       ELSE /\ buffered' = [exists |-> buffered.exists \/ (observed /\ ~reset'),
                            data |-> IF fr.buf = "wire" THEN buffered.data ELSE << >>]
            /\ failed' = (failed \/ (observed /\ ~buffered.exists /\ ~reset' /\ ~es))
    /\ Return

DataCallback(returned, reply) ==
    LET fr == Top
        f == fr.f
        status == IF aborted \/ reply THEN "StopIterationNoBuffer" ELSE returned
        r == Released(f, Provided(fr.buf), returned)
        seen == [base[f] EXCEPT !.end_stream = fr.es]
    IN
    /\ Running("data") /\ f \in Filters
    /\ ~HasStoppedAll(base[f]) /\ ~base[f].end_stream
    /\ returned \in IF fr.es THEN chain[f].last ELSE chain[f].data
    /\ reply => chain[f].replies
    /\ SeesReplying(f, 0, Provided(fr.buf), End(fr.es), reply)
    /\ IF reply THEN SendLocalReply ELSE UNCHANGED <<aborted, reset, replied>>
    /\ kept' = [kept EXCEPT ![f] = r.kept]
    /\ IF status = "Continue"
       THEN base' = [base EXCEPT ![f] = seen] /\ DataContinues(fr, r.out)
       ELSE /\ base' = [base EXCEPT ![f] = [seen EXCEPT !.state = "StopSingleIteration"]]
            /\ DataStops(fr, r.out, status, fr.es)
    /\ UNCHANGED <<chain, router, sent, observed, complete, revived>>

\* The loop is over: the codec gets the headers or the data.  Its write may
\* find the connection closed, which resets the stream; otherwise
\* maybe_end_encode completes the chain and ends the stream.
CodecCall(broken) ==
    LET fr == Top IN
    /\ stack # << >> /\ fr.op \in {"headers", "data"} /\ fr.f = Codec
    /\ IF fr.op = "headers"
       THEN Sees(Codec, 1, << >>, End(fr.es)) /\ UNCHANGED <<wire, buffered>>
       ELSE /\ Sees(Codec, 0, Provided(fr.buf), End(fr.es))
            /\ IF fr.buf = "wire"
               THEN wire' = << >> /\ UNCHANGED buffered
               ELSE buffered' = [buffered EXCEPT !.data = << >>] /\ UNCHANGED wire
    /\ reset' = (reset \/ broken)
    /\ complete' = (complete \/ (fr.es /\ ~reset'))
    /\ Return
    /\ UNCHANGED <<chain, router, sent, kept, base, observed, aborted, replied,
                   revived, failed>>

-----------------------------------------------------------------------------
(* common_continue *)

\* continue_encoding, called by a stopped filter from an event of its own
ContinueEncoding(f) ==
    /\ RouterMay
    /\ chain[f].resumes
    /\ base[f].state # "Continue"
    /\ stack' = <<ContinueFrame(f)>>
    /\ revived' = (revived \/ aborted)
    /\ UNCHANGED <<chain, router, sent, dataVars, base, observed, complete, aborted,
                   reset, replied, saw, failed>>

\* whether the headers are all there is to deliver
ContinueEnd == observed /\ ~buffered.exists

ContinueHeaders ==
    LET f == Top.f
        next == [Top EXCEPT !.pc = "data"]
    IN
    /\ Running("continue") /\ Top.pc = "headers"
    /\ IF CanContinue
       THEN /\ base' = [base EXCEPT ![f] = Allowed(@)]
            /\ IF base[f].headers_continued
               THEN Goto(next)
               ELSE Call(next, HeadersFrame(f + 1, ContinueEnd))
            /\ failed' = (failed \/ base[f].state = "Continue")
       ELSE Return /\ UNCHANGED <<base, failed>>
    /\ UNCHANGED <<chain, router, sent, dataVars, endVars, saw>>

ContinueData ==
    LET next == [Top EXCEPT !.pc = "done"] IN
    /\ Running("continue") /\ Top.pc = "data"
    /\ IF buffered.exists
       THEN Call(next, DataFrame(FirstFilter(Top.f), observed, "buffered"))
       ELSE Goto(next)
    /\ UNCHANGED <<chain, router, sent, dataVars, base, endVars, saw, failed>>

ContinueDone ==
    /\ Running("continue") /\ Top.pc = "done"
    /\ base' = [base EXCEPT ![Top.f].from_current = FALSE]
    /\ Return
    /\ UNCHANGED <<chain, router, sent, dataVars, endVars, saw, failed>>

Callback ==
    \E reply \in BOOLEAN :
        \/ \E s \in HeadersStatuses : HeadersCallback(s, reply)
        \/ \E s \in DataStatuses : DataCallback(s, reply)

Run == \/ Callback \/ DataNotWanted \/ \E broken \in BOOLEAN : CodecCall(broken)
       \/ ContinueHeaders \/ ContinueData \/ ContinueDone

Next == \/ \E es \in BOOLEAN : EncodeHeadersEntry(es) \/ EncodeDataEntry(es)
        \/ RouterReplies \/ ResetStream \/ Run
        \/ \E f \in Filters : ContinueEncoding(f)

Spec == Init /\ [][Next]_vars

\* The upstream answers to the end or the router gives up, a call that is
\* under way returns, and a filter that waits for something continues.
Fairness == /\ WF_vars(\E es \in BOOLEAN : EncodeHeadersEntry(es))
            /\ WF_vars(EncodeDataEntry(TRUE))
            /\ WF_vars(Run)
            /\ \A f \in Filters : WF_vars(ContinueEncoding(f))

FairSpec == Spec /\ Fairness

-----------------------------------------------------------------------------
Stages == Filters \cup {Codec}

TypeOK ==
    /\ router \in {"idle", "body", "ended"}
    /\ sent \in 0 .. Chunks
    /\ base \in [Filters -> BaseType]
    /\ \A i \in DOMAIN stack : stack[i].f \in Stages
    /\ Len(stack) <= 2 * N

\* Every filter and the codec get the headers once and first, the body without
\* a gap and in order, its end once and last.
InOrder ==
    \A f \in Stages :
        LET s == saw[f] IN
        /\ s.headers <= 1 /\ s.ends <= 1
        /\ s.data = [i \in 1 .. Len(s.data) |-> i]
        /\ s.data # << >> => s.headers = 1

\* The end that a filter or the codec gets is the end of the response, and
\* comes when it has all of it; the end of a local reply is the codec's only.
NotCutShort ==
    \A f \in Stages :
        saw[f].ends = 1 /\ ~(f = Codec /\ replied)
            => router = "ended" /\ saw[f].data = [i \in 1 .. sent |-> i]

\* A local reply is the only response of its stream.
OneResponse == replied => saw[Codec].data = << >>

\* The response the codec gets is the one the router encoded, in order and
\* whole, or the local reply and nothing else, and no assertion fails; but
\* for a chain that a filter continues although it was aborted, which
\* can_continue does not refuse.
ResponseInOrder ==
    TypeOK /\ ~failed /\ (~revived => InOrder /\ NotCutShort /\ OneResponse)

\* A filter that decompresses does not find the end of its input: it stops
\* with the last piece and nothing continues it.
Withheld ==
    \E f \in Filters : /\ "StopIterationNoBuffer" \in chain[f].last
                       /\ base[f].end_stream /\ base[f].state = "StopSingleIteration"

\* Every response reaches its end: the codec gets it and the stream ends,
\* unless the stream is reset, a local reply takes the response's place or a
\* filter withholds it.
ResponseDelivered == <>(complete \/ reset \/ replied \/ Withheld)
=============================================================================
