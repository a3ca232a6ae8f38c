-------------------------- MODULE DecoderFilterChain --------------------------
(***************************************************************************)
(* The request ("decoder") half of RpFilterManager: how the headers, the    *)
(* body and the trailers of one request travel through the chain of decoder *)
(* filters, how a filter stops that iteration with the status its callback  *)
(* returns, and how common_continue picks it up again later.  The code is   *)
(* rp-filter-manager.c (decode_headers, decode_data, decode_trailers) and   *)
(* rp-active-stream-filter-base.c (what a status does to a filter).         *)
(*                                                                         *)
(* The code iterates by nested calls: a data callback may call              *)
(* common_continue, which calls decode_headers for the filters behind, and  *)
(* so on.  The calls that are under way are the frames of `stack`, the      *)
(* innermost one last; a step runs the innermost frame up to its next call. *)
(* Filters 1 .. N are in chain order, N is the terminal one (the router, or *)
(* the upstream codec filter in the chain of an upstream request).          *)
(*                                                                         *)
(* Body data is a sequence of chunk numbers, so that what a filter saw can  *)
(* be compared with what was sent.  The two watermark flags                 *)
(* (m_decoder_filters_streaming, m_latest_data_decoding_filter) are read by *)
(* no decision of this code and are left out.                               *)
(***************************************************************************)
EXTENDS FilterBase

CONSTANTS N,        \* number of decoder filters
          Chunks,   \* most body chunks a request has
          EnableTrailers, \* whether the codec delivers trailers
          Chains    \* the chains: what the callbacks of each filter may
                    \* return, which filters call continue_decoding, and
                    \* whether it is the chain of an upstream request

Filters == 1 .. N

ASSUME BoundAssumption == N \in Nat \ {0} /\ Chunks \in Nat /\ EnableTrailers \in BOOLEAN
\* The terminal filter takes the data it is given, so it asks for no buffer.
ASSUME ChainAssumption ==
    \A c \in Chains :
        /\ c.headers \in [Filters -> SUBSET HeadersStatuses]
        /\ c.data \in [Filters -> SUBSET DataStatuses]
        /\ c.data[N] \subseteq {"Continue", "StopIterationNoBuffer"}
        /\ c.trailers \in [Filters -> SUBSET TrailersStatuses]
        /\ c.resumes \subseteq Filters
        /\ c.upstream \in BOOLEAN

VARIABLES
    chain,       \* the chain of this stream, chosen when it is created
    stack,       \* the calls under way, innermost last
    codec,       \* what the codec delivered last
    sent,        \* chunks the codec delivered
    wire,        \* the evbuffer the codec passes to decode_data
    buffered,    \* m_buffered_request_data: whether it exists, and its chunks
    trailers,    \* the stream has request trailers
    base,        \* RpActiveStreamFilterBase of every filter
    observed,    \* m_observed_decode_end_stream
    complete,    \* m_decoder_filter_chain_complete
    aborted,     \* m_decoder_filter_chain_aborted
    replied,     \* a local reply was sent
    saw,         \* what every filter's callbacks were given
    absorbed,    \* <<f, c>>: filter f kept chunk c for itself
    failed       \* a g_assert failed

vars == <<chain, stack, codec, sent, wire, buffered, trailers, base, observed,
          complete, aborted, replied, saw, absorbed, failed>>

-----------------------------------------------------------------------------
\* Frames.  f is the filter the loop has reached, N + 1 past its end.
HeadersFrame(f, es) ==
    [op |-> "headers", f |-> f, es |-> es, last |-> FALSE]
DataFrame(f, es, buf) ==
    [op |-> "data", f |-> f, es |-> es, buf |-> buf, last |-> FALSE]
TrailersFrame(f) == [op |-> "trailers", f |-> f, last |-> FALSE]
ContinueFrame(f) == [op |-> "continue", f |-> f, pc |-> "headers", had |-> FALSE]

Top == stack[Len(stack)]
Below == SubSeq(stack, 1, Len(stack) - 1)
Return == stack' = Below
Goto(frame) == stack' = Append(Below, frame)
Call(frame, callee) == stack' = Append(Append(Below, frame), callee)

StoppedAll(f) == HasStoppedAll(base[f])

\* Mutant: the filter that asked to see the data itself is skipped.
FirstFilterAlwaysNext(f) == f + 1
\* common_decode_prefix: where an iteration that resumes at filter f starts
FirstFilter(f) == IF base[f].from_current THEN f ELSE f + 1

Provided(buf) == IF buf = "wire" THEN wire ELSE buffered.data

Content(data) == {data[i] : i \in DOMAIN data}

\* common_handle_buffer_data: move the provided data to the stream's buffer,
\* which is created when there is none; nothing to do when it is that buffer
HandleBufferData(buf) ==
    IF buf = "wire"
    THEN /\ buffered' = [exists |-> TRUE, data |-> buffered.data \o wire]
         /\ wire' = << >>
    ELSE UNCHANGED <<buffered, wire>>

\* The filter that got the data took it out of the evbuffer.
Drain(buf) ==
    IF buf = "wire"
    THEN /\ wire' = << >>
         /\ UNCHANGED buffered
    ELSE /\ buffered' = [buffered EXCEPT !.data = << >>]
         /\ UNCHANGED wire

\* ... and what is left is buffered all the same
DrainAndBuffer(buf) ==
    /\ wire' = << >>
    /\ buffered' = [exists |-> TRUE,
                    data |-> IF buf = "wire" THEN buffered.data ELSE << >>]

Sees(f, headers, data, trl, end) ==
    saw' = [saw EXCEPT ![f] = [headers  |-> @.headers + headers,
                               data     |-> @.data \o data,
                               trailers |-> @.trailers + trl,
                               ends     |-> @.ends + end]]

\* Mutant: an aborted chain goes on.
CanContinueAlways == TRUE
\* can_continue, and the early return of decode_data and decode_trailers
CanContinue == ~aborted

\* maybe_end_decode: without half-close, only the flag
MaybeEndDecode(last) == complete' = (complete \/ last)

\* A callback may send a local reply, which aborts the decoder chain.  In a
\* downstream chain send_direct_local_reply ends with maybe_end_encode_, which
\* runs maybe_end_decode; a response whose headers are out is reset instead.
LocalReply(reply) ==
    /\ aborted' = (aborted \/ reply)
    /\ complete' \in {complete, complete \/ (reply /\ ~chain.upstream)}
    /\ replied' = (replied \/ reply)

Init ==
    /\ chain \in Chains
    /\ stack = << >>
    /\ codec = "idle"
    /\ sent = 0
    /\ wire = << >>
    /\ buffered = [exists |-> FALSE, data |-> << >>]
    /\ trailers = FALSE
    /\ base = [f \in Filters |-> NewBase]
    /\ observed = FALSE
    /\ complete = FALSE
    /\ aborted = FALSE
    /\ replied = FALSE
    /\ saw = [f \in Filters |-> [headers |-> 0, data |-> << >>,
                                 trailers |-> 0, ends |-> 0]]
    /\ absorbed = {}
    /\ failed = FALSE

-----------------------------------------------------------------------------
(* The codec's calls: rp_filter_manager_decode_headers, _data, _trailers.   *)
(* A request ends with its headers, with an empty last data call or with    *)
(* trailers.                                                                *)

DecodeHeadersEntry(es) ==
    /\ stack = << >>
    /\ codec = "idle"
    /\ codec' = IF es THEN "ended" ELSE "body"
    /\ observed' = es
    /\ stack' = <<HeadersFrame(1, es)>>
    /\ UNCHANGED <<chain, sent, wire, buffered, trailers, base, complete, aborted,
                   replied, saw, absorbed, failed>>

\* decode_data returns at once when the chain was aborted.
DecodeDataEntry(es) ==
    /\ stack = << >>
    /\ codec = "body"
    /\ es \/ sent < Chunks
    /\ codec' = IF es THEN "ended" ELSE "body"
    /\ sent' = IF es THEN sent ELSE sent + 1
    /\ wire' = IF es THEN << >> ELSE <<sent + 1>>
    /\ observed' = es
    /\ stack' = IF CanContinue THEN <<DataFrame(1, es, "wire")>> ELSE << >>
    /\ UNCHANGED <<chain, buffered, trailers, base, complete, aborted,
                   replied, saw, absorbed, failed>>

\* The HTTP/1 codec ignores trailers for now (rp_http1_connection_impl_enable_trailers
\* is false); the filter manager is written for codecs that do not.
DecodeTrailersEntry ==
    /\ EnableTrailers
    /\ stack = << >>
    /\ codec = "body"
    /\ codec' = "ended"
    /\ trailers' = TRUE
    /\ stack' = IF CanContinue THEN <<TrailersFrame(1)>> ELSE << >>
    /\ UNCHANGED <<chain, sent, wire, buffered, base, observed, complete, aborted,
                   replied, saw, absorbed, failed>>

-----------------------------------------------------------------------------
(* decode_headers *)

\* The assertion decode_headers makes of the first filter it is to call.
HeadersAssert(f) == complete /\ f \in Filters => base[f].end_stream

\* One round of the loop.  A local reply overrides the status; the terminal
\* filter never returns early.
HeadersCallback(returned, reply) ==
    LET fr == Top
        f == fr.f
        status == IF aborted \/ reply THEN "StopIteration" ELSE returned
    IN
    /\ stack # << >> /\ fr.op = "headers" /\ f \in Filters
    /\ returned \in chain.headers[f]
    /\ LocalReply(reply)
    /\ Sees(f, 1, << >>, 0, IF fr.es THEN 1 ELSE 0)
    /\ base' = [base EXCEPT ![f] = AfterHeaders([@ EXCEPT !.end_stream = fr.es], status)]
    /\ IF f < N /\ status # "Continue"
       THEN Return
       ELSE Goto([fr EXCEPT !.f = f + 1, !.last = (f = N /\ fr.es)])
    /\ UNCHANGED <<chain, codec, sent, wire, buffered, trailers, observed, absorbed,
                   failed>>

-----------------------------------------------------------------------------
(* decode_data *)

\* handle_data_if_stop_all, and the return for a filter that saw the end
DataNotWanted ==
    LET fr == Top IN
    /\ stack # << >> /\ fr.op = "data" /\ fr.f \in Filters
    /\ \/ /\ StoppedAll(fr.f)
          /\ HandleBufferData(fr.buf)
       \/ /\ ~StoppedAll(fr.f) /\ base[fr.f].end_stream
          /\ UNCHANGED <<wire, buffered>>
    /\ Return
    /\ UNCHANGED <<chain, codec, sent, trailers, base, observed, complete, aborted,
                   replied, saw, absorbed, failed>>

\* common_handle_after_data_callback when the filter returned Continue: a
\* filter that had stopped is continued, its data going through the buffer
DataContinues(fr, next) ==
    LET f == fr.f IN
    IF base[f].state = "StopSingleIteration"
    THEN /\ IF f = N THEN DrainAndBuffer(fr.buf) ELSE HandleBufferData(fr.buf)
         /\ Call(next, ContinueFrame(f))
         /\ UNCHANGED failed
    ELSE /\ IF f = N THEN Drain(fr.buf) ELSE UNCHANGED <<wire, buffered>>
         /\ Goto(next)
         /\ failed' = (failed \/ ~base[f].headers_continued)

\* Mutant: no empty buffer stands for an end that was swallowed.
SwallowedEndNever == FALSE
\* the filter swallowed the end of the stream and nothing is buffered
SwallowedEnd == observed /\ ~trailers /\ ~buffered.exists

\* ... when it stopped.  A filter that swallowed the end of the body leaves
\* an empty buffer, so that common_continue has an end to deliver.
DataStops(fr, next, status, es) ==
    /\ IF status # "StopIterationNoBuffer"
       THEN HandleBufferData(fr.buf) /\ UNCHANGED failed
       ELSE IF SwallowedEnd
       THEN /\ buffered' = [exists |-> TRUE, data |-> << >>]
            /\ wire' = << >>
            /\ failed' = (failed \/ ~es)
       ELSE Drain(fr.buf) /\ UNCHANGED failed
    /\ IF fr.f = N THEN Goto(next) ELSE Return

\* One round of the loop of decode_data.
DataCallback(status, reply) ==
    LET fr == Top
        f == fr.f
        es == fr.es /\ ~trailers
        next == [fr EXCEPT !.f = IF base[f].state = "Continue" THEN f + 1 ELSE N + 1,
                           !.last = (f = N /\ fr.es)]
        seen == [base[f] EXCEPT !.end_stream = es]
    IN
    /\ stack # << >> /\ fr.op = "data" /\ f \in Filters
    /\ ~StoppedAll(f) /\ ~base[f].end_stream
    /\ status \in chain.data[f]
    /\ LocalReply(reply)
    /\ Sees(f, 0, Provided(fr.buf), 0, IF es THEN 1 ELSE 0)
    /\ absorbed' = IF f < N /\ status = "StopIterationNoBuffer"
                   THEN absorbed \cup ({f} \X Content(Provided(fr.buf)))
                   ELSE absorbed
    /\ IF aborted \/ reply
       THEN /\ Return
            /\ base' = [base EXCEPT ![f] = seen]
            /\ UNCHANGED <<wire, buffered, failed>>
       ELSE IF status = "Continue"
       THEN /\ base' = [base EXCEPT ![f] = seen]
            /\ DataContinues(fr, next)
       ELSE /\ base' = [base EXCEPT ![f] = [seen EXCEPT !.state = "StopSingleIteration"]]
            /\ DataStops(fr, next, status, es)
    /\ UNCHANGED <<chain, codec, sent, trailers, observed>>

-----------------------------------------------------------------------------
(* decode_trailers *)

TrailersNotWanted ==
    /\ stack # << >> /\ Top.op = "trailers" /\ Top.f \in Filters
    /\ StoppedAll(Top.f)
    /\ Return
    /\ UNCHANGED <<chain, codec, sent, wire, buffered, trailers, base, observed,
                   complete, aborted, replied, saw, absorbed, failed>>

\* One round of the loop, common_handle_after_trailers_callback included.
TrailersCallback(returned, reply) ==
    LET f == Top.f
        status == IF aborted \/ reply THEN "StopIteration" ELSE returned
        b == [base[f] EXCEPT !.end_stream = TRUE]
    IN
    /\ stack # << >> /\ Top.op = "trailers" /\ f \in Filters
    /\ ~StoppedAll(f)
    /\ returned \in chain.trailers[f]
    /\ LocalReply(reply)
    /\ Sees(f, 0, << >>, 1, 1)
    /\ \/ /\ status = "Continue" /\ b.state = "StopSingleIteration"
          /\ Goto(ContinueFrame(f))
          /\ base' = [base EXCEPT ![f] = b]
          /\ UNCHANGED failed
       \/ /\ status = "Continue" /\ b.state = "Continue"
          /\ Goto([Top EXCEPT !.f = f + 1, !.last = (f = N)])
          /\ base' = [base EXCEPT ![f] = b]
          /\ failed' = (failed \/ ~b.headers_continued)
       \/ /\ status = "StopIteration"
          /\ Return
          /\ base' = [base EXCEPT ![f] = [b EXCEPT !.state = "StopSingleIteration"]]
          /\ UNCHANGED failed
    /\ UNCHANGED <<chain, codec, sent, wire, buffered, trailers, observed, absorbed>>

\* maybe_end_decode, when one of the three loops is over; a loop that resumes
\* behind the terminal filter has no round and ends nothing
LoopEnd ==
    /\ stack # << >> /\ Top.op \in {"headers", "data", "trailers"}
    /\ Top.f = N + 1
    /\ MaybeEndDecode(Top.last)
    /\ Return
    /\ UNCHANGED <<chain, codec, sent, wire, buffered, trailers, base, observed,
                   aborted, replied, saw, absorbed, failed>>

-----------------------------------------------------------------------------
(* common_continue *)

\* continue_decoding, called by a stopped filter from an event of its own
ContinueDecoding(f) ==
    /\ stack = << >>
    /\ f \in chain.resumes
    /\ base[f].state # "Continue"
    /\ stack' = <<ContinueFrame(f)>>
    /\ UNCHANGED <<chain, codec, sent, wire, buffered, trailers, base, observed,
                   complete, aborted, replied, saw, absorbed, failed>>

\* the chain was aborted while the filter was stopped
CannotContinue ==
    /\ stack # << >> /\ Top.op = "continue" /\ Top.pc = "headers"
    /\ ~CanContinue
    /\ Return
    /\ UNCHANGED <<chain, codec, sent, wire, buffered, trailers, base, observed,
                   complete, aborted, replied, saw, absorbed, failed>>

\* allow_iteration, and the headers unless an earlier call passed them on
ContinueHeaders ==
    LET f == Top.f
        next == [Top EXCEPT !.pc = "data"]
        es == observed /\ ~buffered.exists /\ ~trailers
    IN
    /\ stack # << >> /\ Top.op = "continue" /\ Top.pc = "headers"
    /\ CanContinue
    /\ base' = [base EXCEPT ![f] = Allowed(@)]
    /\ IF base[f].headers_continued
       THEN Goto(next)
       ELSE Call(next, HeadersFrame(f + 1, es))
    /\ failed' = (failed \/ base[f].state = "Continue"
                         \/ (~base[f].headers_continued /\ ~HeadersAssert(f + 1)))
    /\ UNCHANGED <<chain, codec, sent, wire, buffered, trailers, observed, complete,
                   aborted, replied, saw, absorbed>>

\* the buffered data; decode_data returns at once when the chain was aborted
ContinueData ==
    LET next == [Top EXCEPT !.pc = "trailers", !.had = trailers]
        es == observed /\ ~trailers
    IN
    /\ stack # << >> /\ Top.op = "continue" /\ Top.pc = "data"
    /\ IF buffered.exists /\ CanContinue
       THEN Call(next, DataFrame(FirstFilter(Top.f), es, "buffered"))
       ELSE Goto(next)
    /\ UNCHANGED <<chain, codec, sent, wire, buffered, trailers, base, observed,
                   complete, aborted, replied, saw, absorbed, failed>>

\* Mutant: common_continue does not pass the trailers on.
ContinueTrailersForgets ==
    /\ stack # << >> /\ Top.op = "continue" /\ Top.pc = "trailers"
    /\ Goto([Top EXCEPT !.pc = "done"])
    /\ UNCHANGED <<chain, codec, sent, wire, buffered, trailers, base, observed,
                   complete, aborted, replied, saw, absorbed, failed>>
\* the trailers, if there were any before the data
ContinueTrailers ==
    LET next == [Top EXCEPT !.pc = "done"] IN
    /\ stack # << >> /\ Top.op = "continue" /\ Top.pc = "trailers"
    /\ IF Top.had /\ CanContinue
       THEN Call(next, TrailersFrame(FirstFilter(Top.f)))
       ELSE Goto(next)
    /\ UNCHANGED <<chain, codec, sent, wire, buffered, trailers, base, observed,
                   complete, aborted, replied, saw, absorbed, failed>>

ContinueDone ==
    /\ stack # << >> /\ Top.op = "continue" /\ Top.pc = "done"
    /\ base' = [base EXCEPT ![Top.f].from_current = FALSE]
    /\ Return
    /\ UNCHANGED <<chain, codec, sent, wire, buffered, trailers, observed, complete,
                   aborted, replied, saw, absorbed, failed>>

-----------------------------------------------------------------------------
(* Events of the response path. *)

\* The response was encoded to its end: common_encode_prefix, without
\* half-close, aborts the decoder chain.
ResponseEnds ==
    /\ stack = << >>
    /\ saw[N].headers > 0
    /\ ~aborted
    /\ aborted' = TRUE
    /\ UNCHANGED <<chain, stack, codec, sent, wire, buffered, trailers, base,
                   observed, complete, replied, saw, absorbed, failed>>

\* A local reply outside every callback: the router answers an upstream
\* failure, which marks the decoder chain complete; the upstream codec filter
\* fails to encode the headers it had kept, which aborts the upstream chain.
LateLocalReply ==
    /\ stack = << >>
    /\ saw[N].headers > 0
    /\ ~replied /\ ~aborted
    /\ replied' = TRUE
    /\ complete' = (complete \/ ~chain.upstream)
    /\ aborted' = chain.upstream
    /\ UNCHANGED <<chain, stack, codec, sent, wire, buffered, trailers, base,
                   observed, saw, absorbed, failed>>

Deliver == \/ \E es \in BOOLEAN : DecodeHeadersEntry(es) \/ DecodeDataEntry(es)
           \/ DecodeTrailersEntry

Callback ==
    \E reply \in BOOLEAN :
        \/ \E s \in HeadersStatuses : HeadersCallback(s, reply)
        \/ \E s \in DataStatuses : DataCallback(s, reply)
        \/ \E s \in TrailersStatuses : TrailersCallback(s, reply)

Run == \/ Callback \/ DataNotWanted \/ TrailersNotWanted \/ LoopEnd
       \/ CannotContinue \/ ContinueHeaders \/ ContinueData
       \/ ContinueTrailers \/ ContinueDone

Next == \/ Deliver \/ Run \/ ResponseEnds \/ LateLocalReply
        \/ \E f \in Filters : ContinueDecoding(f)

Spec == Init /\ [][Next]_vars

\* The codec delivers the rest of the request, a call that is under way
\* returns, and a stopped filter that resumes does so.
Fairness == /\ WF_vars(DecodeHeadersEntry(TRUE) \/ DecodeHeadersEntry(FALSE))
            /\ WF_vars(DecodeDataEntry(TRUE) \/ DecodeTrailersEntry)
            /\ WF_vars(Run)
            /\ \A f \in Filters : WF_vars(ContinueDecoding(f))

FairSpec == Spec /\ Fairness

-----------------------------------------------------------------------------
\* Every variable has its type; the calls that are under way are at a filter
\* of the chain or past its end, and their nesting is bounded: a filter has
\* at most one common_continue and one decode_ call of its own under way.
TypeOK ==
    /\ codec \in {"idle", "body", "ended"}
    /\ sent \in 0 .. Chunks
    /\ base \in [Filters -> BaseType]
    /\ \A v \in {observed, complete, aborted, replied, trailers, failed,
                 buffered.exists} : v \in BOOLEAN
    /\ absorbed \subseteq Filters \X (1 .. Chunks)
    /\ \A i \in DOMAIN stack : stack[i].f \in 1 .. N + 1
    /\ Len(stack) <= 2 * N

\* None of the assertions of rp-filter-manager.c and
\* rp-active-stream-filter-base.c fails.
NoAssertFails == ~failed

\* Every filter gets the headers, the trailers and the end of the stream at
\* most once, and the body in order, each chunk once, with no gap but what
\* an earlier filter kept.
BodyInOrder ==
    \A f \in Filters :
        LET d == saw[f].data IN
        /\ saw[f].headers <= 1 /\ saw[f].trailers <= 1 /\ saw[f].ends <= 1
        /\ \A i, j \in DOMAIN d : i < j => d[i] < d[j]
        /\ \A i \in DOMAIN d : \A c \in 1 .. d[i] :
              c \in Content(d) \/ \E g \in 1 .. f - 1 : <<g, c>> \in absorbed

\* Nothing gets past a filter: what a later filter saw, an earlier one saw.
NoBypass ==
    \A f, g \in Filters : f < g =>
        /\ saw[g].headers <= saw[f].headers
        /\ saw[g].trailers <= saw[f].trailers
        /\ saw[g].ends <= saw[f].ends
        /\ Content(saw[g].data) \subseteq Content(saw[f].data)

Stopped(f) == base[f].state # "Continue" /\ (f < N \/ StoppedAll(f))

\* When the request has ended, no call is under way and no filter is
\* stopped, the terminal filter has the whole request: nothing is left
\* behind in a buffer and the end is not lost.
NothingLost ==
    stack = << >> /\ codec = "ended" /\ ~aborted /\ ~(\E f \in Filters : Stopped(f))
      => /\ saw[N].ends = 1
         /\ \A c \in 1 .. sent : c \in Content(saw[N].data)
                                 \/ \E g \in Filters : <<g, c>> \in absorbed

\* The chain is complete only when the terminal filter has seen the end
\* (or a local reply replaced the upstream's answer).
CompleteMeansEnded == complete => saw[N].ends = 1 \/ replied

\* The chain stays in states its assertions allow, and is complete only when
\* it has ended.
ChainConsistent == TypeOK /\ NoAssertFails /\ CompleteMeansEnded

\* The body arrives in order and whole.
BodyComplete == BodyInOrder /\ NothingLost

\* A filter gets body and trailers after the headers and before the end, and
\* nothing at all once the decoder chain was aborted.
CallsInProtocol ==
    [][/\ aborted => saw' = saw
       /\ \A f \in Filters :
         /\ saw'[f].data # saw[f].data => saw[f].headers = 1 /\ saw[f].ends = 0
         /\ saw'[f].trailers # saw[f].trailers => saw[f].headers = 1 /\ saw[f].ends = 0
         /\ saw'[f].headers # saw[f].headers => saw[f].ends = 0]_vars

\* Every request reaches its end at the terminal filter unless a local
\* reply or an early response took over.
RequestDelivered == <>(saw[N].ends = 1 \/ aborted \/ replied)
=============================================================================
