--------------------------- MODULE MCFilterChains ---------------------------
(***************************************************************************)
(* Both halves of the filter manager in one run: the decoder chain carries  *)
(* a request, or the encoder chain a response.  The half that does not run  *)
(* is that of a stream whose request was aborted, or of one that was reset. *)
(***************************************************************************)
EXTENDS MCDecoderFilterChain

CONSTANT EncoderChains

VARIABLES e_chain, e_stack, e_router, e_sent, e_wire, e_buffered, e_kept, e_base,
          e_observed, e_complete, e_aborted, e_reset, e_replied, e_revived,
          e_saw, e_failed

E == INSTANCE EncoderFilterChain WITH
    N <- N - 1, Chains <- EncoderChains,
    chain <- e_chain, stack <- e_stack, router <- e_router, sent <- e_sent,
    wire <- e_wire, buffered <- e_buffered, kept <- e_kept, base <- e_base,
    observed <- e_observed, complete <- e_complete, aborted <- e_aborted,
    reset <- e_reset, replied <- e_replied, revived <- e_revived, saw <- e_saw,
    failed <- e_failed

eVars == <<e_chain, e_stack, e_router, e_sent, e_wire, e_buffered, e_kept, e_base,
           e_observed, e_complete, e_aborted, e_reset, e_replied, e_revived,
           e_saw, e_failed>>
allVars == <<vars, eVars>>

-----------------------------------------------------------------------------
(* The chains of two encoder filters.                                       *)

Filter(headers, data, last, replies, resumes) ==
    [headers |-> headers, data |-> data, last |-> last, replies |-> replies,
     resumes |-> resumes]

\* rp-pass-through-filter.c; a filter that may refuse what passes through it
PassThrough == Filter(Pass, Pass, Pass, FALSE, FALSE)
Checking == Filter(Pass, Pass, Pass, TRUE, FALSE)
\* rp-rewrite-urls-filter.c: holds the body to its end
Rewriting == Filter(Pass, {"StopIterationNoBuffer"}, Pass, FALSE, FALSE)
\* rp-decompressor-filter.c: holds what it cannot inflate yet
Decompressing == Filter(Pass, {"Continue", "StopIterationNoBuffer"},
                        {"Continue", "StopIterationNoBuffer"}, FALSE, FALSE)
\* filters that an embedding program may install: one that waits with the
\* headers, one that has the filter manager buffer the body
Patient == Filter(Waiting \cup {"StopIteration"}, Pass, Pass, FALSE, TRUE)
Buffering == Filter({"Continue", "StopIteration"},
                    {"Continue", "StopIterationAndBuffer", "StopIterationAndWatermark"},
                    Pass, FALSE, TRUE)

AllEncoderChains ==
    {<<Decompressing, Rewriting>>, <<Rewriting, PassThrough>>,
     <<Patient, Rewriting>>, <<Rewriting, Patient>>, <<Patient, Patient>>,
     <<Checking, Patient>>, <<Patient, Checking>>,
     <<PassThrough, Buffering>>, <<Buffering, Checking>>, <<Decompressing, Checking>>}

ASSUME EncoderChainAssumption ==
    \A c \in EncoderChains : \A f \in 1 .. N - 1 :
        /\ c[f].headers \subseteq HeadersStatuses
        /\ c[f].data \subseteq DataStatuses /\ c[f].last \subseteq DataStatuses

-----------------------------------------------------------------------------
\* The state of the half that does not run.
NoRequest ==
    /\ chain = CHOOSE c \in Chains : TRUE
    /\ stack = << >> /\ codec = "ended" /\ sent = 0 /\ wire = << >>
    /\ buffered = [exists |-> FALSE, data |-> << >>]
    /\ trailers = FALSE
    /\ base = [f \in Filters |-> NewBase]
    /\ observed = FALSE /\ complete = FALSE /\ aborted = TRUE /\ replied = FALSE
    /\ saw = [f \in Filters |-> [headers |-> 0, data |-> << >>, trailers |-> 0, ends |-> 0]]
    /\ absorbed = {} /\ failed = FALSE

NoResponse ==
    /\ e_chain = CHOOSE c \in EncoderChains : TRUE
    /\ e_stack = << >> /\ e_router = "idle" /\ e_sent = 0 /\ e_wire = << >>
    /\ e_buffered = [exists |-> FALSE, data |-> << >>]
    /\ e_kept = [f \in 1 .. N - 1 |-> << >>]
    /\ e_base = [f \in 1 .. N - 1 |-> NewBase]
    /\ e_observed = FALSE /\ e_complete = FALSE /\ e_aborted = FALSE
    /\ e_reset = TRUE /\ e_replied = FALSE /\ e_revived = FALSE
    /\ e_saw = [f \in 1 .. N |-> [headers |-> 0, data |-> << >>, ends |-> 0]]
    /\ e_failed = FALSE

BothInit == (Init /\ NoResponse) \/ (NoRequest /\ E!Init)

BothNext == (Next /\ UNCHANGED eVars) \/ (E!Next /\ UNCHANGED vars)

BothSpec == BothInit /\ [][BothNext]_allVars /\ Fairness /\ E!Fairness

\* The order of the response, see EncoderFilterChain.
ResponseInOrder == E!ResponseInOrder

\* A request reaches its end at the terminal filter and a response its end at
\* the codec, unless a reply or a reset took over: what a filter held back is
\* continued, whichever frame of the recursion it was stopped in.
MessagesDelivered == RequestDelivered /\ E!ResponseDelivered
=============================================================================
