------------------------ MODULE MCDecoderFilterChain ------------------------
(***************************************************************************)
(* The chains of three decoder filters the runs use, by what the callbacks  *)
(* return.                                                                  *)
(***************************************************************************)
EXTENDS DecoderFilterChain

Pass == {"Continue"}

\* Two filters that wait for something before they let the request through,
\* as rp-dynamic-forward-proxy.c waits for its cluster; the router stops
\* the headers and takes what it gets of the body.
Waiting == {"Continue", "StopAllIterationAndBuffer", "StopAllIterationAndWatermark"}
WaitingChain ==
    [headers  |-> <<Waiting, Waiting, {"StopIteration"}>>,
     data     |-> <<Pass, Pass, {"StopIterationNoBuffer"}>>,
     trailers |-> <<Pass, Pass, Pass>>,
     resumes  |-> {1, 2},
     upstream |-> FALSE]

\* A filter that works on the body, stopping one callback at a time, then a
\* pass-through filter (rp-pass-through-filter.c) and the router.
BodyChain ==
    [headers  |-> <<{"Continue", "StopIteration"}, Pass, {"StopIteration"}>>,
     data     |-> <<DataStatuses, Pass, {"StopIterationNoBuffer"}>>,
     trailers |-> <<TrailersStatuses, Pass, Pass>>,
     resumes  |-> {1},
     upstream |-> FALSE]

\* The chain of an upstream request: rp-upstream-codec-filter.c, the last
\* one, waits for a connection and then passes everything on.
UpstreamChain ==
    [headers  |-> <<Pass, Waiting, {"Continue", "StopAllIterationAndWatermark"}>>,
     data     |-> <<Pass, Pass, Pass>>,
     trailers |-> <<Pass, Pass, Pass>>,
     resumes  |-> {2, 3},
     upstream |-> TRUE]

\* Two filters that hold body data, for buffering or rate limiting.
HoldingChain ==
    [headers  |-> <<Pass, Pass, {"StopIteration"}>>,
     data     |-> <<{"Continue", "StopIterationAndBuffer"},
                    {"Continue", "StopIterationAndBuffer"},
                    {"StopIterationNoBuffer"}>>,
     trailers |-> <<Pass, Pass, Pass>>,
     resumes  |-> {1, 2},
     upstream |-> FALSE]
HoldingChains == {HoldingChain}

AllChains == {WaitingChain, BodyChain, UpstreamChain}
=============================================================================
