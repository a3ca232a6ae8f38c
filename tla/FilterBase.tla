------------------------------ MODULE FilterBase ------------------------------
(***************************************************************************)
(* rp-active-stream-filter-base.c: what the two halves of the filter        *)
(* manager have in common.  RpActiveStreamFilterBase keeps, for one filter  *)
(* of one stream, whether it has stopped the iteration and how much of the  *)
(* message has gone past it.                                                *)
(***************************************************************************)
EXTENDS Naturals, Sequences

\* RpFilterHeadersStatus_e, RpFilterDataStatus_e, RpFilterTrailerStatus_e
HeadersStatuses == {"Continue", "StopIteration", "StopAllIterationAndBuffer",
                    "StopAllIterationAndWatermark"}
DataStatuses == {"Continue", "StopIterationAndBuffer",
                 "StopIterationAndWatermark", "StopIterationNoBuffer"}
TrailersStatuses == {"Continue", "StopIteration"}

\* m_iteration_state, m_iterate_from_current_filter, m_headers_continued and
\* m_end_stream
BaseType == [state : {"Continue", "StopSingleIteration", "StopAllBuffer",
                      "StopAllWatermark"},
             from_current : BOOLEAN, headers_continued : BOOLEAN,
             end_stream : BOOLEAN]

NewBase == [state |-> "Continue", from_current |-> FALSE,
            headers_continued |-> FALSE, end_stream |-> FALSE]

\* rp_active_stream_filter_base_stopped_all
HasStoppedAll(b) == b.state \in {"StopAllBuffer", "StopAllWatermark"}

\* Mutant: that the headers went on is not remembered.
AfterHeadersForgets(b, status) ==
    CASE status = "Continue" -> b
      [] status = "StopIteration" -> [b EXCEPT !.state = "StopSingleIteration"]
      [] OTHER -> [b EXCEPT !.state = "StopAllWatermark"]
\* common_handle_after_headers_callback: what a status makes of a filter
AfterHeaders(b, status) ==
    CASE status = "Continue" -> [b EXCEPT !.headers_continued = TRUE]
      [] status = "StopIteration" -> [b EXCEPT !.state = "StopSingleIteration"]
      [] status = "StopAllIterationAndBuffer" -> [b EXCEPT !.state = "StopAllBuffer"]
      [] status = "StopAllIterationAndWatermark" -> [b EXCEPT !.state = "StopAllWatermark"]

\* common_continue, its first half: a filter that had stopped everything is
\* itself the first one to get the data
Allowed(b) == [b EXCEPT !.state = "Continue",
                        !.from_current = @ \/ HasStoppedAll(b),
                        !.headers_continued = TRUE]
=============================================================================
