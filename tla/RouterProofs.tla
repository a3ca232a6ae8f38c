---------------------------- MODULE RouterProofs ----------------------------
(***************************************************************************)
(* Machine-checked proofs about Router and HostSelection.  Those about     *)
(* Router are for requests and tunnels, every target and any number of     *)
(* pieces of body.                                                         *)
(*                                                                         *)
(* The inductive invariant says in which phase of its life a request is:   *)
(* not yet given to the router, waiting for the pool, streaming, or over   *)
(* (which includes one that never had an upstream request).  Each operator *)
(* of Router is first shown to be one update of the record it is given, in *)
(* the phases in which it is called.                                       *)
(*                                                                         *)
(* The last part is about HostSelection, for any number of workers and     *)
(* hosts: the shared position, written without a lock by workers that saw  *)
(* vectors of different lengths, leads no worker out of its vector.        *)
(***************************************************************************)
EXTENDS Router, HostSelection, FiniteSetTheorems, SequenceTheorems, TLAPS

(* What the downstream was given of a response that has begun and not yet  *)
(* ended.                                                                  *)
Begun(d) == d # <<>> /\ d[1] = "h" /\ \A i \in 2 .. Len(d) : d[i] = "b"

(* A response that may be all the downstream gets (see ResponseWellFormed).*)
WellFormed(d) ==
    \/ d \in {<<>>, <<"local">>}
    \/ /\ d[1] = "h"
       /\ \A i \in 2 .. Len(d) : d[i] = "b" \/ (d[i] = "e" /\ i = Len(d))

Fresh(v) == v = InitialWorld(v.kind, v.target)

(* The upstream request exists, the downstream stream lives and nothing    *)
(* went wrong yet.                                                         *)
Open(v) ==
    /\ v.list /\ v.obj = "live" /\ ~v.gone /\ ~v.aborted
    /\ ~v.rx
    /\ v.kind = "connect" => ~v.ended

(* The pool has the stream; headers and body are kept.                     *)
Waiting(v) ==
    /\ Open(v) /\ v.handle /\ ~v.up /\ v.pend = "none" /\ v.abort = "none"
    /\ ~v.dropped /\ v.sent = <<>> /\ v.down = <<>> /\ v.resp = "none"
    /\ v.paused <=> v.kind = "connect"
    /\ \/ /\ v.latched = "end" /\ v.kind = "http"
          /\ v.held = <<>> /\ v.got = <<"h", "e">>
       \/ v.latched = "more" /\ v.got = <<"h">> \o v.held

(* The upstream is there and nothing is kept back.  Where the bridge       *)
(* dropped a reset (dropped) the codec has already let go.                 *)
Streaming(v) ==
    /\ Open(v) /\ ~v.handle /\ v.up /\ ~v.paused /\ v.latched = "none" /\ v.held = <<>>
    /\ IF v.dropped
       THEN v.kind = "http" /\ v.pend = "none" /\ v.resp = "none"
       ELSE v.pend = "open" /\ v.sent = v.got /\ v.abort = "none"
    /\ v.kind = "connect" => v.resp = "none"
    /\ IF v.resp = "headers" \/ v.kind = "connect" THEN Begun(v.down) ELSE v.down = <<>>
    /\ v.got # <<>>

(* There is no upstream request any more, or never was: what was given of  *)
(* the response is final.                                                  *)
Over(v) ==
    /\ ~v.list /\ ~v.handle /\ v.pend = "none" /\ v.obj # "live" /\ v.got # <<>>
    /\ ~v.dropped => v.abort = "none" /\ IsPrefix(v.sent, v.got)
    /\ ~v.gone /\ ~v.aborted => v.down = <<>> /\ v.sent = <<>> /\ v.obj = "none"
    /\ ~v.gone /\ v.aborted => v.down = <<"local">>
    /\ WellFormed(v.down)

(* The inductive invariant.                                                *)
Phase(v) == v \in World /\ (Fresh(v) \/ Waiting(v) \/ Streaming(v) \/ Over(v))

(* A 1xx response has ended the process in the streaming phase.            *)
Interrupted(v) ==
    /\ v \in World /\ v.abort = "no encode_1xx_headers:412" /\ ~v.dropped
    /\ v.list /\ v.obj = "live" /\ ~v.gone /\ ~v.handle /\ v.up
    /\ v.latched = "none" /\ v.held = <<>> /\ v.sent = v.got /\ v.down = <<>>

IInv == Phase(w) \/ Interrupted(w)

----------------------------------------------------------------------------
(* What the downstream is given.                                           *)
Down == Seq(Pieces \cup {"local"})

(* The record keeps its type when one field is given a value of its own.   *)
LEMMA FieldType ==
  ASSUME NEW v \in World
  PROVE  /\ \A b \in BOOLEAN :
               /\ [v EXCEPT !.up = b] \in World /\ [v EXCEPT !.tx = b] \in World
               /\ [v EXCEPT !.rx = b] \in World /\ [v EXCEPT !.list = b] \in World
               /\ [v EXCEPT !.paused = b] \in World /\ [v EXCEPT !.dropped = b] \in World
               /\ [v EXCEPT !.gone = b] \in World /\ [v EXCEPT !.handle = b] \in World
               /\ [v EXCEPT !.aborted = b] \in World /\ [v EXCEPT !.ended = b] \in World
         /\ \A p \in {"none", "open", "done"} : [v EXCEPT !.pend = p] \in World
         /\ \A o \in {"none", "live", "deferred", "freed"} : [v EXCEPT !.obj = o] \in World
         /\ \A l \in {"none", "more", "end"} : [v EXCEPT !.latched = l] \in World
         /\ \A s \in Seq(Pieces) :
               /\ [v EXCEPT !.sent = s] \in World /\ [v EXCEPT !.held = s] \in World
               /\ [v EXCEPT !.got = s] \in World
         /\ \A d \in Down : [v EXCEPT !.down = d] \in World
         /\ [v EXCEPT !.abort = "freed encoder"] \in World
<1>1. \A x \in BOOLEAN : [v EXCEPT !.up = x] \in World
  BY DEF World
<1>2. \A x \in BOOLEAN : [v EXCEPT !.tx = x] \in World
  BY DEF World
<1>3. \A x \in BOOLEAN : [v EXCEPT !.rx = x] \in World
  BY DEF World
<1>4. \A x \in BOOLEAN : [v EXCEPT !.list = x] \in World
  BY DEF World
<1>5. \A x \in BOOLEAN : [v EXCEPT !.paused = x] \in World
  BY DEF World
<1>6. \A x \in BOOLEAN : [v EXCEPT !.dropped = x] \in World
  BY DEF World
<1>7. \A x \in BOOLEAN : [v EXCEPT !.gone = x] \in World
  BY DEF World
<1>8. \A x \in BOOLEAN : [v EXCEPT !.handle = x] \in World
  BY DEF World
<1>9. \A x \in BOOLEAN : [v EXCEPT !.aborted = x] \in World
  BY DEF World
<1>10. \A x \in BOOLEAN : [v EXCEPT !.ended = x] \in World
  BY DEF World
<1>11. \A x \in {"none", "open", "done"} : [v EXCEPT !.pend = x] \in World
  BY DEF World
<1>12. \A x \in {"none", "live", "deferred", "freed"} : [v EXCEPT !.obj = x] \in World
  BY DEF World
<1>13. \A x \in {"none", "more", "end"} : [v EXCEPT !.latched = x] \in World
  BY DEF World
<1>14. \A x \in Seq(Pieces) : [v EXCEPT !.sent = x] \in World
  BY DEF World
<1>15. \A x \in Seq(Pieces) : [v EXCEPT !.held = x] \in World
  BY DEF World
<1>16. \A x \in Seq(Pieces) : [v EXCEPT !.got = x] \in World
  BY DEF World
<1>17. \A x \in Down : [v EXCEPT !.down = x] \in World
  BY DEF World, Down
<1>18. [v EXCEPT !.abort = "freed encoder"] \in World
  BY DEF World
<1> QED
  BY <1>1, <1>2, <1>3, <1>4, <1>5, <1>6, <1>7, <1>8, <1>9,
     <1>10, <1>11, <1>12, <1>13, <1>14, <1>15, <1>16, <1>17, <1>18

----------------------------------------------------------------------------
(* What the operators of Router make of the record, in the situations in   *)
(* which they are called.                                                  *)

(* A live upstream request is deferred.                                    *)
LEMMA DeferLive ==
  ASSUME NEW v \in World, v.obj = "live"
  PROVE  Defer(v) = [v EXCEPT !.obj = "deferred"]
BY DEF Defer

(* Resetting a stream whose response is open lets go of the response.      *)
LEMMA ResetOpen ==
  ASSUME NEW v \in World, ~v.handle, v.up, ~(v.tx /\ v.rx), v.pend = "open"
  PROVE  ResetStream(v) = [v EXCEPT !.pend = "none", !.up = FALSE]
BY DEF World, ResetStream, UpstreamReset

(* Resetting a stream whose message is complete leaves the response to     *)
(* the codec, which is about to free it.                                   *)
LEMMA ResetDone ==
  ASSUME NEW v \in World, ~v.handle, v.up, v.pend = "done", v.kind = "http"
  PROVE  \E b \in BOOLEAN : ResetStream(v) = [v EXCEPT !.up = b]
<1>1. CASE v.tx /\ v.rx
  <2>0. [v EXCEPT !.handle = FALSE] = v
    BY DEF World
  <2>1. ResetStream(v) = v
    BY <1>1, <2>0 DEF ResetStream
  <2>2. v = [v EXCEPT !.up = TRUE]
    BY DEF World
  <2> QED
    BY <2>1, <2>2
<1>2. CASE ~(v.tx /\ v.rx)
  <2>1. ResetStream(v) = [v EXCEPT !.up = FALSE]
    BY <1>2 DEF World, ResetStream, UpstreamReset
  <2> QED
    BY <2>1
<1> QED
  BY <1>1, <1>2

(* Resetting a stream that waits takes it out of the pool.                 *)
LEMMA ResetWaiting ==
  ASSUME NEW v \in World, v.handle, ~v.up, ~v.rx
  PROVE  ResetStream(v) = [v EXCEPT !.handle = FALSE]
BY DEF World, ResetStream

(* Resetting a stream whose reset the bridge dropped uses the encoder that *)
(* was freed.                                                              *)
LEMMA ResetDropped ==
  ASSUME NEW v \in World, ~v.handle, v.up, ~v.rx, v.pend = "none"
  PROVE  \E a \in {v.abort, "freed encoder"} :
            ResetStream(v) = [[v EXCEPT !.abort = a] EXCEPT !.up = FALSE]
<1>1. v = [v EXCEPT !.handle = FALSE]
  BY DEF World
<1>2. ResetStream(v) = [UpstreamReset(v) EXCEPT !.up = FALSE]
  BY <1>1 DEF World, ResetStream
<1>3. UpstreamReset(v) = Fails(v, "freed encoder")
  BY DEF UpstreamReset
<1>4. v = [v EXCEPT !.abort = v.abort]
  BY DEF World
<1>5. \E a \in {v.abort, "freed encoder"} : Fails(v, "freed encoder") = [v EXCEPT !.abort = a]
  BY <1>4 DEF Fails
<1> QED
  BY <1>2, <1>3, <1>5

(* Destroying a router without an upstream request only marks it.          *)
LEMMA DestroyIdle ==
  ASSUME NEW v \in World, ~v.list
  PROVE  OnDestroy(v) = [v EXCEPT !.gone = TRUE]
BY DEF World, OnDestroy

(* Destroying a router resets its upstream request and defers it.          *)
LEMMA DestroyBy ==
  ASSUME NEW v \in World, v.list
  PROVE  OnDestroy(v) = Defer(ResetStream([v EXCEPT !.gone = TRUE, !.list = FALSE]))
BY DEF World, OnDestroy

(* Destroying the router while the response is open.                       *)
LEMMA DestroyOpen ==
  ASSUME NEW v \in World, v.list, v.obj = "live", ~v.handle, v.up, ~v.rx, v.pend = "open"
  PROVE  OnDestroy(v) = [v EXCEPT !.gone = TRUE, !.list = FALSE, !.pend = "none",
                                  !.up = FALSE, !.obj = "deferred"]
<1> DEFINE u == [v EXCEPT !.gone = TRUE, !.list = FALSE]
           r == [u EXCEPT !.pend = "none", !.up = FALSE]
<1>1. u \in World /\ ~u.handle /\ u.up /\ ~(u.tx /\ u.rx) /\ u.pend = "open"
  BY DEF World
<1>2. ResetStream(u) = r
  BY <1>1, ResetOpen
<1>3. r \in World /\ r.obj = "live"
  BY DEF World
<1>4. Defer(r) = [r EXCEPT !.obj = "deferred"]
  BY <1>3, DeferLive
<1>5. [r EXCEPT !.obj = "deferred"] = [v EXCEPT !.gone = TRUE, !.list = FALSE, !.pend = "none",
                                        !.up = FALSE, !.obj = "deferred"]
  BY DEF World
<1> HIDE DEF u, r
<1> QED
  BY <1>2, <1>4, <1>5, DestroyBy DEF u

(* Destroying the router while the stream waits in the pool.               *)
LEMMA DestroyWaiting ==
  ASSUME NEW v \in World, v.list, v.obj = "live", v.handle, ~v.up, ~v.rx
  PROVE  OnDestroy(v) = [v EXCEPT !.gone = TRUE, !.list = FALSE, !.handle = FALSE,
                                  !.obj = "deferred"]
<1> DEFINE u == [v EXCEPT !.gone = TRUE, !.list = FALSE]
           r == [u EXCEPT !.handle = FALSE]
<1>1. u \in World /\ u.handle /\ ~u.up /\ ~u.rx
  BY DEF World
<1>2. ResetStream(u) = r
  BY <1>1, ResetWaiting
<1>3. r \in World /\ r.obj = "live"
  BY DEF World
<1>4. Defer(r) = [r EXCEPT !.obj = "deferred"]
  BY <1>3, DeferLive
<1>5. [r EXCEPT !.obj = "deferred"] = [v EXCEPT !.gone = TRUE, !.list = FALSE, !.handle = FALSE,
                                        !.obj = "deferred"]
  BY DEF World
<1> HIDE DEF u, r
<1> QED
  BY <1>2, <1>4, <1>5, DestroyBy DEF u

(* Destroying the router after the bridge dropped a reset.                 *)
LEMMA DestroyDropped ==
  ASSUME NEW v \in World, v.list, v.obj = "live", ~v.handle, v.up, ~v.rx, v.pend = "none"
  PROVE  \E a \in {v.abort, "freed encoder"} :
            OnDestroy(v) = [v EXCEPT !.gone = TRUE, !.list = FALSE, !.abort = a,
                                     !.up = FALSE, !.obj = "deferred"]
<1> DEFINE u == [v EXCEPT !.gone = TRUE, !.list = FALSE]
           r(a) == [[u EXCEPT !.abort = a] EXCEPT !.up = FALSE]
<1>1. u \in World /\ ~u.handle /\ u.up /\ ~u.rx /\ u.pend = "none" /\ u.abort = v.abort
  BY DEF World
<1> HIDE DEF u
<1>2. PICK a \in {v.abort, "freed encoder"} : ResetStream(u) = r(a)
  BY <1>1, ResetDropped
<1> USE DEF u
<1>3. r(a) \in World /\ r(a).obj = "live"
  BY DEF World
<1>4. Defer(r(a)) = [r(a) EXCEPT !.obj = "deferred"]
  BY <1>3, DeferLive
<1>5. [r(a) EXCEPT !.obj = "deferred"] = [v EXCEPT !.gone = TRUE, !.list = FALSE, !.abort = a,
                                           !.up = FALSE, !.obj = "deferred"]
  BY DEF World
<1> HIDE DEF u, r
<1> QED
  BY <1>2, <1>4, <1>5, DestroyBy DEF u

----------------------------------------------------------------------------
(* Sequences of pieces.                                                    *)

(* A response that has begun stays one with a piece of body more, and is   *)
(* whole with the end.                                                     *)
LEMMA BegunGrows ==
  ASSUME NEW d \in Down, Begun(d)
  PROVE  /\ d \o <<"b">> \in Down /\ Begun(d \o <<"b">>)
         /\ d \o <<"e">> \in Down /\ WellFormed(d \o <<"e">>)
         /\ WellFormed(d) /\ "h" \in ToSet(d)
<1>1. d \o <<"b">> \in Down /\ d \o <<"e">> \in Down
  BY DEF Down, Pieces
<1>2. /\ Len(d) \in Nat /\ Len(d) >= 1
      /\ Len(d \o <<"b">>) = Len(d) + 1 /\ Len(d \o <<"e">>) = Len(d) + 1
  BY DEF Down, Begun
<1>3. /\ \A i \in 1 .. Len(d) : (d \o <<"b">>)[i] = d[i] /\ (d \o <<"e">>)[i] = d[i]
      /\ (d \o <<"b">>)[Len(d) + 1] = "b" /\ (d \o <<"e">>)[Len(d) + 1] = "e"
  BY DEF Down
<1>4. Begun(d \o <<"b">>)
  BY <1>1, <1>2, <1>3 DEF Begun, Down
<1>5. WellFormed(d \o <<"e">>)
  BY <1>2, <1>3 DEF Begun, WellFormed
<1>6. WellFormed(d)
  BY DEF Begun, WellFormed
<1>7. "h" \in ToSet(d)
  BY <1>2 DEF Begun, ToSet, Down
<1> QED
  BY <1>1, <1>4, <1>5, <1>6, <1>7

(* The shortest responses.                                                 *)
LEMMA FirstPieces ==
  /\ <<>> \o <<"h">> \in Down /\ Begun(<<>> \o <<"h">>)
  /\ <<>> \o <<"h", "e">> \in Down /\ WellFormed(<<>> \o <<"h", "e">>)
  /\ Append(<<>>, "local") \in Down /\ Append(<<>>, "local") = <<"local">>
  /\ WellFormed(<<"local">>) /\ WellFormed(<<>>)
  /\ "h" \notin ToSet(<<>>)
<1>1. /\ <<>> \o <<"h">> = <<"h">> /\ <<>> \o <<"h", "e">> = <<"h", "e">>
      /\ Append(<<>>, "local") = <<"local">>
  OBVIOUS
<1>2. /\ <<"h">> \in Down /\ <<"h", "e">> \in Down /\ <<"local">> \in Down
  BY DEF Down, Pieces
<1>3. Begun(<<"h">>)
  BY DEF Begun
<1>4. WellFormed(<<"h", "e">>)
  BY DEF WellFormed
<1>5. WellFormed(<<"local">>) /\ WellFormed(<<>>)
  BY DEF WellFormed
<1>6. "h" \notin ToSet(<<>>)
  BY DEF ToSet
<1> QED
  BY <1>1, <1>2, <1>3, <1>4, <1>5, <1>6

(* A sequence is a prefix of itself, and the empty one of every other.     *)
LEMMA TrivialPrefixes ==
  ASSUME NEW s \in Seq(Pieces)
  PROVE  IsPrefix(s, s) /\ IsPrefix(<<>>, s)
<1>1. Len(s) \in Nat /\ Len(<<>>) = 0
  OBVIOUS
<1>2. SubSeq(<<>>, 1, 0) = SubSeq(s, 1, 0)
  OBVIOUS
<1> QED
  BY <1>1, <1>2 DEF IsPrefix

(* A request that was given to the router is not empty.                    *)
LEMMA GotSomething ==
  ASSUME NEW s \in Seq(Pieces)
  PROVE  <<"h">> \o s # <<>> /\ <<"h", "e">> # <<>> /\ <<"h">> # <<>>
<1>1. Len(<<"h">> \o s) = 1 + Len(s) /\ Len(s) \in Nat
  OBVIOUS
<1>2. Len(<<>>) = 0 /\ Len(<<"h">>) = 1 /\ Len(<<"h", "e">>) = 2
  OBVIOUS
<1> QED
  BY <1>1, <1>2

(* The last piece of what is passed on at once.                            *)
LEMMA LastPiece ==
  /\ Last(<<"h">>) = "h" /\ Last(<<"b">>) = "b" /\ Last(<<"e">>) = "e"
  /\ Last(<<"h", "e">>) = "e" /\ Last(<<"b", "e">>) = "e"
BY DEF Last

----------------------------------------------------------------------------
(* From phase to phase.                                                    *)

(* The response is open in the streaming phase alone.                      *)
LEMMA OpenStreams ==
  ASSUME NEW v, Phase(v), v.pend = "open"
  PROVE  v \in World /\ Streaming(v) /\ ~v.dropped
BY DEF Phase, Fresh, InitialWorld, Waiting, Over, Streaming

(* A stream waits in the pool in the waiting phase alone.                  *)
LEMMA HandleWaits ==
  ASSUME NEW v, Phase(v), v.handle
  PROVE  v \in World /\ Waiting(v)
BY DEF Phase, Fresh, InitialWorld, Over, Streaming

(* The router is destroyed while it streams.                               *)
LEMMA StreamDestroyed ==
  ASSUME NEW v \in World, Streaming(v)
  PROVE  Phase(OnDestroy(v))
<1>1. CASE ~v.dropped
  <2> DEFINE u == [v EXCEPT !.gone = TRUE, !.list = FALSE, !.pend = "none",
                            !.up = FALSE, !.obj = "deferred"]
  <2>1. OnDestroy(v) = u
    BY <1>1, DestroyOpen DEF Streaming, Open
  <2>2. WellFormed(v.down)
    BY BegunGrows, FirstPieces DEF Streaming, World, Down
  <2>3. IsPrefix(v.sent, v.got)
    <3>1. v.got \in Seq(Pieces) /\ v.sent = v.got
      BY <1>1 DEF Streaming, World
    <3> QED
      BY <3>1, TrivialPrefixes
  <2>4. u \in World
    BY DEF World
  <2>5. Over(u)
    BY <1>1, <2>2, <2>3 DEF Over, Streaming, Open, World
  <2> QED
    BY <2>1, <2>4, <2>5 DEF Phase
<1>2. CASE v.dropped
  <2> DEFINE u(a) == [v EXCEPT !.gone = TRUE, !.list = FALSE, !.abort = a,
                               !.up = FALSE, !.obj = "deferred"]
  <2>1. PICK a \in {v.abort, "freed encoder"} : OnDestroy(v) = u(a)
    BY <1>2, DestroyDropped DEF Streaming, Open
  <2>2. WellFormed(v.down)
    BY BegunGrows, FirstPieces DEF Streaming, World, Down
  <2>4. u(a) \in World
    BY DEF World
  <2>5. Over(u(a))
    BY <1>2, <2>2 DEF Over, Streaming, Open, World
  <2> QED
    BY <2>1, <2>4, <2>5 DEF Phase
<1> QED
  BY <1>1, <1>2

(* The router is destroyed while the stream waits in the pool.             *)
LEMMA WaitingDestroyed ==
  ASSUME NEW v \in World, Waiting(v)
  PROVE  Phase(OnDestroy(v))
<1> DEFINE u == [v EXCEPT !.gone = TRUE, !.list = FALSE, !.handle = FALSE, !.obj = "deferred"]
<1>1. OnDestroy(v) = u
  BY DestroyWaiting DEF Waiting, Open
<1>2. WellFormed(v.down) /\ IsPrefix(v.sent, v.got)
  <2>1. v.got \in Seq(Pieces) /\ v.sent = <<>> /\ v.down = <<>>
    BY DEF Waiting, World
  <2> QED
    BY <2>1, TrivialPrefixes, FirstPieces
<1>3. v.got # <<>>
  <2>1. v.held \in Seq(Pieces)
    BY DEF World
  <2> QED
    BY <2>1, GotSomething DEF Waiting
<1>4. u \in World
  BY DEF World
<1>5. Over(u)
  BY <1>2, <1>3 DEF Over, Waiting, Open, World
<1> QED
  BY <1>1, <1>4, <1>5 DEF Phase

(* The response is complete: the upstream request leaves the list and is   *)
(* deferred; that of a tunnel was open and is let go of.                   *)
LEMMA Completes ==
  ASSUME NEW v \in World, v.obj = "live", ~v.handle, v.up,
         \/ v.kind = "http" /\ v.pend = "done"
         \/ v.kind = "connect" /\ v.pend = "open" /\ ~v.ended /\ ~v.rx
  PROVE  \E b \in BOOLEAN, p \in {"done", "none"} :
            /\ OnUpstreamComplete(v) = [v EXCEPT !.up = b, !.pend = p, !.list = FALSE,
                                                 !.obj = "deferred"]
            /\ v.kind = "connect" => p = "none"
<1> DEFINE x(b, p) == [v EXCEPT !.up = b, !.pend = p]
           u == IF v.ended THEN v ELSE ResetStream(v)
<1>1. PICK b \in BOOLEAN, p \in {"done", "none"} :
         u = x(b, p) /\ (v.kind = "connect" => p = "none")
  <2>1. CASE v.ended
    <3>1. v = x(TRUE, "done")
      BY <2>1 DEF World
    <3> QED
      BY <2>1, <3>1
  <2>2. CASE ~v.ended /\ v.kind = "http"
    <3>1. PICK b \in BOOLEAN : ResetStream(v) = [v EXCEPT !.up = b]
      BY <2>2, ResetDone
    <3>2. [v EXCEPT !.up = b] = x(b, "done")
      BY <2>2 DEF World
    <3> QED
      BY <2>2, <3>1, <3>2
  <2>3. CASE ~v.ended /\ v.kind = "connect"
    <3>1. ResetStream(v) = [v EXCEPT !.pend = "none", !.up = FALSE]
      BY <2>3, ResetOpen
    <3>2. [v EXCEPT !.pend = "none", !.up = FALSE] = x(FALSE, "none")
      BY DEF World
    <3> QED
      BY <2>3, <3>1, <3>2
  <2> QED
    BY <2>1, <2>2, <2>3
<1> DEFINE y == [x(b, p) EXCEPT !.list = FALSE]
<1>2. y \in World /\ y.obj = "live"
  <2>1. p \in {"none", "open", "done"} /\ b \in BOOLEAN
    OBVIOUS
  <2>2. y = [v EXCEPT !.up = b, !.pend = p, !.list = FALSE]
    BY DEF World
  <2>3. y \in World
    BY <2>1, FieldType
  <2>4. y.obj = "live"
    BY <2>1 DEF World
  <2> QED
    BY <2>3, <2>4
<1>3. Defer(y) = [y EXCEPT !.obj = "deferred"]
  BY <1>2, DeferLive
<1>4. [y EXCEPT !.obj = "deferred"]
         = [v EXCEPT !.up = b, !.pend = p, !.list = FALSE, !.obj = "deferred"]
  BY DEF World
<1>5. OnUpstreamComplete(v) = Defer([u EXCEPT !.list = FALSE])
  BY DEF OnUpstreamComplete
<1> HIDE DEF u, x
<1> QED
  BY <1>1, <1>3, <1>4, <1>5

(* The end of a response reaches a downstream that is there: the router is *)
(* destroyed from inside the call, and the request is over.                *)
LEMMA EndsStream ==
  ASSUME NEW v \in World, v.obj = "live", ~v.handle, v.up, ~v.gone,
         \/ v.kind = "http" /\ v.pend = "done"
         \/ v.kind = "connect" /\ v.pend = "open" /\ ~v.ended /\ ~v.rx,
         ~v.dropped, v.abort = "none", v.got # <<>>, IsPrefix(v.sent, v.got),
         NEW pieces, Last(pieces) = "e", v.down \o pieces \in Down,
         WellFormed(v.down \o pieces), NEW dies
  PROVE  LET u == Encode(OnUpstreamComplete(v), pieces, dies)
         IN  /\ Phase([u EXCEPT !.pend = "none"])
             /\ v.kind = "connect" => Phase(u)
<1> DEFINE x(b, p) == [v EXCEPT !.up = b, !.pend = p, !.list = FALSE, !.obj = "deferred"]
           u == Encode(OnUpstreamComplete(v), pieces, dies)
<1>1. PICK b \in BOOLEAN, p \in {"done", "none"} :
         OnUpstreamComplete(v) = x(b, p) /\ (v.kind = "connect" => p = "none")
  BY Completes
<1> DEFINE y == [x(b, p) EXCEPT !.down = @ \o pieces]
           z(q) == [v EXCEPT !.up = b, !.pend = q, !.list = FALSE, !.obj = "deferred",
                             !.down = v.down \o pieces, !.gone = TRUE]
<1>2. ~x(b, p).gone
  BY DEF World
<1>3. Encode(x(b, p), pieces, dies) = OnDestroy(y)
  BY <1>2 DEF Encode
<1>4. y \in World /\ ~y.list
  BY DEF World, Down
<1>5. OnDestroy(y) = [y EXCEPT !.gone = TRUE]
  BY <1>4, DestroyIdle
<1>6. [y EXCEPT !.gone = TRUE] = z(p)
  BY DEF World
<1>7. [z(p) EXCEPT !.pend = "none"] = z("none")
  BY DEF World
<1>8. z("none") \in World
  BY DEF World, Down
<1>9. Over(z("none"))
  BY DEF World, Over
<1>10. u = z(p)
  BY <1>1, <1>3, <1>5, <1>6
<1> HIDE DEF u, z
<1> QED
  BY <1>1, <1>7, <1>8, <1>9, <1>10 DEF Phase, u

(* A reset of the stream, or a failure of the pool, before the response    *)
(* has begun: a local reply.                                               *)
LEMMA ResetBefore ==
  ASSUME NEW v \in World, v.obj = "live", ~v.gone, v.down = <<>>
  PROVE  OnUpstreamReset(v) = [v EXCEPT !.up = FALSE, !.list = FALSE, !.obj = "deferred",
                                        !.down = <<"local">>, !.aborted = TRUE]
<1> DEFINE x == [v EXCEPT !.up = FALSE, !.list = FALSE]
           y == [x EXCEPT !.obj = "deferred"]
<1>1. x \in World /\ x.obj = "live"
  BY DEF World
<1>2. Defer(x) = y
  BY <1>1, DeferLive
<1>3. y.down = <<>> /\ ~y.gone
  BY DEF World
<1>4. SendLocalReply(y) = [y EXCEPT !.down = <<"local">>, !.aborted = TRUE]
  BY <1>3, FirstPieces DEF SendLocalReply
<1>5. [y EXCEPT !.down = <<"local">>, !.aborted = TRUE]
         = [v EXCEPT !.up = FALSE, !.list = FALSE, !.obj = "deferred",
                     !.down = <<"local">>, !.aborted = TRUE]
  BY DEF World
<1>6. OnUpstreamReset(v) = SendLocalReply(Defer(x))
  BY DEF OnUpstreamReset
<1> HIDE DEF x, y
<1> QED
  BY <1>2, <1>4, <1>5, <1>6

(* A reset after the response has begun ends the downstream stream.        *)
LEMMA ResetAfter ==
  ASSUME NEW v \in World, v.obj = "live", ~v.gone, Begun(v.down)
  PROVE  OnUpstreamReset(v) = [v EXCEPT !.up = FALSE, !.list = FALSE, !.obj = "deferred",
                                        !.gone = TRUE]
<1> DEFINE x == [v EXCEPT !.up = FALSE, !.list = FALSE]
           y == [x EXCEPT !.obj = "deferred"]
<1>1. x \in World /\ x.obj = "live"
  BY DEF World
<1>2. Defer(x) = y
  BY <1>1, DeferLive
<1>3. y \in World /\ y.down = v.down /\ ~y.gone /\ ~y.list
  BY DEF World
<1>4. "h" \in ToSet(v.down)
  BY BegunGrows DEF World, Down
<1>5. SendLocalReply(y) = [y EXCEPT !.gone = TRUE]
  BY <1>3, <1>4, DestroyIdle DEF SendLocalReply
<1>6. [y EXCEPT !.gone = TRUE]
         = [v EXCEPT !.up = FALSE, !.list = FALSE, !.obj = "deferred", !.gone = TRUE]
  BY DEF World
<1>7. OnUpstreamReset(v) = SendLocalReply(Defer(x))
  BY DEF OnUpstreamReset
<1> HIDE DEF x, y
<1> QED
  BY <1>2, <1>5, <1>6, <1>7

----------------------------------------------------------------------------
(* u is a state of some phase, of the same request as v.                   *)
Into(u, v) == Phase(u) /\ u.kind = v.kind /\ u.got = v.got

(* Destroying the router does not change what the request is.              *)
LEMMA DestroyKeeps ==
  ASSUME NEW v \in World, Streaming(v)
  PROVE  OnDestroy(v).kind = v.kind /\ OnDestroy(v).got = v.got
<1>1. CASE ~v.dropped
  <2>1. OnDestroy(v) = [v EXCEPT !.gone = TRUE, !.list = FALSE, !.pend = "none",
                                 !.up = FALSE, !.obj = "deferred"]
    BY <1>1, DestroyOpen DEF Streaming, Open
  <2> QED
    BY <2>1 DEF World
<1>2. CASE v.dropped
  <2>1. PICK a \in {v.abort, "freed encoder"} :
           OnDestroy(v) = [v EXCEPT !.gone = TRUE, !.list = FALSE, !.abort = a,
                                    !.up = FALSE, !.obj = "deferred"]
    BY <1>2, DestroyDropped DEF Streaming, Open
  <2> QED
    BY <2>1 DEF World
<1> QED
  BY <1>1, <1>2

(* A piece that does not end the response is encoded, and the write may    *)
(* close the downstream connection.                                        *)
LEMMA EncodePiece ==
  ASSUME NEW v \in World, ~v.gone, NEW pieces, Last(pieces) # "e", NEW dies \in BOOLEAN,
         [v EXCEPT !.down = @ \o pieces] \in World,
         Streaming([v EXCEPT !.down = @ \o pieces])
  PROVE  Into(Encode(v, pieces, dies), v)
<1> DEFINE u == [v EXCEPT !.down = @ \o pieces]
<1>1. Encode(v, pieces, dies) = IF dies THEN OnDestroy(u) ELSE u
  BY DEF Encode
<1>2. Phase(u) /\ Phase(OnDestroy(u))
  BY StreamDestroyed DEF Phase
<1>3. u.kind = v.kind /\ u.got = v.got
  BY DEF World
<1>4. OnDestroy(u).kind = v.kind /\ OnDestroy(u).got = v.got
  BY <1>3, DestroyKeeps
<1> HIDE DEF u
<1> QED
  BY <1>1, <1>2, <1>3, <1>4 DEF Into

(* The headers of a message are pieces of it.                              *)
LEMMA HeadersType ==
  ASSUME NEW end \in BOOLEAN
  PROVE  /\ Headers(end) \in Seq(Pieces) /\ <<>> \o Headers(end) = Headers(end)
         /\ Headers(end) # <<>>
<1>1. <<"h">> \in Seq(Pieces) /\ <<"h", "e">> \in Seq(Pieces)
  BY DEF Pieces
<1>2. <<>> \o <<"h">> = <<"h">> /\ <<>> \o <<"h", "e">> = <<"h", "e">>
  OBVIOUS
<1>3. <<"h">> # <<>> /\ <<"h", "e">> # <<>>
  OBVIOUS
<1> QED
  BY <1>1, <1>2, <1>3 DEF Headers

(* The codec filter is given the headers once the upstream is there.       *)
Begins(v, end) ==
    /\ Open(v) /\ ~v.handle /\ v.up /\ ~v.paused /\ v.latched = "none"
    /\ ~v.dropped /\ v.pend = "open" /\ v.abort = "none" /\ v.resp = "none"
    /\ v.sent = <<>> /\ v.down = <<>>
    /\ \/ end = TRUE /\ v.kind = "http" /\ v.held = <<>> /\ v.got = <<"h", "e">>
       \/ end = FALSE /\ v.got = <<"h">> \o v.held

(* The headers of a request are encoded, with what was held.  The          *)
(* connection may close in that write, and the reset is dropped.           *)
LEMMA HttpBegins ==
  ASSUME NEW v \in World, NEW end \in BOOLEAN, NEW dies \in BOOLEAN,
         Begins(v, end), v.kind = "http"
  PROVE  Into(CodecDecodeHeaders(v, end, dies), v)
<1> DEFINE s == [v EXCEPT !.sent = @ \o Headers(end), !.tx = end]
           d == [s EXCEPT !.pend = "none", !.dropped = TRUE]
           r == IF dies THEN d ELSE s
<1>0. v.sent \o Headers(end) = Headers(end) /\ Headers(end) \in Seq(Pieces)
  BY HeadersType DEF Begins
<1>1. s \in World /\ d \in World
  BY <1>0 DEF World
<1>2. ~r.paused /\ r.held = v.held /\ r.up
  BY DEF World, Begins
<1>3. CodecDecodeHeaders(v, end, dies) = ContinueDecoding(r)
  BY <1>2 DEF CodecDecodeHeaders
<1>4. v.held \in Seq(Pieces) /\ v.got # <<>>
  BY GotSomething DEF World, Begins
<1>5. CASE v.held = <<>>
  <2>1. ContinueDecoding(r) = r
    BY <1>2, <1>5 DEF ContinueDecoding
  <2>2. v.got = Headers(end)
    BY <1>5 DEF Begins, Headers
  <2>3. Streaming(s)
    BY <1>0, <1>4, <1>5, <2>2 DEF Begins, Streaming, Open, World
  <2>4. Streaming(d)
    BY <1>4, <1>5 DEF Begins, Streaming, Open, World
  <2>5. s.kind = v.kind /\ s.got = v.got /\ d.kind = v.kind /\ d.got = v.got
    BY DEF World
  <2> QED
    BY <1>1, <1>3, <2>1, <2>3, <2>4, <2>5 DEF Phase, Into
<1>6. CASE v.held # <<>>
  <2>1. ContinueDecoding(r) = EncodeUp([r EXCEPT !.held = <<>>], v.held)
    BY <1>2, <1>6 DEF ContinueDecoding
  <2>2. end = FALSE /\ v.got = <<"h">> \o v.held /\ Headers(end) = <<"h">>
    BY <1>6 DEF Begins, Headers
  <2>3. CASE dies
    <3> DEFINE x == [v EXCEPT !.sent = <<"h">>, !.tx = FALSE, !.pend = "none",
                              !.dropped = TRUE, !.held = <<>>]
               y == [x EXCEPT !.abort = "freed encoder"]
    <3>1. [r EXCEPT !.held = <<>>] = x
      BY <1>0, <2>2, <2>3 DEF World
    <3>2. x.up /\ x.pend = "none" /\ x.abort = "none"
      BY DEF World, Begins
    <3>3. EncodeUp(x, v.held) = y
      BY <3>2 DEF EncodeUp, Fails
    <3>4. y \in World
      <4>1. <<"h">> \in Seq(Pieces) /\ <<>> \in Seq(Pieces)
        BY <1>0, <2>2
      <4> DEFINE a == [v EXCEPT !.sent = <<"h">>]
                 b == [a EXCEPT !.tx = FALSE]
                 c == [b EXCEPT !.pend = "none"]
      <4>2. a \in World
        BY <4>1, FieldType
      <4>3. b \in World
        BY <4>2, FieldType
      <4>4. c \in World
        BY <4>3, FieldType
      <4>5. [c EXCEPT !.dropped = TRUE] \in World
        BY <4>4, FieldType
      <4>6. x = [[c EXCEPT !.dropped = TRUE] EXCEPT !.held = <<>>]
        BY DEF World
      <4> HIDE DEF a, b, c, x
      <4>7. x \in World
        BY <4>1, <4>5, <4>6, FieldType
      <4> QED
        BY <4>7, FieldType
    <3>5. Streaming(y)
      BY <1>4 DEF Begins, Streaming, Open, World
    <3>6. y.kind = v.kind /\ y.got = v.got
      BY DEF World
    <3> QED
      BY <1>3, <2>1, <3>1, <3>3, <3>4, <3>5, <3>6 DEF Phase, Into
  <2>4. CASE ~dies
    <3> DEFINE x == [v EXCEPT !.sent = <<"h">>, !.tx = FALSE, !.held = <<>>]
               y == [x EXCEPT !.sent = @ \o v.held, !.tx = @ \/ Last(v.held) = "e"]
    <3>1. [r EXCEPT !.held = <<>>] = x
      BY <1>0, <2>2, <2>4 DEF World
    <3>2. x.up /\ x.pend = "open"
      BY DEF World, Begins
    <3>3. EncodeUp(x, v.held) = y
      BY <3>2 DEF EncodeUp
    <3>4. y = [v EXCEPT !.sent = <<"h">> \o v.held, !.tx = (Last(v.held) = "e"), !.held = <<>>]
      BY DEF World
    <3>5. <<"h">> \o v.held \in Seq(Pieces)
      BY <1>4 DEF Pieces
    <3>6. y \in World
      <4> DEFINE a == [v EXCEPT !.sent = <<"h">> \o v.held]
                 b == [a EXCEPT !.tx = (Last(v.held) = "e")]
      <4>1. a \in World
        BY <3>5, FieldType
      <4>2. b \in World
        BY <4>1, FieldType
      <4>3. y = [b EXCEPT !.held = <<>>]
        BY <3>4
      <4>4. <<>> \in Seq(Pieces)
        OBVIOUS
      <4> HIDE DEF a, b, y
      <4> QED
        BY <4>2, <4>3, <4>4, FieldType
    <3>7. Streaming(y)
      BY <1>4, <2>2, <3>4 DEF Begins, Streaming, Open, World
    <3>8. y.kind = v.kind /\ y.got = v.got
      BY DEF World
    <3> QED
      BY <1>3, <2>1, <3>1, <3>3, <3>6, <3>7, <3>8 DEF Phase, Into
  <2> QED
    BY <2>3, <2>4
<1> QED
  BY <1>5, <1>6

(* The headers alone are a prefix of the request.                          *)
LEMMA HeadersPrefix ==
  ASSUME NEW s \in Seq(Pieces)
  PROVE  IsPrefix(<<"h">>, <<"h">> \o s)
<1>1. Len(<<"h">>) = 1 /\ Len(<<"h">> \o s) = 1 + Len(s) /\ Len(s) \in Nat
  OBVIOUS
<1>2. <<"h">> \in Seq({"h"} \cup Pieces) /\ s \in Seq({"h"} \cup Pieces)
  OBVIOUS
<1>3. SubSeq(<<"h">> \o s, 1, 1) = SubSeq(<<"h">>, 1, 1)
  BY <1>1, <1>2, SubSeqOfConcat1
<1> QED
  BY <1>1, <1>3 DEF IsPrefix

(* A tunnel is answered by the TCP upstream from inside the call, and the  *)
(* answer may close the downstream connection.                             *)
LEMMA ConnectBegins ==
  ASSUME NEW v \in World, NEW end \in BOOLEAN, NEW dies \in BOOLEAN,
         Begins(v, end), v.kind = "connect"
  PROVE  Into(CodecDecodeHeaders(v, end, dies), v)
<1> DEFINE s == [v EXCEPT !.sent = @ \o Headers(end), !.tx = end]
           t == [v EXCEPT !.sent = <<"h">>, !.tx = FALSE, !.down = <<"h">>]
           o == [t EXCEPT !.gone = TRUE, !.list = FALSE, !.pend = "none",
                          !.up = FALSE, !.obj = "deferred"]
           r == IF dies THEN o ELSE t
           f == [v EXCEPT !.sent = v.got, !.tx = (v.held # <<>> /\ Last(v.held) = "e"),
                          !.down = <<"h">>, !.held = <<>>]
<1>1. end = FALSE /\ v.got = <<"h">> \o v.held /\ Headers(end) = <<"h">>
  BY DEF Begins, Headers
<1>2. v.held \in Seq(Pieces) /\ v.got # <<>> /\ v.got \in Seq(Pieces)
  BY GotSomething DEF World, Begins
<1>3. v.sent \o <<"h">> = <<"h">> /\ v.down \o <<"h">> = <<"h">> /\ <<"h">> \in Seq(Pieces)
      /\ <<"h">> \in Down /\ Begun(<<"h">>)
  BY HeadersType, FirstPieces, <1>1 DEF Begins
<1>5. BridgeDecodeHeaders(s, FALSE) = s
  BY DEF BridgeDecodeHeaders, World, Begins, Open
<1>6. [s EXCEPT !.down = @ \o <<"h">>] = t
  BY <1>1, <1>3 DEF World
<1>7. t \in World
  BY <1>3 DEF World, Down
<1>8. t.list /\ t.obj = "live" /\ ~t.handle /\ t.up /\ ~t.rx /\ t.pend = "open"
  BY DEF World, Begins, Open
<1>9. OnDestroy(t) = o
  BY <1>7, <1>8, DestroyOpen
<1>10. OnUpstreamHeaders(s, FALSE, dies) = r
  <2>1. OnUpstreamHeaders(s, FALSE, dies) = Encode(s, <<"h">>, dies)
    BY <1>5 DEF OnUpstreamHeaders, Headers
  <2>2. ~s.gone
    BY DEF World, Begins, Open
  <2> HIDE DEF s, t, o
  <2> QED
    BY <1>6, <1>9, <2>1, <2>2, LastPiece DEF Encode
<1>11. ~r.paused /\ r.held = v.held
  BY DEF World, Begins
<1>12. CodecDecodeHeaders(v, end, dies) = ContinueDecoding(r)
  BY <1>1, <1>10, <1>11 DEF CodecDecodeHeaders
<1>13. CASE dies
  <2> DEFINE x == [o EXCEPT !.held = <<>>]
  <2>1. ContinueDecoding(r) = x
    <3>1. CASE v.held = <<>>
      <4>1. o = [o EXCEPT !.held = <<>>]
        BY <3>1 DEF World
      <4>2. ContinueDecoding(r) = o
        BY <1>11, <1>13, <3>1 DEF ContinueDecoding
      <4> QED
        BY <4>1, <4>2
    <3>2. CASE v.held # <<>>
      <4>1. ~x.up
        BY DEF World
      <4>2. r = o /\ o.held = v.held
        BY <1>11, <1>13
      <4> HIDE DEF o, r
      <4> QED
        BY <3>2, <4>1, <4>2 DEF ContinueDecoding, EncodeUp
    <3> QED
      BY <3>1, <3>2
  <2>2. x \in World
    <3>1. o \in World
      BY <1>3 DEF World, Down
    <3>2. <<>> \in Seq(Pieces)
      OBVIOUS
    <3> HIDE DEF o
    <3> QED
      BY <3>1, <3>2, FieldType
  <2>3. IsPrefix(<<"h">>, v.got)
    BY <1>1, <1>2, HeadersPrefix
  <2>4. WellFormed(<<"h">>)
    BY <1>3, BegunGrows
  <2>5. Over(x)
    BY <1>2, <2>3, <2>4 DEF World, Over, Begins, Open
  <2>6. x.kind = v.kind /\ x.got = v.got
    BY DEF World
  <2> HIDE DEF x
  <2> QED
    BY <1>12, <2>1, <2>2, <2>5, <2>6 DEF Into, Phase
<1>14. CASE ~dies
  <2>1. ContinueDecoding(r) = f
    <3>1. CASE v.held = <<>>
      <4>1. v.got = <<"h">>
        BY <1>1, <3>1
      <4>2. t = f
        BY <3>1, <4>1 DEF World
      <4>3. r = t /\ t.held = v.held
        BY <1>11, <1>14
      <4> HIDE DEF t, r, f
      <4> QED
        BY <3>1, <4>2, <4>3 DEF ContinueDecoding
    <3>2. CASE v.held # <<>>
      <4> DEFINE x == [t EXCEPT !.held = <<>>]
      <4>1. x.up /\ x.pend = "open"
        BY DEF World, Begins
      <4>2. r = t /\ t.held = v.held
        BY <1>11, <1>14
      <4>3. ContinueDecoding(r) = EncodeUp(x, v.held)
        BY <3>2, <4>2 DEF ContinueDecoding
      <4>4. EncodeUp(x, v.held) = [x EXCEPT !.sent = @ \o v.held, !.tx = @ \/ Last(v.held) = "e"]
        BY <4>1 DEF EncodeUp
      <4>5. [x EXCEPT !.sent = @ \o v.held, !.tx = @ \/ Last(v.held) = "e"] = f
        BY <1>1, <3>2 DEF World
      <4> HIDE DEF x, r, f
      <4> QED
        BY <4>3, <4>4, <4>5
    <3> QED
      BY <3>1, <3>2
  <2>2. f \in World
    <3> DEFINE a == [v EXCEPT !.sent = v.got]
               b == [a EXCEPT !.tx = (v.held # <<>> /\ Last(v.held) = "e")]
               c == [b EXCEPT !.down = <<"h">>]
    <3>1. a \in World
      BY <1>2, FieldType
    <3>2. b \in World
      BY <3>1, FieldType
    <3>3. c \in World
      BY <1>3, <3>2, FieldType
    <3>4. f = [c EXCEPT !.held = <<>>]
      OBVIOUS
    <3>5. <<>> \in Seq(Pieces)
      OBVIOUS
    <3> HIDE DEF a, b, c, f
    <3> QED
      BY <3>3, <3>4, <3>5, FieldType
  <2>3. Streaming(f)
    BY <1>2, <1>3 DEF World, Streaming, Begins, Open
  <2>4. f.kind = v.kind /\ f.got = v.got
    BY DEF World
  <2> HIDE DEF f
  <2> QED
    BY <1>12, <2>1, <2>2, <2>3, <2>4 DEF Into, Phase
<1> QED
  BY <1>13, <1>14

(* The two together.                                                       *)
LEMMA UpstreamBegins ==
  ASSUME NEW v \in World, NEW end \in BOOLEAN, NEW dies \in BOOLEAN, Begins(v, end)
  PROVE  Into(CodecDecodeHeaders(v, end, dies), v)
BY HttpBegins, ConnectBegins, KindsAssumption DEF World

----------------------------------------------------------------------------
(* The actions, one lemma each.                                            *)

(* The request has not been given to the router in the first phase alone.  *)
LEMMA NothingGiven ==
  ASSUME NEW v, Phase(v), v.got = <<>>
  PROVE  v \in World /\ Fresh(v)
<1>1. v \in World /\ v.held \in Seq(Pieces)
  BY DEF Phase, World
<1>2. ~Waiting(v)
  BY <1>1, GotSomething DEF Waiting
<1> QED
  BY <1>1, <1>2 DEF Phase, Streaming, Over

(* Once the request was given something it stays out of the first phase.   *)
LEMMA GivenSomething ==
  ASSUME NEW v, Phase(v), v.got # <<>>
  PROVE  v \in World /\ (Waiting(v) \/ Streaming(v) \/ Over(v))
<1>1. ~Fresh(v)
  BY DEF Fresh, InitialWorld
<1> QED
  BY <1>1 DEF Phase

(* on_request_complete.                                                    *)
LEMMA RequestCompletes ==
  ASSUME NEW v, Phase(v), v.got # <<>>, NEW end \in BOOLEAN, end => v.kind = "http"
  PROVE  Phase(OnRequestComplete(v, end))
<1> DEFINE u == [v EXCEPT !.ended = TRUE]
<1>1. CASE ~end
  BY <1>1 DEF OnRequestComplete
<1>2. CASE end
  <2>1. OnRequestComplete(v, end) = u
    BY <1>2 DEF OnRequestComplete
  <2>2. v \in World /\ v.kind = "http"
    BY <1>2, GivenSomething
  <2>3. u \in World
    BY <2>2, FieldType
  <2>4. Waiting(v) => Waiting(u)
    BY <2>2 DEF World, Waiting, Open
  <2>5. Streaming(v) => Streaming(u)
    BY <2>2 DEF World, Streaming, Open
  <2>6. Over(v) => Over(u)
    BY <2>2 DEF World, Over
  <2> HIDE DEF u
  <2> QED
    BY <2>1, <2>3, <2>4, <2>5, <2>6, GivenSomething DEF Phase
<1> QED
  BY <1>1, <1>2

(* accept_headers_from_router: the pool attaches the stream at once, lets  *)
(* it wait or fails.                                                       *)
LEMMA AcceptsHeaders ==
  ASSUME NEW v \in World, NEW end \in BOOLEAN, NEW dies \in BOOLEAN,
         NEW pool \in {"ready", "wait", "fail"}, v.kind = "connect" => ~end,
         v = [InitialWorld(v.kind, v.target) EXCEPT !.got = Headers(end)]
  PROVE  Into(AcceptHeadersFromRouter(v, end, pool, dies), v)
<1> DEFINE u == [v EXCEPT !.obj = "live", !.list = TRUE, !.paused = (v.kind = "connect")]
           l == IF end THEN "end" ELSE "more"
<1>1. /\ v.got = Headers(end) /\ ~v.list /\ ~v.gone /\ ~v.aborted /\ ~v.handle /\ ~v.up
      /\ ~v.tx /\ ~v.rx /\ ~v.ended /\ ~v.dropped /\ ~v.paused
      /\ v.latched = "none" /\ v.pend = "none" /\ v.abort = "none" /\ v.resp = "none"
      /\ v.sent = <<>> /\ v.held = <<>> /\ v.down = <<>>
  BY DEF InitialWorld
<1>2. /\ Headers(end) \in Seq(Pieces) /\ Headers(end) # <<>>
      /\ end => Headers(end) = <<"h", "e">>
      /\ ~end => Headers(end) = <<"h">> \o <<>>
  BY HeadersType DEF Headers
<1>3. u \in World
  <2> DEFINE a == [v EXCEPT !.obj = "live"]
             b == [a EXCEPT !.list = TRUE]
  <2>1. a \in World
    BY FieldType
  <2>2. b \in World
    BY <2>1, FieldType
  <2>3. u = [b EXCEPT !.paused = (v.kind = "connect")]
    OBVIOUS
  <2> HIDE DEF a, b, u
  <2> QED
    BY <2>2, <2>3, FieldType
<1>4. CASE pool = "ready"
  <2> DEFINE x == [v EXCEPT !.obj = "live", !.list = TRUE, !.paused = FALSE,
                            !.up = TRUE, !.pend = "open"]
  <2>1. OnPoolReady(u, FALSE) = x
    <3>1. [u EXCEPT !.handle = FALSE, !.up = TRUE, !.pend = "open",
                    !.paused = IF u.kind = "connect" THEN FALSE ELSE @] = x
      BY <1>1 DEF World
    <3>2. x.latched = "none"
      BY <1>1 DEF World
    <3> HIDE DEF x, u
    <3> QED
      BY <3>1, <3>2 DEF OnPoolReady
  <2>2. x \in World
    BY DEF World
  <2>3. Begins(x, end)
    <3>1. Open(x) /\ x.held = <<>> /\ x.got = Headers(end) /\ x.kind = v.kind
      BY <1>1 DEF World, Open
    <3>2. /\ ~x.handle /\ x.up /\ ~x.paused /\ x.latched = "none" /\ ~x.dropped
          /\ x.pend = "open" /\ x.abort = "none" /\ x.resp = "none"
          /\ x.sent = <<>> /\ x.down = <<>>
      BY <1>1 DEF World
    <3>3. v.kind \in {"http", "connect"}
      BY KindsAssumption DEF World
    <3> HIDE DEF x
    <3> QED
      BY <1>2, <3>1, <3>2, <3>3 DEF Begins
  <2>4. Into(CodecDecodeHeaders(x, end, dies), x)
    BY <2>2, <2>3, UpstreamBegins
  <2>5. x.up /\ x.kind = v.kind /\ x.got = v.got
    BY DEF World
  <2>6. AcceptHeadersFromRouter(v, end, pool, dies) = CodecDecodeHeaders(x, end, dies)
    <3> HIDE DEF x
    <3> QED
      BY <1>4, <2>1, <2>5 DEF AcceptHeadersFromRouter
  <2> HIDE DEF x
  <2> QED
    BY <2>4, <2>5, <2>6 DEF Into
<1>5. CASE pool = "wait"
  <2> DEFINE x == [u EXCEPT !.handle = TRUE]
             y == [x EXCEPT !.latched = l]
  <2>1. ~x.up
    BY <1>1 DEF World
  <2>2. AcceptHeadersFromRouter(v, end, pool, dies) = y
    BY <1>5, <2>1 DEF AcceptHeadersFromRouter
  <2>3. x \in World
    BY <1>3, FieldType
  <2>4. y \in World
    BY <2>3, FieldType
  <2>5. Waiting(y)
    <3>1. end => v.kind = "http"
      BY KindsAssumption DEF World
    <3> QED
      BY <1>1, <1>2, <3>1 DEF World, Waiting, Open
  <2>6. y.kind = v.kind /\ y.got = v.got
    BY DEF World
  <2> HIDE DEF y
  <2> QED
    BY <2>2, <2>4, <2>5, <2>6 DEF Into, Phase
<1>6. CASE pool = "fail"
  <2> DEFINE h == [u EXCEPT !.handle = FALSE]
             x == [h EXCEPT !.up = FALSE, !.list = FALSE, !.obj = "deferred",
                            !.down = <<"local">>, !.aborted = TRUE]
             y == [x EXCEPT !.latched = l]
  <2>1. h \in World
    BY <1>3, FieldType
  <2>2. h.obj = "live" /\ ~h.gone /\ h.down = <<>>
    BY <1>1 DEF World
  <2>3. OnPoolFailure(u) = x
    BY <2>1, <2>2, ResetBefore DEF OnPoolFailure
  <2>4. x = [v EXCEPT !.obj = "deferred", !.list = FALSE, !.paused = (v.kind = "connect"),
                      !.handle = FALSE, !.up = FALSE, !.down = <<"local">>, !.aborted = TRUE]
    BY DEF World
  <2>5. ~x.up
    BY <2>4 DEF World
  <2>6. AcceptHeadersFromRouter(v, end, pool, dies) = y
    <3> HIDE DEF x
    <3> QED
      BY <1>6, <2>3, <2>5 DEF AcceptHeadersFromRouter
  <2>7. y \in World
    <3> DEFINE a == [h EXCEPT !.up = FALSE]
               b == [a EXCEPT !.list = FALSE]
               c == [b EXCEPT !.obj = "deferred"]
               d == [c EXCEPT !.down = <<"local">>]
    <3>1. a \in World
      BY <2>1, FieldType
    <3>2. b \in World
      BY <3>1, FieldType
    <3>3. c \in World
      BY <3>2, FieldType
    <3>0. <<"local">> \in Down
      BY FirstPieces
    <3>4. d \in World
      BY <3>0, <3>3, FieldType
    <3>5. x = [d EXCEPT !.aborted = TRUE]
      OBVIOUS
    <3> HIDE DEF a, b, c, d, x
    <3>6. x \in World
      BY <3>4, <3>5, FieldType
    <3> QED
      BY <3>6, FieldType
  <2>8. IsPrefix(<<>>, v.got)
    BY <1>1, <1>2, TrivialPrefixes
  <2>9. Over(y)
    <3> DEFINE z == [v EXCEPT !.obj = "deferred", !.list = FALSE, !.handle = FALSE, !.up = FALSE,
                              !.paused = (v.kind = "connect"), !.down = <<"local">>,
                              !.aborted = TRUE, !.latched = l]
    <3>1. y = z
      BY <2>4 DEF World
    <3>2. /\ ~z.list /\ ~z.handle /\ z.pend = "none" /\ z.obj = "deferred" /\ z.got = v.got
          /\ z.abort = "none" /\ z.sent = <<>> /\ ~z.gone /\ z.aborted
          /\ z.down = <<"local">>
      BY <1>1 DEF World
    <3>3. WellFormed(<<"local">>)
      BY FirstPieces
    <3> HIDE DEF z, y
    <3> QED
      BY <1>1, <1>2, <2>8, <3>1, <3>2, <3>3 DEF Over
  <2>10. y.kind = v.kind /\ y.got = v.got
    BY DEF World
  <2> HIDE DEF y
  <2> QED
    BY <2>6, <2>7, <2>9, <2>10 DEF Into, Phase
<1> QED
  BY <1>4, <1>5, <1>6

(* A request that has no upstream request is given a local reply, or is    *)
(* left alone.                                                             *)
LEMMA OverReplies ==
  ASSUME NEW v \in World, ~v.list, ~v.handle, v.pend = "none", v.obj = "none",
         v.got # <<>>, v.abort = "none", v.sent = <<>>, v.down = <<>>,
         ~v.gone, ~v.aborted
  PROVE  Phase(v) /\ Phase(SendLocalReply(v))
<1> DEFINE u == [v EXCEPT !.down = <<"local">>, !.aborted = TRUE]
<1>1. SendLocalReply(v) = u
  BY FirstPieces DEF SendLocalReply
<1>2. v.got \in Seq(Pieces) /\ <<"local">> \in Down
  BY FirstPieces DEF World
<1>3. u \in World
  BY <1>2 DEF World, Down
<1>4. IsPrefix(v.sent, v.got)
  BY <1>2, TrivialPrefixes
<1>5. WellFormed(<<>>) /\ WellFormed(<<"local">>)
  BY FirstPieces
<1>6. Over(v)
  BY <1>4, <1>5 DEF Over
<1>7. Over(u)
  BY <1>4, <1>5 DEF World, Over
<1> HIDE DEF u
<1> QED
  BY <1>1, <1>3, <1>6, <1>7 DEF Phase

(* The router is given the headers.                                        *)
LEMMA DecodeHeadersStep == Phase(w) /\ DecodeHeaders => Phase(w')
<1> SUFFICES ASSUME Phase(w), DecodeHeaders PROVE Phase(w')
  OBVIOUS
<1>1. w \in World /\ Fresh(w)
  BY NothingGiven DEF DecodeHeaders
<1>2. PICK end \in IF w.kind = "connect" THEN {FALSE} ELSE BOOLEAN,
           pool \in {"ready", "wait", "fail"}, dies \in BOOLEAN :
         LET v == [w EXCEPT !.got = Headers(end)]
         IN  w' = CASE w.target \in {"noroute", "nocluster"} -> SendLocalReply(v)
                    [] w.target = "nohost" -> v
                    [] w.target = "ok" ->
                         OnRequestComplete(AcceptHeadersFromRouter(v, end, pool, dies), end)
  BY DEF DecodeHeaders
<1> DEFINE v == [w EXCEPT !.got = Headers(end)]
<1>3. end \in BOOLEAN /\ (w.kind = "connect" => ~end)
  BY <1>2
<1>4. v \in World
  BY <1>1, <1>3, HeadersType, FieldType
<1>5. v.kind = w.kind /\ v.target = w.target /\ v.got = Headers(end)
  BY <1>1 DEF World
<1>6. v = [InitialWorld(v.kind, v.target) EXCEPT !.got = Headers(end)]
  BY <1>1, <1>5 DEF Fresh
<1>7. /\ ~v.list /\ ~v.handle /\ v.pend = "none" /\ v.obj = "none" /\ v.abort = "none"
      /\ v.sent = <<>> /\ v.down = <<>> /\ ~v.gone /\ ~v.aborted
  BY <1>6 DEF InitialWorld
<1>8. v.got # <<>>
  BY <1>3, <1>5, HeadersType
<1> HIDE DEF v
<1>9. CASE w.target \in {"noroute", "nocluster"}
  <2>1. w' = SendLocalReply(v)
    BY <1>2, <1>9 DEF v
  <2> QED
    BY <1>4, <1>7, <1>8, <2>1, OverReplies
<1>10. CASE w.target = "nohost"
  <2>1. w' = v
    BY <1>2, <1>10 DEF v
  <2> QED
    BY <1>4, <1>7, <1>8, <2>1, OverReplies
<1>11. CASE w.target = "ok"
  <2> DEFINE a == AcceptHeadersFromRouter(v, end, pool, dies)
  <2>1. w' = OnRequestComplete(a, end)
    BY <1>2, <1>11 DEF v
  <2>2. Into(a, v)
    BY <1>3, <1>4, <1>5, <1>6, AcceptsHeaders
  <2>3. a.got # <<>> /\ (end => a.kind = "http")
    <3>1. w.kind \in {"http", "connect"}
      BY <1>1, KindsAssumption DEF World
    <3> QED
      BY <1>3, <1>5, <1>8, <2>2, <3>1 DEF Into
  <2> HIDE DEF a
  <2> QED
    BY <1>3, <2>1, <2>2, <2>3, RequestCompletes DEF Into
<1> QED
  BY <1>1, <1>9, <1>10, <1>11, TargetsAssumption DEF World

(* Pieces of a request that follow the headers.                            *)
LEMMA MoreGot ==
  ASSUME NEW s \in Seq(Pieces), NEW p \in {<<"b">>, <<"b", "e">>, <<"e">>}
  PROVE  /\ p \in Seq(Pieces) /\ s \o p \in Seq(Pieces) /\ s \o p # <<>>
         /\ (<<"h">> \o s) \o p = <<"h">> \o (s \o p)
         /\ Append(s, "e") = s \o <<"e">>
<1>1. <<"b">> \in Seq(Pieces) /\ <<"b", "e">> \in Seq(Pieces) /\ <<"e">> \in Seq(Pieces)
      /\ <<"h">> \in Seq(Pieces)
  BY DEF Pieces
<1>2. p \in Seq(Pieces)
  BY <1>1
<1>3. s \o p \in Seq(Pieces) /\ Len(s \o p) = Len(s) + Len(p) /\ Len(s) \in Nat
  BY <1>2
<1>4. Len(p) > 0
  <2>1. CASE p = <<"b">>
    BY <2>1
  <2>2. CASE p = <<"b", "e">>
    BY <2>2
  <2>3. CASE p = <<"e">>
    BY <2>3
  <2> QED
    BY <2>1, <2>2, <2>3
<1>5. s \o p # <<>>
  BY <1>3, <1>4
<1>6. (<<"h">> \o s) \o p = <<"h">> \o (s \o p)
  BY <1>1, <1>2, ConcatAssociative
<1>7. Append(s, "e") = s \o <<"e">>
  BY DEF Pieces
<1> QED
  BY <1>2, <1>3, <1>5, <1>6, <1>7

(* accept_data_from_router: kept while the pool is waited for, else sent.  *)
LEMMA AcceptsData ==
  ASSUME NEW x \in World, Waiting(x) \/ Streaming(x), Last(x.got) # "e",
         NEW p \in {<<"b">>, <<"b", "e">>, <<"e">>}
  PROVE  LET v == [x EXCEPT !.got = @ \o p] IN Into(AcceptDataFromRouter(v, p), v)
<1> DEFINE v == [x EXCEPT !.got = @ \o p]
<1>1. /\ x.got \in Seq(Pieces) /\ x.held \in Seq(Pieces) /\ x.sent \in Seq(Pieces)
  BY DEF World
<1>2. v.got = x.got \o p /\ x.got \o p # <<>> /\ x.got \o p \in Seq(Pieces)
  BY <1>1, MoreGot DEF World
<1>3. v \in World
  BY <1>2, FieldType
<1>4. CASE Waiting(x)
  <2> DEFINE u == [x EXCEPT !.got = x.got \o p, !.held = x.held \o p]
  <2>1. x.latched = "more" /\ x.got = <<"h">> \o x.held
    <3>1. x.got # <<"h", "e">>
      BY LastPiece
    <3> QED
      BY <1>4, <3>1 DEF Waiting
  <2>2. AcceptDataFromRouter(v, p) = [v EXCEPT !.held = @ \o p]
    <3>1. v.latched = "more"
      BY <2>1 DEF World
    <3> HIDE DEF v
    <3> QED
      BY <3>1 DEF AcceptDataFromRouter
  <2>3. [v EXCEPT !.held = @ \o p] = u
    BY DEF World
  <2>4. x.held \o p \in Seq(Pieces) /\ x.got \o p = <<"h">> \o (x.held \o p)
    BY <1>1, <2>1, MoreGot
  <2>5. u \in World
    BY <1>2, <2>4 DEF World
  <2>6. Waiting(u)
    BY <1>4, <2>1, <2>4 DEF World, Waiting, Open
  <2>7. u.kind = v.kind /\ u.got = v.got
    BY DEF World
  <2> HIDE DEF u, v
  <2>8. Into(AcceptDataFromRouter(v, p), v)
    BY <2>2, <2>3, <2>5, <2>6, <2>7 DEF Into, Phase
  <2> QED
    BY <2>8 DEF v
<1>5. CASE Streaming(x)
  <2>1. AcceptDataFromRouter(v, p) = EncodeUp(v, p)
    <3>1. v.latched = "none" /\ ~v.paused
      BY <1>5 DEF World, Streaming
    <3> HIDE DEF v
    <3> QED
      BY <3>1 DEF AcceptDataFromRouter
  <2>2. v.up /\ v.pend = x.pend /\ v.abort = x.abort
    BY <1>5 DEF World, Streaming
  <2>3. CASE x.dropped
    <3> DEFINE a == IF x.abort = "none" THEN "freed encoder" ELSE x.abort
               u == [x EXCEPT !.got = x.got \o p, !.abort = a]
    <3>1. EncodeUp(v, p) = Fails(v, "freed encoder")
      <4>1. v.pend = "none"
        BY <1>5, <2>2, <2>3 DEF Streaming
      <4> HIDE DEF v
      <4> QED
        BY <2>2, <4>1 DEF EncodeUp
    <3>2. Fails(v, "freed encoder") = u
      <4>1. CASE x.abort = "none"
        BY <2>2, <4>1 DEF Fails
      <4>2. CASE x.abort # "none"
        <5>1. v = u
          BY <4>2 DEF World
        <5> HIDE DEF u, v
        <5> QED
          BY <2>2, <4>2, <5>1 DEF Fails
      <4> QED
        BY <4>1, <4>2
    <3>3. u \in World
      BY <1>2 DEF World
    <3>4. Streaming(u)
      BY <1>2, <1>5, <2>3 DEF World, Streaming, Open
    <3>5. u.kind = v.kind /\ u.got = v.got
      BY DEF World
    <3> HIDE DEF u, v
    <3>6. Into(AcceptDataFromRouter(v, p), v)
      BY <2>1, <3>1, <3>2, <3>3, <3>4, <3>5 DEF Into, Phase
    <3> QED
      BY <3>6 DEF v
  <2>4. CASE ~x.dropped
    <3> DEFINE u == [x EXCEPT !.got = x.got \o p, !.sent = x.got \o p,
                              !.tx = @ \/ Last(p) = "e"]
    <3>1. x.pend = "open" /\ x.sent = x.got
      BY <1>5, <2>4 DEF Streaming
    <3>2. EncodeUp(v, p) = [v EXCEPT !.sent = @ \o p, !.tx = @ \/ Last(p) = "e"]
      <4> HIDE DEF v
      <4> QED
        BY <2>2, <3>1 DEF EncodeUp
    <3>3. [v EXCEPT !.sent = @ \o p, !.tx = @ \/ Last(p) = "e"] = u
      BY <3>1 DEF World
    <3>4. u \in World
      <4> DEFINE a == [v EXCEPT !.sent = x.got \o p]
      <4>1. a \in World
        BY <1>2, <1>3, FieldType
      <4>2. u = [a EXCEPT !.tx = x.tx \/ Last(p) = "e"]
        BY DEF World
      <4>3. (x.tx \/ Last(p) = "e") \in BOOLEAN
        OBVIOUS
      <4> HIDE DEF a, u
      <4> QED
        BY <4>1, <4>2, <4>3, FieldType
    <3>5. Streaming(u)
      BY <1>2, <1>5, <2>4 DEF World, Streaming, Open
    <3>6. u.kind = v.kind /\ u.got = v.got
      BY DEF World
    <3> HIDE DEF u, v
    <3>7. Into(AcceptDataFromRouter(v, p), v)
      BY <2>1, <3>2, <3>3, <3>4, <3>5, <3>6 DEF Into, Phase
    <3> QED
      BY <3>7 DEF v
  <2> QED
    BY <2>3, <2>4
<1> QED
  BY <1>4, <1>5

(* The router is given a piece of the body.                                *)
LEMMA DecodeDataStep == Phase(w) /\ DecodeData => Phase(w')
<1> SUFFICES ASSUME Phase(w), DecodeData PROVE Phase(w')
  OBVIOUS
<1>1. /\ w \in World /\ (Waiting(w) \/ Streaming(w) \/ Over(w))
      /\ w.got # <<>> /\ Last(w.got) # "e" /\ ~w.gone /\ ~w.aborted /\ w.abort = "none"
  BY GivenSomething DEF DecodeData, Decoding, Running
<1>2. PICK end \in IF w.kind = "connect" THEN {FALSE} ELSE BOOLEAN :
         LET v == [w EXCEPT !.got = @ \o Piece(end)]
         IN  w' = IF v.list THEN OnRequestComplete(AcceptDataFromRouter(v, Piece(end)), end)
                  ELSE SendLocalReply(v)
  BY DEF DecodeData
<1> DEFINE p == Piece(end)
           v == [w EXCEPT !.got = @ \o p]
<1>3. end \in BOOLEAN /\ (end => w.kind = "http") /\ p \in {<<"b">>, <<"b", "e">>, <<"e">>}
  <2>1. w.kind \in {"http", "connect"}
    BY <1>1, KindsAssumption DEF World
  <2> QED
    BY <1>2, <2>1 DEF Piece
<1>4. w.got \in Seq(Pieces) /\ v.list = w.list /\ v.kind = w.kind
  BY <1>1 DEF World
<1>5. v.got = w.got \o p /\ w.got \o p # <<>> /\ w.got \o p \in Seq(Pieces)
  <2> HIDE DEF p
  <2> QED
    BY <1>1, <1>3, <1>4, MoreGot DEF World
<1>6. CASE w.list
  <2>1. ~Over(w)
    BY <1>6 DEF Over
  <2> HIDE DEF p
  <2>2. Into(AcceptDataFromRouter(v, p), v)
    BY <1>1, <1>3, <2>1, AcceptsData
  <2>3. w' = OnRequestComplete(AcceptDataFromRouter(v, p), end)
    BY <1>2, <1>4, <1>6 DEF p
  <2> HIDE DEF v
  <2> QED
    BY <1>3, <1>4, <1>5, <2>2, <2>3, RequestCompletes DEF Into
<1>7. CASE ~w.list
  <2>1. Over(w)
    BY <1>1, <1>7 DEF Waiting, Streaming, Open
  <2>2. w' = SendLocalReply(v)
    BY <1>2, <1>4, <1>7
  <2> HIDE DEF p
  <2>3. v \in World
    BY <1>1, <1>5, FieldType
  <2>4. /\ ~v.list /\ ~v.handle /\ v.pend = "none" /\ v.obj = "none" /\ v.abort = "none"
        /\ v.sent = <<>> /\ v.down = <<>> /\ ~v.gone /\ ~v.aborted
    BY <1>1, <2>1 DEF World, Over
  <2> HIDE DEF v
  <2> QED
    BY <1>5, <2>2, <2>3, <2>4, OverReplies
<1> QED
  BY <1>6, <1>7

(* The router is given the trailers.                                       *)
LEMMA DecodeTrailersStep == Phase(w) /\ DecodeTrailers => Phase(w')
<1> SUFFICES ASSUME Phase(w), DecodeTrailers PROVE Phase(w')
  OBVIOUS
<1>1. /\ w \in World /\ (Waiting(w) \/ Streaming(w) \/ Over(w))
      /\ w.got # <<>> /\ Last(w.got) # "e" /\ ~w.gone /\ ~w.aborted /\ w.abort = "none"
  BY GivenSomething DEF DecodeTrailers, Decoding, Running
<1> DEFINE p == <<"e">>
           v == [w EXCEPT !.got = @ \o p]
<1>2. w.got \in Seq(Pieces) /\ v.list = w.list /\ p \in {<<"b">>, <<"b", "e">>, <<"e">>}
  BY <1>1 DEF World
<1> HIDE DEF p
<1>3. v.got = w.got \o p /\ w.got \o p # <<>> /\ w.got \o p \in Seq(Pieces)
  BY <1>1, <1>2, MoreGot DEF World
<1>4. w' = IF v.list THEN AcceptDataFromRouter(v, p) ELSE v
  <2>1. [w EXCEPT !.got = Append(@, "e")] = v
    BY <1>2, MoreGot DEF p
  <2> HIDE DEF v
  <2> QED
    BY <2>1 DEF DecodeTrailers, p
<1>5. CASE w.list
  <2>1. ~Over(w)
    BY <1>5 DEF Over
  <2>2. Into(AcceptDataFromRouter(v, p), v)
    BY <1>1, <1>2, <2>1, AcceptsData
  <2> HIDE DEF v
  <2> QED
    BY <1>2, <1>4, <1>5, <2>2 DEF Into
<1>6. CASE ~w.list
  <2>1. Over(w)
    BY <1>1, <1>6 DEF Waiting, Streaming, Open
  <2>2. v \in World
    BY <1>1, <1>3, FieldType
  <2>3. /\ ~v.list /\ ~v.handle /\ v.pend = "none" /\ v.obj = "none" /\ v.abort = "none"
        /\ v.sent = <<>> /\ v.down = <<>> /\ ~v.gone /\ ~v.aborted
    BY <1>1, <2>1 DEF World, Over
  <2> HIDE DEF v
  <2> QED
    BY <1>2, <1>3, <1>4, <1>6, <2>2, <2>3, OverReplies
<1> QED
  BY <1>5, <1>6

(* The downstream goes in any phase.                                       *)
LEMMA DownstreamGoneStep == Phase(w) /\ DownstreamGone => Phase(w')
<1> SUFFICES ASSUME Phase(w), DownstreamGone PROVE Phase(w')
  OBVIOUS
<1>1. w' = OnDestroy(w) /\ w \in World /\ (Waiting(w) \/ Streaming(w) \/ Over(w))
  BY GivenSomething DEF DownstreamGone
<1>2. CASE Waiting(w)
  BY <1>1, <1>2, WaitingDestroyed
<1>3. CASE Streaming(w)
  BY <1>1, <1>3, StreamDestroyed
<1>4. CASE Over(w)
  <2> DEFINE u == [w EXCEPT !.gone = TRUE]
  <2>1. OnDestroy(w) = u
    BY <1>1, <1>4, DestroyIdle DEF Over
  <2>2. u \in World
    BY <1>1, FieldType
  <2>3. Over(u)
    BY <1>1, <1>4 DEF World, Over
  <2> HIDE DEF u
  <2> QED
    BY <1>1, <2>1, <2>2, <2>3 DEF Phase
<1> QED
  BY <1>1, <1>2, <1>3, <1>4

(* The pool attaches the stream.                                           *)
LEMMA PoolReadyStep == Phase(w) /\ PoolReady => Phase(w')
<1> SUFFICES ASSUME Phase(w), PoolReady PROVE Phase(w')
  OBVIOUS
<1>1. w \in World /\ Waiting(w)
  BY HandleWaits DEF PoolReady
<1>2. PICK dies \in BOOLEAN : w' = OnPoolReady(w, dies)
  BY DEF PoolReady
<1> DEFINE end == w.latched = "end"
           u == [w EXCEPT !.handle = FALSE, !.up = TRUE, !.pend = "open",
                          !.paused = IF w.kind = "connect" THEN FALSE ELSE @]
           x == [w EXCEPT !.handle = FALSE, !.up = TRUE, !.pend = "open", !.paused = FALSE,
                          !.latched = "none"]
<1>3. u.latched = w.latched /\ w.latched # "none"
  BY <1>1 DEF World, Waiting
<1>4. [u EXCEPT !.latched = "none"] = x
  BY <1>1 DEF World, Waiting
<1>5. w' = CodecDecodeHeaders(x, end, dies)
  <2> HIDE DEF x
  <2> QED
    BY <1>2, <1>3, <1>4 DEF OnPoolReady
<1>6. x \in World
  BY <1>1 DEF World
<1>7. Begins(x, end)
  <2>1. /\ Open(x) /\ ~x.handle /\ x.up /\ ~x.paused /\ x.latched = "none" /\ ~x.dropped
        /\ x.pend = "open" /\ x.abort = "none" /\ x.resp = "none"
        /\ x.sent = <<>> /\ x.down = <<>>
    BY <1>1 DEF World, Waiting, Open
  <2>2. x.kind = w.kind /\ x.got = w.got /\ x.held = w.held
    BY <1>1 DEF World
  <2>3. \/ end = TRUE /\ w.kind = "http" /\ w.held = <<>> /\ w.got = <<"h", "e">>
        \/ end = FALSE /\ w.got = <<"h">> \o w.held
    BY <1>1, KindsAssumption DEF World, Waiting
  <2> HIDE DEF x, end
  <2> QED
    BY <2>1, <2>2, <2>3 DEF Begins
<1> HIDE DEF x
<1> QED
  BY <1>5, <1>6, <1>7, UpstreamBegins DEF Into

(* A stream that is reset, or that the pool fails, is over: with a local   *)
(* reply, or, when the response had begun, with the downstream stream.     *)
LEMMA ResetEnds ==
  ASSUME NEW v \in World, v.obj = "live", ~v.gone, ~v.handle, ~v.dropped, v.abort = "none",
         v.got # <<>>, IsPrefix(v.sent, v.got), v.down = <<>> \/ Begun(v.down)
  PROVE  Phase([OnUpstreamReset(v) EXCEPT !.pend = "none"])
<1>1. CASE v.down = <<>>
  <2> DEFINE x == [v EXCEPT !.up = FALSE, !.list = FALSE, !.obj = "deferred",
                            !.down = <<"local">>, !.aborted = TRUE]
             y == [x EXCEPT !.pend = "none"]
  <2>1. OnUpstreamReset(v) = x
    BY <1>1, ResetBefore
  <2>2. <<"local">> \in Down /\ WellFormed(<<"local">>)
    BY FirstPieces
  <2>3. y \in World
    <3>1. x \in World
      BY <2>2 DEF World, Down
    <3> HIDE DEF x
    <3> QED
      BY <3>1, FieldType
  <2>4. y = [v EXCEPT !.up = FALSE, !.list = FALSE, !.obj = "deferred",
                      !.down = <<"local">>, !.aborted = TRUE, !.pend = "none"]
    BY DEF World
  <2>5. Over(y)
    BY <2>2, <2>4 DEF World, Over
  <2> HIDE DEF x
  <2> QED
    BY <2>1, <2>3, <2>5 DEF Phase
<1>2. CASE Begun(v.down)
  <2> DEFINE x == [v EXCEPT !.up = FALSE, !.list = FALSE, !.obj = "deferred", !.gone = TRUE]
             y == [x EXCEPT !.pend = "none"]
  <2>1. OnUpstreamReset(v) = x
    BY <1>2, ResetAfter
  <2>2. WellFormed(v.down)
    BY <1>2, BegunGrows DEF World, Down
  <2>3. y \in World
    <3>1. x \in World
      BY DEF World
    <3> HIDE DEF x
    <3> QED
      BY <3>1, FieldType
  <2>4. y = [v EXCEPT !.up = FALSE, !.list = FALSE, !.obj = "deferred", !.gone = TRUE,
                      !.pend = "none"]
    BY DEF World
  <2>5. Over(y)
    BY <2>2, <2>4 DEF World, Over
  <2> HIDE DEF x
  <2> QED
    BY <2>1, <2>3, <2>5 DEF Phase
<1> QED
  BY <1>1, <1>2

(* The pool fails the stream.                                              *)
LEMMA PoolFailureStep == Phase(w) /\ PoolFailure => Phase(w')
<1> SUFFICES ASSUME Phase(w), PoolFailure PROVE Phase(w')
  OBVIOUS
<1>1. w \in World /\ Waiting(w)
  BY HandleWaits DEF PoolFailure
<1> DEFINE v == [w EXCEPT !.handle = FALSE]
           r == OnUpstreamReset(v)
<1>2. w' = r
  BY DEF PoolFailure, OnPoolFailure
<1>3. v \in World
  BY <1>1, FieldType
<1>4. /\ v.obj = "live" /\ ~v.gone /\ ~v.handle /\ ~v.dropped /\ v.abort = "none"
      /\ v.sent = <<>> /\ v.down = <<>> /\ v.pend = "none"
      /\ v.got = w.got /\ v.held = w.held
  BY <1>1 DEF World, Waiting, Open
<1>5. w.held \in Seq(Pieces) /\ w.got \in Seq(Pieces)
  BY <1>1 DEF World
<1>6. v.got # <<>>
  BY <1>1, <1>4, <1>5, GotSomething DEF Waiting
<1>7. IsPrefix(v.sent, v.got)
  BY <1>4, <1>5, TrivialPrefixes
<1> HIDE DEF v
<1>8. Phase([r EXCEPT !.pend = "none"])
  BY <1>3, <1>4, <1>6, <1>7, ResetEnds
<1>9. [r EXCEPT !.pend = "none"] = r
  <2>1. r = [v EXCEPT !.up = FALSE, !.list = FALSE, !.obj = "deferred",
                      !.down = <<"local">>, !.aborted = TRUE]
    BY <1>3, <1>4, ResetBefore
  <2> HIDE DEF r
  <2> QED
    BY <1>3, <1>4, <2>1 DEF World
<1> HIDE DEF r
<1> QED
  BY <1>2, <1>8, <1>9

(* The upstream connection closes.                                         *)
LEMMA UpstreamGoneStep == Phase(w) /\ UpstreamGone => Phase(w')
<1> SUFFICES ASSUME Phase(w), UpstreamGone PROVE Phase(w')
  OBVIOUS
<1>1. w \in World /\ Streaming(w) /\ ~w.dropped
  BY OpenStreams DEF UpstreamGone, Responding
<1> DEFINE v == [w EXCEPT !.pend = "done"]
<1>2. w' = [OnUpstreamReset(v) EXCEPT !.pend = "none"]
  BY DEF UpstreamGone
<1>3. v \in World
  BY <1>1, FieldType
<1>4. /\ v.obj = "live" /\ ~v.gone /\ ~v.handle /\ ~v.dropped /\ v.abort = "none"
      /\ v.got # <<>> /\ v.sent = v.got /\ v.got \in Seq(Pieces)
      /\ (v.down = <<>> \/ Begun(v.down))
  BY <1>1 DEF World, Streaming, Open
<1>5. IsPrefix(v.sent, v.got)
  BY <1>4, TrivialPrefixes
<1> HIDE DEF v
<1> QED
  BY <1>2, <1>3, <1>4, <1>5, ResetEnds

(* The headers of the response.                                            *)
LEMMA ResponseHeadersStep == Phase(w) /\ ResponseHeaders => Phase(w')
<1> SUFFICES ASSUME Phase(w), ResponseHeaders PROVE Phase(w')
  OBVIOUS
<1>1. w \in World /\ Streaming(w) /\ ~w.dropped /\ w.kind = "http" /\ w.resp = "none"
  BY OpenStreams DEF ResponseHeaders, Responding
<1>2. CASE w' = [w EXCEPT !.resp = "deferred"]
  <2> DEFINE u == [w EXCEPT !.resp = "deferred"]
  <2>1. u \in World
    BY <1>1 DEF World
  <2>2. Streaming(u)
    BY <1>1 DEF World, Streaming, Open
  <2> HIDE DEF u
  <2> QED
    BY <1>2, <2>1, <2>2 DEF Phase, u
<1>3. ASSUME NEW dies \in BOOLEAN,
             w' = OnUpstreamHeaders([w EXCEPT !.resp = "headers"], FALSE, dies)
      PROVE  Phase(w')
  <2> DEFINE v == [w EXCEPT !.resp = "headers"]
             u == [v EXCEPT !.down = @ \o <<"h">>]
  <2>1. v \in World
    BY <1>1 DEF World
  <2>2. BridgeDecodeHeaders(v, FALSE) = v
    BY <1>1 DEF World, Streaming, Open, BridgeDecodeHeaders
  <2>3. w' = Encode(v, <<"h">>, dies)
    <3> HIDE DEF v
    <3> QED
      BY <1>3, <2>2 DEF OnUpstreamHeaders, Headers, v
  <2>4. ~v.gone /\ v.down = <<>>
    BY <1>1 DEF World, Streaming, Open
  <2>5. v.down \o <<"h">> \in Down /\ Begun(v.down \o <<"h">>)
    BY <2>4, FirstPieces
  <2>6. u \in World
    <3> HIDE DEF v
    <3> QED
      BY <2>1, <2>5, FieldType
  <2>7. u = [w EXCEPT !.resp = "headers", !.down = v.down \o <<"h">>]
    BY <1>1 DEF World
  <2>8. Streaming(u)
    <3> DEFINE d == v.down \o <<"h">>
    <3>1. u = [w EXCEPT !.resp = "headers", !.down = d] /\ Begun(d)
      BY <2>5, <2>7
    <3> HIDE DEF d, u, v
    <3> QED
      BY <1>1, <3>1 DEF World, Streaming, Open
  <2> HIDE DEF v
  <2> QED
    BY <2>1, <2>3, <2>4, <2>6, <2>8, LastPiece, EncodePiece DEF Into
<1> QED
  BY <1>2, <1>3 DEF ResponseHeaders

(* A piece of the body of the response, or of what a tunnel carries.       *)
LEMMA ResponseBodyStep == Phase(w) /\ ResponseBody => Phase(w')
<1> SUFFICES ASSUME Phase(w), ResponseBody PROVE Phase(w')
  OBVIOUS
<1>1. w \in World /\ Streaming(w) /\ ~w.dropped /\ (w.kind = "http" => w.resp = "headers")
  BY OpenStreams DEF ResponseBody, Responding
<1>2. PICK dies \in BOOLEAN : w' = OnUpstreamData(w, <<"b">>, dies)
  BY DEF ResponseBody
<1>3. w' = Encode(w, <<"b">>, dies)
  BY <1>1, <1>2, LastPiece DEF OnUpstreamData, Streaming, Open
<1> DEFINE d == w.down \o <<"b">>
           u == [w EXCEPT !.down = d]
<1>4. d \in Down /\ Begun(d)
  <2>1. w.down \in Down /\ Begun(w.down)
    BY <1>1, KindsAssumption DEF World, Streaming, Down
  <2> QED
    BY <2>1, BegunGrows
<1> HIDE DEF d
<1>5. u \in World
  BY <1>1, <1>4, FieldType
<1>6. Streaming(u)
  BY <1>1, <1>4, KindsAssumption DEF World, Streaming, Open
<1>7. ~w.gone
  BY <1>1 DEF Streaming, Open
<1> QED
  BY <1>1, <1>3, <1>5, <1>6, <1>7, LastPiece, EncodePiece DEF Into, d

(* The end of the response, with or without its headers.                   *)
LEMMA ResponseEndStep == Phase(w) /\ ResponseEnd => Phase(w')
<1> SUFFICES ASSUME Phase(w), ResponseEnd PROVE Phase(w')
  OBVIOUS
<1>1. w \in World /\ Streaming(w) /\ ~w.dropped /\ w.kind = "http" /\ w.resp # "none"
  BY OpenStreams DEF ResponseEnd, Responding
<1> DEFINE v == [w EXCEPT !.pend = "done"]
<1>2. PICK dies \in BOOLEAN :
         w' = [(IF w.resp = "deferred" THEN OnUpstreamHeaders(v, TRUE, dies)
                ELSE OnUpstreamData(v, <<"e">>, dies)) EXCEPT !.pend = "none"]
  BY DEF ResponseEnd
<1>3. CASE w.resp = "deferred"
  <2> DEFINE x == [w EXCEPT !.pend = "done", !.paused = FALSE, !.rx = TRUE]
  <2>1. BridgeDecodeHeaders(v, TRUE) = x
    BY <1>1 DEF World, BridgeDecodeHeaders
  <2>2. w' = [Encode(OnUpstreamComplete(x), <<"h", "e">>, dies) EXCEPT !.pend = "none"]
    <3> HIDE DEF v, x
    <3> QED
      BY <1>2, <1>3, <2>1 DEF OnUpstreamHeaders, Headers
  <2>3. x \in World
    BY <1>1 DEF World
  <2>4. /\ x.obj = "live" /\ ~x.handle /\ x.up /\ ~x.gone /\ x.kind = "http"
        /\ x.pend = "done" /\ ~x.dropped /\ x.abort = "none" /\ x.got # <<>>
        /\ x.sent = x.got /\ x.got \in Seq(Pieces) /\ x.down = <<>>
    BY <1>1, <1>3 DEF World, Streaming, Open
  <2>5. IsPrefix(x.sent, x.got)
    BY <2>4, TrivialPrefixes
  <2>6. x.down \o <<"h", "e">> \in Down /\ WellFormed(x.down \o <<"h", "e">>)
    BY <2>4, FirstPieces
  <2> HIDE DEF x
  <2> QED
    BY <2>2, <2>3, <2>4, <2>5, <2>6, LastPiece, EndsStream
<1>4. CASE w.resp = "headers"
  <2>1. v \in World
    BY <1>1, FieldType
  <2>2. /\ v.obj = "live" /\ ~v.handle /\ v.up /\ ~v.gone /\ v.kind = "http" /\ v.list
        /\ v.pend = "done" /\ ~v.dropped /\ v.abort = "none" /\ v.got # <<>>
        /\ v.sent = v.got /\ v.got \in Seq(Pieces) /\ v.down \in Down /\ Begun(v.down)
    BY <1>1, <1>4 DEF World, Streaming, Open, Down
  <2> HIDE DEF v
  <2>3. w' = [Encode(OnUpstreamComplete(v), <<"e">>, dies) EXCEPT !.pend = "none"]
    BY <1>2, <1>4, <2>2, LastPiece DEF OnUpstreamData
  <2>4. IsPrefix(v.sent, v.got)
    BY <2>2, TrivialPrefixes
  <2>5. v.down \o <<"e">> \in Down /\ WellFormed(v.down \o <<"e">>)
    BY <2>2, BegunGrows
  <2> QED
    BY <2>1, <2>2, <2>3, <2>4, <2>5, LastPiece, EndsStream
<1> QED
  BY <1>1, <1>3, <1>4 DEF World

(* A 1xx response.                                                         *)
LEMMA Response1xxStep == Phase(w) /\ Response1xx => Interrupted(w')
<1> SUFFICES ASSUME Phase(w), Response1xx PROVE Interrupted(w')
  OBVIOUS
<1>1. w \in World /\ Streaming(w) /\ ~w.dropped /\ w.kind = "http" /\ w.resp = "none"
  BY OpenStreams DEF Response1xx, Responding
<1>2. w' = [w EXCEPT !.abort = "no encode_1xx_headers:412"]
  BY DEF Response1xx, Responding, Running, Fails
<1>3. w' \in World
  BY <1>1, <1>2 DEF World
<1> QED
  BY <1>1, <1>2, <1>3 DEF World, Streaming, Open, Interrupted

(* The upstream closes its half of a tunnel.                               *)
LEMMA TunnelEndStep == Phase(w) /\ TunnelEnd => Phase(w')
<1> SUFFICES ASSUME Phase(w), TunnelEnd PROVE Phase(w')
  OBVIOUS
<1>1. w \in World /\ Streaming(w) /\ ~w.dropped /\ w.kind = "connect"
  BY OpenStreams DEF TunnelEnd, Responding
<1>2. PICK dies \in BOOLEAN : w' = OnUpstreamData(w, <<"e">>, dies)
  BY DEF TunnelEnd
<1>3. /\ w.obj = "live" /\ ~w.handle /\ w.up /\ ~w.gone /\ w.list /\ ~w.ended /\ ~w.rx
      /\ w.pend = "open" /\ w.abort = "none" /\ w.got # <<>>
      /\ w.sent = w.got /\ w.got \in Seq(Pieces) /\ w.down \in Down /\ Begun(w.down)
  BY <1>1 DEF World, Streaming, Open, Down
<1>4. w' = Encode(OnUpstreamComplete(w), <<"e">>, dies)
  BY <1>2, <1>3, LastPiece DEF OnUpstreamData
<1>5. IsPrefix(w.sent, w.got)
  BY <1>3, TrivialPrefixes
<1>6. w.down \o <<"e">> \in Down /\ WellFormed(w.down \o <<"e">>)
  BY <1>3, BegunGrows
<1> QED
  BY <1>1, <1>3, <1>4, <1>5, <1>6, LastPiece, EndsStream

(* The upstream request is freed, after it was deferred.                   *)
LEMMA FreeUpstreamRequestStep == Phase(w) /\ FreeUpstreamRequest => Phase(w')
<1> SUFFICES ASSUME Phase(w), FreeUpstreamRequest PROVE Phase(w')
  OBVIOUS
<1>1. w \in World /\ Over(w) /\ w.obj = "deferred"
  BY DEF FreeUpstreamRequest, Phase, Fresh, InitialWorld, Waiting, Streaming, Open
<1> DEFINE u == [w EXCEPT !.obj = "freed", !.up = FALSE]
<1>2. w' = u
  BY DEF FreeUpstreamRequest
<1>3. u \in World
  BY <1>1 DEF World
<1>4. Over(u)
  BY <1>1 DEF World, Over
<1> HIDE DEF u
<1> QED
  BY <1>2, <1>3, <1>4 DEF Phase

----------------------------------------------------------------------------
(* The theorems.                                                           *)

(* Every step takes the request from a phase to a phase.                   *)
LEMMA PhaseStep == IInv /\ [Next]_vars => IInv'
<1> SUFFICES ASSUME IInv, [Next]_vars PROVE IInv'
  OBVIOUS
<1>1. CASE UNCHANGED vars
  BY <1>1 DEF vars, IInv
<1>2. CASE Next /\ Phase(w)
  BY <1>2, DecodeHeadersStep, DecodeDataStep, DecodeTrailersStep, DownstreamGoneStep,
     PoolReadyStep, PoolFailureStep, ResponseHeadersStep, ResponseBodyStep,
     ResponseEndStep, Response1xxStep, TunnelEndStep, UpstreamGoneStep,
     FreeUpstreamRequestStep DEF Next, IInv
<1>3. CASE Next /\ Interrupted(w)
  <2>1. Running
    BY <1>3 DEF Next, DecodeHeaders, DecodeData, DecodeTrailers, Decoding, DownstreamGone, PoolReady, PoolFailure,
                ResponseHeaders, ResponseBody, ResponseEnd, Response1xx, TunnelEnd, UpstreamGone, Responding,
                FreeUpstreamRequest
  <2> QED
    BY <1>3, <2>1 DEF Running, Interrupted
<1> QED
  BY <1>1, <1>2, <1>3 DEF IInv

(* A request begins in the first phase.                                    *)
LEMMA PhaseInit == Init => IInv
<1> SUFFICES ASSUME NEW k \in Kinds, NEW t \in Targets, w = InitialWorld(k, t) PROVE Phase(w)
  BY DEF Init, IInv
<1>1. <<>> \in Seq(Pieces) /\ <<>> \in Down
  BY DEF Down
<1>2. w \in World
  BY <1>1 DEF InitialWorld, World, Down
<1>3. Fresh(w)
  BY DEF Fresh, InitialWorld
<1> QED
  BY <1>2, <1>3 DEF Phase

(* Every reachable state of the router is in one of the four phases, or a  *)
(* 1xx response has ended the process.                                     *)
THEOREM RequestPhases == Spec => []IInv
<1>1. Init => IInv
  BY PhaseInit
<1>2. IInv /\ [Next]_vars => IInv'
  BY PhaseStep
<1> QED
  BY <1>1, <1>2, PTL DEF Spec

(* NothingDangles: once the upstream request is freed, or the router gone, *)
(* no stream waits in the pool and neither the codec nor a TCP connection  *)
(* would call back, and no assertion of the router or of its upstream      *)
(* fails where no reset was dropped and no 1xx response came, for any      *)
(* length of the bodies.                                                   *)
THEOREM NothingEverDangles == Spec => []NothingDangles
<1>1. IInv => NothingDangles
  <2>0. Interrupted(w) => NothingDangles
    BY DEF Interrupted, NothingDangles, Ends1xx
  <2> SUFFICES ASSUME Phase(w) PROVE NothingDangles
    BY <2>0 DEF IInv
  <2> USE DEF Running
  <2>1. CASE Fresh(w)
    BY <2>1 DEF Phase, Fresh, InitialWorld, NothingDangles
  <2>2. CASE Waiting(w)
    BY <2>2 DEF Phase, Waiting, Open, NothingDangles
  <2>3. CASE Streaming(w)
    BY <2>3 DEF Phase, Streaming, Open, NothingDangles
  <2>4. CASE Over(w)
    BY <2>4 DEF Phase, Over, NothingDangles
  <2> QED
    BY <2>1, <2>2, <2>3, <2>4 DEF Phase
<1> QED
  BY <1>1, RequestPhases, PTL

(* ResponseWellFormed: the downstream is given a local reply alone, or     *)
(* headers, body and at most one end, with nothing after it, however the   *)
(* encoding of the response is interleaved with resets, pool failures and  *)
(* the end of the downstream.                                              *)
THEOREM ResponsesWellFormed == Spec => []ResponseWellFormed
<1>1. IInv => ResponseWellFormed
  <2> SUFFICES ASSUME Phase(w) PROVE WellFormed(w.down)
    BY DEF IInv, ResponseWellFormed, WellFormed, Interrupted
  <2>1. CASE Fresh(w)
    <3>1. w.down = <<>>
      BY <2>1 DEF Fresh, InitialWorld
    <3> QED
      BY <3>1, FirstPieces
  <2>2. CASE Waiting(w)
    BY <2>2, FirstPieces DEF Waiting
  <2>3. CASE Streaming(w)
    <3>1. w.down \in Down /\ (w.down = <<>> \/ Begun(w.down))
      BY <2>3 DEF Phase, World, Streaming, Down
    <3> QED
      BY <3>1, FirstPieces, BegunGrows
  <2>4. CASE Over(w)
    BY <2>4 DEF Over
  <2> QED
    BY <2>1, <2>2, <2>3, <2>4 DEF Phase
<1> QED
  BY <1>1, RequestPhases, PTL

(* RequestForwarded: the upstream is sent what the router was given, in    *)
(* order and once, with what was held while the pool was waited for, and   *)
(* nothing is kept back once the upstream is there.                        *)
THEOREM RequestsForwarded == Spec => []RequestForwarded
<1>1. IInv => RequestForwarded
  <2>0. ASSUME Interrupted(w) PROVE RequestForwarded
    <3>1. w.got \in Seq(Pieces) /\ w.sent = w.got /\ w.held = <<>> /\ w.latched = "none"
      BY <2>0 DEF Interrupted, World
    <3>2. IsPrefix(w.sent, w.got) /\ w.got = w.got \o <<>>
      BY <3>1, TrivialPrefixes
    <3> QED
      BY <3>1, <3>2 DEF RequestForwarded
  <2> SUFFICES ASSUME Phase(w), ~w.dropped PROVE RequestForwarded
    BY <2>0 DEF IInv, RequestForwarded
  <2>1. w.got \in Seq(Pieces) /\ w.held \in Seq(Pieces)
    BY DEF Phase, World
  <2>2. CASE Fresh(w)
    <3>1. w.sent = <<>> /\ ~w.list
      BY <2>2 DEF Fresh, InitialWorld
    <3> QED
      BY <2>1, <3>1, TrivialPrefixes DEF RequestForwarded
  <2>3. CASE Waiting(w)
    <3>1. w.sent = <<>> /\ ~w.up /\ IsPrefix(w.sent, w.got)
      BY <2>1, <2>3, TrivialPrefixes DEF Waiting
    <3>2. w.got = <<>> \o w.got
      BY <2>1
    <3>3. w.got = IF w.latched = "none" THEN w.held
                  ELSE IF w.latched = "end" THEN <<"h", "e">> ELSE <<"h">> \o w.held
      BY <2>3 DEF Waiting
    <3> QED
      BY <3>1, <3>2, <3>3 DEF RequestForwarded
  <2>4. CASE Streaming(w)
    <3>1. w.sent = w.got /\ w.latched = "none" /\ w.held = <<>> /\ IsPrefix(w.sent, w.got)
      BY <2>1, <2>4, TrivialPrefixes DEF Streaming
    <3>2. w.got = w.got \o <<>>
      BY <2>1
    <3> QED
      BY <3>1, <3>2 DEF RequestForwarded
  <2>5. CASE Over(w)
    BY <2>5 DEF Over, RequestForwarded
  <2> QED
    BY <2>2, <2>3, <2>4, <2>5 DEF Phase
<1> QED
  BY <1>1, RequestPhases, PTL
-----------------------------------------------------------------------------
(* The selection of a host.                                                *)

(* A vector as the workers may find it.  Only the one made at the start    *)
(* can be empty.                                                           *)
Sound(v) ==
    \/ v = Null
    \/ /\ v.list \in Seq(Hosts) /\ v.null = FALSE
       /\ v.list = <<>> => v.initial

(* The vector in place has hosts when there are hosts; a rule's upstreams  *)
(* are all of them, always.                                                *)
VectorInv ==
    /\ Sound(healthy)
    /\ healthy.null => found # {}
    /\ healthy # Null /\ healthy.list = <<>> => found = {}
    /\ method # "dns" => open = {} /\ Len(healthy.list) = N

(* A worker that has computed a position holds a vector that has it.       *)
PickInv ==
    /\ last \in Nat
    /\ pc \in [Workers -> {"idle", "borrowed", "write"}]
    /\ DOMAIN vec = Workers /\ DOMAIN pick = Workers /\ DOMAIN chosen = Workers
    /\ \A x \in Workers : Sound(vec[x])
    /\ \A x \in Workers : pc[x] = "write" => pick[x] \in 1 .. Len(vec[x].list)

SelectionInv == VectorInv /\ PickInv

-----------------------------------------------------------------------------
(* A vector in the order of the endpoints has all the hosts it was made    *)
(* from.                                                                   *)
LEMMA InOrderSeq ==
    ASSUME N \in Nat, NEW S \in SUBSET Hosts, NEW q \in InOrder(S)
    PROVE  q \in Seq(Hosts) /\ Len(q) = Cardinality(S) /\ (q = <<>> <=> S = {})
<1>1. IsFiniteSet(Hosts)
  BY FS_Interval DEF Hosts
<1>2. IsFiniteSet(S) /\ Cardinality(S) \in Nat /\ (Cardinality(S) = 0 <=> S = {})
  BY <1>1, FS_Subset, FS_CardinalityType, FS_EmptySet
<1>3. q \in [1 .. Cardinality(S) -> Hosts]
  BY DEF InOrder
<1>4. q \in Seq(Hosts) /\ Len(q) = Cardinality(S)
  BY <1>2, <1>3
<1> QED
  BY <1>2, <1>4

(* Null is a vector of its own.                                            *)
LEMMA NullParts == Null.null = TRUE /\ Null.list = <<>> /\ Sound(Null)
BY DEF Null, Sound

(* What a vector that was just made looks like.                            *)
LEMMA NewVector ==
    ASSUME N \in Nat, NEW S \in SUBSET Hosts, NEW q \in InOrder(S), NEW i \in BOOLEAN, i \/ S # {}
    PROVE  LET v == Vector(q, i)
           IN  /\ Sound(v) /\ ~v.null /\ v # Null
               /\ v.list = <<>> <=> S = {}
               /\ Len(v.list) = Cardinality(S)
<1>1. q \in Seq(Hosts) /\ Len(q) = Cardinality(S) /\ (q = <<>> <=> S = {})
  BY InOrderSeq
<1>2. /\ Vector(q, i).list = q /\ Vector(q, i).null = FALSE /\ Vector(q, i).initial = i
  BY DEF Vector
<1>3. Vector(q, i) # Null
  BY <1>2, NullParts
<1> QED
  BY <1>1, <1>2, <1>3 DEF Sound

(* The position after any other one is within the vector, if it has one.   *)
LEMMA NextElementInVector ==
    ASSUME NEW v, Sound(v), Len(v.list) >= 1, NEW i \in Nat
    PROVE  NextElement(v, i) \in 1 .. Len(v.list) /\ Len(v.list) \in Nat
<1>1. Len(v.list) \in Nat
  BY NullParts DEF Sound
<1> QED
  BY <1>1 DEF NextElement

(* What is at a position within a vector is a host.                        *)
LEMMA GetHost ==
    ASSUME N \in Nat, NEW v, Sound(v), NEW i \in 1 .. Len(v.list)
    PROVE  Get(v, i) # 0
<1>1. v.list \in Seq(Hosts)
  BY NullParts DEF Sound
<1>2. i \in DOMAIN v.list /\ v.list[i] \in Hosts
  BY <1>1
<1> QED
  BY <1>2 DEF Get, Hosts

(* At the start there is a vector of the hosts that are known, and no      *)
(* worker is choosing.                                                     *)
LEMMA SelectionInit == ASSUME N \in Nat, HostInit PROVE SelectionInv
<1>1. PICK q \in InOrder(found) : healthy = Vector(q, TRUE)
  BY DEF HostInit
<1>2. found \in SUBSET Hosts /\ (method # "dns" => found = Hosts /\ open = {})
  BY DEF HostInit
<1>3. Cardinality(Hosts) = N
  BY FS_Interval DEF Hosts
<1>4. /\ Sound(healthy) /\ ~healthy.null /\ healthy # Null
      /\ healthy.list = <<>> <=> found = {}
      /\ Len(healthy.list) = Cardinality(found)
  BY <1>1, <1>2, NewVector
<1>5. VectorInv
  BY <1>2, <1>3, <1>4 DEF VectorInv
<1>6. PickInv
  BY NullParts DEF HostInit, PickInv
<1> QED
  BY <1>5, <1>6 DEF SelectionInv

(* Every step keeps the invariant: an update of the hosts, by the main     *)
(* thread, between any two steps of the workers included.                  *)
LEMMA SelectionStep == ASSUME N \in Nat, found \subseteq Hosts, SelectionInv, [HostNext]_hostVars PROVE SelectionInv'
<1>0. VectorInv /\ PickInv
  BY DEF SelectionInv
<1>1. ASSUME NEW t \in Hosts, NetworkDnsResolveCb(t) PROVE SelectionInv'
  <2>1. PickInv'
    BY <1>0, <1>1 DEF NetworkDnsResolveCb, PickInv
  <2>2. method' = method /\ method = "dns"
    BY <1>0, <1>1 DEF NetworkDnsResolveCb, VectorInv
  <2>3. ASSUME found' = found \cup {t}, healthy' = Null PROVE VectorInv'
    <3>1. found' # {}
      BY <2>3
    <3> QED
      BY <2>2, <2>3, <3>1, NullParts DEF VectorInv
  <2>4. ASSUME UNCHANGED <<found, healthy>> PROVE VectorInv'
    BY <2>2, <2>4, <1>0 DEF VectorInv
  <2> QED
    BY <1>1, <2>1, <2>3, <2>4 DEF SelectionInv, NetworkDnsResolveCb
<1>2. ASSUME SetHealthyHosts PROVE SelectionInv'
  <2>1. PickInv'
    BY <1>0, <1>2 DEF SetHealthyHosts, PickInv
  <2>2. UNCHANGED <<method, open, found>> /\ healthy.null
    BY <1>2 DEF SetHealthyHosts
  <2>3. PICK q \in InOrder(found) : healthy' = Vector(q, FALSE)
    BY <1>2 DEF SetHealthyHosts
  <2>4. found # {}
    BY <1>0, <2>2 DEF VectorInv
  <2>5. /\ Sound(healthy') /\ ~healthy'.null /\ healthy' # Null
        /\ healthy'.list = <<>> <=> found = {}
        /\ Len(healthy'.list) = Cardinality(found)
    BY <2>3, <2>4, NewVector
  <2>6. method = "dns"
    <3> SUFFICES ASSUME method # "dns" PROVE FALSE
      OBVIOUS
    <3>1. healthy = Null /\ Len(healthy.list) = N
      BY <1>0, <2>2 DEF VectorInv, Sound
    <3>2. N = 0
      BY <3>1, NullParts
    <3>3. PICK h \in found : h \in 1 .. N
      BY <2>4 DEF Hosts
    <3> QED
      BY <3>2, <3>3
  <2> QED
    BY <2>1, <2>2, <2>4, <2>5, <2>6 DEF SelectionInv, VectorInv
<1>3. ASSUME NEW wk \in Workers, BorrowHosts(wk) PROVE SelectionInv'
  BY <1>0, <1>3 DEF SelectionInv, BorrowHosts, Idle, VectorInv, PickInv
<1>4. ASSUME NEW wk \in Workers, TakeOnlyHost(wk) PROVE SelectionInv'
  BY <1>0, <1>4, NullParts DEF SelectionInv, TakeOnlyHost, VectorInv, PickInv
<1>5. ASSUME NEW wk \in Workers, ReadFreedHosts(wk) PROVE SelectionInv'
  BY <1>0, <1>5 DEF SelectionInv, ReadFreedHosts, VectorInv, PickInv
<1>6. ASSUME NEW wk \in Workers, ReadLastElement(wk) PROVE SelectionInv'
  <2>1. Sound(vec[wk]) /\ last \in Nat /\ Len(vec[wk].list) >= 2
    BY <1>0, <1>6 DEF PickInv, ReadLastElement
  <2>2. Len(vec[wk].list) \in Nat
    BY <2>1, NullParts DEF Sound
  <2>3. Len(vec[wk].list) >= 1
    BY <2>1, <2>2
  <2>4. NextElement(vec[wk], last) \in 1 .. Len(vec[wk].list)
    BY <2>1, <2>3, NextElementInVector
  <2> QED
    BY <2>4, <1>0, <1>6 DEF SelectionInv, ReadLastElement, VectorInv, PickInv
<1>7. ASSUME NEW wk \in Workers, UpstreamGetRr(wk) PROVE SelectionInv'
  <2>1. Sound(healthy) /\ last \in Nat /\ Len(healthy.list) = N /\ N >= 2
    BY <1>0, <1>7 DEF PickInv, VectorInv, UpstreamGetRr
  <2>2. NextElement(healthy, last) \in 1 .. Len(healthy.list)
    BY <2>1, NextElementInVector
  <2>3. /\ vec' = [vec EXCEPT ![wk] = healthy]
        /\ pick' = [pick EXCEPT ![wk] = NextElement(healthy, last)]
        /\ pc' = [pc EXCEPT ![wk] = "write"]
        /\ UNCHANGED <<method, open, found, healthy, last, chosen, crashed>>
    BY <1>7 DEF UpstreamGetRr
  <2>4. PickInv'
    BY <2>1, <2>2, <2>3, <1>0 DEF PickInv
  <2>5. VectorInv'
    BY <2>3, <1>0 DEF VectorInv
  <2> QED
    BY <2>4, <2>5 DEF SelectionInv
<1>8. ASSUME NEW wk \in Workers, WriteLastElement(wk) PROVE SelectionInv'
  <2>1. pick[wk] \in 1 .. Len(vec[wk].list) /\ Sound(vec[wk])
    BY <1>0, <1>8 DEF PickInv, WriteLastElement
  <2>2. pick[wk] \in Nat
    BY <2>1, NullParts DEF Sound
  <2> QED
    BY <2>2, <1>0, <1>8, NullParts DEF SelectionInv, WriteLastElement, VectorInv, PickInv
<1>9. ASSUME NEW wk \in Workers, UpstreamGetOther(wk) PROVE SelectionInv'
  BY <1>0, <1>9 DEF SelectionInv, UpstreamGetOther, VectorInv, PickInv
<1>10. CASE UNCHANGED hostVars
  BY <1>0, <1>10 DEF SelectionInv, hostVars, VectorInv, PickInv
<1> QED
  BY <1>1, <1>2, <1>3, <1>4, <1>5, <1>6, <1>7, <1>8, <1>9, <1>10 DEF HostNext, ChooseHost

(* The hosts are hosts.                                                    *)
LEMMA FoundStep == found \subseteq Hosts /\ [HostNext]_hostVars => (found \subseteq Hosts)'
BY DEF HostNext, hostVars, NetworkDnsResolveCb, SetHealthyHosts, ChooseHost, BorrowHosts, TakeOnlyHost,
       ReadFreedHosts, ReadLastElement, UpstreamGetRr, WriteLastElement, UpstreamGetOther

(* A choice that ends with no host has found none in a vector that was     *)
(* just being replaced, or freed.                                          *)
LEMMA HostFoundStep ==
    ASSUME N \in Nat, SelectionInv, [HostNext]_hostVars,
           NEW wk \in Workers, pc[wk] # "idle", pc'[wk] = "idle", found # {}
    PROVE  chosen'[wk] # 0 \/ vec[wk].null \/ Dangling(wk)
<1>0. VectorInv /\ PickInv
  BY DEF SelectionInv
<1>1. TakeOnlyHost(wk) \/ WriteLastElement(wk)
  <2>1. ASSUME NEW x \in Workers \ {wk}, ChooseHost(x) \/ ReadFreedHosts(x) PROVE pc'[wk] = pc[wk]
    BY <2>1, <1>0 DEF ChooseHost, ReadFreedHosts, BorrowHosts, TakeOnlyHost, ReadLastElement,
                      UpstreamGetRr, WriteLastElement, UpstreamGetOther, PickInv
  <2>2. ASSUME (\E t \in Hosts : NetworkDnsResolveCb(t)) \/ SetHealthyHosts \/ UNCHANGED hostVars
        PROVE  pc' = pc
    BY <2>2 DEF NetworkDnsResolveCb, SetHealthyHosts, hostVars
  <2>3. ASSUME BorrowHosts(wk) \/ ReadLastElement(wk) \/ UpstreamGetRr(wk) PROVE pc'[wk] # "idle"
    BY <2>3, <1>0 DEF BorrowHosts, ReadLastElement, UpstreamGetRr, PickInv
  <2>4. ASSUME UpstreamGetOther(wk) \/ ReadFreedHosts(wk) PROVE pc' = pc
    BY <2>4 DEF UpstreamGetOther, ReadFreedHosts
  <2> QED
    BY <2>1, <2>2, <2>3, <2>4 DEF HostNext, ChooseHost
<1>2. CASE WriteLastElement(wk)
  <2>1. pick[wk] \in 1 .. Len(vec[wk].list) /\ Sound(vec[wk])
    BY <1>0, <1>2 DEF PickInv, WriteLastElement
  <2>2. chosen'[wk] = Get(vec[wk], pick[wk])
    BY <1>0, <1>2 DEF PickInv, WriteLastElement
  <2> QED
    BY <2>1, <2>2, GetHost
<1>3. CASE TakeOnlyHost(wk)
  <2>1. Sound(vec[wk]) /\ chosen'[wk] = Get(vec[wk], 1)
    BY <1>0, <1>3 DEF PickInv, TakeOnlyHost
  <2>2. CASE vec[wk].list # <<>>
    <3>1. 1 \in 1 .. Len(vec[wk].list)
      BY <2>1, <2>2, NullParts DEF Sound
    <3> QED
      BY <2>1, <3>1, GetHost
  <2>3. CASE vec[wk].list = <<>> /\ vec[wk] # Null
    <3>1. vec[wk].initial
      BY <2>1, <2>3 DEF Sound
    <3>2. healthy # vec[wk]
      BY <2>3, <1>0 DEF VectorInv
    <3> QED
      BY <3>1, <3>2 DEF Dangling
  <2> QED
    BY <2>2, <2>3, NullParts
<1> QED
  BY <1>1, <1>2, <1>3

(* A choice ends without a host only if there is none, or if the vector is *)
(* just being replaced: however the workers' unlocked reads and writes of  *)
(* the position interleave with each other and with updates of the hosts.  *)
THEOREM HostAlwaysFound == HostSpec => HostFound
<1>1. HostInit => SelectionInv /\ found \subseteq Hosts
  BY HostsAssumption, SelectionInit DEF HostInit
<1>2. (SelectionInv /\ found \subseteq Hosts) /\ [HostNext]_hostVars => (SelectionInv /\ found \subseteq Hosts)'
  BY HostsAssumption, SelectionStep, FoundStep
<1>3. SelectionInv /\ [HostNext]_hostVars =>
         [\A wk \in Workers :
             pc[wk] # "idle" /\ pc'[wk] = "idle" /\ found # {}
                 => chosen'[wk] # 0 \/ vec[wk].null \/ Dangling(wk)]_hostVars
  BY HostsAssumption, HostFoundStep
<1> QED
  BY <1>1, <1>2, <1>3, PTL DEF HostSpec, HostFound
=============================================================================
