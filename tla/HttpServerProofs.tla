-------------------------- MODULE HttpServerProofs --------------------------
(***************************************************************************)
(* Machine-checked proofs about HttpServer, for any number of requests of  *)
(* any kinds.                                                              *)
(*                                                                         *)
(* Core holds of the connection between any two of the operations that a   *)
(* step is made of, also of one that an assertion stopped.  FlowInv ties   *)
(* the codec to what the client has sent and holds between the parser's    *)
(* callbacks; QuietInv and DrainInv speak of the connection's end.         *)
(***************************************************************************)
EXTENDS HttpServer, SequenceTheorems, WellFoundedInduction, TLAPS

(* Sequences without repetitions, and what is in one.                      *)
Inj(q) == \A i, j \in DOMAIN q : q[i] = q[j] => i = j
Has(q, x) == \E i \in DOMAIN q : q[i] = x

(* A connection is a record of these fields.                               *)
FieldNames ==
    {"net", "pend", "dis", "data", "active", "last", "resetCalled", "deferEnd", "status", "body",
     "paused", "run", "pc", "next", "drain", "streams", "rqActive", "req", "enc", "st", "deferred",
     "out", "abort"}
Shape(v) == v = [k \in FieldNames |-> v[k]]

(* u differs from v in the fields F at most.                               *)
Frame(v, u, F) == Shape(u) /\ \A k \in FieldNames \ F : u[k] = v[k]

Tok == {"G", "H", "B", "E", "X"}
ReqRec == [obj: Objects, remote: BOOLEAN]
EncRec == [dis: 0 .. MaxDisable, reset: BOOLEAN, event: BOOLEAN]
StRec ==
    [obj: Objects, sawLocal: BOOLEAN, encComplete: BOOLEAN, onReset: BOOLEAN,
     zombie: BOOLEAN, lastByte: BOOLEAN, shouldDrain: BOOLEAN,
     decoded: {"none", "headers", "end"}, app: {"none", "called", "headers", "done"}]
StNames ==
    {"obj", "sawLocal", "encComplete", "onReset", "zombie", "lastByte", "shouldDrain", "decoded", "app"}
Item(r) == [k |-> "st", r |-> r]
Items == [k: {"req", "st"}, r: R]
Writes == [r: R, t: {"headers", "end"}]

(* The types of the fields that no other part of the invariant speaks of.  *)
Typed(v) ==
    /\ Shape(v)
    /\ v.net \in {"open", "flushing", "closed"} /\ v.pend \in BOOLEAN /\ v.dis \in 0 .. MaxDisable
    /\ v.data \in Seq(Seq(Tok)) /\ v.resetCalled \in BOOLEAN /\ v.deferEnd \in BOOLEAN
    /\ v.status \in {"Ok", "CodecProtocolError"} /\ v.body \in BOOLEAN /\ v.paused \in BOOLEAN
    /\ v.run \in Seq(Tok) /\ v.pc \in {"idle", "parse", "app", "done", "tail"}
    /\ v.next \in {"none", "headers", "bodyThenEnd", "end", "bodyThenDone"}
    /\ v.drain \in BOOLEAN
    /\ v.abort \in {"none", "dispatch_slice:122", "read_disable:523", "on_encode_complete:270",
                    "dispose:303 spins", "freed decoder"}

(* The list of streams, its counter, who listens to an encoder and what    *)
(* waits with the dispatcher agree with the streams' states.               *)
StreamInv(s, rq, st, enc, D) ==
    /\ s \in Seq(R) /\ Inj(s) /\ rq = Len(s) /\ D \in Seq(Items)
    /\ st \in [R -> StRec] /\ enc \in [R -> EncRec]
    /\ \A r \in R :
          /\ st[r].obj = "live" <=> Has(s, r)
          /\ enc[r].reset <=> Has(s, r)
          /\ enc[r].event <=> Has(s, r)
          /\ st[r].obj = "deferred" <=> Has(D, Item(r))

(* The codec works on the last request at most, and the application has    *)
(* something to do for that one only.                                      *)
CodecInv(active, last, st, req) ==
    /\ active \in 0 .. N /\ last \in 0 .. N /\ req \in [R -> ReqRec]
    /\ active # 0 => active = last
    /\ \A r \in R :
          /\ st[r].app \in {"called", "headers"} =>
                active = r /\ st[r].obj = "live" /\ st[r].lastByte /\ ~st[r].sawLocal
          /\ active = r /\ st[r].decoded = "end" => req[r].remote
          /\ r > last => /\ st[r].obj = "none" /\ st[r].app = "none" /\ st[r].decoded # "end"
                         /\ ~st[r].sawLocal /\ ~req[r].remote

(* What was written is in order, of requests that have begun, and as far   *)
(* as the application has come.                                            *)
Ordered(out) ==
    \A i, j \in DOMAIN out : i < j =>
        \/ out[i].r < out[j].r
        \/ out[i].r = out[j].r /\ out[i].t = "headers" /\ out[j].t = "end"
OutInv(out, last, st) ==
    /\ out \in Seq(Writes) /\ Ordered(out)
    /\ \A i \in DOMAIN out :
          /\ out[i].r <= last
          /\ st[out[i].r].app \notin {"none", "called"}
          /\ st[out[i].r].app = "headers" => out[i].t = "headers"

Core(v) ==
    /\ Typed(v)
    /\ StreamInv(v.streams, v.rqActive, v.st, v.enc, v.deferred)
    /\ CodecInv(v.active, v.last, v.st, v.req)
    /\ OutInv(v.out, v.last, v.st)

(* The tokens that begin a request.                                        *)
Firsts == {"G", "H", "X"}
Begins(u) == u # <<>> /\ u[1] \in Firsts

(* u is a rest of the tokens sent, n of which are of a request that is not *)
(* complete.                                                               *)
Follows(a, t) ==
    \/ a = "H" /\ t = "B"
    \/ a = "B" /\ t = "E"
    \/ a \in {"G", "X", "E"} /\ t \in Firsts
Rest(u, n) ==
    /\ \A i \in 1 .. Len(u) - 1 : Follows(u[i], u[i + 1])
    /\ u # <<>> => \/ n = 0 /\ u[Len(u)] \in {"G", "X", "E"}
                   \/ n = 1 /\ u[Len(u)] = "H"
                   \/ n = 2 /\ u[Len(u)] = "B"

(* u takes a reader who knows of l requests to k of them.                  *)
Counts(u, l, k) ==
    \E f \in [0 .. Len(u) -> 0 .. N] :
        /\ f[0] = l /\ f[Len(u)] = k
        /\ \A i \in 1 .. Len(u) : f[i] = IF u[i] \in Firsts THEN f[i - 1] + 1 ELSE f[i - 1]

(* u has tokens of one request; u begins with a request, if at all.        *)
Single(u) == \A i \in 1 .. Len(u) : i > 1 => u[i] \notin Firsts
Whole(u) == u # <<>> => Begins(u)

(* The request that the last token sent belongs to.                        *)
Sent(q, n) == IF n = 0 THEN q - 1 ELSE q

(* The codec's request, if its end was not parsed yet.                     *)
Receiving(v) == v.active # 0 /\ ~v.req[v.active].remote
Received(v) == v.active # 0 /\ v.req[v.active].remote

(* The codec has all tokens of its request.                                *)
Parsed(v) ==
    \/ Received(v) /\ v.pc \in {"parse", "app"}
    \/ v.pc = "app" /\ v.next = "bodyThenEnd"

(* Of the requests the client has begun, the codec knows all but those     *)
(* whose first tokens are still to be parsed; and an incomplete request    *)
(* has tokens to come.                                                     *)
Accounted(v, q, n) ==
    /\ Rest(v.run, n) /\ Counts(v.run, v.last, Sent(q, n))
    /\ Receiving(v) => \/ v.pc = "app" /\ v.next = "bodyThenEnd"
                       \/ ~Begins(v.run) /\ (v.run = <<>> => n > 0)

(* Where no slice had tokens of two requests (sp is FALSE), nothing comes  *)
(* behind the request that the codec has in place.                         *)
FlowInv(v, q, n, sp) ==
    /\ v.deferEnd => v.pc = "app" /\ v.next = "end"
    /\ v.pc \notin {"parse", "app"} => v.run = <<>>
    /\ v.pc = "app" /\ v.next = "bodyThenDone" => v.run = <<>> /\ v.data = <<>>
    /\ v.pc = "parse" \/ (v.pc = "app" /\ v.next # "bodyThenDone") => Len(v.data) = 1
    /\ v.status # "Ok" => v.pc \in {"done", "idle"} /\ ~Received(v)
    /\ v.pc = "tail" => Received(v) /\ v.data # <<>>
    /\ v.pc = "app" => v.next # "none"
    /\ v.pc = "done" /\ v.status = "Ok" => v.data = <<>>
    /\ v.pc = "tail" \/ (v.pc = "idle" /\ v.status = "Ok" /\ v.data # <<>>) =>
          v.dis > 0 \/ v.net # "open"
    /\ Parsed(v) => Whole(v.run) /\ (~sp => v.run = <<>>)
    /\ ~sp => Single(v.run)
    /\ v.status = "Ok" /\ v.pc # "tail" /\ (v.pc = "idle" => v.data = <<>>) => Accounted(v, q, n)

(* Where the client waits for responses (b is FALSE), a connection that is *)
(* not open has no streams and nothing to parse.                           *)
QuietInv(v, b) == ~b /\ v.net # "open" => v.streams = <<>> /\ v.run = <<>>

(* A draining connection without streams is not open.                      *)
DrainInv(v) == v.drain /\ v.streams = <<>> => v.net # "open"

(* All of it, for a connection; one that an assertion stopped is left with *)
(* the core.                                                               *)
Good(v, q, n, b, sp) ==
    Core(v) /\ (v.abort = "none" => FlowInv(v, q, n, sp) /\ QuietInv(v, b) /\ DrainInv(v))

(* What the client sends.                                                  *)
Place(p) ==
    /\ p \in (1 .. N + 1) \X (0 .. 2)
    /\ p[2] > 0 => p[1] <= N /\ kind[p[1]] = "post"
ClientInv ==
    /\ busy \in BOOLEAN /\ spans \in BOOLEAN /\ overrun \in BOOLEAN /\ kind \in Scripts
    /\ ~busy => ~spans /\ \A r \in R : kind[r] # "nohost"
    /\ Place(sent)

(* The inductive invariant.  It follows the connection until a request     *)
(* takes another one's place.                                              *)
IInv ==
    /\ ClientInv
    /\ overrun => spans
    /\ ~overrun => Good(w, sent[1], sent[2], busy, spans)

-----------------------------------------------------------------------------
(* Induction, and sequences.                                               *)

(* The least of a set of naturals.                                         *)
LEMMA LeastNat ==
    ASSUME NEW T \in SUBSET Nat, T # {}
    PROVE  \E n \in T : \A m \in T : ~(m < n)
<1>1. IsWellFoundedOn(OpToRel(<, Nat), Nat)
  BY NatLessThanWellFounded
<1>2. \E n \in T : \A m \in T : ~(<<m, n>> \in OpToRel(<, Nat))
  BY <1>1, WFMin
<1> QED
  BY <1>2 DEF OpToRel

(* Induction up to a bound, over a set of the numbers that are reached.    *)
LEMMA UpTo ==
    ASSUME NEW n \in Nat, NEW S, 0 \in S, \A i \in 0 .. n : i # n /\ i \in S => i + 1 \in S
    PROVE  \A i \in 0 .. n : i \in S
<1> SUFFICES ASSUME NEW i \in 0 .. n, i \notin S PROVE FALSE
  OBVIOUS
<1> DEFINE T == {k \in 0 .. n : k \notin S}
<1>1. PICK k \in T : \A m \in T : ~(m < k)
  <2>1. T \in SUBSET Nat /\ T # {}
    OBVIOUS
  <2> QED
    BY <2>1, LeastNat
<1>2. k # 0 /\ k \in 0 .. n /\ k \notin S
  BY <1>1
<1>3. k - 1 \in 0 .. n /\ k - 1 # n /\ k - 1 < k
  BY <1>2
<1>4. k - 1 \in S
  BY <1>1, <1>3
<1>5. (k - 1) + 1 \in S
  BY <1>3, <1>4
<1> QED
  BY <1>2, <1>5

(* RemoveFirst closes the gap that the element leaves.                     *)
LEMMA RemoveFirstIs ==
    ASSUME NEW T, NEW q \in Seq(T), Inj(q), NEW k \in DOMAIN q
    PROVE  LET r == RemoveFirst(q, q[k])
           IN  /\ r \in Seq(T) /\ Len(r) = Len(q) - 1
               /\ \A i \in DOMAIN r : r[i] = IF i < k THEN q[i] ELSE q[i + 1]
<1> DEFINE I == {i \in 1 .. Len(q) : q[i] = q[k]}
<1>1. I = {k}
  BY DEF Inj
<1>2. k \in Nat /\ k <= Len(q) /\ k >= 1
  OBVIOUS
<1>3. Min(I) = k
  <2>1. \A x \in {k} : x = k
    OBVIOUS
  <2> QED
  BY <1>1, <1>2 DEF Min
<1>5. RemoveFirst(q, q[k]) = SubSeq(q, 1, k - 1) \o SubSeq(q, k + 1, Len(q))
  <2>1. RemoveFirst(q, q[k]) = RemoveAt(q, IF I # {} THEN Min(I) ELSE 0)
    <3>1. \E i \in 1 .. Len(q) : q[i] = q[k]
      BY <1>2
    <3> QED
      BY <3>1 DEF RemoveFirst, SelectInSeq
  <2>2. RemoveFirst(q, q[k]) = RemoveAt(q, k)
    BY <2>1, <1>1, <1>3
  <2> QED
    BY <2>2 DEF RemoveAt
<1> DEFINE a == SubSeq(q, 1, k - 1)
           b == SubSeq(q, k + 1, Len(q))
<1>6. /\ a \in Seq(T) /\ Len(a) = k - 1
      /\ \A i \in 1 .. k - 1 : a[i] = q[i]
  BY <1>2
<1>7. /\ b \in Seq(T) /\ Len(b) = Len(q) - k
      /\ \A i \in 1 .. Len(q) - k : b[i] = q[k + i]
  BY <1>2
<1>8. /\ a \o b \in Seq(T) /\ Len(a \o b) = Len(q) - 1
      /\ \A i \in 1 .. Len(q) - 1 : (a \o b)[i] = IF i < k THEN q[i] ELSE q[i + 1]
  <2> HIDE DEF a, b
  <2>1. /\ a \o b \in Seq(T) /\ Len(a \o b) = Len(q) - 1
    BY <1>2, <1>6, <1>7
  <2>2. ASSUME NEW i \in 1 .. Len(q) - 1, i < k PROVE (a \o b)[i] = q[i]
    BY <1>2, <1>6, <1>7, <2>2
  <2>3. ASSUME NEW i \in 1 .. Len(q) - 1, ~(i < k) PROVE (a \o b)[i] = q[i + 1]
    <3>1. (a \o b)[i] = b[i - (k - 1)]
      BY <1>2, <1>6, <1>7, <2>3
    <3>2. i - (k - 1) \in 1 .. Len(q) - k /\ k + (i - (k - 1)) = i + 1
      BY <1>2, <2>3
    <3> QED
      BY <3>1, <3>2, <1>7
  <2> QED
    BY <2>1, <2>2, <2>3
<1> DEFINE r == RemoveFirst(q, q[k])
<1>9. r \in Seq(T) /\ Len(r) = Len(q) - 1 /\ r = a \o b
  BY <1>5, <1>8
<1> HIDE DEF r, a, b
<1>10. \A i \in DOMAIN r : r[i] = IF i < k THEN q[i] ELSE q[i + 1]
  <2>1. DOMAIN r = 1 .. Len(q) - 1
    BY <1>9
  <2> QED
    BY <2>1, <1>8, <1>9
<1> QED
  BY <1>9, <1>10 DEF r

(* What is left when an element is removed.                                *)
LEMMA RemoveHas ==
    ASSUME NEW T, NEW q \in Seq(T), Inj(q), NEW x, Has(q, x)
    PROVE  LET r == RemoveFirst(q, x)
           IN  /\ r \in Seq(T) /\ Len(r) = Len(q) - 1 /\ Inj(r)
               /\ \A y : Has(r, y) <=> Has(q, y) /\ y # x
<1>1. PICK k \in DOMAIN q : q[k] = x
  BY DEF Has
<1> DEFINE r == RemoveFirst(q, x)
<1>2. /\ r \in Seq(T) /\ Len(r) = Len(q) - 1
      /\ \A i \in DOMAIN r : r[i] = IF i < k THEN q[i] ELSE q[i + 1]
  BY <1>1, RemoveFirstIs
<1> HIDE DEF r
<1>3. DOMAIN r = 1 .. Len(q) - 1 /\ DOMAIN q = 1 .. Len(q) /\ Len(q) \in Nat
  BY <1>2
<1>4. Inj(r)
  <2> SUFFICES ASSUME NEW i \in DOMAIN r, NEW j \in DOMAIN r, r[i] = r[j] PROVE i = j
    BY DEF Inj
  <2> QED
    BY <1>2, <1>3 DEF Inj
<1>5. ASSUME NEW y, Has(r, y) PROVE Has(q, y) /\ y # x
  <2>1. PICK i \in DOMAIN r : r[i] = y
    BY <1>5 DEF Has
  <2>2. CASE i < k
    <3>1. q[i] = y /\ i \in DOMAIN q
      BY <1>2, <1>3, <2>1, <2>2
    <3> QED
      BY <3>1, <2>2, <1>1, <1>3 DEF Has, Inj
  <2>3. CASE ~(i < k)
    <3>1. q[i + 1] = y /\ i + 1 \in DOMAIN q /\ i + 1 # k
      BY <1>2, <1>3, <2>1, <2>3
    <3> QED
      BY <3>1, <1>1, <1>3 DEF Has, Inj
  <2> QED
    BY <2>2, <2>3
<1>6. ASSUME NEW y, Has(q, y), y # x PROVE Has(r, y)
  <2>1. PICK i \in DOMAIN q : q[i] = y
    BY <1>6 DEF Has
  <2>2. CASE i < k
    <3>1. i \in DOMAIN r /\ r[i] = y
      BY <1>2, <1>3, <2>1, <2>2
    <3> QED
      BY <3>1 DEF Has
  <2>3. CASE i > k
    <3>1. i - 1 \in DOMAIN r /\ ~(i - 1 < k) /\ (i - 1) + 1 = i
      BY <1>3, <2>1, <2>3
    <3>2. r[i - 1] = y
      BY <3>1, <1>2, <2>1
    <3> QED
      BY <3>1, <3>2 DEF Has
  <2>4. i # k
    BY <1>1, <1>6, <2>1
  <2> QED
    BY <2>2, <2>3, <2>4, <1>3
<1> QED
  BY <1>2, <1>4, <1>5, <1>6 DEF r

(* An element that is new at the end.                                      *)
LEMMA AppendHas ==
    ASSUME NEW T, NEW q \in Seq(T), Inj(q), NEW x \in T, ~Has(q, x)
    PROVE  LET r == Append(q, x)
           IN  /\ r \in Seq(T) /\ Len(r) = Len(q) + 1 /\ Inj(r)
               /\ \A y : Has(r, y) <=> Has(q, y) \/ y = x
<1> DEFINE r == Append(q, x)
<1>1. /\ r \in Seq(T) /\ Len(r) = Len(q) + 1 /\ Len(q) \in Nat
      /\ DOMAIN q = 1 .. Len(q) /\ DOMAIN r = 1 .. Len(q) + 1
      /\ \A i \in 1 .. Len(q) : r[i] = q[i]
      /\ r[Len(q) + 1] = x
  OBVIOUS
<1> HIDE DEF r
<1>2. Inj(r)
  BY <1>1 DEF Inj, Has
<1>3. \A y : Has(r, y) <=> Has(q, y) \/ y = x
  BY <1>1 DEF Has
<1> QED
  BY <1>1, <1>2, <1>3 DEF r

(* An element at the end, new or not.                                      *)
LEMMA AppendAny ==
    ASSUME NEW T, NEW q \in Seq(T), NEW x \in T
    PROVE  LET r == Append(q, x)
           IN  /\ r \in Seq(T) /\ Len(r) = Len(q) + 1 /\ Len(q) \in Nat
               /\ \A i \in DOMAIN q : i \in DOMAIN r /\ r[i] = q[i]
               /\ \A i \in DOMAIN r : i \in DOMAIN q \/ (i = Len(q) + 1 /\ r[i] = x)
               /\ \A y : Has(r, y) <=> Has(q, y) \/ y = x
<1> DEFINE r == Append(q, x)
<1>1. /\ r \in Seq(T) /\ Len(r) = Len(q) + 1 /\ Len(q) \in Nat
      /\ DOMAIN q = 1 .. Len(q) /\ DOMAIN r = 1 .. Len(q) + 1
      /\ \A i \in 1 .. Len(q) : r[i] = q[i]
      /\ r[Len(q) + 1] = x
  OBVIOUS
<1> HIDE DEF r
<1>2. \A y : Has(r, y) <=> Has(q, y) \/ y = x
  BY <1>1 DEF Has
<1>3. \A i \in DOMAIN q : i \in DOMAIN r /\ r[i] = q[i]
  BY <1>1
<1>4. \A i \in DOMAIN r : i \in DOMAIN q \/ (i = Len(q) + 1 /\ r[i] = x)
  BY <1>1
<1> QED
  BY <1>1, <1>2, <1>3, <1>4 DEF r

(* The empty sequence.                                                     *)
LEMMA EmptyHas ==
    ASSUME NEW T
    PROVE  /\ <<>> \in Seq(T) /\ Len(<<>>) = 0 /\ Inj(<<>>)
           /\ \A y : ~Has(<<>>, y)
  BY DEF Has, Inj

(* A sequence with an element is not empty, and one without any is.        *)
LEMMA HasSome ==
    ASSUME NEW T, NEW q \in Seq(T)
    PROVE  /\ q = <<>> <=> \A y : ~Has(q, y)
           /\ q = <<>> <=> Len(q) = 0
<1>1. ASSUME q # <<>> PROVE Has(q, q[1])
  <2>1. 1 \in DOMAIN q
    BY <1>1
  <2> QED
    BY <2>1 DEF Has
<1>2. q = <<>> => \A y : ~Has(q, y)
  BY EmptyHas
<1>3. q = <<>> <=> Len(q) = 0
  OBVIOUS
<1> QED
  BY <1>1, <1>2, <1>3

-----------------------------------------------------------------------------
(* The tokens of the client.                                               *)

(* No tokens.                                                              *)
LEMMA NoTokens ==
    /\ Single(<<>>) /\ Whole(<<>>) /\ ~Begins(<<>>)
    /\ \A n : Rest(<<>>, n)
<1>1. Len(<<>>) = 0
  OBVIOUS
<1>2. \A n : Rest(<<>>, n)
  <2>1. \A i \in 1 .. Len(<<>>) - 1 : FALSE
    BY <1>1
  <2> QED
    BY <2>1 DEF Rest
<1>3. Single(<<>>)
  BY <1>1 DEF Single
<1> QED
  BY <1>2, <1>3 DEF Whole, Begins

(* They count nothing.                                                     *)
LEMMA CountsNone ==
    ASSUME NEW l, NEW k, Counts(<<>>, l, k)
    PROVE  l = k /\ l \in 0 .. N
<1>1. Len(<<>>) = 0
  OBVIOUS
<1>2. PICK f \in [0 .. Len(<<>>) -> 0 .. N] : f[0] = l /\ f[Len(<<>>)] = k
  BY DEF Counts
<1> QED
  BY <1>1, <1>2

(* And whoever knows of l requests may read them.                          *)
LEMMA CountsSame ==
    ASSUME NEW l \in 0 .. N
    PROVE  Counts(<<>>, l, l)
<1> DEFINE f == [i \in 0 .. Len(<<>>) |-> l]
<1>1. Len(<<>>) = 0
  OBVIOUS
<1>2. f \in [0 .. Len(<<>>) -> 0 .. N] /\ f[0] = l /\ f[Len(<<>>)] = l
  BY <1>1
<1>3. \A i \in 1 .. Len(<<>>) : FALSE
  BY <1>1
<1> HIDE DEF f
<1> QED
  BY <1>2, <1>3 DEF Counts

(* The first token may be one request more.                                *)
LEMMA CountsTail ==
    ASSUME NEW u \in Seq(Tok), u # <<>>, NEW l, NEW k, Counts(u, l, k)
    PROVE  LET j == IF u[1] \in Firsts THEN l + 1 ELSE l
           IN  l \in 0 .. N /\ j \in 0 .. N /\ Counts(Tail(u), j, k)
<1> DEFINE t == Tail(u)
           j == IF u[1] \in Firsts THEN l + 1 ELSE l
<1>1. PICK f \in [0 .. Len(u) -> 0 .. N] :
         /\ f[0] = l /\ f[Len(u)] = k
         /\ \A i \in 1 .. Len(u) : f[i] = IF u[i] \in Firsts THEN f[i - 1] + 1 ELSE f[i - 1]
  BY DEF Counts
<1>2. Len(u) \in Nat /\ Len(u) >= 1 /\ Len(t) = Len(u) - 1 /\ \A i \in 1 .. Len(t) : t[i] = u[i + 1]
  OBVIOUS
<1> HIDE DEF t
<1>3. l \in 0 .. N /\ f[1] = j /\ j \in 0 .. N
  <2>1. 0 \in 0 .. Len(u) /\ 1 \in 0 .. Len(u) /\ 1 \in 1 .. Len(u) /\ 1 - 1 = 0
    BY <1>2
  <2> QED
    BY <2>1, <1>1
<1> HIDE DEF j
<1> DEFINE h == [i \in 0 .. Len(t) |-> f[i + 1]]
<1>4. \A i \in 0 .. Len(t) : i + 1 \in 0 .. Len(u) /\ h[i] = f[i + 1]
  BY <1>2
<1>5. h \in [0 .. Len(t) -> 0 .. N]
  BY <1>1, <1>4
<1> HIDE DEF h
<1>6. h[0] = j /\ h[Len(t)] = k
  BY <1>1, <1>2, <1>3, <1>4
<1>7. ASSUME NEW i \in 1 .. Len(t) PROVE h[i] = IF t[i] \in Firsts THEN h[i - 1] + 1 ELSE h[i - 1]
  <2>1. i + 1 \in 1 .. Len(u) /\ i \in 0 .. Len(t) /\ i - 1 \in 0 .. Len(t) /\ (i + 1) - 1 = i /\ (i - 1) + 1 = i
    BY <1>2
  <2>2. h[i] = f[i + 1] /\ h[i - 1] = f[i] /\ t[i] = u[i + 1]
    BY <1>2, <1>4, <2>1
  <2> QED
    BY <1>1, <2>1, <2>2
<1> QED
  BY <1>3, <1>5, <1>6, <1>7 DEF Counts, t, j

-----------------------------------------------------------------------------
(* Records: what an operation may change.                                  *)

(* The fields that only Typed speaks of.                                   *)
Outer ==
    {"net", "pend", "dis", "data", "resetCalled", "deferEnd", "status", "body", "paused", "run",
     "pc", "next", "drain", "abort"}

(* t differs from st in the stream r at most, and there in the fields F.   *)
Sets(t, st, r, F) ==
    /\ t \in [R -> StRec]
    /\ \A x \in R : x # r => t[x] = st[x]
    /\ \A k \in StNames \ F : t[r][k] = st[r][k]

(* The core gives the types.                                               *)
LEMMA CoreTypes ==
    ASSUME NEW v, Core(v)
    PROVE  v \in World
<1>1. Shape(v)
  BY DEF Core, Typed
<1>2. v.rqActive \in Nat /\ v.streams \in Seq(R)
  BY DEF Core, StreamInv
<1>3. v.st \in [R -> StRec] /\ v.enc \in [R -> EncRec] /\ v.req \in [R -> ReqRec]
  BY DEF Core, StreamInv, CodecInv
<1>4. v.deferred \in Seq(Items) /\ v.out \in Seq(Writes)
  BY DEF Core, StreamInv, OutInv
<1>5. v.active \in 0 .. N /\ v.last \in 0 .. N
  BY DEF Core, CodecInv
<1>6. Typed(v)
  BY DEF Core
<1> QED
  BY <1>1, <1>2, <1>3, <1>4, <1>5, <1>6
  DEF World, Shape, FieldNames, Typed, StRec, EncRec, ReqRec, Items, Writes, Tok

(* Only fields that Typed speaks of have changed.                          *)
LEMMA CoreOuter ==
    ASSUME NEW v, NEW u, Core(v), Typed(u), Frame(v, u, Outer)
    PROVE  Core(u)
<1>1. /\ u.streams = v.streams /\ u.rqActive = v.rqActive /\ u.st = v.st
      /\ u.enc = v.enc /\ u.deferred = v.deferred /\ u.active = v.active /\ u.last = v.last
      /\ u.req = v.req /\ u.out = v.out
  BY DEF Frame, Outer, FieldNames
<1> QED
  BY <1>1 DEF Core

(* A stream changes, but neither comes nor goes.                           *)
LEMMA StreamSet ==
    ASSUME NEW s, NEW rq, NEW st, NEW enc, NEW D, StreamInv(s, rq, st, enc, D),
           NEW t, NEW r \in R, NEW F, Sets(t, st, r, F), t[r].obj = st[r].obj
    PROVE  StreamInv(s, rq, t, enc, D)
<1>1. t \in [R -> StRec] /\ \A x \in R : t[x].obj = st[x].obj
  BY DEF Sets
<1> QED
  BY <1>1 DEF StreamInv

(* The stream that changes has begun, and is fit for what its application  *)
(* is to do.                                                               *)
LEMMA CodecSet ==
    ASSUME NEW a, NEW l, NEW st, NEW req, CodecInv(a, l, st, req),
           NEW t, NEW r \in R, NEW F, Sets(t, st, r, F), r <= l,
           t[r].app \in {"called", "headers"} =>
              a = r /\ t[r].obj = "live" /\ t[r].lastByte /\ ~t[r].sawLocal,
           a = r /\ t[r].decoded = "end" => req[r].remote
    PROVE  CodecInv(a, l, t, req)
<1>1. ASSUME NEW x \in R
      PROVE  /\ t[x].app \in {"called", "headers"} =>
                   a = x /\ t[x].obj = "live" /\ t[x].lastByte /\ ~t[x].sawLocal
             /\ a = x /\ t[x].decoded = "end" => req[x].remote
             /\ x > l => /\ t[x].obj = "none" /\ t[x].app = "none" /\ t[x].decoded # "end"
                         /\ ~t[x].sawLocal /\ ~req[x].remote
  <2>1. CASE x = r
    <3>1. ~(x > l)
      BY <2>1 DEF CodecInv, R
    <3> QED
      BY <2>1, <3>1
  <2>2. CASE x # r
    <3>1. t[x] = st[x]
      BY <2>2 DEF Sets
    <3> QED
      BY <3>1 DEF CodecInv
  <2> QED
    BY <2>1, <2>2
<1> QED
  BY <1>1 DEF CodecInv

(* The stream's application moves on.                                      *)
LEMMA OutSet ==
    ASSUME NEW out, NEW l, NEW st, OutInv(out, l, st),
           NEW t, NEW r \in R, NEW F, Sets(t, st, r, F),
           t[r].app \in {st[r].app, "done"} \/ st[r].app \in {"none", "called"}
    PROVE  OutInv(out, l, t)
<1>1. ASSUME NEW i \in DOMAIN out
      PROVE  /\ t[out[i].r].app \notin {"none", "called"}
             /\ t[out[i].r].app = "headers" => out[i].t = "headers"
  <2>1. /\ st[out[i].r].app \notin {"none", "called"}
        /\ st[out[i].r].app = "headers" => out[i].t = "headers"
    BY DEF OutInv
  <2>2. out[i].r \in R
    <3>1. out \in Seq(Writes)
      BY DEF OutInv
    <3>2. out[i] \in Writes
      BY <3>1
    <3> QED
      BY <3>2 DEF Writes
  <2>3. CASE out[i].r = r
    BY <2>1, <2>3
  <2>4. CASE out[i].r # r
    <3>1. t[out[i].r] = st[out[i].r]
      BY <2>2, <2>4 DEF Sets
    <3> QED
      BY <2>1, <3>1
  <2> QED
    BY <2>3, <2>4
<1> QED
  BY <1>1 DEF OutInv

(* All three, for a connection.                                            *)
LEMMA CoreSet ==
    ASSUME NEW v, NEW u, Core(v), Typed(u), Frame(v, u, Outer \cup {"st"}),
           NEW r \in R, NEW F, Sets(u.st, v.st, r, F), u.st[r].obj = v.st[r].obj, r <= v.last,
           u.st[r].app \in {"called", "headers"} =>
              /\ v.active = r /\ u.st[r].obj = "live"
              /\ u.st[r].lastByte /\ ~u.st[r].sawLocal,
           v.active = r /\ u.st[r].decoded = "end" => v.req[r].remote,
           u.st[r].app \in {v.st[r].app, "done"} \/ v.st[r].app \in {"none", "called"}
    PROVE  Core(u)
<1>1. /\ u.streams = v.streams /\ u.rqActive = v.rqActive
      /\ u.enc = v.enc /\ u.deferred = v.deferred /\ u.active = v.active /\ u.last = v.last
      /\ u.req = v.req /\ u.out = v.out
  BY DEF Frame, Outer, FieldNames
<1>2. StreamInv(v.streams, v.rqActive, u.st, v.enc, v.deferred)
  <2>1. StreamInv(v.streams, v.rqActive, v.st, v.enc, v.deferred)
    BY DEF Core
  <2> QED
    BY <2>1, StreamSet
<1>3. CodecInv(v.active, v.last, u.st, v.req)
  <2>1. CodecInv(v.active, v.last, v.st, v.req)
    BY DEF Core
  <2> QED
    BY <2>1, CodecSet
<1>4. OutInv(v.out, v.last, u.st)
  <2>1. OutInv(v.out, v.last, v.st)
    BY DEF Core
  <2> QED
    BY <2>1, OutSet
<1> QED
  BY <1>1, <1>2, <1>3, <1>4 DEF Core

-----------------------------------------------------------------------------
(* What the operations that answer a request leave alone.                  *)

(* u is v after such operations: the codec's place in the input is the     *)
(* same, and the connection closes without streams only.                   *)
Keeps(v, u) ==
    /\ Core(u)
    /\ u.pc = v.pc /\ u.run = v.run /\ u.data = v.data /\ u.next = v.next /\ u.status = v.status
    /\ u.last = v.last /\ u.deferEnd = v.deferEnd /\ u.dis = v.dis /\ u.abort = v.abort
    /\ \A r \in R : u.req[r].remote = v.req[r].remote
    /\ u.active \in {v.active, 0}
    /\ v.streams = <<>> => u.streams = <<>>
    /\ u.net = v.net \/ (u.net # "open" /\ u.streams = <<>>)

(* One operation after the other.                                          *)
LEMMA KeepsTrans ==
    ASSUME NEW v, NEW u, NEW x, Keeps(v, u), Keeps(u, x)
    PROVE  Keeps(v, x)
<1>1. \A r \in R : x.req[r].remote = v.req[r].remote
  BY DEF Keeps
<1>2. x.net = v.net \/ (x.net # "open" /\ x.streams = <<>>)
  BY DEF Keeps
<1>3. x.active \in {v.active, 0} /\ (v.streams = <<>> => x.streams = <<>>)
  BY DEF Keeps
<1> QED
  BY <1>1, <1>2, <1>3 DEF Keeps

(* Fields that do not matter to it.                                        *)
LEMMA KeepsFrame ==
    ASSUME NEW v, NEW u, Core(u),
           Frame(v, u, {"pend", "out", "st", "enc", "drain", "deferred", "resetCalled", "body", "paused"})
    PROVE  Keeps(v, u)
<1>1. /\ u.pc = v.pc /\ u.run = v.run /\ u.data = v.data /\ u.next = v.next /\ u.status = v.status
      /\ u.last = v.last /\ u.deferEnd = v.deferEnd /\ u.dis = v.dis /\ u.abort = v.abort
      /\ u.req = v.req /\ u.active = v.active /\ u.streams = v.streams /\ u.net = v.net
  BY DEF Frame, FieldNames
<1> QED
  BY <1>1 DEF Keeps

(* The codec's place in the input is still accounted for.                  *)
LEMMA FlowKept ==
    ASSUME NEW v, NEW u, NEW q, NEW n, NEW sp, FlowInv(v, q, n, sp), Keeps(v, u), v.pc # "tail", Core(v)
    PROVE  FlowInv(u, q, n, sp)
<1>1. /\ u.pc = v.pc /\ u.run = v.run /\ u.data = v.data /\ u.next = v.next /\ u.status = v.status
      /\ u.last = v.last /\ u.deferEnd = v.deferEnd /\ u.dis = v.dis
      /\ v.net # "open" => u.net # "open"
  BY DEF Keeps
<1>2. (Received(u) => Received(v)) /\ (Receiving(u) => Receiving(v))
  <2>1. CASE u.active = 0
    BY <2>1 DEF Received, Receiving
  <2>2. CASE u.active # 0
    <3>1. u.active = v.active
      BY <2>2 DEF Keeps
    <3>2. u.active \in R
      <4>1. v.active \in 0 .. N
        BY DEF Core, CodecInv
      <4> QED
        BY <2>2, <3>1, <4>1, NAssumption DEF R
    <3>3. u.req[u.active].remote = v.req[v.active].remote
      BY <3>1, <3>2 DEF Keeps
    <3> QED
      BY <3>1, <3>3 DEF Received, Receiving
  <2> QED
    BY <2>1, <2>2
<1>3. Accounted(v, q, n) => Accounted(u, q, n)
  BY <1>1, <1>2 DEF Accounted
<1>4. Parsed(u) => Parsed(v)
  BY <1>1, <1>2 DEF Parsed
<1> QED
  BY <1>1, <1>2, <1>3, <1>4 DEF FlowInv

(* A connection that is closed with nothing to parse is quiet.             *)
LEMMA QuietKept ==
    ASSUME NEW v, NEW u, NEW b, QuietInv(v, b), Keeps(v, u), ~b => v.run = <<>>
    PROVE  QuietInv(u, b)
  BY DEF QuietInv, Keeps

-----------------------------------------------------------------------------
(* The operations that answer a request.                                   *)

(* The next write may be of r and t.                                       *)
Fit(out, r, t) ==
    \A i \in DOMAIN out : out[i].r = r => out[i].t = "headers" /\ t = "end"

(* One write more.                                                         *)
LEMMA OutAppend ==
    ASSUME NEW out, NEW l \in Nat, NEW st, OutInv(out, l, st), NEW t \in {"headers", "end"},
           l \in R, Fit(out, l, t), st[l].app \notin {"none", "called"},
           st[l].app = "headers" => t = "headers"
    PROVE  LET o == Append(out, [r |-> l, t |-> t])
           IN  OutInv(o, l, st) /\ (t = "headers" => Fit(o, l, "end"))
<1> DEFINE e == [r |-> l, t |-> t]
           o == Append(out, e)
<1>1. e \in Writes /\ e.r = l /\ e.t = t
  BY DEF Writes
<1>2. out \in Seq(Writes)
  BY DEF OutInv
<1>3. /\ o \in Seq(Writes) /\ Len(o) = Len(out) + 1 /\ Len(out) \in Nat
      /\ \A i \in DOMAIN out : i \in DOMAIN o /\ o[i] = out[i]
      /\ \A i \in DOMAIN o : i \in DOMAIN out \/ (i = Len(out) + 1 /\ o[i] = e)
  <2> HIDE DEF e
  <2> QED
    BY <1>1, <1>2, AppendAny
<1>4. DOMAIN out = 1 .. Len(out)
  BY <1>2
<1>5. \A i \in DOMAIN out : out[i].r \in Nat
  <2>1. \A i \in DOMAIN out : out[i] \in Writes
    BY <1>2
  <2> QED
    BY <2>1 DEF Writes, R
<1> HIDE DEF e, o
<1>6. Ordered(o)
  <2> SUFFICES ASSUME NEW i \in DOMAIN o, NEW j \in DOMAIN o, i < j
               PROVE  \/ o[i].r < o[j].r
                      \/ o[i].r = o[j].r /\ o[i].t = "headers" /\ o[j].t = "end"
    BY DEF Ordered
  <2>1. i \in DOMAIN out
    <3>1. i # Len(out) + 1
      BY <1>3, <1>4
    <3> QED
      BY <3>1, <1>3
  <2>2. CASE j \in DOMAIN out
    <3>1. Ordered(out)
      BY DEF OutInv
    <3>2. \/ out[i].r < out[j].r
          \/ out[i].r = out[j].r /\ out[i].t = "headers" /\ out[j].t = "end"
      BY <2>1, <2>2, <3>1 DEF Ordered
    <3> QED
      BY <2>1, <2>2, <3>2, <1>3
  <2>3. CASE o[j] = e
    <3>1. out[i].r <= l /\ o[i] = out[i]
      BY <2>1, <1>3 DEF OutInv
    <3>2. out[i].r = l => out[i].t = "headers" /\ t = "end"
      BY <2>1 DEF Fit
    <3> QED
      BY <3>1, <3>2, <2>3, <2>1, <1>1, <1>5
  <2> QED
    BY <2>2, <2>3, <1>3
<1>7. ASSUME NEW i \in DOMAIN o
      PROVE  /\ o[i].r <= l
             /\ st[o[i].r].app \notin {"none", "called"}
             /\ st[o[i].r].app = "headers" => o[i].t = "headers"
  <2>1. CASE i \in DOMAIN out
    BY <2>1, <1>3 DEF OutInv
  <2>2. CASE o[i] = e
    BY <2>2, <1>1
  <2> QED
    BY <2>1, <2>2, <1>3
<1>8. ASSUME t = "headers" PROVE Fit(o, l, "end")
  BY <1>8, <1>1, <1>3 DEF Fit
<1>9. OutInv(o, l, st)
  BY <1>3, <1>6, <1>7 DEF OutInv
<1> QED
  BY <1>8, <1>9 DEF o, e

(* flush_output, for the codec's request.                                  *)
LEMMA WriteKeeps ==
    ASSUME NEW v, Core(v), v.active # 0, NEW t \in {"headers", "end"}, Fit(v.out, v.active, t),
           v.st[v.active].app \notin {"none", "called"},
           v.st[v.active].app = "headers" => t = "headers"
    PROVE  LET u == Write(v, v.active, t)
           IN  /\ Keeps(v, u) /\ Frame(v, u, {"pend", "out"})
               /\ t = "headers" => Fit(u.out, v.active, "end")
<1> DEFINE r == v.active
           o == Append(v.out, [r |-> r, t |-> t])
           u == Write(v, r, t)
<1>1. r = v.last /\ r \in R /\ r \in Nat
  <2>1. v.active \in 0 .. N /\ (v.active # 0 => v.active = v.last)
    BY DEF Core, CodecInv
  <2> QED
    BY <2>1, NAssumption DEF R
<1>2. OutInv(o, r, v.st) /\ (t = "headers" => Fit(o, r, "end"))
  <2>1. OutInv(v.out, r, v.st)
    BY <1>1 DEF Core
  <2> HIDE DEF r
  <2> QED
    BY <1>1, <2>1, OutAppend DEF r
<1> HIDE DEF o
<1>3. Shape(v)
  BY DEF Core, Typed
<1>4. CASE IsOpen(v)
  <2>1. u = [v EXCEPT !.pend = TRUE, !.out = o]
    BY <1>4 DEF Write, o
  <2>2. Frame(v, u, {"pend", "out"}) /\ u.pend = TRUE /\ u.out = o
    <3> HIDE DEF u
    <3> QED
      BY <1>3, <2>1 DEF Shape, Frame, FieldNames
  <2> HIDE DEF u, r
  <2>3. Typed(u) /\ u.streams = v.streams /\ u.rqActive = v.rqActive
        /\ u.st = v.st /\ u.enc = v.enc /\ u.deferred = v.deferred /\ u.active = v.active
        /\ u.last = v.last /\ u.req = v.req
    <3>1. Typed(v)
      BY DEF Core
    <3> QED
      BY <2>2, <3>1 DEF Typed, Frame, FieldNames
  <2>4. Core(u)
    BY <2>2, <2>3, <1>1, <1>2 DEF Core
  <2>5. Frame(v, u, {"pend", "out", "st", "enc", "drain", "deferred", "resetCalled", "body", "paused"})
    BY <2>2 DEF Frame
  <2>6. Keeps(v, u)
    BY <2>4, <2>5, KeepsFrame
  <2> QED
    BY <2>2, <2>6, <1>2 DEF u, r
<1>5. CASE ~IsOpen(v)
  <2>1. u = v
    BY <1>5 DEF Write
  <2>2. Frame(v, v, {"pend", "out"}) /\ Keeps(v, v)
    BY <1>3 DEF Frame, Keeps
  <2>3. t = "headers" => Fit(v.out, r, "end")
    BY DEF Fit
  <2> QED
    BY <2>1, <2>2, <2>3
<1> QED
  BY <1>4, <1>5

-----------------------------------------------------------------------------
(* The loops, turn by turn.                                                *)

(* The loop of reset_all_streams.                                          *)
ResetTurns(f, v) ==
    /\ f[0] = v
    /\ \A i \in 1 .. Len(v.streams) :
          f[i] = OnResetStream([f[i - 1] EXCEPT !.enc[v.streams[i]].reset = FALSE], v.streams[i])

(* Such a sequence exists.                                                 *)
LEMMA ResetAllLoop ==
    ASSUME NEW v, Len(v.streams) \in Nat
    PROVE  \E f : ResetTurns(f, v) /\ ResetAllStreams(v) = f[Len(v.streams)]
<1> DEFINE M == Len(v.streams)
           q == v
           Step(x, i) == OnResetStream([x EXCEPT !.enc[v.streams[i]].reset = FALSE], v.streams[i])
           Is(f, n) == f = [i \in 0 .. n |-> IF i = 0 THEN q ELSE Step(f[i - 1], i)]
           S == {n \in 0 .. M : \E f : Is(f, n)}
           h == CHOOSE f : Is(f, M)
<1>1. ResetAllStreams(v) = h[M]
  BY DEF ResetAllStreams
<1> HIDE DEF Step, q, h
<1>2. 0 \in S
  <2>1. Is([i \in 0 .. 0 |-> q], 0)
    OBVIOUS
  <2>2. \E f : Is(f, 0)
    <3> HIDE DEF Is
    <3> QED
      BY <2>1
  <2> HIDE DEF Is
  <2> QED
    BY <2>2
<1>3. ASSUME NEW n \in 0 .. M, n # M, n \in S PROVE n + 1 \in S
  <2>1. PICK f : Is(f, n)
    BY <1>3
  <2> DEFINE g == [i \in 0 .. n + 1 |-> IF i <= n THEN f[i] ELSE Step(f[n], n + 1)]
  <2>2. Is(g, n + 1)
    BY <2>1
  <2>3. n + 1 \in 0 .. M
    BY <1>3
  <2> HIDE DEF Is, g
  <2> QED
    BY <2>2, <2>3
<1>4. M \in S
  <2>1. M \in Nat /\ \A i \in 0 .. M : i # M /\ i \in S => i + 1 \in S
    BY <1>3
  <2> HIDE DEF S, M
  <2>2. \A i \in 0 .. M : i \in S
    BY <1>2, <2>1, UpTo
  <2> QED
    BY <2>1, <2>2
<1>5. Is(h, M)
  <2> HIDE DEF Is
  <2> QED
    BY <1>4 DEF h
<1>6. h[0] = q /\ \A i \in 1 .. M : h[i] = Step(h[i - 1], i)
  <2>1. M \in Nat
    OBVIOUS
  <2> HIDE DEF M
  <2>2. h = [i \in 0 .. M |-> IF i = 0 THEN q ELSE Step(h[i - 1], i)]
    BY <1>5
  <2>3. 0 \in 0 .. M /\ \A i \in 1 .. M : i \in 0 .. M /\ i # 0
    BY <2>1
  <2> QED
    BY <2>2, <2>3
<1> QED
  BY <1>1, <1>6 DEF Step, q, ResetTurns

(* The dispatcher's pass.                                                  *)
PassTurns(f, v) ==
    /\ f[0] = [v EXCEPT !.deferred = <<>>]
    /\ \A i \in 1 .. Len(v.deferred) : f[i] = DisposeDeferred(f[i - 1], v.deferred[i])

(* Such a sequence exists.                                                 *)
LEMMA ClearDeferredLoop ==
    ASSUME NEW v, Len(v.deferred) \in Nat
    PROVE  \E f : PassTurns(f, v) /\ ClearDeferred(v) = f[Len(v.deferred)]
<1> DEFINE M == Len(v.deferred)
           q == [v EXCEPT !.deferred = <<>>]
           Step(x, i) == DisposeDeferred(x, v.deferred[i])
           Is(f, n) == f = [i \in 0 .. n |-> IF i = 0 THEN q ELSE Step(f[i - 1], i)]
           S == {n \in 0 .. M : \E f : Is(f, n)}
           h == CHOOSE f : Is(f, M)
<1>1. ClearDeferred(v) = h[M]
  BY DEF ClearDeferred
<1> HIDE DEF Step, q, h
<1>2. 0 \in S
  <2>1. Is([i \in 0 .. 0 |-> q], 0)
    OBVIOUS
  <2>2. \E f : Is(f, 0)
    <3> HIDE DEF Is
    <3> QED
      BY <2>1
  <2> HIDE DEF Is
  <2> QED
    BY <2>2
<1>3. ASSUME NEW n \in 0 .. M, n # M, n \in S PROVE n + 1 \in S
  <2>1. PICK f : Is(f, n)
    BY <1>3
  <2> DEFINE g == [i \in 0 .. n + 1 |-> IF i <= n THEN f[i] ELSE Step(f[n], n + 1)]
  <2>2. Is(g, n + 1)
    BY <2>1
  <2>3. n + 1 \in 0 .. M
    BY <1>3
  <2> HIDE DEF Is, g
  <2> QED
    BY <2>2, <2>3
<1>4. M \in S
  <2>1. M \in Nat /\ \A i \in 0 .. M : i # M /\ i \in S => i + 1 \in S
    BY <1>3
  <2> HIDE DEF S, M
  <2>2. \A i \in 0 .. M : i \in S
    BY <1>2, <2>1, UpTo
  <2> QED
    BY <2>1, <2>2
<1>5. Is(h, M)
  <2> HIDE DEF Is
  <2> QED
    BY <1>4 DEF h
<1>6. h[0] = q /\ \A i \in 1 .. M : h[i] = Step(h[i - 1], i)
  <2>1. M \in Nat
    OBVIOUS
  <2> HIDE DEF M
  <2>2. h = [i \in 0 .. M |-> IF i = 0 THEN q ELSE Step(h[i - 1], i)]
    BY <1>5
  <2>3. 0 \in 0 .. M /\ \A i \in 1 .. M : i \in 0 .. M /\ i # 0
    BY <2>1
  <2> QED
    BY <2>2, <2>3
<1> QED
  BY <1>1, <1>6 DEF Step, q, PassTurns

-----------------------------------------------------------------------------
(* The ends of ActiveRequests and of active streams.                       *)

(* deferred_destroy of the codec's request.                                *)
LEMMA DestroyRequest ==
    ASSUME NEW v, Core(v), v.active # 0, v.st[v.active].app \notin {"called", "headers"}
    PROVE  LET u == DestroyActiveRequest(v)
           IN  Keeps(v, u) /\ u.active = 0 /\ Frame(v, u, {"req", "active", "deferred"})
<1> DEFINE r == v.active
           d == [k |-> "req", r |-> r]
           D == Append(v.deferred, d)
           Q == [v.req EXCEPT ![r].obj = "deferred"]
           u == DestroyActiveRequest(v)
<1>1. r \in R
  <2>1. v.active \in 0 .. N
    BY DEF Core, CodecInv
  <2> QED
    BY <2>1, NAssumption DEF R
<1>2. Shape(v) /\ v.req \in [R -> ReqRec]
  BY DEF Core, Typed, CodecInv
<1>3. Q \in [R -> ReqRec] /\ \A x \in R : Q[x].remote = v.req[x].remote
  BY <1>1, <1>2 DEF ReqRec, Objects
<1>4. D \in Seq(Items) /\ \A y : Has(D, y) <=> Has(v.deferred, y) \/ y = d
  <2>1. v.deferred \in Seq(Items)
    BY DEF Core, StreamInv
  <2>2. d \in Items
    BY <1>1 DEF Items
  <2> HIDE DEF d
  <2> QED
    BY <2>1, <2>2, AppendAny
<1>5. \A x \in R : Item(x) # d
  BY DEF Item
<1> HIDE DEF D, d, Q, r
<1>6. u = [v EXCEPT !.req = Q, !.active = 0, !.deferred = D]
  BY DEF u, DestroyActiveRequest, Q, D, d, r
<1>7. Frame(v, u, {"req", "active", "deferred"}) /\ u.req = Q /\ u.active = 0 /\ u.deferred = D
  <2> HIDE DEF u
  <2> QED
    BY <1>2, <1>6 DEF Shape, Frame, FieldNames
<1> HIDE DEF u
<1>8. /\ Typed(u) /\ u.streams = v.streams /\ u.rqActive = v.rqActive
      /\ u.st = v.st /\ u.enc = v.enc /\ u.last = v.last /\ u.out = v.out
      /\ u.pc = v.pc /\ u.run = v.run /\ u.data = v.data /\ u.next = v.next /\ u.status = v.status
      /\ u.deferEnd = v.deferEnd /\ u.dis = v.dis /\ u.abort = v.abort /\ u.net = v.net
  <2>1. Typed(v)
    BY DEF Core
  <2> QED
    BY <1>7, <2>1 DEF Typed, Frame, FieldNames
<1>9. StreamInv(v.streams, v.rqActive, v.st, v.enc, D)
  <2>1. StreamInv(v.streams, v.rqActive, v.st, v.enc, v.deferred)
    BY DEF Core
  <2>2. \A x \in R : Has(D, Item(x)) <=> Has(v.deferred, Item(x))
    BY <1>4, <1>5
  <2> QED
    BY <2>1, <2>2, <1>4 DEF StreamInv
<1>10. CodecInv(0, v.last, v.st, Q)
  <2>1. CodecInv(v.active, v.last, v.st, v.req)
    BY DEF Core
  <2>2. \A x \in R : v.st[x].app \notin {"called", "headers"}
    BY <2>1 DEF CodecInv
  <2>3. 0 \in 0 .. N /\ 0 \notin R
    BY NAssumption DEF R
  <2> QED
    BY <2>1, <2>2, <2>3, <1>3 DEF CodecInv
<1>11. Core(u)
  BY <1>7, <1>8, <1>9, <1>10 DEF Core
<1>12. Keeps(v, u)
  BY <1>3, <1>7, <1>8, <1>11 DEF Keeps
<1> QED
  BY <1>7, <1>12 DEF u

(* The fields of a stream that ends.                                       *)
LEMMA StEnds ==
    ASSUME NEW st \in [R -> StRec], NEW r \in R
    PROVE  LET t == [st EXCEPT ![r].app = "done", ![r].obj = "deferred"]
           IN  Sets(t, st, r, {"app", "obj"}) /\ t[r].app = "done" /\ t[r].obj = "deferred"
<1>1. st[r] \in StRec
  OBVIOUS
<1>2. "done" \in {"none", "called", "headers", "done"} /\ "deferred" \in Objects
  BY DEF Objects
<1> QED
  BY <1>1, <1>2 DEF Sets, StRec, StNames

(* v with the stream r, and x on the way to its end.                       *)
Ending(v, x, r) ==
    /\ Frame(v, x, {"st", "enc", "resetCalled"}) /\ x.resetCalled \in BOOLEAN
    /\ Sets(x.st, v.st, r, {"onReset"}) /\ (x.st[r].onReset \/ x.st[r].encComplete)
    /\ x.enc \in [R -> EncRec] /\ \A y \in R : y # r => x.enc[y] = v.enc[y]

(* u is v without the stream r.                                            *)
Ended(v, u, r) ==
    /\ Frame(v, u, {"st", "enc", "rqActive", "streams", "deferred", "resetCalled"})
    /\ Sets(u.st, v.st, r, {"onReset", "app", "obj"}) /\ u.st[r].app = "done"
    /\ u.streams = RemoveFirst(v.streams, r)

(* do_deferred_stream_destroy takes the stream off the list.               *)
LEMMA StreamEnds ==
    ASSUME NEW v, Core(v), NEW r \in R, Has(v.streams, r), NEW x, Ending(v, x, r)
    PROVE  LET u == DeferredStreamDestroy(x, r)
           IN  Core(u) /\ Ended(v, u, r) /\ Keeps(v, u)
<1> DEFINE E1 == [x.enc EXCEPT ![r].event = FALSE, ![r].reset = FALSE]
           t == [x.st EXCEPT ![r].app = "done", ![r].obj = "deferred"]
           s == RemoveFirst(v.streams, r)
           d == Item(r)
           D == Append(v.deferred, d)
           u == DeferredStreamDestroy(x, r)
<1>1. /\ Frame(v, x, {"st", "enc", "resetCalled"}) /\ x.resetCalled \in BOOLEAN /\ Shape(x)
      /\ Sets(x.st, v.st, r, {"onReset"}) /\ (x.st[r].onReset \/ x.st[r].encComplete)
      /\ x.enc \in [R -> EncRec] /\ \A y \in R : y # r => x.enc[y] = v.enc[y]
  BY DEF Ending, Frame
<1>2. x.rqActive = v.rqActive /\ x.streams = v.streams /\ x.deferred = v.deferred
  BY <1>1 DEF Frame, FieldNames
<1>3. /\ E1 \in [R -> EncRec] /\ (\A y \in R : y # r => E1[y] = v.enc[y])
      /\ ~E1[r].event /\ ~E1[r].reset
  BY <1>1 DEF EncRec
<1>4. Sets(t, x.st, r, {"app", "obj"}) /\ t[r].app = "done" /\ t[r].obj = "deferred"
  <2>1. x.st \in [R -> StRec]
    BY <1>1 DEF Sets
  <2> QED
    BY <2>1, StEnds
<1> HIDE DEF E1, t
<1>5. Sets(t, v.st, r, {"onReset", "app", "obj"})
  BY <1>1, <1>4 DEF Sets, StNames
<1>6. StreamInv(v.streams, v.rqActive, v.st, v.enc, v.deferred)
  BY DEF Core
<1>7. /\ s \in Seq(R) /\ Len(s) = Len(v.streams) - 1 /\ Inj(s)
      /\ \A y : Has(s, y) <=> Has(v.streams, y) /\ y # r
  <2>1. v.streams \in Seq(R) /\ Inj(v.streams)
    BY <1>6 DEF StreamInv
  <2> QED
    BY <2>1, RemoveHas
<1>8. D \in Seq(Items) /\ \A y : Has(D, y) <=> Has(v.deferred, y) \/ y = d
  <2>1. v.deferred \in Seq(Items) /\ d \in Items
    BY <1>6 DEF StreamInv, Items, Item
  <2> HIDE DEF d
  <2> QED
    BY <2>1, AppendAny
<1>9. \A y \in R : Item(y) = d <=> y = r
  BY DEF Item
<1>10. u = [x EXCEPT !.enc[r].event = FALSE, !.enc[r].reset = FALSE,
                   !.rqActive = @ - 1, !.st[r].app = "done", !.st[r].obj = "deferred",
                   !.streams = RemoveFirst(@, r),
                   !.deferred = Append(@, [k |-> "st", r |-> r])]
  BY <1>1 DEF DeferredStreamDestroy
<1> HIDE DEF u
<1>11. /\ Frame(x, u, {"enc", "rqActive", "st", "streams", "deferred"})
       /\ u.enc = E1 /\ u.rqActive = v.rqActive - 1 /\ u.st = t /\ u.streams = s /\ u.deferred = D
  <2>1. Shape(u)
    <3> DEFINE a == [x EXCEPT !.enc[r].event = FALSE, !.enc[r].reset = FALSE, !.rqActive = @ - 1]
               c == [a EXCEPT !.st[r].app = "done", !.st[r].obj = "deferred"]
    <3>1. Shape(a)
      BY <1>1 DEF Shape, FieldNames
    <3>2. u = [c EXCEPT !.streams = RemoveFirst(@, r), !.deferred = Append(@, [k |-> "st", r |-> r])]
      BY <1>10
    <3> HIDE DEF a
    <3>3. Shape(c)
      BY <3>1 DEF Shape, FieldNames
    <3> HIDE DEF c
    <3> QED
      BY <3>2, <3>3 DEF Shape, FieldNames
  <2>2. \A k \in FieldNames \ {"enc", "rqActive", "st", "streams", "deferred"} : u[k] = x[k]
    BY <1>1, <1>10 DEF Shape, FieldNames
  <2>3. u.enc = E1
    BY <1>1, <1>10 DEF Shape, FieldNames, E1
  <2>4. u.st = t
    BY <1>1, <1>10 DEF Shape, FieldNames, t
  <2>5. u.rqActive = x.rqActive - 1 /\ u.streams = RemoveFirst(x.streams, r)
    BY <1>1, <1>10 DEF Shape, FieldNames
  <2>6. u.deferred = Append(x.deferred, [k |-> "st", r |-> r])
    BY <1>1, <1>10 DEF Shape, FieldNames
  <2> QED
    BY <2>1, <2>2, <2>3, <2>4, <2>5, <2>6, <1>2 DEF Frame, D, d, Item
<1> HIDE DEF s, D, d
<1>12. Frame(v, u, {"st", "enc", "rqActive", "streams", "deferred", "resetCalled"})
  BY <1>1, <1>11 DEF Frame
<1>13. u.resetCalled = x.resetCalled
  BY <1>11 DEF Frame, FieldNames
<1>14. /\ Typed(u)
       /\ u.active = v.active /\ u.req = v.req /\ u.last = v.last /\ u.out = v.out
       /\ u.pc = v.pc /\ u.run = v.run /\ u.data = v.data /\ u.next = v.next /\ u.status = v.status
       /\ u.deferEnd = v.deferEnd /\ u.dis = v.dis /\ u.abort = v.abort /\ u.net = v.net
  <2>1. Typed(v)
    BY DEF Core
  <2> QED
    BY <1>12, <1>13, <1>1, <2>1 DEF Typed, Frame, FieldNames
<1>15. StreamInv(s, v.rqActive - 1, t, E1, D)
  <2>1. v.rqActive - 1 = Len(s)
    BY <1>6, <1>7 DEF StreamInv
  <2>2. ASSUME NEW y \in R
        PROVE  /\ t[y].obj = "live" <=> Has(s, y)
               /\ E1[y].reset <=> Has(s, y)
               /\ E1[y].event <=> Has(s, y)
               /\ t[y].obj = "deferred" <=> Has(D, Item(y))
    <3>1. CASE y = r
      BY <3>1, <1>3, <1>4, <1>7, <1>8, <1>9
    <3>2. CASE y # r
      <4>1. t[y] = v.st[y] /\ E1[y] = v.enc[y]
        BY <3>2, <1>3, <1>5 DEF Sets
      <4>2. (Has(s, y) <=> Has(v.streams, y)) /\ (Has(D, Item(y)) <=> Has(v.deferred, Item(y)))
        BY <3>2, <1>7, <1>8, <1>9
      <4> QED
        BY <4>1, <4>2, <1>6 DEF StreamInv
    <3> QED
      BY <3>1, <3>2
  <2>3. t \in [R -> StRec]
    BY <1>4 DEF Sets
  <2> QED
    BY <2>1, <2>2, <2>3, <1>3, <1>7, <1>8 DEF StreamInv
<1>16. CodecInv(v.active, v.last, t, v.req)
  <2>1. CodecInv(v.active, v.last, v.st, v.req)
    BY DEF Core
  <2>2. r <= v.last
    <3>1. v.st[r].obj = "live"
      BY <1>6 DEF StreamInv
    <3> QED
      BY <3>1, <2>1 DEF CodecInv, R
  <2>3. t[r].decoded = v.st[r].decoded
    BY <1>5 DEF Sets, StNames
  <2>4. v.active = r /\ t[r].decoded = "end" => v.req[r].remote
    BY <2>1, <2>3 DEF CodecInv
  <2> QED
    BY <2>1, <2>2, <2>4, <1>4, <1>5, CodecSet
<1>17. OutInv(v.out, v.last, t)
  <2>1. OutInv(v.out, v.last, v.st)
    BY DEF Core
  <2> QED
    BY <2>1, <1>4, <1>5, OutSet
<1>18. Core(u)
  BY <1>11, <1>14, <1>15, <1>16, <1>17 DEF Core
<1>19. Keeps(v, u)
  <2>1. v.streams # <<>>
    BY EmptyHas
  <2> QED
    BY <2>1, <1>14, <1>18 DEF Keeps
<1>20. Ended(v, u, r)
  BY <1>4, <1>5, <1>11, <1>12 DEF Ended, s
<1> QED
  BY <1>18, <1>19, <1>20 DEF u

-----------------------------------------------------------------------------
(* Single fields of a stream.                                              *)

(* The stream is being reset.                                              *)
LEMMA SetOnReset ==
    ASSUME NEW v, Shape(v), v.st \in [R -> StRec], NEW r \in R
    PROVE  LET x == [v EXCEPT !.st[r].onReset = TRUE]
           IN  Frame(v, x, {"st"}) /\ Sets(x.st, v.st, r, {"onReset"}) /\ x.st[r].onReset
<1> DEFINE x == [v EXCEPT !.st[r].onReset = TRUE]
           t == [v.st EXCEPT ![r].onReset = TRUE]
<1>1. v.st[r] \in StRec
  OBVIOUS
<1>2. Sets(t, v.st, r, {"onReset"}) /\ t[r].onReset = TRUE
  BY <1>1 DEF Sets, StRec, StNames
<1>3. Frame(v, x, {"st"}) /\ x.st = t
  BY DEF Shape, Frame, FieldNames
<1> HIDE DEF x, t
<1> QED
  BY <1>2, <1>3 DEF x

(* The response is complete.                                               *)
LEMMA SetEncComplete ==
    ASSUME NEW v, Shape(v), v.st \in [R -> StRec], NEW r \in R
    PROVE  LET x == [v EXCEPT !.st[r].encComplete = TRUE]
           IN  Frame(v, x, {"st"}) /\ Sets(x.st, v.st, r, {"encComplete"}) /\ x.st[r].encComplete
<1> DEFINE x == [v EXCEPT !.st[r].encComplete = TRUE]
           t == [v.st EXCEPT ![r].encComplete = TRUE]
<1>1. v.st[r] \in StRec
  OBVIOUS
<1>2. Sets(t, v.st, r, {"encComplete"}) /\ t[r].encComplete = TRUE
  BY <1>1 DEF Sets, StRec, StNames
<1>3. Frame(v, x, {"st"}) /\ x.st = t
  BY DEF Shape, Frame, FieldNames
<1> HIDE DEF x, t
<1> QED
  BY <1>2, <1>3 DEF x

(* The application is through.                                             *)
LEMMA SetSawLocal ==
    ASSUME NEW v, Shape(v), v.st \in [R -> StRec], NEW r \in R
    PROVE  LET x == [v EXCEPT !.st[r].sawLocal = TRUE]
           IN  Frame(v, x, {"st"}) /\ Sets(x.st, v.st, r, {"sawLocal"}) /\ x.st[r].sawLocal
<1> DEFINE x == [v EXCEPT !.st[r].sawLocal = TRUE]
           t == [v.st EXCEPT ![r].sawLocal = TRUE]
<1>1. v.st[r] \in StRec
  OBVIOUS
<1>2. Sets(t, v.st, r, {"sawLocal"}) /\ t[r].sawLocal = TRUE
  BY <1>1 DEF Sets, StRec, StNames
<1>3. Frame(v, x, {"st"}) /\ x.st = t
  BY DEF Shape, Frame, FieldNames
<1> HIDE DEF x, t
<1> QED
  BY <1>2, <1>3 DEF x

(* x is v with a value for that field.                                     *)
IsSetDecoded(v, x, r, a) == x = [v EXCEPT !.st[r].decoded = a]
IsSetApp(v, x, r, a) == x = [v EXCEPT !.st[r].app = a]

(* What was decoded.                                                       *)
LEMMA SetDecoded ==
    ASSUME NEW v, Shape(v), v.st \in [R -> StRec], NEW r \in R, NEW a \in {"none", "headers", "end"},
           NEW x, IsSetDecoded(v, x, r, a)
    PROVE  Frame(v, x, {"st"}) /\ Sets(x.st, v.st, r, {"decoded"}) /\ x.st[r].decoded = a
<1> DEFINE t == [v.st EXCEPT ![r].decoded = a]
<1>1. v.st[r] \in StRec
  OBVIOUS
<1>2. Sets(t, v.st, r, {"decoded"}) /\ t[r].decoded = a
  BY <1>1 DEF Sets, StRec, StNames
<1>3. Frame(v, x, {"st"}) /\ x.st = t
  BY DEF Shape, Frame, FieldNames, IsSetDecoded
<1> HIDE DEF t
<1> QED
  BY <1>2, <1>3

(* The application moves on.                                               *)
LEMMA SetApp ==
    ASSUME NEW v, Shape(v), v.st \in [R -> StRec], NEW r \in R, NEW a \in {"none", "called", "headers", "done"},
           NEW x, IsSetApp(v, x, r, a)
    PROVE  Frame(v, x, {"st"}) /\ Sets(x.st, v.st, r, {"app"}) /\ x.st[r].app = a
<1> DEFINE t == [v.st EXCEPT ![r].app = a]
<1>1. v.st[r] \in StRec
  OBVIOUS
<1>2. Sets(t, v.st, r, {"app"}) /\ t[r].app = a
  BY <1>1 DEF Sets, StRec, StNames
<1>3. Frame(v, x, {"st"}) /\ x.st = t
  BY DEF Shape, Frame, FieldNames, IsSetApp
<1> HIDE DEF t
<1> QED
  BY <1>2, <1>3

(* Nothing to reset.                                                       *)
LEMMA ResetNone ==
    ASSUME NEW v, v.streams = <<>>
    PROVE  ResetAllStreams(v) = v
<1>1. Len(v.streams) = 0
  OBVIOUS
<1>2. PICK f : ResetTurns(f, v) /\ ResetAllStreams(v) = f[Len(v.streams)]
  BY <1>1, ResetAllLoop
<1> QED
  BY <1>1, <1>2 DEF ResetTurns

(* check_for_deferred_close.                                               *)
LEMMA CloseChecked ==
    ASSUME NEW v, Core(v)
    PROVE  LET u == CheckForDeferredClose(v)
           IN  Keeps(v, u) /\ DrainInv(u) /\ Frame(v, u, {"net"})
<1>1. Shape(v) /\ Typed(v)
  BY DEF Core, Typed
<1>2. Keeps(v, v) /\ Frame(v, v, {"net"})
  BY <1>1 DEF Keeps, Frame
<1>3. CASE ~(v.drain /\ v.streams = <<>>)
  <2>1. CheckForDeferredClose(v) = v
    BY <1>3 DEF CheckForDeferredClose
  <2> QED
    BY <1>2, <1>3, <2>1 DEF DrainInv
<1>4. CASE v.drain /\ v.streams = <<>> /\ ~IsOpen(v)
  <2>1. CheckForDeferredClose(v) = v
    BY <1>4 DEF CheckForDeferredClose, CloseConnection
  <2> QED
    BY <1>2, <1>4, <2>1 DEF DrainInv, IsOpen
<1>5. CASE v.drain /\ v.streams = <<>> /\ IsOpen(v)
  <2> DEFINE m == IF v.pend THEN "flushing" ELSE "closed"
             u == [v EXCEPT !.net = m]
  <2>2. m \in {"flushing", "closed"}
    OBVIOUS
  <2>3. CheckForDeferredClose(v) = ResetAllStreams(u)
    BY <1>5 DEF CheckForDeferredClose, CloseConnection
  <2> HIDE DEF m
  <2>4. Shape(u) /\ (\A k \in FieldNames \ {"net"} : u[k] = v[k]) /\ u.net = m
    BY <1>1 DEF Shape, FieldNames
  <2> HIDE DEF u
  <2>5. u.streams = <<>> /\ u.drain = v.drain
    BY <1>5, <2>4 DEF FieldNames
  <2>6. CheckForDeferredClose(v) = u
    BY <2>3, <2>5, ResetNone
  <2>7. Frame(v, u, {"net"})
    BY <2>4 DEF Frame
  <2>8. Typed(u)
    BY <1>1, <2>2, <2>4 DEF Typed, FieldNames
  <2>9. Core(u)
    <3>1. Frame(v, u, Outer)
      BY <2>7 DEF Frame, Outer
    <3> QED
      BY <3>1, <2>8, CoreOuter
  <2>10. /\ u.pc = v.pc /\ u.run = v.run /\ u.data = v.data /\ u.next = v.next /\ u.status = v.status
         /\ u.last = v.last /\ u.deferEnd = v.deferEnd /\ u.dis = v.dis /\ u.abort = v.abort
         /\ u.req = v.req /\ u.active = v.active
    BY <2>7 DEF Frame, FieldNames
  <2>11. Keeps(v, u) /\ DrainInv(u)
    BY <2>2, <2>4, <2>5, <2>9, <2>10 DEF Keeps, DrainInv
  <2> QED
    BY <2>6, <2>7, <2>11
<1> QED
  BY <1>3, <1>4, <1>5

(* A stream of the list is one that has begun.                             *)
LEMMA LiveStream ==
    ASSUME NEW v, Core(v), NEW r \in R, v.st[r].obj = "live"
    PROVE  /\ r <= v.last /\ Has(v.streams, r) /\ v.streams # <<>>
           /\ v.enc[r].reset /\ v.enc[r].event
<1>1. Has(v.streams, r) /\ v.enc[r].reset /\ v.enc[r].event
  BY DEF Core, StreamInv
<1>2. r <= v.last
  BY DEF Core, CodecInv, R
<1>3. v.streams # <<>>
  BY <1>1, EmptyHas
<1> QED
  BY <1>1, <1>2, <1>3

(* The records of a connection.                                            *)
LEMMA CoreRecords ==
    ASSUME NEW v, Core(v)
    PROVE  /\ Shape(v) /\ Typed(v) /\ v.st \in [R -> StRec] /\ v.enc \in [R -> EncRec]
           /\ v.req \in [R -> ReqRec] /\ v.last \in 0 .. N
           /\ v.active # 0 => v.active \in R /\ v.active = v.last
<1>1. v.st \in [R -> StRec] /\ v.enc \in [R -> EncRec]
  BY DEF Core, StreamInv
<1>2. /\ v.req \in [R -> ReqRec] /\ v.active \in 0 .. N /\ v.last \in 0 .. N
      /\ v.active # 0 => v.active = v.last
  BY DEF Core, CodecInv
<1>3. v.active # 0 => v.active \in R
  BY <1>2, NAssumption DEF R
<1> QED
  BY <1>1, <1>2, <1>3 DEF Core, Typed

(* A field of a stream changes, the rest is as before.                     *)
LEMMA KeepsSet ==
    ASSUME NEW v, NEW u, Core(v), Frame(v, u, {"st"}),
           NEW r \in R, NEW F, Sets(u.st, v.st, r, F), u.st[r].obj = v.st[r].obj, r <= v.last,
           u.st[r].app \in {"called", "headers"} =>
              /\ v.active = r /\ u.st[r].obj = "live"
              /\ u.st[r].lastByte /\ ~u.st[r].sawLocal,
           v.active = r /\ u.st[r].decoded = "end" => v.req[r].remote,
           u.st[r].app \in {v.st[r].app, "done"} \/ v.st[r].app \in {"none", "called"}
    PROVE  Core(u) /\ Keeps(v, u)
<1>1. Typed(u)
  <2>1. Typed(v)
    BY DEF Core
  <2> QED
    BY <2>1 DEF Typed, Frame, FieldNames
<1>2. Frame(v, u, Outer \cup {"st"})
  BY DEF Frame
<1>3. Core(u)
  BY <1>1, <1>2, CoreSet
<1>4. Frame(v, u, {"pend", "out", "st", "enc", "drain", "deferred", "resetCalled", "body", "paused"})
  BY DEF Frame
<1> QED
  BY <1>3, <1>4, KeepsFrame

(* The application of a stream is through.                                 *)
LEMMA SawLocalKeeps ==
    ASSUME NEW v, Core(v), NEW r \in R, r <= v.last, v.st[r].app \notin {"called", "headers"}
    PROVE  LET u == [v EXCEPT !.st[r].sawLocal = TRUE]
           IN  /\ Core(u) /\ Keeps(v, u) /\ Frame(v, u, {"st"})
               /\ Sets(u.st, v.st, r, {"sawLocal"}) /\ u.st[r].sawLocal
<1> DEFINE u == [v EXCEPT !.st[r].sawLocal = TRUE]
<1>1. Frame(v, u, {"st"}) /\ Sets(u.st, v.st, r, {"sawLocal"}) /\ u.st[r].sawLocal
  BY CoreRecords, SetSawLocal
<1> HIDE DEF u
<1>2. u.st[r].obj = v.st[r].obj /\ u.st[r].app = v.st[r].app /\ u.st[r].decoded = v.st[r].decoded
  BY <1>1 DEF Sets, StNames
<1>3. v.active = r /\ u.st[r].decoded = "end" => v.req[r].remote
  BY <1>2 DEF Core, CodecInv
<1>4. Core(u) /\ Keeps(v, u)
  BY <1>1, <1>2, <1>3, KeepsSet
<1> QED
  BY <1>1, <1>4 DEF u

(* Its application is done.                                                *)
LEMMA AppDoneKeeps ==
    ASSUME NEW v, Core(v), NEW r \in R, r <= v.last
    PROVE  LET u == [v EXCEPT !.st[r].app = "done"]
           IN  /\ Core(u) /\ Keeps(v, u) /\ Frame(v, u, {"st"})
               /\ Sets(u.st, v.st, r, {"app"}) /\ u.st[r].app = "done"
<1> DEFINE u == [v EXCEPT !.st[r].app = "done"]
<1>1. Frame(v, u, {"st"}) /\ Sets(u.st, v.st, r, {"app"}) /\ u.st[r].app = "done"
  <2>1. "done" \in {"none", "called", "headers", "done"}
    OBVIOUS
  <2>2. Shape(v) /\ v.st \in [R -> StRec]
    BY CoreRecords
  <2>3. IsSetApp(v, u, r, "done")
    BY DEF IsSetApp
  <2> HIDE DEF u
  <2> QED
    BY <2>1, <2>2, <2>3, SetApp
<1> HIDE DEF u
<1>2. u.st[r].obj = v.st[r].obj /\ u.st[r].decoded = v.st[r].decoded
  BY <1>1 DEF Sets, StNames
<1>3. v.active = r /\ u.st[r].decoded = "end" => v.req[r].remote
  BY <1>2 DEF Core, CodecInv
<1>4. Core(u) /\ Keeps(v, u)
  BY <1>1, <1>2, <1>3, KeepsSet
<1> QED
  BY <1>1, <1>4 DEF u

(* on_reset_stream of a stream of the list, whether or not the codec has   *)
(* noted the reset.                                                        *)
LEMMA OnResetEnds ==
    ASSUME NEW v, Core(v), NEW r \in R, Has(v.streams, r),
           NEW x, Frame(v, x, {"enc", "resetCalled"}), x.resetCalled \in BOOLEAN,
           x.enc \in [R -> EncRec], \A y \in R : y # r => x.enc[y] = v.enc[y]
    PROVE  LET u == OnResetStream(x, r)
           IN  Core(u) /\ Ended(v, u, r) /\ Keeps(v, u)
<1> DEFINE z == [x EXCEPT !.st[r].onReset = TRUE]
<1>1. x.st = v.st /\ Shape(x)
  BY DEF Frame, FieldNames
<1>2. Frame(x, z, {"st"}) /\ Sets(z.st, x.st, r, {"onReset"}) /\ z.st[r].onReset
  BY <1>1, CoreRecords, SetOnReset
<1>3. OnResetStream(x, r) = DeferredStreamDestroy(z, r)
  BY DEF OnResetStream
<1> HIDE DEF z
<1>4. Frame(v, z, {"st", "enc", "resetCalled"})
  BY <1>2 DEF Frame
<1>5. z.enc = x.enc /\ z.resetCalled = x.resetCalled
  BY <1>2 DEF Frame, FieldNames
<1>6. Ending(v, z, r)
  BY <1>1, <1>2, <1>4, <1>5 DEF Ending
<1> QED
  BY <1>3, <1>6, StreamEnds

(* reset_stream of the codec's request, whose stream is in the list.       *)
LEMMA ResetStreamKeeps ==
    ASSUME NEW v, Core(v), v.active # 0, v.st[v.active].obj = "live"
    PROVE  LET u == ResetStream(v)
           IN  Core(u) /\ Keeps(v, u)
<1> DEFINE r == v.active
           x == [v EXCEPT !.resetCalled = TRUE]
           z == OnResetStream(x, r)
<1>1. r \in R /\ Shape(v)
  BY CoreRecords
<1>2. Frame(v, x, {"resetCalled"}) /\ x.resetCalled = TRUE
  BY <1>1 DEF Shape, Frame, FieldNames
<1>3. x.active = r /\ x.enc = v.enc
  BY <1>1 DEF Shape, FieldNames
<1>4. Has(v.streams, r) /\ v.enc[r].reset
  BY <1>1, LiveStream
<1>5. ResetStream(v) = DestroyActiveRequest(z)
  BY <1>3, <1>4 DEF ResetStream
<1> HIDE DEF x
<1>6. Core(z) /\ Ended(v, z, r) /\ Keeps(v, z)
  <2>1. Frame(v, x, {"enc", "resetCalled"})
    BY <1>2 DEF Frame
  <2>2. x.enc \in [R -> EncRec]
    BY <1>3, CoreRecords
  <2> HIDE DEF r
  <2> QED
    BY <1>1, <1>2, <1>3, <1>4, <2>1, <2>2, OnResetEnds
<1> HIDE DEF z
<1>7. z.active = r /\ z.st[r].app = "done"
  BY <1>6 DEF Ended, Frame, FieldNames
<1>8. Keeps(z, DestroyActiveRequest(z))
  BY <1>6, <1>7, DestroyRequest
<1>9. Keeps(v, DestroyActiveRequest(z))
  BY <1>6, <1>8, KeepsTrans
<1> QED
  BY <1>5, <1>9 DEF Keeps

(* do_end_stream of a stream whose application is done: complete on both   *)
(* sides, or the codec's request, which is reset.                          *)
LEMMA DoEndStreamKeeps ==
    ASSUME NEW v, Core(v), NEW r \in R, v.st[r].obj = "live", v.st[r].app = "done",
           \/ v.st[r].lastByte /\ v.st[r].sawLocal /\ v.st[r].encComplete
           \/ v.active = r /\ ~v.st[r].sawLocal
    PROVE  LET u == DoEndStream(v, r)
           IN  Core(u) /\ Keeps(v, u) /\ DrainInv(u)
<1>1. r <= v.last /\ Has(v.streams, r) /\ v.streams # <<>>
  BY LiveStream
<1>2. Shape(v) /\ v.st \in [R -> StRec] /\ v.enc \in [R -> EncRec] /\ v.resetCalled \in BOOLEAN
  BY CoreRecords DEF Typed
<1> DEFINE y == [v EXCEPT !.st[r].sawLocal = TRUE]
           z == ResetStream(y)
           d == [z EXCEPT !.drain = TRUE]
           e == DeferredStreamDestroy(v, r)
<1>3. ASSUME NEW x, Core(x), Keeps(v, x), DoEndStream(v, r) = CheckForDeferredClose(x)
      PROVE  Core(DoEndStream(v, r)) /\ Keeps(v, DoEndStream(v, r)) /\ DrainInv(DoEndStream(v, r))
  <2>1. Keeps(x, CheckForDeferredClose(x)) /\ DrainInv(CheckForDeferredClose(x))
    BY <1>3, CloseChecked
  <2>2. Keeps(v, CheckForDeferredClose(x))
    BY <1>3, <2>1, KeepsTrans
  <2> QED
    BY <1>3, <2>1, <2>2 DEF Keeps
<1>4. CASE v.st[r].lastByte /\ v.st[r].sawLocal
  <2>1. DoEndStream(v, r) = CheckForDeferredClose(e)
    BY <1>4 DEF DoEndStream
  <2>2. Ending(v, v, r)
    BY <1>2, <1>4 DEF Ending, Frame, Sets
  <2>3. Core(e) /\ Keeps(v, e)
    BY <1>1, <2>2, StreamEnds
  <2> HIDE DEF e
  <2> QED
    BY <2>1, <2>3, <1>3
<1>5. CASE ~(v.st[r].lastByte /\ v.st[r].sawLocal)
  <2>1. DoEndStream(v, r) = CheckForDeferredClose(d)
    BY <1>5 DEF DoEndStream
  <2>2. /\ Core(y) /\ Keeps(v, y) /\ Frame(v, y, {"st"})
        /\ Sets(y.st, v.st, r, {"sawLocal"}) /\ y.st[r].sawLocal
    BY <1>1, SawLocalKeeps
  <2>3. v.active = r /\ r # 0
    BY <1>5 DEF R
  <2> HIDE DEF y
  <2>4. y.active = r /\ y.st[r].obj = "live"
    BY <2>2, <2>3 DEF Frame, FieldNames, Sets, StNames
  <2>5. Core(z) /\ Keeps(y, z)
    BY <2>2, <2>3, <2>4, ResetStreamKeeps
  <2>6. Keeps(v, z)
    BY <2>2, <2>5, KeepsTrans
  <2> HIDE DEF z
  <2>7. Frame(z, d, {"drain"}) /\ d.drain = TRUE
    <3>1. Shape(z)
      BY <2>5, CoreRecords
    <3> QED
      BY <3>1 DEF Shape, Frame, FieldNames
  <2> HIDE DEF d
  <2>8. Core(d) /\ Keeps(z, d)
    <3>1. Typed(d)
      <4>1. Typed(z)
        BY <2>5 DEF Core
      <4> QED
        BY <4>1, <2>7 DEF Typed, Frame, FieldNames
    <3>2. Frame(z, d, Outer)
      BY <2>7 DEF Frame, Outer
    <3>3. Core(d)
      BY <2>5, <3>1, <3>2, CoreOuter
    <3>4. Frame(z, d, {"pend", "out", "st", "enc", "drain", "deferred", "resetCalled", "body", "paused"})
      BY <2>7 DEF Frame
    <3> QED
      BY <3>3, <3>4, KeepsFrame
  <2>9. Keeps(v, d)
    BY <2>6, <2>8, KeepsTrans
  <2> QED
    BY <2>1, <2>8, <2>9, <1>3
<1> QED
  BY <1>4, <1>5

(* end_stream after a complete response.                                   *)
LEMMA EndStreamKeeps ==
    ASSUME NEW v, Core(v), NEW r \in R, v.st[r].obj = "live", v.st[r].app = "done",
           v.st[r].lastByte, v.st[r].encComplete
    PROVE  LET u == EndStream(v, r)
           IN  Core(u) /\ Keeps(v, u) /\ DrainInv(u)
<1> DEFINE y == [v EXCEPT !.st[r].sawLocal = TRUE]
           z == DoEndStream(y, r)
<1>1. EndStream(v, r) = z
  BY DEF EndStream
<1>2. r <= v.last
  BY LiveStream
<1>3. /\ Core(y) /\ Keeps(v, y)
      /\ Sets(y.st, v.st, r, {"sawLocal"}) /\ y.st[r].sawLocal
  BY <1>2, SawLocalKeeps
<1> HIDE DEF y
<1>4. y.st[r].obj = "live" /\ y.st[r].app = "done" /\ y.st[r].lastByte /\ y.st[r].encComplete
  BY <1>3 DEF Sets, StNames
<1>5. Core(z) /\ Keeps(y, z) /\ DrainInv(z)
  BY <1>3, <1>4, DoEndStreamKeeps
<1> HIDE DEF z
<1>6. Keeps(v, z)
  BY <1>3, <1>5, KeepsTrans
<1> QED
  BY <1>1, <1>5, <1>6

(* end_encode of the codec's request.                                      *)
LEMMA EndEncodeKeeps ==
    ASSUME NEW v, Core(v), v.active # 0, v.st[v.active].obj = "live", v.st[v.active].app = "done",
           Fit(v.out, v.active, "end")
    PROVE  LET u == EndEncode(v, v.active)
           IN  /\ Core(u) /\ Keeps(v, u)
               /\ Sets(u.st, v.st, v.active, {"encComplete"}) /\ u.st[v.active].encComplete
               /\ u.streams = v.streams
<1> DEFINE r == v.active
           x == Write(v, r, "end")
           y == [x EXCEPT !.st[r].encComplete = TRUE]
           z == OnEncodeComplete(y)
<1>1. r \in R /\ r # 0 /\ r <= v.last /\ v.enc[r].event
  BY CoreRecords, LiveStream
<1>2. Keeps(v, x) /\ Frame(v, x, {"pend", "out"})
  <2>1. "end" \in {"headers", "end"}
    OBVIOUS
  <2> QED
    BY <2>1, WriteKeeps
<1>3. EndEncode(v, r) = OnEncodeComplete(IF x.enc[r].event THEN y ELSE x)
  BY DEF EndEncode
<1> HIDE DEF r, x
<1>4. /\ x.enc = v.enc /\ x.st = v.st /\ x.active = r /\ x.streams = v.streams /\ x.last = v.last
      /\ x.req = v.req /\ Core(x)
  BY <1>2 DEF Frame, FieldNames, Keeps, r
<1>5. EndEncode(v, r) = z
  BY <1>1, <1>3, <1>4
<1>6. Frame(x, y, {"st"}) /\ Sets(y.st, x.st, r, {"encComplete"}) /\ y.st[r].encComplete
  BY <1>1, <1>4, CoreRecords, SetEncComplete
<1> HIDE DEF y
<1>7. Core(y) /\ Keeps(x, y)
  <2>1. y.st[r].obj = x.st[r].obj /\ y.st[r].decoded = x.st[r].decoded /\ y.st[r].app = "done"
    BY <1>4, <1>6 DEF Sets, StNames, r
  <2>2. x.active = r /\ y.st[r].decoded = "end" => x.req[r].remote
    <3>1. CodecInv(x.active, x.last, x.st, x.req)
      BY <1>4 DEF Core
    <3>2. x.active = r /\ x.st[r].decoded = "end" => x.req[r].remote
      BY <1>1, <3>1 DEF CodecInv
    <3> QED
      BY <2>1, <3>2
  <2> QED
    BY <1>1, <1>4, <1>6, <2>1, <2>2, KeepsSet
<1>8. y.active = r /\ y.streams = v.streams /\ y.st[r].app = "done"
  BY <1>4, <1>6 DEF Frame, FieldNames, Sets, StNames, r
<1>9. Keeps(y, z) /\ z.st = y.st /\ z.streams = y.streams
  <2>1. CASE y.req[y.active].remote
    <3>1. z = DestroyActiveRequest(y)
      BY <2>1, <1>1, <1>8 DEF OnEncodeComplete
    <3>2. Keeps(y, z) /\ Frame(y, z, {"req", "active", "deferred"})
      BY <3>1, <1>1, <1>7, <1>8, DestroyRequest
    <3> QED
      BY <3>2 DEF Frame, FieldNames
  <2>2. CASE ~y.req[y.active].remote
    <3>1. z = y
      BY <2>2, <1>1, <1>8 DEF OnEncodeComplete
    <3> QED
      BY <3>1, <1>7 DEF Keeps
  <2> QED
    BY <2>1, <2>2
<1> HIDE DEF z
<1>10. Keeps(v, z)
  BY <1>2, <1>7, <1>9, KeepsTrans
<1>11. Core(z)
  BY <1>10 DEF Keeps
<1> QED
  BY <1>4, <1>5, <1>6, <1>8, <1>9, <1>10, <1>11 DEF r

(* encode_headers of the codec's request, and the end of the response with *)
(* them or not.                                                            *)
LEMMA EncodeHeadersKeeps ==
    ASSUME NEW v, Core(v), v.active # 0, v.st[v.active].obj = "live", NEW end \in BOOLEAN,
           v.st[v.active].app = IF end THEN "done" ELSE "headers",
           Fit(v.out, v.active, "headers")
    PROVE  LET u == EncodeHeadersTo(v, v.active, end)
           IN  /\ Core(u) /\ Keeps(v, u)
               /\ end => Sets(u.st, v.st, v.active, {"encComplete"}) /\ u.st[v.active].encComplete
               /\ u.streams = v.streams
<1> DEFINE r == v.active
           b == v.drain \/ v.st[r].shouldDrain \/ ~v.st[r].lastByte
           d == [v EXCEPT !.drain = b]
           x == Write(d, r, "headers")
           u == EncodeHeadersTo(v, r, end)
<1>1. b \in BOOLEAN /\ Shape(v) /\ Typed(v)
  BY CoreRecords
<1>2. u = IF end THEN EndEncode(x, r) ELSE x
  BY DEF EncodeHeadersTo
<1> HIDE DEF b
<1>3. Frame(v, d, {"drain"}) /\ d.drain = b
  BY <1>1 DEF Shape, Frame, FieldNames
<1> HIDE DEF d, r
<1>4. Core(d) /\ Keeps(v, d)
  <2>1. Typed(d)
    BY <1>1, <1>3 DEF Typed, Frame, FieldNames
  <2>2. Frame(v, d, Outer)
    BY <1>3 DEF Frame, Outer
  <2>3. Core(d)
    BY <2>1, <2>2, CoreOuter
  <2>4. Frame(v, d, {"pend", "out", "st", "enc", "drain", "deferred", "resetCalled", "body", "paused"})
    BY <1>3 DEF Frame
  <2> QED
    BY <2>3, <2>4, KeepsFrame
<1>5. d.active = r /\ d.st = v.st /\ d.out = v.out /\ d.streams = v.streams
  BY <1>3 DEF Frame, FieldNames, r
<1>6. v.st[r].app \in {"done", "headers"} /\ v.st[r].obj = "live" /\ r # 0
  BY DEF r
<1>7. Keeps(d, x) /\ Frame(d, x, {"pend", "out"}) /\ Fit(x.out, r, "end")
  <2>1. "headers" \in {"headers", "end"} /\ "headers" = "headers"
    OBVIOUS
  <2>2. Fit(d.out, d.active, "headers")
    BY <1>5 DEF r
  <2>3. d.active # 0 /\ d.st[d.active].app \notin {"none", "called"}
    BY <1>5, <1>6
  <2> HIDE DEF x
  <2>4. x = Write(d, d.active, "headers")
    BY <1>5 DEF x
  <2> QED
    BY <1>4, <1>5, <2>1, <2>2, <2>3, <2>4, WriteKeeps
<1> HIDE DEF x, u
<1>8. x.active = r /\ x.st = v.st /\ x.streams = v.streams /\ Core(x)
  BY <1>5, <1>7 DEF Frame, FieldNames, Keeps
<1>9. Keeps(v, x)
  BY <1>4, <1>7, KeepsTrans
<1>10. CASE ~end
  BY <1>2, <1>8, <1>9, <1>10 DEF r, u
<1>11. CASE end
  <2>1. u = EndEncode(x, x.active)
    BY <1>2, <1>8, <1>11
  <2>2. x.active # 0 /\ x.st[x.active].obj = "live" /\ x.st[x.active].app = "done"
    BY <1>6, <1>8, <1>11 DEF r
  <2>3. Fit(x.out, x.active, "end")
    BY <1>7, <1>8
  <2>4. /\ Core(u) /\ Keeps(x, u)
        /\ Sets(u.st, x.st, x.active, {"encComplete"}) /\ u.st[x.active].encComplete
        /\ u.streams = x.streams
    BY <1>8, <2>1, <2>2, <2>3, EndEncodeKeeps
  <2>5. Keeps(v, u)
    BY <1>9, <2>4, KeepsTrans
  <2> QED
    BY <1>8, <2>4, <2>5 DEF r, u
<1> QED
  BY <1>10, <1>11

(* No byte of a response before its headers.                               *)
LEMMA NothingWritten ==
    ASSUME NEW v, Core(v), NEW r \in R, v.st[r].app \in {"none", "called"}
    PROVE  Fit(v.out, r, "headers") /\ Fit(v.out, r, "end")
  BY DEF Fit, Core, OutInv

(* send_direct_local_reply, for the codec's request.                       *)
LEMMA LocalReplyKeeps ==
    ASSUME NEW v, Core(v), v.active # 0, v.st[v.active].obj = "live", ~v.st[v.active].sawLocal,
           v.st[v.active].app \in {"none", "called", "headers"}
    PROVE  LET u == SendLocalReply(v, v.active)
           IN  Core(u) /\ Keeps(v, u) /\ DrainInv(u)
<1> DEFINE r == v.active
           y == [v EXCEPT !.st[r].app = "done"]
           u == SendLocalReply(v, r)
<1>1. r \in R /\ r <= v.last /\ v.streams # <<>>
  BY CoreRecords, LiveStream
<1>2. u = IF v.st[r].app = "headers" THEN DoEndStream(y, r) ELSE EncodeHeadersTo(y, r, TRUE)
  BY DEF SendLocalReply
<1>3. /\ Core(y) /\ Keeps(v, y) /\ Frame(v, y, {"st"})
      /\ Sets(y.st, v.st, r, {"app"}) /\ y.st[r].app = "done"
  <2> HIDE DEF r
  <2> QED
    BY <1>1, AppDoneKeeps
<1> HIDE DEF y, u
<1>4. y.st[r].obj = "live" /\ ~y.st[r].sawLocal
  BY <1>3 DEF Sets, StNames
<1>5. y.active = r /\ y.streams = v.streams /\ y.out = v.out
  BY <1>3 DEF Frame, FieldNames
<1>6. CASE v.st[r].app = "headers"
  <2>1. u = DoEndStream(y, r)
    BY <1>2, <1>6
  <2>2. Core(u) /\ Keeps(y, u) /\ DrainInv(u)
    BY <1>1, <1>3, <1>4, <1>5, <2>1, DoEndStreamKeeps
  <2>3. Keeps(v, u)
    BY <1>3, <2>2, KeepsTrans
  <2> QED
    BY <2>2, <2>3 DEF u
<1>7. CASE v.st[r].app # "headers"
  <2>1. u = EncodeHeadersTo(y, y.active, TRUE)
    BY <1>2, <1>5, <1>7
  <2>2. Fit(y.out, y.active, "headers")
    BY <1>1, <1>5, <1>7, NothingWritten
  <2>3. y.st[y.active].app = (IF TRUE THEN "done" ELSE "headers")
    BY <1>3, <1>5
  <2>4. y.active # 0 /\ y.st[y.active].obj = "live"
    BY <1>4, <1>5
  <2>5. Core(u) /\ Keeps(y, u) /\ u.streams = y.streams
    BY <1>3, <2>1, <2>2, <2>3, <2>4, EncodeHeadersKeeps
  <2>6. Keeps(v, u)
    BY <1>3, <2>5, KeepsTrans
  <2>7. DrainInv(u)
    BY <2>5, <1>1, <1>5 DEF DrainInv
  <2> QED
    BY <2>5, <2>6, <2>7 DEF u
<1> QED
  BY <1>6, <1>7

-----------------------------------------------------------------------------
(* The application.                                                        *)

(* The application acts for r, in a state that is good.                    *)
Acts(v, r, b) ==
    /\ v.abort = "none" /\ v.pc \in {"idle", "app"} /\ r \in R
    /\ v.st[r].obj = "live" /\ v.st[r].app \in {"called", "headers"}
    /\ b \/ v.st[r].decoded = "end"

(* It does so for the codec's request.                                     *)
LEMMA ActsFor ==
    ASSUME NEW v, NEW r, NEW b, Core(v), Acts(v, r, b)
    PROVE  v.active = r /\ r # 0 /\ v.st[r].lastByte /\ ~v.st[r].sawLocal /\ r <= v.last
<1>1. r \in R /\ v.st[r].app \in {"called", "headers"} /\ v.st[r].obj = "live"
  BY DEF Acts
<1>2. v.active = r /\ v.st[r].lastByte /\ ~v.st[r].sawLocal
  BY <1>1 DEF Core, CodecInv
<1>3. r <= v.last
  BY <1>1, LiveStream
<1> QED
  BY <1>1, <1>2, <1>3 DEF R

(* What it does leaves the connection good.                                *)
LEMMA ActsGood ==
    ASSUME NEW v, NEW q, NEW n, NEW r, NEW b, NEW sp, b \/ ~sp,
           Good(v, q, n, b, sp), Acts(v, r, b),
           NEW u, Keeps(v, u), DrainInv(u)
    PROVE  Good(u, q, n, b, sp)
<1>1. Core(v) /\ FlowInv(v, q, n, sp) /\ QuietInv(v, b)
  BY DEF Good, Acts
<1>2. FlowInv(u, q, n, sp)
  <2>1. v.pc # "tail"
    BY DEF Acts
  <2> QED
    BY <1>1, <2>1, FlowKept
<1>3. ASSUME ~b PROVE v.run = <<>>
  <2>1. CASE v.pc = "idle"
    BY <2>1, <1>1 DEF FlowInv
  <2>2. CASE v.pc = "app"
    <3>1. v.active = r /\ r # 0 /\ r \in R /\ v.st[r].decoded = "end"
      BY <1>1, <1>3, ActsFor DEF Acts
    <3>2. v.req[r].remote
      BY <3>1, <1>1 DEF Core, CodecInv
    <3>3. Received(v)
      BY <3>1, <3>2 DEF Received
    <3>4. Parsed(v) /\ ~sp
      BY <3>3, <2>2, <1>3 DEF Parsed
    <3> QED
      BY <3>4, <1>1 DEF FlowInv
  <2> QED
    BY <2>1, <2>2 DEF Acts
<1>4. QuietInv(u, b)
  BY <1>1, <1>3, QuietKept
<1> QED
  BY <1>2, <1>4 DEF Good, Keeps

(* The headers of a response, without its end.                             *)
LEMMA HeadersGood ==
    ASSUME NEW v, NEW q, NEW n, NEW r, NEW b, NEW sp, b \/ ~sp,
           Good(v, q, n, b, sp), Acts(v, r, b),
           v.st[r].app = "called"
    PROVE  Good(EncodeHeadersTo([v EXCEPT !.st[r].app = "headers"], r, FALSE), q, n, b, sp)
<1> DEFINE y == [v EXCEPT !.st[r].app = "headers"]
           u == EncodeHeadersTo(y, r, FALSE)
<1>1. Core(v) /\ r \in R /\ v.st[r].obj = "live"
  BY DEF Good, Acts
<1>2. v.active = r /\ r # 0 /\ v.st[r].lastByte /\ ~v.st[r].sawLocal /\ r <= v.last
  BY <1>1, ActsFor
<1>3. Frame(v, y, {"st"}) /\ Sets(y.st, v.st, r, {"app"}) /\ y.st[r].app = "headers"
  <2>1. "headers" \in {"none", "called", "headers", "done"}
    OBVIOUS
  <2>2. Shape(v) /\ v.st \in [R -> StRec] /\ r \in R
    BY <1>1, CoreRecords
  <2>3. IsSetApp(v, y, r, "headers")
    BY DEF IsSetApp
  <2> HIDE DEF y
  <2> QED
    BY <2>1, <2>2, <2>3, SetApp
<1> HIDE DEF y
<1>4. /\ y.st[r].obj = v.st[r].obj /\ y.st[r].decoded = v.st[r].decoded
      /\ y.st[r].lastByte = v.st[r].lastByte /\ y.st[r].sawLocal = v.st[r].sawLocal
  BY <1>3 DEF Sets, StNames
<1>5. Core(y) /\ Keeps(v, y)
  <2>1. v.active = r /\ y.st[r].decoded = "end" => v.req[r].remote
    BY <1>1, <1>4 DEF Core, CodecInv
  <2> QED
    BY <1>1, <1>2, <1>3, <1>4, <2>1, KeepsSet
<1>6. y.active = r /\ y.out = v.out /\ y.streams = v.streams
  BY <1>2, <1>3 DEF Frame, FieldNames
<1>7. Core(u) /\ Keeps(y, u) /\ u.streams = y.streams
  <2>1. Fit(y.out, y.active, "headers")
    BY <1>1, <1>6, NothingWritten
  <2>2. y.st[y.active].app = (IF FALSE THEN "done" ELSE "headers")
    BY <1>3, <1>6
  <2>3. y.active # 0 /\ y.st[y.active].obj = "live" /\ u = EncodeHeadersTo(y, y.active, FALSE)
    BY <1>1, <1>2, <1>4, <1>6
  <2> HIDE DEF u
  <2> QED
    BY <1>5, <2>1, <2>2, <2>3, EncodeHeadersKeeps
<1> HIDE DEF u
<1>8. Keeps(v, u)
  BY <1>5, <1>7, KeepsTrans
<1>9. DrainInv(u)
  <2>1. v.streams # <<>>
    BY <1>1, LiveStream
  <2> QED
    BY <2>1, <1>6, <1>7 DEF DrainInv
<1> QED
  BY <1>8, <1>9, ActsGood DEF u, y

(* A response that ends with its headers.                                  *)
LEMMA HeadersEndGood ==
    ASSUME NEW v, NEW q, NEW n, NEW r, NEW b, NEW sp, b \/ ~sp,
           Good(v, q, n, b, sp), Acts(v, r, b),
           v.st[r].app = "called"
    PROVE  Good(EndStream(EncodeHeadersTo([v EXCEPT !.st[r].app = "done"], r, TRUE), r), q, n, b, sp)
<1> DEFINE y == [v EXCEPT !.st[r].app = "done"]
           x == EncodeHeadersTo(y, r, TRUE)
           u == EndStream(x, r)
<1>1. Core(v) /\ r \in R /\ v.st[r].obj = "live"
  BY DEF Good, Acts
<1>2. v.active = r /\ r # 0 /\ v.st[r].lastByte /\ r <= v.last
  BY <1>1, ActsFor
<1>3. /\ Core(y) /\ Keeps(v, y) /\ Frame(v, y, {"st"})
      /\ Sets(y.st, v.st, r, {"app"}) /\ y.st[r].app = "done"
  BY <1>1, <1>2, AppDoneKeeps
<1> HIDE DEF y
<1>4. y.st[r].obj = "live" /\ y.st[r].lastByte
  BY <1>1, <1>2, <1>3 DEF Sets, StNames
<1>5. y.active = r /\ y.out = v.out
  BY <1>2, <1>3 DEF Frame, FieldNames
<1>6. /\ Core(x) /\ Keeps(y, x)
      /\ Sets(x.st, y.st, r, {"encComplete"}) /\ x.st[r].encComplete
  <2>1. Fit(y.out, y.active, "headers")
    BY <1>1, <1>5, NothingWritten
  <2>2. y.st[y.active].app = (IF TRUE THEN "done" ELSE "headers")
    BY <1>3, <1>5
  <2>3. y.active # 0 /\ y.st[y.active].obj = "live" /\ x = EncodeHeadersTo(y, y.active, TRUE)
    BY <1>2, <1>4, <1>5
  <2> HIDE DEF x
  <2> QED
    BY <1>3, <1>5, <2>1, <2>2, <2>3, EncodeHeadersKeeps
<1> HIDE DEF x
<1>7. x.st[r].obj = "live" /\ x.st[r].app = "done" /\ x.st[r].lastByte
  BY <1>3, <1>4, <1>6 DEF Sets, StNames
<1>8. Core(u) /\ Keeps(x, u) /\ DrainInv(u)
  BY <1>1, <1>6, <1>7, EndStreamKeeps
<1> HIDE DEF u
<1>9. Keeps(v, u)
  BY <1>3, <1>6, <1>8, KeepsTrans
<1> QED
  BY <1>8, <1>9, ActsGood DEF u, x, y

(* The end of a response after its headers.                                *)
LEMMA EndGood ==
    ASSUME NEW v, NEW q, NEW n, NEW r, NEW b, NEW sp, b \/ ~sp,
           Good(v, q, n, b, sp), Acts(v, r, b),
           v.st[r].app = "headers"
    PROVE  Good(EndStream(EndEncode([v EXCEPT !.st[r].app = "done"], r), r), q, n, b, sp)
<1> DEFINE y == [v EXCEPT !.st[r].app = "done"]
           x == EndEncode(y, r)
           u == EndStream(x, r)
<1>1. Core(v) /\ r \in R /\ v.st[r].obj = "live"
  BY DEF Good, Acts
<1>2. v.active = r /\ r # 0 /\ v.st[r].lastByte /\ r <= v.last
  BY <1>1, ActsFor
<1>3. /\ Core(y) /\ Keeps(v, y) /\ Frame(v, y, {"st"})
      /\ Sets(y.st, v.st, r, {"app"}) /\ y.st[r].app = "done"
  BY <1>1, <1>2, AppDoneKeeps
<1> HIDE DEF y
<1>4. y.st[r].obj = "live" /\ y.st[r].lastByte
  BY <1>1, <1>2, <1>3 DEF Sets, StNames
<1>5. y.active = r /\ y.out = v.out
  BY <1>2, <1>3 DEF Frame, FieldNames
<1>6. /\ Core(x) /\ Keeps(y, x)
      /\ Sets(x.st, y.st, r, {"encComplete"}) /\ x.st[r].encComplete
  <2>1. Fit(y.out, y.active, "end")
    BY <1>1, <1>5 DEF Fit, Core, OutInv
  <2>2. y.st[y.active].app = "done"
    BY <1>3, <1>5
  <2>3. y.active # 0 /\ y.st[y.active].obj = "live" /\ x = EndEncode(y, y.active)
    BY <1>2, <1>4, <1>5
  <2> HIDE DEF x
  <2> QED
    BY <1>3, <1>5, <2>1, <2>2, <2>3, EndEncodeKeeps
<1> HIDE DEF x
<1>7. x.st[r].obj = "live" /\ x.st[r].app = "done" /\ x.st[r].lastByte
  BY <1>3, <1>4, <1>6 DEF Sets, StNames
<1>8. Core(u) /\ Keeps(x, u) /\ DrainInv(u)
  BY <1>1, <1>6, <1>7, EndStreamKeeps
<1> HIDE DEF u
<1>9. Keeps(v, u)
  BY <1>3, <1>6, <1>8, KeepsTrans
<1> QED
  BY <1>8, <1>9, ActsGood DEF u, x, y

(* A local reply.                                                          *)
LEMMA ReplyGood ==
    ASSUME NEW v, NEW q, NEW n, NEW r, NEW b, NEW sp, b \/ ~sp,
           Good(v, q, n, b, sp), Acts(v, r, b)
    PROVE  Good(SendLocalReply(v, r), q, n, b, sp)
<1>1. Core(v) /\ r \in R /\ v.st[r].obj = "live" /\ v.st[r].app \in {"none", "called", "headers"}
  BY DEF Good, Acts
<1>2. v.active = r /\ r # 0 /\ ~v.st[r].sawLocal
  BY <1>1, ActsFor
<1>3. Keeps(v, SendLocalReply(v, r)) /\ DrainInv(SendLocalReply(v, r))
  BY <1>1, <1>2, LocalReplyKeeps
<1> QED
  BY <1>3, ActsGood

(* A reset after the response's headers.                                   *)
LEMMA ResetGood ==
    ASSUME NEW v, NEW q, NEW n, NEW r, NEW b, NEW sp, b \/ ~sp,
           Good(v, q, n, b, sp), Acts(v, r, b),
           v.st[r].app = "headers"
    PROVE  Good(DoEndStream([v EXCEPT !.st[r].app = "done"], r), q, n, b, sp)
<1>1. SendLocalReply(v, r) = DoEndStream([v EXCEPT !.st[r].app = "done"], r)
  BY DEF SendLocalReply
<1> QED
  BY <1>1, ReplyGood

-----------------------------------------------------------------------------
(* The loops over the streams and over the deferred list.                  *)

(* One turn of reset_all_streams.                                          *)
LEMMA ResetTurn ==
    ASSUME NEW v, Core(v), NEW r \in R, Has(v.streams, r)
    PROVE  LET u == OnResetStream([v EXCEPT !.enc[r].reset = FALSE], r)
           IN  /\ Core(u) /\ Keeps(v, u)
               /\ \A y : Has(u.streams, y) <=> Has(v.streams, y) /\ y # r
<1> DEFINE x == [v EXCEPT !.enc[r].reset = FALSE]
           e == [v.enc EXCEPT ![r].reset = FALSE]
           u == OnResetStream(x, r)
<1>1. Shape(v) /\ v.enc \in [R -> EncRec] /\ v.resetCalled \in BOOLEAN
  BY CoreRecords DEF Typed
<1>2. e \in [R -> EncRec] /\ \A y \in R : y # r => e[y] = v.enc[y]
  BY <1>1 DEF EncRec
<1>3. Frame(v, x, {"enc"}) /\ x.enc = e
  BY <1>1 DEF Shape, Frame, FieldNames
<1> HIDE DEF x, e
<1>4. x.resetCalled = v.resetCalled /\ Frame(v, x, {"enc", "resetCalled"})
  BY <1>3 DEF Frame, FieldNames
<1>5. Core(u) /\ Ended(v, u, r) /\ Keeps(v, u)
  BY <1>1, <1>2, <1>3, <1>4, OnResetEnds
<1>6. \A y : Has(RemoveFirst(v.streams, r), y) <=> Has(v.streams, y) /\ y # r
  <2>1. v.streams \in Seq(R) /\ Inj(v.streams)
    BY DEF Core, StreamInv
  <2> QED
    BY <2>1, RemoveHas
<1> HIDE DEF u
<1>7. u.streams = RemoveFirst(v.streams, r)
  BY <1>5 DEF Ended
<1> QED
  BY <1>5, <1>6, <1>7 DEF u, x

(* The streams of v from i + 1 on are left.                                *)
Resetting(v, u, i) ==
    /\ Core(u) /\ Keeps(v, u)
    /\ \A y : Has(u.streams, y) <=> \E j \in DOMAIN v.streams : j > i /\ v.streams[j] = y

(* reset_all_streams leaves none.                                          *)
LEMMA ResetAll ==
    ASSUME NEW v, Core(v)
    PROVE  LET u == ResetAllStreams(v)
           IN  Core(u) /\ Keeps(v, u) /\ u.streams = <<>>
<1> DEFINE s == v.streams
           n == Len(s)
<1>1. s \in Seq(R) /\ Inj(s) /\ n \in Nat /\ DOMAIN s = 1 .. n
  <2>1. s \in Seq(R) /\ Inj(s)
    BY DEF Core, StreamInv
  <2> QED
    BY <2>1
<1>2. PICK f : ResetTurns(f, v) /\ ResetAllStreams(v) = f[n]
  BY <1>1, ResetAllLoop
<1>3. /\ f[0] = v
      /\ \A i \in 1 .. n : f[i] = OnResetStream([f[i - 1] EXCEPT !.enc[s[i]].reset = FALSE], s[i])
  BY <1>2 DEF ResetTurns
<1>4. Resetting(v, f[0], 0)
  <2>1. Keeps(v, v)
    BY DEF Keeps
  <2>2. \A y : Has(v.streams, y) <=> \E j \in DOMAIN v.streams : j > 0 /\ v.streams[j] = y
    BY <1>1 DEF Has
  <2> QED
    BY <1>3, <2>1, <2>2 DEF Resetting
<1>5. ASSUME NEW i \in 0 .. n, i # n, Resetting(v, f[i], i) PROVE Resetting(v, f[i + 1], i + 1)
  <2> DEFINE x == f[i]
             u == f[i + 1]
             r == s[i + 1]
  <2>1. i + 1 \in 1 .. n /\ (i + 1) - 1 = i /\ i + 1 \in DOMAIN s /\ i + 1 > i
    BY <1>1, <1>5
  <2>2. u = OnResetStream([x EXCEPT !.enc[r].reset = FALSE], r)
    BY <1>3, <2>1
  <2>3. Core(x) /\ Keeps(v, x)
        /\ \A y : Has(x.streams, y) <=> \E j \in DOMAIN s : j > i /\ s[j] = y
    BY <1>5 DEF Resetting
  <2>4. r \in R
    BY <1>1, <2>1
  <2> HIDE DEF x, u
  <2>5. Has(x.streams, r)
    BY <2>1, <2>3
  <2> HIDE DEF r
  <2>6. /\ Core(u) /\ Keeps(x, u)
        /\ \A y : Has(u.streams, y) <=> Has(x.streams, y) /\ y # r
    BY <2>2, <2>3, <2>4, <2>5, ResetTurn
  <2>7. Keeps(v, u)
    BY <2>3, <2>6, KeepsTrans
  <2>8. ASSUME NEW y PROVE Has(u.streams, y) <=> \E j \in DOMAIN s : j > i + 1 /\ s[j] = y
    <3>1. ASSUME Has(u.streams, y) PROVE \E j \in DOMAIN s : j > i + 1 /\ s[j] = y
      <4>1. Has(x.streams, y) /\ y # r
        BY <3>1, <2>6
      <4>2. PICK j \in DOMAIN s : j > i /\ s[j] = y
        BY <4>1, <2>3
      <4>3. j # i + 1
        BY <4>1, <4>2 DEF r
      <4>4. j > i + 1
        BY <4>2, <4>3, <1>1
      <4> QED
        BY <4>2, <4>4
    <3>2. ASSUME NEW j \in DOMAIN s, j > i + 1, s[j] = y PROVE Has(u.streams, y)
      <4>1. j > i /\ j # i + 1
        BY <3>2, <1>1
      <4>2. y # r
        BY <4>1, <3>2, <2>1, <1>1 DEF Inj, r
      <4> QED
        BY <4>1, <4>2, <3>2, <2>3, <2>6
    <3> QED
      BY <3>1, <3>2
  <2> QED
    BY <2>6, <2>7, <2>8 DEF Resetting, u
<1>6. Resetting(v, f[n], n)
  <2> DEFINE S == {i \in 0 .. n : Resetting(v, f[i], i)}
  <2>1. 0 \in S
    BY <1>1, <1>4
  <2>2. \A i \in 0 .. n : i # n /\ i \in S => i + 1 \in S
    <3> SUFFICES ASSUME NEW i \in 0 .. n, i # n, i \in S PROVE i + 1 \in S
      OBVIOUS
    <3>1. i + 1 \in 0 .. n
      BY <1>1
    <3> QED
      BY <1>5, <3>1
  <2> HIDE DEF S, n
  <2>3. \A i \in 0 .. n : i \in S
    BY <1>1, <2>1, <2>2, UpTo
  <2>4. n \in S
    BY <1>1, <2>3
  <2> QED
    BY <2>4 DEF S
<1> DEFINE u == f[n]
<1>7. Core(u) /\ Keeps(v, u) /\ \A y : ~Has(u.streams, y)
  BY <1>1, <1>6 DEF Resetting
<1> HIDE DEF u
<1>8. u.streams = <<>>
  <2>1. u.streams \in Seq(R)
    BY <1>7 DEF Core, StreamInv
  <2> QED
    BY <2>1, <1>7, HasSome
<1> QED
  BY <1>2, <1>7, <1>8 DEF u

(* Where the dispose of an encoder with disabled reads ends.               *)
Stops == {"read_disable:523", "dispose:303 spins"}

(* u is v in a pass over the deferred list, after i of its items.          *)
Clearing(v, u, i) ==
    /\ Frame(v, u, {"req", "st", "dis", "abort", "deferred"}) /\ u.deferred = <<>>
    /\ u.req \in [R -> ReqRec] /\ (\A r \in R : u.req[r].remote = v.req[r].remote)
    /\ u.st \in [R -> StRec]
    /\ \A r \in R : \A k \in StNames \ {"obj"} : u.st[r][k] = v.st[r][k]
    /\ \A r \in R : (\E j \in 1 .. i : v.deferred[j] = Item(r)) => u.st[r].obj = "freed"
    /\ \A r \in R : ~(\E j \in 1 .. i : v.deferred[j] = Item(r)) => u.st[r].obj = v.st[r].obj
    /\ u.dis \in 0 .. MaxDisable
    /\ (u.abort = v.abort /\ u.dis = v.dis) \/ u.abort \in Stops

(* dispose of an encoder.                                                  *)
LEMMA EncoderDisposed ==
    ASSUME NEW v, Shape(v), v.dis \in 0 .. MaxDisable, NEW r
    PROVE  LET u == DisposeEncoder(v, r)
           IN  /\ Frame(v, u, {"dis", "abort"}) /\ u.dis \in 0 .. MaxDisable
               /\ (u.abort = v.abort /\ u.dis = v.dis) \/ u.abort \in Stops
<1>1. CASE v.enc[r].dis = 0
  <2>1. DisposeEncoder(v, r) = v
    BY <1>1 DEF DisposeEncoder
  <2> QED
    BY <2>1 DEF Frame
<1>3. CASE v.enc[r].dis # 0 /\ ~IsOpen(v)
  <2> DEFINE u == [v EXCEPT !.abort = "dispose:303 spins"]
  <2>1. DisposeEncoder(v, r) = u
    BY <1>3 DEF DisposeEncoder
  <2>2. Frame(v, u, {"abort"}) /\ u.abort = "dispose:303 spins"
    BY DEF Shape, Frame, FieldNames
  <2> HIDE DEF u
  <2>3. u.dis = v.dis /\ Frame(v, u, {"dis", "abort"})
    BY <2>2 DEF Frame, FieldNames
  <2> QED
    BY <2>1, <2>2, <2>3 DEF Stops
<1>2. CASE v.enc[r].dis # 0 /\ IsOpen(v)
  <2> DEFINE x == [v EXCEPT !.dis = 0]
             u == [x EXCEPT !.abort = "read_disable:523"]
  <2>1. Shape(x) /\ x.dis = 0 /\ x.net = v.net /\ \A k \in FieldNames \ {"dis"} : x[k] = v[k]
    BY DEF Shape, FieldNames
  <2>2. DisposeEncoder(v, r) = u
    BY <1>2, <2>1 DEF DisposeEncoder, ConnReadDisable, IsOpen
  <2> HIDE DEF x
  <2>3. Frame(x, u, {"abort"}) /\ u.abort = "read_disable:523"
    BY <2>1 DEF Shape, Frame, FieldNames
  <2> HIDE DEF u
  <2>4. u.dis = 0 /\ Frame(v, u, {"dis", "abort"})
    BY <2>1, <2>3 DEF Frame, FieldNames
  <2>5. 0 \in 0 .. MaxDisable
    BY DEF MaxDisable
  <2> QED
    BY <2>2, <2>3, <2>4, <2>5 DEF Stops
<1> QED
  BY <1>1, <1>2, <1>3

(* One item.                                                               *)
LEMMA ClearTurn ==
    ASSUME NEW v, v.deferred \in Seq(Items), NEW i \in 0 .. Len(v.deferred), i # Len(v.deferred),
           NEW x, Clearing(v, x, i)
    PROVE  Clearing(v, DisposeDeferred(x, v.deferred[i + 1]), i + 1)
<1> DEFINE D == v.deferred
           d == D[i + 1]
           r == d.r
           Q == [x.req EXCEPT ![r].obj = "freed"]
           t == [x.st EXCEPT ![r].obj = "freed"]
           z == IF d.k = "req" THEN [x EXCEPT !.req[r].obj = "freed"]
                               ELSE [x EXCEPT !.st[r].obj = "freed"]
           u == DisposeDeferred(x, d)
<1>1. i \in Nat /\ i + 1 \in 1 .. Len(D) /\ d \in Items
  <2>1. Len(D) \in Nat /\ DOMAIN D = 1 .. Len(D)
    OBVIOUS
  <2>2. i \in Nat /\ i + 1 \in 1 .. Len(D)
    BY <2>1
  <2> QED
    BY <2>1, <2>2
<1>2. d.k \in {"req", "st"} /\ r \in R /\ d = [k |-> d.k, r |-> r]
  BY <1>1 DEF Items
<1>3. u = IF z.req[r].obj = "freed" /\ z.st[r].obj = "freed" THEN DisposeEncoder(z, r) ELSE z
  BY DEF DisposeDeferred
<1> HIDE DEF d, r
<1>4. /\ Frame(v, x, {"req", "st", "dis", "abort", "deferred"}) /\ Shape(x) /\ x.deferred = <<>>
      /\ x.req \in [R -> ReqRec] /\ (\A y \in R : x.req[y].remote = v.req[y].remote)
      /\ x.st \in [R -> StRec]
      /\ x.dis \in 0 .. MaxDisable
      /\ (x.abort = v.abort /\ x.dis = v.dis) \/ x.abort \in Stops
  BY DEF Clearing, Frame
<1>5. Q \in [R -> ReqRec] /\ \A y \in R : Q[y].remote = x.req[y].remote
  BY <1>2, <1>4 DEF ReqRec, Objects
<1>6. /\ t \in [R -> StRec] /\ t[r].obj = "freed" /\ \A y \in R : y # r => t[y] = x.st[y]
      /\ \A k \in StNames \ {"obj"} : t[r][k] = x.st[r][k]
  BY <1>2, <1>4 DEF StRec, StNames, Objects
<1> HIDE DEF Q, t
<1>7. /\ Frame(x, z, {"req", "st"})
      /\ d.k = "req" => z.req = Q /\ z.st = x.st
      /\ d.k # "req" => z.req = x.req /\ z.st = t
  <2>1. CASE d.k = "req"
    <3>1. z = [x EXCEPT !.req[r].obj = "freed"]
      BY <2>1
    <3> HIDE DEF z
    <3>2. Frame(x, z, {"req"}) /\ z.req = Q
      BY <3>1, <1>4 DEF Shape, Frame, FieldNames, Q
    <3> QED
      BY <2>1, <3>2 DEF Frame, FieldNames
  <2>2. CASE d.k # "req"
    <3>1. z = [x EXCEPT !.st[r].obj = "freed"]
      BY <2>2
    <3> HIDE DEF z
    <3>2. Frame(x, z, {"st"}) /\ z.st = t
      BY <3>1, <1>4 DEF Shape, Frame, FieldNames, t
    <3> QED
      BY <2>2, <3>2 DEF Frame, FieldNames
  <2> QED
    BY <2>1, <2>2
<1> HIDE DEF z, u
<1>8. z.dis = x.dis /\ z.abort = x.abort /\ z.deferred = <<>> /\ Shape(z)
  BY <1>4, <1>7 DEF Frame, FieldNames
<1>9. /\ Frame(z, u, {"dis", "abort"}) /\ u.dis \in 0 .. MaxDisable
      /\ (u.abort = x.abort /\ u.dis = x.dis) \/ u.abort \in Stops
  <2>1. CASE z.req[r].obj = "freed" /\ z.st[r].obj = "freed"
    BY <2>1, <1>3, <1>4, <1>8, EncoderDisposed
  <2>2. CASE ~(z.req[r].obj = "freed" /\ z.st[r].obj = "freed")
    BY <2>2, <1>3, <1>4, <1>8 DEF Frame
  <2> QED
    BY <2>1, <2>2
<1>10. u.req = z.req /\ u.st = z.st /\ u.deferred = <<>>
  BY <1>8, <1>9 DEF Frame, FieldNames
<1>11. Frame(v, u, {"req", "st", "dis", "abort", "deferred"})
  BY <1>4, <1>7, <1>9 DEF Frame
<1>12. u.req \in [R -> ReqRec] /\ \A y \in R : u.req[y].remote = v.req[y].remote
  BY <1>4, <1>5, <1>7, <1>10
<1>13. /\ u.st \in [R -> StRec]
       /\ \A y \in R : \A k \in StNames \ {"obj"} : u.st[y][k] = x.st[y][k]
  <2>1. u.st = x.st \/ u.st = t
    BY <1>7, <1>10
  <2>2. \A y \in R : \A k \in StNames \ {"obj"} : t[y][k] = x.st[y][k]
    BY <1>6
  <2> QED
    BY <2>1, <2>2, <1>4, <1>6
<1>14. \A y \in R : \A k \in StNames \ {"obj"} : u.st[y][k] = v.st[y][k]
  <2>1. \A y \in R : \A k \in StNames \ {"obj"} : x.st[y][k] = v.st[y][k]
    BY DEF Clearing
  <2> QED
    BY <2>1, <1>13
<1>15. ASSUME NEW y \in R
       PROVE  /\ (\E j \in 1 .. i + 1 : D[j] = Item(y)) => u.st[y].obj = "freed"
              /\ ~(\E j \in 1 .. i + 1 : D[j] = Item(y)) => u.st[y].obj = v.st[y].obj
  <2>1. /\ (\E j \in 1 .. i : D[j] = Item(y)) => x.st[y].obj = "freed"
        /\ ~(\E j \in 1 .. i : D[j] = Item(y)) => x.st[y].obj = v.st[y].obj
    BY DEF Clearing
  <2>2. \A j \in 1 .. i + 1 : j \in 1 .. i \/ j = i + 1
    BY <1>1
  <2>3. \A j \in 1 .. i : j \in 1 .. i + 1
    BY <1>1
  <2>4. i + 1 \in 1 .. i + 1
    BY <1>1
  <2>5. D[i + 1] = Item(y) <=> d.k = "st" /\ r = y
    <3>1. D[i + 1] = d
      BY DEF d
    <3> QED
      BY <3>1, <1>2 DEF Item
  <2>6. CASE d.k = "st" /\ r = y
    <3>1. u.st[y].obj = "freed"
      BY <2>6, <1>6, <1>7, <1>10
    <3>2. \E j \in 1 .. i + 1 : D[j] = Item(y)
      BY <2>4, <2>5, <2>6
    <3> QED
      BY <3>1, <3>2
  <2>7. CASE ~(d.k = "st" /\ r = y)
    <3>1. u.st[y] = x.st[y]
      BY <2>7, <1>2, <1>6, <1>7, <1>10
    <3>2. (\E j \in 1 .. i + 1 : D[j] = Item(y)) <=> (\E j \in 1 .. i : D[j] = Item(y))
      BY <2>2, <2>3, <2>5, <2>7
    <3> QED
      BY <3>1, <3>2, <2>1
  <2> QED
    BY <2>6, <2>7
<1>16. (u.abort = v.abort /\ u.dis = v.dis) \/ u.abort \in Stops
  BY <1>4, <1>9
<1> QED
  BY <1>9, <1>10, <1>11, <1>12, <1>13, <1>14, <1>15, <1>16 DEF Clearing, u, d

(* A pass frees everything that waited.                                    *)
LEMMA ClearedCore ==
    ASSUME NEW v, Core(v), NEW u, Clearing(v, u, Len(v.deferred))
    PROVE  Core(u)
<1> DEFINE D == v.deferred
<1>1. StreamInv(v.streams, v.rqActive, v.st, v.enc, D) /\ CodecInv(v.active, v.last, v.st, v.req)
      /\ OutInv(v.out, v.last, v.st) /\ Typed(v)
  BY DEF Core
<1>2. DOMAIN D = 1 .. Len(D)
  BY <1>1 DEF StreamInv
<1>3. ASSUME NEW r \in R
      PROVE  /\ v.st[r].obj = "deferred" => u.st[r].obj = "freed"
             /\ v.st[r].obj # "deferred" => u.st[r].obj = v.st[r].obj
  <2>1. v.st[r].obj = "deferred" <=> Has(D, Item(r))
    BY <1>1 DEF StreamInv
  <2>2. Has(D, Item(r)) <=> \E j \in 1 .. Len(D) : D[j] = Item(r)
    BY <1>2 DEF Has
  <2>3. /\ (\E j \in 1 .. Len(D) : D[j] = Item(r)) => u.st[r].obj = "freed"
        /\ ~(\E j \in 1 .. Len(D) : D[j] = Item(r)) => u.st[r].obj = v.st[r].obj
    BY DEF Clearing
  <2> QED
    BY <2>1, <2>2, <2>3
<1>4. /\ Frame(v, u, {"req", "st", "dis", "abort", "deferred"}) /\ u.deferred = <<>>
      /\ u.req \in [R -> ReqRec] /\ (\A r \in R : u.req[r].remote = v.req[r].remote)
      /\ u.st \in [R -> StRec] /\ u.dis \in 0 .. MaxDisable
      /\ u.abort = v.abort \/ u.abort \in Stops
  BY DEF Clearing
<1>5. \A r \in R : /\ u.st[r].app = v.st[r].app /\ u.st[r].lastByte = v.st[r].lastByte
                   /\ u.st[r].sawLocal = v.st[r].sawLocal /\ u.st[r].decoded = v.st[r].decoded
  <2>1. \A r \in R : \A k \in StNames \ {"obj"} : u.st[r][k] = v.st[r][k]
    BY DEF Clearing
  <2> QED
    BY <2>1 DEF StNames
<1>6. /\ Typed(u) /\ u.streams = v.streams /\ u.rqActive = v.rqActive
      /\ u.enc = v.enc /\ u.active = v.active /\ u.last = v.last /\ u.out = v.out
  BY <1>1, <1>4 DEF Typed, Frame, FieldNames, Stops
<1>7. StreamInv(v.streams, v.rqActive, u.st, v.enc, <<>>)
  <2>1. <<>> \in Seq(Items) /\ \A r \in R : ~Has(<<>>, Item(r))
    BY EmptyHas
  <2>2. \A r \in R : (u.st[r].obj = "live" <=> v.st[r].obj = "live") /\ u.st[r].obj # "deferred"
    BY <1>3
  <2> QED
    BY <1>1, <1>4, <2>1, <2>2 DEF StreamInv
<1>8. CodecInv(v.active, v.last, u.st, u.req)
  <2>1. \A r \in R : /\ v.st[r].obj = "live" => u.st[r].obj = "live"
                     /\ v.st[r].obj = "none" => u.st[r].obj = "none"
    BY <1>3
  <2> QED
    BY <1>1, <1>4, <1>5, <2>1 DEF CodecInv
<1>9. OutInv(v.out, v.last, u.st)
  <2>1. \A i \in DOMAIN v.out : v.out[i].r \in R
    <3>1. v.out \in Seq(Writes)
      BY <1>1 DEF OutInv
    <3>2. \A i \in DOMAIN v.out : v.out[i] \in Writes
      BY <3>1
    <3> QED
      BY <3>2 DEF Writes
  <2> QED
    BY <1>1, <1>5, <2>1 DEF OutInv
<1> QED
  BY <1>1, <1>4, <1>6, <1>7, <1>8, <1>9 DEF Core

(* clear_deferred_list.                                                    *)
LEMMA ClearGood ==
    ASSUME NEW v, NEW q, NEW n, NEW b, NEW sp, Good(v, q, n, b, sp), v.abort = "none", v.pc = "idle"
    PROVE  Good(ClearDeferred(v), q, n, b, sp)
<1> DEFINE D == v.deferred
           m == Len(D)
<1>1. Core(v) /\ D \in Seq(Items) /\ m \in Nat
  <2>1. Core(v) /\ D \in Seq(Items)
    BY DEF Good, Core, StreamInv
  <2> QED
    BY <2>1
<1>2. PICK f : PassTurns(f, v) /\ ClearDeferred(v) = f[m]
  BY <1>1, ClearDeferredLoop
<1>3. /\ f[0] = [v EXCEPT !.deferred = <<>>]
      /\ \A i \in 1 .. m : f[i] = DisposeDeferred(f[i - 1], D[i])
  BY <1>2 DEF PassTurns
<1>4. Clearing(v, f[0], 0)
  <2> DEFINE x == f[0]
  <2>1. Shape(v) /\ Typed(v) /\ v.st \in [R -> StRec] /\ v.req \in [R -> ReqRec]
    BY <1>1, CoreRecords
  <2>2. x = [v EXCEPT !.deferred = <<>>]
    BY <1>3
  <2> HIDE DEF x
  <2>3. Frame(v, x, {"deferred"}) /\ x.deferred = <<>>
    BY <2>1, <2>2 DEF Shape, Frame, FieldNames
  <2>4. x.req = v.req /\ x.st = v.st /\ x.dis = v.dis /\ x.abort = v.abort
        /\ Frame(v, x, {"req", "st", "dis", "abort", "deferred"})
    BY <2>3 DEF Frame, FieldNames
  <2>5. v.dis \in 0 .. MaxDisable
    BY <2>1 DEF Typed
  <2>6. \A r \in R : ~(\E j \in 1 .. 0 : v.deferred[j] = Item(r))
    OBVIOUS
  <2> QED
    BY <2>1, <2>3, <2>4, <2>5, <2>6 DEF Clearing, x
<1>5. ASSUME NEW i \in 0 .. m, i # m, Clearing(v, f[i], i) PROVE Clearing(v, f[i + 1], i + 1)
  <2>1. i + 1 \in 1 .. m /\ (i + 1) - 1 = i
    BY <1>1, <1>5
  <2>2. f[i + 1] = DisposeDeferred(f[i], D[i + 1])
    BY <1>3, <2>1
  <2> QED
    BY <1>1, <1>5, <2>2, ClearTurn
<1>6. Clearing(v, f[m], m)
  <2> DEFINE S == {i \in 0 .. m : Clearing(v, f[i], i)}
  <2>1. 0 \in S
    BY <1>1, <1>4
  <2>2. \A i \in 0 .. m : i # m /\ i \in S => i + 1 \in S
    <3> SUFFICES ASSUME NEW i \in 0 .. m, i # m, i \in S PROVE i + 1 \in S
      OBVIOUS
    <3>1. i + 1 \in 0 .. m
      BY <1>1
    <3> QED
      BY <1>5, <3>1
  <2> HIDE DEF S, m
  <2>3. \A i \in 0 .. m : i \in S
    BY <1>1, <2>1, <2>2, UpTo
  <2>4. m \in S
    BY <1>1, <2>3
  <2> QED
    BY <2>4 DEF S
<1> DEFINE u == f[m]
<1>7. Core(u)
  BY <1>1, <1>6, ClearedCore
<1> HIDE DEF u
<1>8. ASSUME u.abort = "none" PROVE FlowInv(u, q, n, sp) /\ QuietInv(u, b) /\ DrainInv(u)
  <2>1. Clearing(v, u, m)
    BY <1>6 DEF u
  <2>2. u.dis = v.dis
    BY <2>1, <1>8 DEF Clearing, Stops
  <2>3. \A r \in R : u.req[r].remote = v.req[r].remote
    BY <2>1 DEF Clearing
  <2>4. /\ u.pc = v.pc /\ u.run = v.run /\ u.data = v.data /\ u.next = v.next /\ u.status = v.status
        /\ u.last = v.last /\ u.deferEnd = v.deferEnd /\ u.active = v.active
        /\ u.streams = v.streams /\ u.net = v.net /\ u.drain = v.drain
    BY <2>1 DEF Clearing, Frame, FieldNames
  <2>5. Keeps(v, u)
    BY <1>7, <1>8, <2>2, <2>3, <2>4 DEF Keeps
  <2>6. FlowInv(v, q, n, sp) /\ QuietInv(v, b) /\ DrainInv(v)
    BY DEF Good
  <2>7. FlowInv(u, q, n, sp)
    BY <1>1, <2>5, <2>6, FlowKept
  <2>8. QuietInv(u, b) /\ DrainInv(u)
    BY <2>4, <2>6 DEF QuietInv, DrainInv
  <2> QED
    BY <2>7, <2>8
<1> QED
  BY <1>2, <1>7, <1>8 DEF Good, u

(* The output was written.                                                 *)
LEMMA FlushedGood ==
    ASSUME NEW v, NEW q, NEW n, NEW b, NEW sp, Good(v, q, n, b, sp), v.abort = "none", v.pc = "idle"
    PROVE  Good([v EXCEPT !.pend = FALSE, !.net = IF @ = "flushing" THEN "closed" ELSE @], q, n, b, sp)
<1> DEFINE m == IF v.net = "flushing" THEN "closed" ELSE v.net
           u == [v EXCEPT !.pend = FALSE, !.net = m]
<1>1. Core(v) /\ Shape(v) /\ Typed(v) /\ FlowInv(v, q, n, sp) /\ QuietInv(v, b) /\ DrainInv(v)
  BY CoreRecords DEF Good
<1>2. m \in {"open", "closed"} /\ (m = "open" <=> v.net = "open")
  BY <1>1 DEF Typed
<1> HIDE DEF m
<1>3. Frame(v, u, {"pend", "net"}) /\ u.pend = FALSE /\ u.net = m
  BY <1>1 DEF Shape, Frame, FieldNames
<1> HIDE DEF u
<1>4. Typed(u) /\ Frame(v, u, Outer)
  BY <1>1, <1>2, <1>3 DEF Typed, Frame, FieldNames, Outer
<1>5. Core(u)
  BY <1>1, <1>4, CoreOuter
<1>6. /\ u.pc = v.pc /\ u.run = v.run /\ u.data = v.data /\ u.next = v.next /\ u.status = v.status
      /\ u.last = v.last /\ u.deferEnd = v.deferEnd /\ u.active = v.active /\ u.req = v.req
      /\ u.streams = v.streams /\ u.drain = v.drain /\ u.dis = v.dis
  BY <1>3 DEF Frame, FieldNames
<1>7. (Received(u) <=> Received(v)) /\ (Receiving(u) <=> Receiving(v))
  BY <1>6 DEF Received, Receiving
<1>8. (Accounted(v, q, n) => Accounted(u, q, n)) /\ (Parsed(u) <=> Parsed(v))
  BY <1>6, <1>7 DEF Accounted, Parsed
<1>9. FlowInv(u, q, n, sp)
  BY <1>1, <1>2, <1>3, <1>6, <1>7, <1>8 DEF FlowInv
<1>10. QuietInv(u, b) /\ DrainInv(u)
  BY <1>1, <1>2, <1>3, <1>6 DEF QuietInv, DrainInv
<1>11. [v EXCEPT !.pend = FALSE, !.net = IF @ = "flushing" THEN "closed" ELSE @] = u
  BY DEF u, m
<1> QED
  BY <1>5, <1>9, <1>10, <1>11 DEF Good

(* The peer has closed the connection.                                     *)
LEMMA RemoteCloseGood ==
    ASSUME NEW v, NEW q, NEW n, NEW b, NEW sp, Good(v, q, n, b, sp), v.abort = "none", v.pc = "idle"
    PROVE  Good(ResetAllStreams([v EXCEPT !.net = "closed"]), q, n, b, sp)
<1> DEFINE x == [v EXCEPT !.net = "closed"]
           u == ResetAllStreams(x)
<1>1. Core(v) /\ Shape(v) /\ Typed(v) /\ FlowInv(v, q, n, sp)
  BY CoreRecords DEF Good
<1>2. Frame(v, x, {"net"}) /\ x.net = "closed"
  BY <1>1 DEF Shape, Frame, FieldNames
<1> HIDE DEF x
<1>3. Typed(x) /\ Frame(v, x, Outer)
  BY <1>1, <1>2 DEF Typed, Frame, FieldNames, Outer
<1>4. Core(x)
  BY <1>1, <1>3, CoreOuter
<1>5. /\ x.pc = v.pc /\ x.run = v.run /\ x.data = v.data /\ x.next = v.next /\ x.status = v.status
      /\ x.last = v.last /\ x.deferEnd = v.deferEnd /\ x.active = v.active /\ x.req = v.req
      /\ x.dis = v.dis
  BY <1>2 DEF Frame, FieldNames
<1>6. (Received(x) <=> Received(v)) /\ (Receiving(x) <=> Receiving(v))
  BY <1>5 DEF Received, Receiving
<1>7. (Accounted(v, q, n) => Accounted(x, q, n)) /\ (Parsed(x) <=> Parsed(v))
  BY <1>5, <1>6 DEF Accounted, Parsed
<1>8. FlowInv(x, q, n, sp)
  BY <1>1, <1>2, <1>5, <1>6, <1>7 DEF FlowInv
<1>9. Core(u) /\ Keeps(x, u) /\ u.streams = <<>>
  BY <1>4, ResetAll
<1> HIDE DEF u
<1>10. FlowInv(u, q, n, sp)
  BY <1>4, <1>5, <1>8, <1>9, FlowKept
<1>11. u.net # "open" /\ u.run = <<>>
  BY <1>2, <1>5, <1>9, <1>1 DEF Keeps, FlowInv
<1> QED
  BY <1>9, <1>10, <1>11 DEF Good, QuietInv, DrainInv, u, x

-----------------------------------------------------------------------------
(* Reads and dispatch.                                                     *)

(* disable_read.                                                           *)
LEMMA ReadDisabled ==
    ASSUME NEW v, Core(v), NEW r \in R
    PROVE  LET u == DisableRead(v, r)
           IN  Core(u) /\ Frame(v, u, {"enc", "dis"}) /\ (u.dis > 0 \/ u.net # "open")
<1> DEFINE e == [v.enc EXCEPT ![r].dis = Count(v.enc[r].dis)]
           x == [v EXCEPT !.enc[r].dis = Count(@)]
           u == DisableRead(v, r)
<1>1. Shape(v) /\ Typed(v) /\ v.enc \in [R -> EncRec] /\ v.dis \in 0 .. MaxDisable
  BY CoreRecords DEF Typed
<1>2. \A d \in 0 .. MaxDisable : Count(d) \in 0 .. MaxDisable /\ Count(d) > 0
  BY DEF Count, MaxDisable
<1>3. /\ e \in [R -> EncRec]
      /\ \A y \in R : e[y].reset = v.enc[y].reset /\ e[y].event = v.enc[y].event
  <2>1. v.enc[r] \in EncRec
    BY <1>1
  <2>2. Count(v.enc[r].dis) \in 0 .. MaxDisable
    BY <1>2, <2>1 DEF EncRec
  <2> QED
    BY <1>1, <2>1, <2>2 DEF EncRec
<1>4. u = ConnReadDisable(x, TRUE)
  BY DEF DisableRead
<1>5. Frame(v, x, {"enc"}) /\ x.enc = e
  BY <1>1 DEF Shape, Frame, FieldNames
<1> HIDE DEF x, e, u
<1>6. Shape(x) /\ x.net = v.net /\ x.dis = v.dis
  BY <1>5 DEF Frame, FieldNames
<1>7. Frame(v, u, {"enc", "dis"}) /\ u.enc = e /\ u.dis \in 0 .. MaxDisable /\ (u.dis > 0 \/ u.net # "open")
  <2>1. CASE ~IsOpen(x)
    <3>1. u = x
      BY <2>1, <1>4 DEF ConnReadDisable
    <3> QED
      BY <2>1, <3>1, <1>1, <1>5, <1>6 DEF Frame, IsOpen
  <2>2. CASE IsOpen(x)
    <3>1. u = [x EXCEPT !.dis = Count(v.dis)]
      BY <2>2, <1>4, <1>6 DEF ConnReadDisable
    <3>2. Frame(x, u, {"dis"}) /\ u.dis = Count(v.dis) /\ u.enc = x.enc
      BY <3>1, <1>6 DEF Shape, Frame, FieldNames
    <3>3. Frame(v, u, {"enc", "dis"})
      BY <3>2, <1>5 DEF Frame
    <3> QED
      BY <3>2, <3>3, <1>1, <1>2, <1>5
  <2> QED
    BY <2>1, <2>2
<1>8. /\ Typed(u) /\ u.streams = v.streams /\ u.rqActive = v.rqActive
      /\ u.st = v.st /\ u.deferred = v.deferred /\ u.active = v.active /\ u.last = v.last
      /\ u.req = v.req /\ u.out = v.out
  BY <1>1, <1>7 DEF Typed, Frame, FieldNames
<1>9. StreamInv(v.streams, v.rqActive, v.st, e, v.deferred)
  BY <1>3 DEF Core, StreamInv
<1>10. Core(u)
  BY <1>7, <1>8, <1>9 DEF Core
<1> QED
  BY <1>7, <1>10 DEF u

(* dispatch while the codec's request is complete: reads are disabled.     *)
LEMMA DispatchBlocked ==
    ASSUME NEW v, Core(v), NEW q, NEW n, NEW b, NEW sp, Received(v), v.run = <<>>, v.status = "Ok",
           v.data # <<>>, ~v.deferEnd, QuietInv(v, b), DrainInv(v)
    PROVE  Good(Dispatch(v), q, n, b, sp)
<1> DEFINE x == DisableRead(v, v.active)
           u == [x EXCEPT !.pc = "tail"]
<1>1. v.active \in R /\ v.active # 0 /\ v.req[v.active].remote
  BY CoreRecords DEF Received
<1>2. Dispatch(v) = u
  BY <1>1 DEF Dispatch
<1>3. Core(x) /\ Frame(v, x, {"enc", "dis"}) /\ (x.dis > 0 \/ x.net # "open")
  BY <1>1, ReadDisabled
<1> HIDE DEF x
<1>4. Shape(x) /\ Typed(x)
  BY <1>3, CoreRecords
<1>5. Frame(x, u, {"pc"}) /\ u.pc = "tail"
  BY <1>4 DEF Shape, Frame, FieldNames
<1> HIDE DEF u
<1>6. Typed(u) /\ Frame(x, u, Outer)
  BY <1>4, <1>5 DEF Typed, Frame, FieldNames, Outer
<1>7. Core(u)
  BY <1>3, <1>6, CoreOuter
<1>8. u.dis = x.dis /\ u.net = x.net
  BY <1>5 DEF Frame, FieldNames
<1>9. Frame(v, u, {"enc", "dis", "pc"})
  BY <1>3, <1>5 DEF Frame
<1>10. /\ u.run = v.run /\ u.data = v.data /\ u.status = v.status /\ u.net = v.net
       /\ u.deferEnd = v.deferEnd /\ u.active = v.active /\ u.req = v.req
       /\ u.streams = v.streams /\ u.drain = v.drain
  BY <1>9 DEF Frame, FieldNames
<1>11. Received(u)
  BY <1>1, <1>10 DEF Received
<1>12. FlowInv(u, q, n, sp)
  BY <1>3, <1>5, <1>8, <1>10, <1>11, NoTokens DEF FlowInv, Parsed
<1>13. QuietInv(u, b) /\ DrainInv(u)
  BY <1>10 DEF QuietInv, DrainInv
<1> QED
  BY <1>2, <1>7, <1>12, <1>13 DEF Good

(* dispatch after an error: the assertion of dispatch_slice.               *)
LEMMA DispatchAborts ==
    ASSUME NEW v, Core(v), NEW q, NEW n, NEW b, NEW sp, ~Received(v), v.status # "Ok"
    PROVE  Good(Dispatch(v), q, n, b, sp)
<1> DEFINE x == [v EXCEPT !.paused = FALSE]
           u == [x EXCEPT !.abort = "dispatch_slice:122"]
<1>1. Shape(v) /\ Typed(v)
  BY CoreRecords
<1>2. Shape(x) /\ x.status = v.status /\ Frame(v, x, {"paused"}) /\ x.paused = FALSE
  BY <1>1 DEF Shape, Frame, FieldNames
<1>3. Dispatch(v) = u
  BY <1>2 DEF Dispatch, Received, ExecuteSlice
<1> HIDE DEF x
<1>4. Frame(x, u, {"abort"}) /\ u.abort = "dispatch_slice:122"
  BY <1>2 DEF Shape, Frame, FieldNames
<1> HIDE DEF u
<1>5. Frame(v, u, {"paused", "abort"})
  BY <1>2, <1>4 DEF Frame
<1>6. u.paused = FALSE
  BY <1>2, <1>4 DEF Frame, FieldNames
<1>7. Typed(u) /\ Frame(v, u, Outer)
  BY <1>1, <1>4, <1>5, <1>6 DEF Typed, Frame, FieldNames, Outer
<1>8. Core(u)
  BY <1>7, CoreOuter
<1> QED
  BY <1>3, <1>4, <1>8 DEF Good

(* A slice of tokens that takes the client from (q, n) to (p, m).          *)
IsSlice(s, q, n, p, m) ==
    /\ s \in Seq(Tok) /\ s # <<>> /\ Rest(s, m) /\ (Begins(s) <=> n = 0)
    /\ Counts(s, Sent(q, n), Sent(p, m))

(* readcb.                                                                 *)
LEMMA OnDataGood ==
    ASSUME NEW v, NEW q \in Nat, NEW n \in Nat, NEW b, NEW sp, Good(v, q, n, b, sp), v.abort = "none",
           v.pc = "idle", v.net = "open", v.dis = 0,
           NEW s, NEW p \in Nat, NEW m \in Nat, IsSlice(s, q, n, p, m), NEW sp2, ~sp2 => Single(s)
    PROVE  Good(Dispatch([v EXCEPT !.data = Append(@, s)]), p, m, b, sp2)
<1> DEFINE x == [v EXCEPT !.data = Append(@, s)]
           D == Append(v.data, s)
<1>1. Core(v) /\ Shape(v) /\ Typed(v) /\ FlowInv(v, q, n, sp) /\ QuietInv(v, b) /\ DrainInv(v)
  BY CoreRecords DEF Good
<1>2. s \in Seq(Tok) /\ s # <<>>
  BY DEF IsSlice
<1>3. D \in Seq(Seq(Tok)) /\ D # <<>>
  <2>1. v.data \in Seq(Seq(Tok))
    BY <1>1 DEF Typed
  <2>2. D \in Seq(Seq(Tok)) /\ Len(D) = Len(v.data) + 1 /\ Len(v.data) \in Nat
    BY <1>2, <2>1, AppendProperties
  <2> HIDE DEF D
  <2> QED
    BY <2>2, EmptySeq
<1>4. v.data = <<>> => Len(D) = 1 /\ Head(D) = s
  OBVIOUS
<1> HIDE DEF D
<1>5. Frame(v, x, {"data"}) /\ x.data = D
  BY <1>1 DEF Shape, Frame, FieldNames, D
<1> HIDE DEF x
<1>6. Typed(x) /\ Frame(v, x, Outer)
  BY <1>1, <1>3, <1>5 DEF Typed, Frame, FieldNames, Outer
<1>7. Core(x)
  BY <1>1, <1>6, CoreOuter
<1>8. /\ x.run = v.run /\ x.status = v.status /\ x.net = v.net /\ x.abort = v.abort
      /\ x.deferEnd = v.deferEnd /\ x.active = v.active /\ x.req = v.req /\ x.last = v.last
      /\ x.streams = v.streams /\ x.drain = v.drain
  BY <1>5 DEF Frame, FieldNames
<1>9. (Received(x) <=> Received(v)) /\ (Receiving(x) <=> Receiving(v))
  BY <1>8 DEF Received, Receiving
<1>10. QuietInv(x, b) /\ DrainInv(x)
  BY <1>1, <1>8 DEF QuietInv, DrainInv
<1>11. v.run = <<>> /\ ~v.deferEnd
  BY <1>1 DEF FlowInv
<1>12. CASE v.status # "Ok"
  <2>1. ~Received(x)
    BY <1>12, <1>9, <1>1 DEF FlowInv
  <2> QED
    BY <2>1, <1>7, <1>8, <1>12, DispatchAborts DEF x
<1>13. CASE v.status = "Ok" /\ Received(v)
  BY <1>13, <1>3, <1>5, <1>7, <1>8, <1>9, <1>10, <1>11, DispatchBlocked DEF x
<1>14. CASE v.status = "Ok" /\ ~Received(v)
  <2> DEFINE z == [x EXCEPT !.paused = FALSE]
             u == [z EXCEPT !.run = s, !.pc = "parse"]
  <2>1. v.data = <<>>
    BY <1>14, <1>1 DEF FlowInv
  <2>2. Shape(x)
    BY <1>6 DEF Typed
  <2>3. Frame(x, z, {"paused"}) /\ z.paused = FALSE
    BY <2>2 DEF Shape, Frame, FieldNames
  <2>4. Dispatch(x) = ExecuteSlice(z)
    BY <1>9, <1>14 DEF Dispatch, Received
  <2> HIDE DEF z
  <2>5. z.status = "Ok" /\ z.data = D /\ Shape(z)
    BY <1>5, <1>8, <1>14, <2>3 DEF Frame, FieldNames
  <2>6. Dispatch(x) = u
    <3>1. ExecuteSlice(z) = [z EXCEPT !.run = Head(z.data), !.pc = "parse"]
      BY <2>5 DEF ExecuteSlice
    <3> QED
      BY <3>1, <2>1, <2>4, <2>5, <1>4
  <2>7. Frame(z, u, {"run", "pc"}) /\ u.run = s /\ u.pc = "parse"
    BY <2>5 DEF Shape, Frame, FieldNames
  <2> HIDE DEF u
  <2>8. Frame(x, u, {"paused", "run", "pc"}) /\ u.paused = FALSE
    BY <2>3, <2>7 DEF Frame, FieldNames
  <2>9. Typed(u) /\ Frame(x, u, Outer)
    BY <1>2, <1>6, <2>7, <2>8 DEF Typed, Frame, FieldNames, Outer
  <2>10. Core(u)
    BY <1>7, <2>9, CoreOuter
  <2>11. /\ u.status = x.status /\ u.net = x.net /\ u.data = x.data
         /\ u.deferEnd = x.deferEnd /\ u.active = x.active /\ u.req = x.req /\ u.last = x.last
         /\ u.streams = x.streams /\ u.drain = x.drain
    BY <2>8 DEF Frame, FieldNames
  <2>12. ~Received(u) /\ (Receiving(u) => Receiving(v))
    BY <1>9, <1>14, <2>11 DEF Received, Receiving
  <2>13. Accounted(v, q, n)
    BY <1>1, <1>14, <2>1 DEF FlowInv
  <2>14. v.last = Sent(q, n) /\ (Receiving(v) => n > 0)
    BY <2>13, <1>8, <1>11, CountsNone DEF Accounted
  <2>15. Rest(s, m) /\ (Begins(s) <=> n = 0) /\ Counts(s, Sent(q, n), Sent(p, m))
    BY DEF IsSlice
  <2>17. Accounted(u, p, m)
    <3>1. Counts(s, u.last, Sent(p, m))
      BY <1>8, <2>11, <2>14, <2>15
    <3>3. Receiving(u) => ~Begins(s)
      BY <2>12, <2>14, <2>15
    <3> QED
      BY <3>1, <3>3, <2>7, <2>15, <1>2 DEF Accounted
  <2>18. FlowInv(u, p, m, sp2)
    BY <1>4, <1>5, <1>8, <1>11, <1>14, <2>1, <2>7, <2>11, <2>12, <2>17 DEF FlowInv, Parsed
  <2>19. QuietInv(u, b) /\ DrainInv(u)
    BY <1>8, <1>10, <2>11 DEF QuietInv, DrainInv
  <2> QED
    BY <2>6, <2>10, <2>18, <2>19 DEF Good, x
<1> QED
  BY <1>12, <1>13, <1>14

(* The end of on_data, or its next turn.                                   *)
LEMMA DoneGood ==
    ASSUME NEW v, NEW q, NEW n, NEW b, NEW sp, Good(v, q, n, b, sp), v.abort = "none", v.pc \in {"done", "tail"}
    PROVE  LET c == CheckForDeferredClose(v)
           IN  /\ ~(v.pc = "done" /\ Received(v) /\ v.data # <<>>)
               /\ IsOpen(c) /\ c.data # <<>> /\ c.streams = <<>> => Good(Dispatch(c), q, n, b, sp)
               /\ Good([c EXCEPT !.pc = "idle"], q, n, b, sp)
<1> DEFINE c == CheckForDeferredClose(v)
           u == [c EXCEPT !.pc = "idle"]
<1>1. Core(v) /\ FlowInv(v, q, n, sp) /\ QuietInv(v, b)
  BY DEF Good
<1>2. v.run = <<>> /\ ~v.deferEnd
  BY <1>1 DEF FlowInv
<1>3. ~(v.pc = "done" /\ Received(v) /\ v.data # <<>>)
  BY <1>1 DEF FlowInv
<1>4. Keeps(v, c) /\ DrainInv(c) /\ Frame(v, c, {"net"})
  BY <1>1, CloseChecked
<1> HIDE DEF c
<1>5. Core(c) /\ QuietInv(c, b) /\ (v.net # "open" => c.net # "open")
  <2>1. Core(c) /\ (v.net # "open" => c.net # "open")
    BY <1>4 DEF Keeps
  <2> QED
    BY <2>1, <1>1, <1>2, <1>4, QuietKept
<1>6. /\ c.pc = v.pc /\ c.run = v.run /\ c.data = v.data /\ c.status = v.status /\ c.last = v.last
      /\ c.deferEnd = v.deferEnd /\ c.active = v.active /\ c.req = v.req /\ c.dis = v.dis
      /\ c.streams = v.streams /\ c.drain = v.drain /\ c.abort = v.abort
  BY <1>4 DEF Frame, FieldNames
<1>7. (Received(c) <=> Received(v)) /\ (Receiving(c) <=> Receiving(v))
  BY <1>6 DEF Received, Receiving
<1>8. ASSUME c.data # <<>> PROVE Good(Dispatch(c), q, n, b, sp)
  <2>1. CASE c.status # "Ok"
    <3>1. ~Received(c)
      BY <2>1, <1>1, <1>6, <1>7 DEF FlowInv
    <3> QED
      BY <2>1, <3>1, <1>5, DispatchAborts
  <2>2. CASE c.status = "Ok"
    <3>1. v.pc = "tail"
      BY <2>2, <1>1, <1>6, <1>8 DEF FlowInv
    <3>2. Received(c)
      BY <3>1, <1>1, <1>7 DEF FlowInv
    <3> QED
      BY <2>2, <3>2, <1>2, <1>4, <1>5, <1>6, <1>8, DispatchBlocked
  <2> QED
    BY <2>1, <2>2
<1>9. Good(u, q, n, b, sp)
  <2>1. Shape(c) /\ Typed(c)
    BY <1>5, CoreRecords
  <2>2. Frame(c, u, {"pc"}) /\ u.pc = "idle"
    BY <2>1 DEF Shape, Frame, FieldNames
  <2> HIDE DEF u
  <2>3. Typed(u) /\ Frame(c, u, Outer)
    BY <2>1, <2>2 DEF Typed, Frame, FieldNames, Outer
  <2>4. Core(u)
    BY <1>5, <2>3, CoreOuter
  <2>5. /\ u.run = c.run /\ u.data = c.data /\ u.status = c.status /\ u.last = c.last
        /\ u.deferEnd = c.deferEnd /\ u.active = c.active /\ u.req = c.req /\ u.dis = c.dis
        /\ u.streams = c.streams /\ u.drain = c.drain /\ u.net = c.net
    BY <2>2 DEF Frame, FieldNames
  <2>6. (Received(u) <=> Received(v)) /\ (Receiving(u) <=> Receiving(v))
    BY <1>7, <2>5 DEF Received, Receiving
  <2>7. CASE v.pc = "done" /\ v.status = "Ok"
    <3>1. v.data = <<>> /\ Accounted(v, q, n)
      BY <2>7, <1>1 DEF FlowInv
    <3>2. Accounted(u, q, n)
      BY <3>1, <2>2, <2>5, <2>6, <2>7, <1>6 DEF Accounted
    <3> QED
      BY <3>1, <3>2, <2>2, <2>4, <2>5, <2>6, <2>7, <1>2, <1>4, <1>5, <1>6, NoTokens
      DEF Good, FlowInv, QuietInv, DrainInv, Parsed
  <2>8. CASE v.pc = "tail"
    <3>1. v.data # <<>> /\ Received(v) /\ (v.dis > 0 \/ v.net # "open") /\ v.status = "Ok"
      BY <2>8, <1>1 DEF FlowInv
    <3> QED
      BY <3>1, <2>2, <2>4, <2>5, <2>6, <2>8, <1>2, <1>4, <1>5, <1>6, NoTokens
      DEF Good, FlowInv, QuietInv, DrainInv, Parsed
  <2>9. CASE v.status # "Ok"
    <3>1. ~Received(v)
      BY <2>9, <1>1 DEF FlowInv
    <3> QED
      BY <3>1, <2>2, <2>4, <2>5, <2>6, <2>9, <1>2, <1>4, <1>5, <1>6, NoTokens
      DEF Good, FlowInv, QuietInv, DrainInv, Parsed
  <2> QED
    BY <2>7, <2>8, <2>9
<1> QED
  BY <1>3, <1>8, <1>9 DEF c

-----------------------------------------------------------------------------
(* Decoding.                                                               *)

(* decode_headers, for a stream that has just begun.                       *)
LEMMA DecodeHeadersKeeps ==
    ASSUME NEW v, Core(v), v.active # 0, v.st[v.active].obj = "live", ~v.st[v.active].sawLocal,
           v.st[v.active].app = "none", NEW end \in BOOLEAN, end => v.req[v.active].remote
    PROVE  LET u == DecodeHeaders(v, end)
           IN  Core(u) /\ Keeps(v, u) /\ DrainInv(u)
<1> DEFINE r == v.active
           g == kind[r] = "close"
           d == IF end THEN "end" ELSE "headers"
           x == [v EXCEPT !.st[r].lastByte = TRUE, !.st[r].shouldDrain = g, !.st[r].decoded = d]
           t == [v.st EXCEPT ![r].lastByte = TRUE, ![r].shouldDrain = g, ![r].decoded = d]
           y == [x EXCEPT !.st[r].app = IF @ = "none" THEN "called" ELSE @]
           u == DecodeHeaders(v, end)
<1>1. /\ Shape(v) /\ v.st \in [R -> StRec] /\ r \in R /\ r # 0 /\ r <= v.last /\ v.streams # <<>>
  BY CoreRecords, LiveStream
<1>2. g \in BOOLEAN /\ d \in {"none", "headers", "end"} /\ (d = "end" => end)
  OBVIOUS
<1>3. u = IF kind[r] = "nohost" THEN SendLocalReply(x, r) ELSE y
  BY DEF DecodeHeaders
<1> HIDE DEF g, d, r
<1>4. /\ Sets(t, v.st, r, {"lastByte", "shouldDrain", "decoded"})
      /\ t[r].lastByte /\ t[r].decoded = d
  <2>1. v.st[r] \in StRec
    BY <1>1
  <2> QED
    BY <1>1, <1>2, <2>1 DEF Sets, StRec, StNames
<1>5. Frame(v, x, {"st"}) /\ x.st = t
  BY <1>1 DEF Shape, Frame, FieldNames
<1> HIDE DEF t
<1>6. y = [x EXCEPT !.st[r].app = IF x.st[r].app = "none" THEN "called" ELSE x.st[r].app]
  BY <1>1, <1>5 DEF y
<1> HIDE DEF x, y, u
<1>7. x.st[r].obj = "live" /\ x.st[r].app = "none" /\ ~x.st[r].sawLocal /\ x.st[r].lastByte
  BY <1>4, <1>5 DEF Sets, StNames, r
<1>8. Core(x) /\ Keeps(v, x)
  <2>1. x.st[r].obj = v.st[r].obj /\ x.st[r].app = v.st[r].app
    BY <1>4, <1>5 DEF Sets, StNames
  <2>2. v.active = r /\ x.st[r].decoded = "end" => v.req[r].remote
    BY <1>2, <1>4, <1>5 DEF r
  <2>3. x.st[r].app \notin {"called", "headers"}
    BY <1>7
  <2> QED
    BY <1>1, <1>4, <1>5, <2>1, <2>2, <2>3, KeepsSet
<1>9. x.active = r /\ x.streams = v.streams
  BY <1>5 DEF Frame, FieldNames, r
<1>10. CASE kind[r] = "nohost"
  <2>1. u = SendLocalReply(x, x.active)
    BY <1>3, <1>9, <1>10
  <2>2. Core(u) /\ Keeps(x, u) /\ DrainInv(u)
    BY <1>1, <1>7, <1>8, <1>9, <2>1, LocalReplyKeeps
  <2>3. Keeps(v, u)
    BY <1>8, <2>2, KeepsTrans
  <2> QED
    BY <2>2, <2>3 DEF u
<1>11. CASE kind[r] # "nohost"
  <2>1. u = [x EXCEPT !.st[r].app = "called"]
    BY <1>3, <1>6, <1>7, <1>11
  <2>2. Frame(x, u, {"st"}) /\ Sets(u.st, x.st, r, {"app"}) /\ u.st[r].app = "called"
    <3>1. "called" \in {"none", "called", "headers", "done"}
      OBVIOUS
    <3>2. Shape(x) /\ x.st \in [R -> StRec] /\ r \in R
      BY <1>1, <1>8, CoreRecords
    <3>3. IsSetApp(x, u, r, "called")
      BY <2>1 DEF IsSetApp
    <3> QED
      BY <3>1, <3>2, <3>3, SetApp
  <2>3. /\ u.st[r].obj = x.st[r].obj /\ u.st[r].lastByte /\ ~u.st[r].sawLocal
        /\ u.st[r].decoded = x.st[r].decoded
    BY <1>7, <2>2 DEF Sets, StNames
  <2>4. x.active = r /\ u.st[r].decoded = "end" => x.req[r].remote
    <3>1. CodecInv(x.active, x.last, x.st, x.req)
      BY <1>8 DEF Core
    <3>2. x.active = r /\ x.st[r].decoded = "end" => x.req[r].remote
      BY <1>1, <3>1 DEF CodecInv
    <3> QED
      BY <2>3, <3>2
  <2>5. r <= x.last
    BY <1>1, <1>5 DEF Frame, FieldNames
  <2>6. Core(u) /\ Keeps(x, u)
    BY <1>1, <1>7, <1>8, <1>9, <2>2, <2>3, <2>4, <2>5, KeepsSet
  <2>7. Keeps(v, u)
    BY <1>8, <2>6, KeepsTrans
  <2>8. u.streams = v.streams
    BY <1>9, <2>2 DEF Frame, FieldNames
  <2> QED
    BY <1>1, <2>6, <2>7, <2>8 DEF DrainInv, u
<1> QED
  BY <1>10, <1>11

(* decode_data.                                                            *)
LEMMA DecodeDataKeeps ==
    ASSUME NEW v, Core(v), v.active # 0, NEW end \in BOOLEAN, end => v.req[v.active].remote
    PROVE  LET u == DecodeData(v, end)
           IN  Core(u) /\ Keeps(v, u) /\ Frame(v, u, {"st"})
<1> DEFINE r == v.active
           d == IF end THEN "end" ELSE v.st[r].decoded
           u == [v EXCEPT !.st[r].decoded = d]
<1>1. Shape(v) /\ v.st \in [R -> StRec] /\ r \in R /\ r # 0 /\ r <= v.last
  BY CoreRecords DEF R
<1>2. d \in {"none", "headers", "end"}
  BY <1>1 DEF StRec
<1>3. DecodeData(v, end) = u
  BY DEF DecodeData
<1>4. v.active = r /\ d = "end" => v.req[r].remote
  BY <1>1 DEF Core, CodecInv
<1> HIDE DEF r, d
<1>5. IsSetDecoded(v, u, r, d)
  BY DEF IsSetDecoded
<1> HIDE DEF u
<1>6. Frame(v, u, {"st"}) /\ Sets(u.st, v.st, r, {"decoded"}) /\ u.st[r].decoded = d
  <2>1. Shape(v) /\ v.st \in [R -> StRec] /\ r \in R
    BY <1>1
  <2> QED
    BY <1>2, <1>5, <2>1, SetDecoded
<1>7. /\ u.st[r].obj = v.st[r].obj /\ u.st[r].app = v.st[r].app
      /\ u.st[r].lastByte = v.st[r].lastByte /\ u.st[r].sawLocal = v.st[r].sawLocal
  BY <1>6 DEF Sets, StNames
<1>8. u.st[r].app \in {"called", "headers"} =>
         /\ v.active = r /\ u.st[r].obj = "live"
         /\ u.st[r].lastByte /\ ~u.st[r].sawLocal
  <2>1. v.st[r].app \in {"called", "headers"} =>
           v.active = r /\ v.st[r].obj = "live" /\ v.st[r].lastByte /\ ~v.st[r].sawLocal
    BY <1>1 DEF Core, CodecInv
  <2> QED
    BY <1>7, <2>1
<1>9. Core(u) /\ Keeps(v, u)
  BY <1>1, <1>4, <1>6, <1>7, <1>8, KeepsSet
<1> QED
  BY <1>3, <1>6, <1>9 DEF u

(* on_message_begin: the next request, with its stream unless the codec    *)
(* was reset.                                                              *)
Begun(v, u) ==
    /\ Core(u) /\ Frame(v, u, {"last", "st", "rqActive", "streams", "enc", "active", "req"})
    /\ u.last = v.last + 1 /\ (u.streams = <<>> => v.streams = <<>>)
    /\ u.active # 0 => /\ u.st[u.active].obj = "live" /\ ~u.st[u.active].sawLocal
                       /\ u.st[u.active].app = "none" /\ ~u.req[u.active].remote

(* on_message_begin_base of a codec without a request does that.           *)
LEMMA MessageBegins ==
    ASSUME NEW v, Core(v), v.active = 0, v.last < N
    PROVE  Begun(v, OnMessageBegin(v))
<1> DEFINE r == v.last + 1
           x == [v EXCEPT !.last = r]
           t == [v.st EXCEPT ![r].obj = "live"]
           e == [v.enc EXCEPT ![r] = [dis |-> 0, reset |-> TRUE, event |-> TRUE]]
           Q == [v.req EXCEPT ![r].obj = "live"]
           s == Append(v.streams, r)
           u == OnMessageBegin(v)
<1>1. /\ Shape(v) /\ Typed(v) /\ v.st \in [R -> StRec] /\ v.enc \in [R -> EncRec]
      /\ v.req \in [R -> ReqRec] /\ v.last \in 0 .. N
  BY CoreRecords
<1>2. r \in R /\ r \in 0 .. N /\ r > v.last /\ r # 0
  BY <1>1, NAssumption DEF R
<1>3. StreamInv(v.streams, v.rqActive, v.st, v.enc, v.deferred) /\ CodecInv(0, v.last, v.st, v.req)
      /\ OutInv(v.out, v.last, v.st)
  BY DEF Core
<1>4. /\ v.st[r].obj = "none" /\ v.st[r].app = "none" /\ v.st[r].decoded # "end"
      /\ ~v.st[r].sawLocal /\ ~v.req[r].remote
  BY <1>2, <1>3 DEF CodecInv
<1>5. \A y \in R : y > r => y > v.last
  BY <1>1, <1>2 DEF R
<1>6. Frame(v, x, {"last"}) /\ x.last = r
  BY <1>1 DEF Shape, Frame, FieldNames
<1>7. \A i \in DOMAIN v.out : v.out[i].r <= r
  <2>1. v.out \in Seq(Writes)
    BY <1>3 DEF OutInv
  <2>2. \A i \in DOMAIN v.out : v.out[i] \in Writes
    BY <2>1
  <2>3. \A i \in DOMAIN v.out : v.out[i].r \in R
    BY <2>2 DEF Writes
  <2>4. \A i \in DOMAIN v.out : v.out[i].r <= v.last
    BY <1>3 DEF OutInv
  <2> QED
    BY <2>3, <2>4, <1>1, <1>2 DEF R
<1>8. CASE v.resetCalled
  <2>1. u = x
    BY <1>8 DEF OnMessageBegin
  <2> HIDE DEF x, u, r
  <2>2. /\ Typed(x) /\ x.streams = v.streams /\ x.rqActive = v.rqActive
        /\ x.st = v.st /\ x.enc = v.enc /\ x.deferred = v.deferred /\ x.active = v.active
        /\ x.req = v.req /\ x.out = v.out
    BY <1>1, <1>6 DEF Typed, Frame, FieldNames
  <2>3. CodecInv(0, r, v.st, v.req)
    BY <1>2, <1>3, <1>5 DEF CodecInv
  <2>4. OutInv(v.out, r, v.st)
    BY <1>3, <1>7 DEF OutInv
  <2>5. Core(x)
    BY <1>3, <1>6, <2>2, <2>3, <2>4 DEF Core
  <2>6. Frame(v, x, {"last", "st", "rqActive", "streams", "enc", "active", "req"})
    BY <1>6 DEF Frame
  <2> QED
    BY <1>6, <2>1, <2>2, <2>5, <2>6 DEF Begun, r, u
<1>9. CASE ~v.resetCalled
  <2> DEFINE y == [x EXCEPT !.st[r].obj = "live", !.rqActive = @ + 1, !.streams = Append(@, r),
                            !.enc[r] = [dis |-> 0, reset |-> TRUE, event |-> TRUE]]
  <2>1. u = [y EXCEPT !.active = r, !.req[r].obj = "live"]
    BY <1>9 DEF OnMessageBegin, NewStream
  <2>2. /\ Sets(t, v.st, r, {"obj"}) /\ t[r].obj = "live"
    <3>1. v.st[r] \in StRec
      BY <1>1, <1>2
    <3>2. "live" \in Objects
      BY DEF Objects
    <3> HIDE DEF r
    <3> QED
      BY <1>1, <1>2, <3>1, <3>2 DEF Sets, StRec, StNames
  <2>3. /\ e \in [R -> EncRec] /\ e[r].reset /\ e[r].event
        /\ \A z \in R : z # r => e[z] = v.enc[z]
    <3>1. [dis |-> 0, reset |-> TRUE, event |-> TRUE] \in EncRec
      BY DEF EncRec, MaxDisable
    <3> HIDE DEF r
    <3> QED
      BY <1>1, <1>2, <3>1
  <2>4. Q \in [R -> ReqRec] /\ \A z \in R : Q[z].remote = v.req[z].remote
    <3> HIDE DEF r
    <3> QED
      BY <1>1, <1>2 DEF ReqRec, Objects
  <2>5. ~Has(v.streams, r)
    BY <1>2, <1>3, <1>4 DEF StreamInv
  <2>6. /\ s \in Seq(R) /\ Len(s) = Len(v.streams) + 1 /\ Inj(s)
        /\ \A z : Has(s, z) <=> Has(v.streams, z) \/ z = r
    <3>1. v.streams \in Seq(R) /\ Inj(v.streams)
      BY <1>3 DEF StreamInv
    <3> HIDE DEF r
    <3> QED
      BY <1>2, <2>5, <3>1, AppendHas
  <2> HIDE DEF x, u, r
  <2>7. /\ Frame(x, y, {"st", "rqActive", "streams", "enc"})
        /\ y.st = t /\ y.rqActive = v.rqActive + 1 /\ y.streams = s /\ y.enc = e
    <3>1. Shape(x) /\ x.st = v.st /\ x.rqActive = v.rqActive /\ x.streams = v.streams /\ x.enc = v.enc
      BY <1>6 DEF Frame, FieldNames
    <3>2. Shape(y)
      BY <3>1 DEF Shape, FieldNames
    <3>3. \A k \in FieldNames \ {"st", "rqActive", "streams", "enc"} : y[k] = x[k]
      BY <3>1 DEF Shape, FieldNames
    <3>4. y.st = [x.st EXCEPT ![r].obj = "live"] /\ y.rqActive = x.rqActive + 1
      BY <3>1 DEF Shape, FieldNames
    <3>5. y.streams = Append(x.streams, r)
      BY <3>1 DEF Shape, FieldNames
    <3>6. y.enc = [x.enc EXCEPT ![r] = [dis |-> 0, reset |-> TRUE, event |-> TRUE]]
      BY <3>1 DEF Shape, FieldNames
    <3> QED
      BY <3>1, <3>2, <3>3, <3>4, <3>5, <3>6 DEF Frame
  <2> HIDE DEF y, t, s, e
  <2>8. Frame(y, u, {"active", "req"}) /\ u.active = r /\ u.req = Q
    <3>1. Shape(y) /\ y.req = v.req
      BY <1>6, <2>7 DEF Frame, FieldNames
    <3> QED
      BY <2>1, <3>1 DEF Shape, Frame, FieldNames
  <2> HIDE DEF Q
  <2>9. Frame(v, u, {"last", "st", "rqActive", "streams", "enc", "active", "req"})
    BY <1>6, <2>7, <2>8 DEF Frame
  <2>10. u.last = r /\ u.st = t /\ u.rqActive = v.rqActive + 1 /\ u.streams = s /\ u.enc = e
    BY <1>6, <2>7, <2>8 DEF Frame, FieldNames
  <2>11. /\ Typed(u) /\ u.deferred = v.deferred /\ u.out = v.out
    BY <1>1, <2>9 DEF Typed, Frame, FieldNames
  <2>12. StreamInv(s, v.rqActive + 1, t, e, v.deferred)
    <3>1. ASSUME NEW z \in R
          PROVE  /\ t[z].obj = "live" <=> Has(s, z)
                 /\ e[z].reset <=> Has(s, z)
                 /\ e[z].event <=> Has(s, z)
                 /\ t[z].obj = "deferred" <=> Has(v.deferred, Item(z))
      <4>1. CASE z = r
        <5>1. ~Has(v.deferred, Item(r))
          BY <1>2, <1>3, <1>4 DEF StreamInv
        <5> QED
          BY <4>1, <5>1, <2>2, <2>3, <2>6
      <4>2. CASE z # r
        <5>1. t[z] = v.st[z] /\ e[z] = v.enc[z] /\ (Has(s, z) <=> Has(v.streams, z))
          BY <4>2, <2>2, <2>3, <2>6 DEF Sets
        <5> QED
          BY <5>1, <1>3 DEF StreamInv
      <4> QED
        BY <4>1, <4>2
    <3>2. t \in [R -> StRec]
      BY <2>2 DEF Sets
    <3>3. v.rqActive + 1 = Len(s) /\ v.deferred \in Seq(Items)
      BY <1>3, <2>6 DEF StreamInv
    <3> QED
      BY <3>1, <3>2, <3>3, <2>3, <2>6 DEF StreamInv
  <2>13. t[r].app = "none" /\ t[r].decoded # "end" /\ ~t[r].sawLocal
    BY <1>4, <2>2 DEF Sets, StNames
  <2>14. CodecInv(r, r, t, Q)
    <3>1. ASSUME NEW z \in R
          PROVE  /\ t[z].app \in {"called", "headers"} =>
                       r = z /\ t[z].obj = "live" /\ t[z].lastByte /\ ~t[z].sawLocal
                 /\ r = z /\ t[z].decoded = "end" => Q[z].remote
                 /\ z > r => /\ t[z].obj = "none" /\ t[z].app = "none" /\ t[z].decoded # "end"
                             /\ ~t[z].sawLocal /\ ~Q[z].remote
      <4>1. CASE z = r
        <5>1. ~(z > r)
          BY <4>1, <1>2 DEF R
        <5> QED
          BY <4>1, <5>1, <2>13
      <4>2. CASE z # r
        <5>1. t[z] = v.st[z] /\ (Q[z].remote <=> v.req[z].remote) /\ z # 0
          BY <4>2, <2>2, <2>4 DEF Sets, R
        <5> QED
          BY <4>2, <5>1, <1>3, <1>5 DEF CodecInv
      <4> QED
        BY <4>1, <4>2
    <3> QED
      BY <3>1, <1>2, <2>4 DEF CodecInv
  <2>15. OutInv(v.out, r, t)
    <3>1. OutInv(v.out, r, v.st)
      BY <1>3, <1>7 DEF OutInv
    <3> QED
      BY <1>2, <1>4, <2>2, <3>1, OutSet
  <2>16. Core(u)
    BY <1>3, <2>8, <2>10, <2>11, <2>12, <2>14, <2>15 DEF Core
  <2>17. u.streams # <<>>
    BY <2>6, <2>10, EmptyHas
  <2>18. ~u.req[r].remote
    BY <1>2, <1>4, <2>4, <2>8
  <2> QED
    BY <2>2, <2>8, <2>9, <2>10, <2>13, <2>16, <2>17, <2>18 DEF Begun, r, u
<1> QED
  BY <1>8, <1>9

-----------------------------------------------------------------------------
(* The parser.                                                             *)

(* One token less.  What follows the end of a request begins one, if       *)
(* anything does; an incomplete request goes on.                           *)
LEMMA TailRest ==
    ASSUME NEW u \in Seq(Tok), u # <<>>, NEW n \in Nat, Rest(u, n)
    PROVE  LET t == Tail(u)
           IN  /\ t \in Seq(Tok) /\ Rest(t, n) /\ Head(u) = u[1] /\ u[1] \in Tok
               /\ u[1] \in {"G", "X", "E"} => Whole(t) /\ (t = <<>> => n = 0)
               /\ u[1] \in {"H", "B"} => ~Begins(t) /\ (t = <<>> => n > 0)
               /\ Single(u) => Single(t) /\ ~Begins(t)
<1> DEFINE t == Tail(u)
<1>1. /\ t \in Seq(Tok) /\ Len(t) = Len(u) - 1 /\ Len(u) \in Nat /\ Len(u) > 0 /\ Head(u) = u[1]
      /\ u[1] \in Tok /\ \A i \in 1 .. Len(t) : t[i] = u[i + 1]
  <2>1. Len(u) \in Nat /\ Len(u) > 0
    BY EmptySeq
  <2>2. 1 \in 1 .. Len(u)
    BY <2>1
  <2> QED
    BY <2>1, <2>2
<1> HIDE DEF t
<1>2. t = <<>> <=> Len(u) = 1
  <2>1. t = <<>> <=> Len(t) = 0
    BY <1>1, EmptySeq
  <2> QED
    BY <1>1, <2>1
<1>3. \A i \in 1 .. Len(u) - 1 : Follows(u[i], u[i + 1])
  BY DEF Rest
<1>4. \/ n = 0 /\ u[Len(u)] \in {"G", "X", "E"}
      \/ n = 1 /\ u[Len(u)] = "H"
      \/ n = 2 /\ u[Len(u)] = "B"
  BY DEF Rest
<1>5. CASE Len(u) = 1
  <2>1. t = <<>> /\ u[Len(u)] = u[1]
    BY <1>2, <1>5
  <2>2. /\ t \in Seq(Tok) /\ Rest(t, n) /\ Whole(t) /\ ~Begins(t) /\ Single(t)
    BY <2>1, <1>1, NoTokens
  <2>3. /\ u[1] \in {"G", "X", "E"} => n = 0
        /\ u[1] \in {"H", "B"} => n > 0
    BY <2>1, <1>4
  <2> QED
    BY <2>2, <2>3, <1>1 DEF t
<1>6. CASE Len(u) > 1
  <2>1. 1 \in 1 .. Len(u) - 1 /\ Len(t) \in 1 .. Len(t) /\ Len(t) + 1 = Len(u) /\ 1 \in 1 .. Len(t)
    BY <1>1, <1>6
  <2>2. t # <<>> /\ t[Len(t)] = u[Len(u)] /\ t[1] = u[1 + 1]
    BY <2>1, <1>1, <1>2, <1>6
  <2>3. Follows(u[1], t[1])
    BY <2>1, <2>2, <1>3
  <2>4. \A i \in 1 .. Len(t) - 1 : Follows(t[i], t[i + 1])
    <3> SUFFICES ASSUME NEW i \in 1 .. Len(t) - 1
                 PROVE  Follows(t[i], t[i + 1])
      OBVIOUS
    <3>1. i \in 1 .. Len(t) /\ i + 1 \in 1 .. Len(t) /\ i + 1 \in 1 .. Len(u) - 1
      BY <1>1
    <3> QED
      BY <3>1, <1>1, <1>3
  <2>5. Rest(t, n)
    BY <1>4, <2>2, <2>4 DEF Rest
  <2>6. /\ u[1] \in {"G", "X", "E"} => t[1] \in Firsts
        /\ u[1] \in {"H", "B"} => t[1] \notin Firsts
    BY <2>3 DEF Follows, Firsts
  <2>7. Single(u) => Single(t) /\ ~Begins(t)
    <3> SUFFICES ASSUME Single(u) PROVE Single(t) /\ ~Begins(t)
      OBVIOUS
    <3>1. ASSUME NEW i \in 1 .. Len(t) PROVE t[i] \notin Firsts
      <4>1. i + 1 \in 1 .. Len(u) /\ i + 1 > 1 /\ t[i] = u[i + 1]
        BY <1>1
      <4> QED
        BY <4>1 DEF Single
    <3> QED
      BY <3>1, <2>1 DEF Single, Begins
  <2> QED
    BY <1>1, <2>2, <2>5, <2>6, <2>7 DEF Begins, Whole, t
<1> QED
  BY <1>1, <1>5, <1>6

(* The end of the codec's request is noted.                                *)
LEMMA RemoteNoted ==
    ASSUME NEW v, Core(v), v.active # 0
    PROVE  LET u == [v EXCEPT !.req[v.active].remote = TRUE]
           IN  Core(u) /\ Frame(v, u, {"req"}) /\ u.req[v.active].remote
<1> DEFINE r == v.active
           Q == [v.req EXCEPT ![r].remote = TRUE]
           u == [v EXCEPT !.req[r].remote = TRUE]
<1>1. Shape(v) /\ Typed(v) /\ v.req \in [R -> ReqRec] /\ r \in R
  BY CoreRecords
<1>2. CodecInv(r, v.last, v.st, v.req) /\ r = v.last
  BY DEF Core, CodecInv
<1> HIDE DEF r
<1>3. Q \in [R -> ReqRec] /\ Q[r].remote = TRUE /\ \A y \in R : y # r => Q[y] = v.req[y]
  <2>1. v.req[r] \in ReqRec
    BY <1>1
  <2> QED
    BY <1>1, <2>1 DEF ReqRec
<1>4. Frame(v, u, {"req"}) /\ u.req = Q
  BY <1>1 DEF Shape, Frame, FieldNames
<1> HIDE DEF u, Q
<1>5. CodecInv(r, v.last, v.st, Q)
  <2>1. \A y \in R : y > v.last => y # r
    BY <1>1, <1>2 DEF R
  <2> QED
    BY <2>1, <1>2, <1>3 DEF CodecInv
<1>6. /\ Typed(u) /\ u.streams = v.streams /\ u.rqActive = v.rqActive
      /\ u.st = v.st /\ u.enc = v.enc /\ u.deferred = v.deferred /\ u.active = r
      /\ u.last = v.last /\ u.out = v.out
  BY <1>1, <1>4 DEF Typed, Frame, FieldNames, r
<1>7. Core(u)
  BY <1>4, <1>5, <1>6 DEF Core
<1> QED
  BY <1>3, <1>4, <1>7 DEF u, r

(* The application is called.                                              *)
LEMMA Called ==
    ASSUME NEW v, Core(v), NEW next \in {"headers", "bodyThenEnd", "end", "bodyThenDone"}
    PROVE  LET u == Call(v, next)
           IN  Core(u) /\ Frame(v, u, {"pc", "next"}) /\ u.pc = "app" /\ u.next = next
<1> DEFINE u == [v EXCEPT !.pc = "app", !.next = next]
<1>1. Shape(v) /\ Typed(v)
  BY CoreRecords
<1>2. Frame(v, u, {"pc", "next"}) /\ u.pc = "app" /\ u.next = next
  BY <1>1 DEF Shape, Frame, FieldNames
<1> HIDE DEF u
<1>3. Typed(u) /\ Frame(v, u, Outer)
  BY <1>1, <1>2 DEF Typed, Frame, FieldNames, Outer
<1>4. Core(u)
  BY <1>3, CoreOuter
<1> QED
  BY <1>2, <1>4 DEF Call, u

(* A freed decoder is the end of it.                                       *)
LEMMA FreedDecoder ==
    ASSUME NEW v, Core(v), NEW next \in {"headers", "bodyThenEnd", "end", "bodyThenDone"},
           NEW after, NEW q, NEW n, NEW b, NEW sp, v.st[v.active].obj = "freed"
    PROVE  Good(Call(Decode(v, after), next), q, n, b, sp)
<1> DEFINE x == [v EXCEPT !.abort = "freed decoder"]
           u == Call(x, next)
<1>1. Shape(v) /\ Typed(v)
  BY CoreRecords
<1>2. Decode(v, after) = x
  BY DEF Decode
<1>3. Frame(v, x, {"abort"}) /\ x.abort = "freed decoder"
  BY <1>1 DEF Shape, Frame, FieldNames
<1> HIDE DEF x
<1>4. Typed(x) /\ Frame(v, x, Outer)
  BY <1>1, <1>3 DEF Typed, Frame, FieldNames, Outer
<1>5. Core(x)
  BY <1>4, CoreOuter
<1>6. Core(u) /\ Frame(x, u, {"pc", "next"})
  BY <1>5, Called
<1> HIDE DEF u
<1>7. u.abort # "none"
  BY <1>3, <1>6 DEF Frame, FieldNames
<1> QED
  BY <1>2, <1>6, <1>7 DEF Good, u

(* on_message_complete, of a request's last token.                         *)
Completes(v, q, n, b, sp) ==
    /\ Core(v) /\ v.abort = "none" /\ v.status = "Ok" /\ Len(v.data) = 1
    /\ Rest(v.run, n) /\ Counts(v.run, v.last, Sent(q, n)) /\ Whole(v.run)
    /\ (~sp => v.run = <<>>) /\ (b \/ ~sp) /\ QuietInv(v, b) /\ DrainInv(v)
    /\ v.deferEnd => /\ v.active # 0 /\ v.st[v.active].obj = "live"
                     /\ v.st[v.active].app = "none" /\ ~v.st[v.active].sawLocal

(* It calls the application once more, or pauses the parser where the      *)
(* request is gone.                                                        *)
LEMMA CompleteGood ==
    ASSUME NEW v, NEW q, NEW n, NEW b, NEW sp, Completes(v, q, n, b, sp)
    PROVE  Good(OnMessageComplete(v), q, n, b, sp)
<1>1. /\ Core(v) /\ v.abort = "none" /\ v.status = "Ok" /\ Len(v.data) = 1
      /\ Rest(v.run, n) /\ Counts(v.run, v.last, Sent(q, n)) /\ Whole(v.run)
      /\ (~sp => v.run = <<>>) /\ (b \/ ~sp) /\ QuietInv(v, b) /\ DrainInv(v)
  BY DEF Completes
<1>2. Shape(v) /\ Typed(v)
  BY <1>1, CoreRecords
<1>3. ~sp => Single(v.run)
  BY <1>1, NoTokens
<1>4. CASE v.active = 0
  <2> DEFINE u == [v EXCEPT !.paused = TRUE, !.pc = "parse"]
  <2>1. OnMessageComplete(v) = u
    BY <1>4 DEF OnMessageComplete
  <2>2. Frame(v, u, {"paused", "pc"}) /\ u.paused = TRUE /\ u.pc = "parse"
    BY <1>2 DEF Shape, Frame, FieldNames
  <2> HIDE DEF u
  <2>3. Typed(u) /\ Frame(v, u, Outer)
    BY <1>2, <2>2 DEF Typed, Frame, FieldNames, Outer
  <2>4. Core(u)
    BY <1>1, <2>3, CoreOuter
  <2>5. /\ u.status = v.status /\ u.run = v.run /\ u.data = v.data /\ u.last = v.last
        /\ u.deferEnd = v.deferEnd /\ u.active = v.active /\ u.net = v.net
        /\ u.streams = v.streams /\ u.drain = v.drain
    BY <2>2 DEF Frame, FieldNames
  <2>6. ~u.deferEnd /\ ~Received(u) /\ ~Receiving(u)
    BY <1>4, <2>5 DEF Completes, Received, Receiving
  <2>7. Accounted(u, q, n)
    BY <1>1, <2>5, <2>6 DEF Accounted
  <2>8. FlowInv(u, q, n, sp)
    BY <1>1, <1>3, <2>2, <2>5, <2>6, <2>7 DEF FlowInv, Parsed
  <2>9. QuietInv(u, b) /\ DrainInv(u)
    BY <1>1, <2>5 DEF QuietInv, DrainInv
  <2> QED
    BY <2>1, <2>4, <2>8, <2>9 DEF Good
<1>5. CASE v.active # 0
  <2> DEFINE x == [v EXCEPT !.req[v.active].remote = TRUE]
             z == IF x.deferEnd THEN DecodeHeaders(x, TRUE) ELSE DecodeData(x, TRUE)
             u == Call(z, "end")
  <2>1. OnMessageComplete(v) = Call(Decode(x, z), "end")
    BY <1>5 DEF OnMessageComplete
  <2>2. Core(x) /\ Frame(v, x, {"req"}) /\ x.req[v.active].remote
    BY <1>1, <1>5, RemoteNoted
  <2> HIDE DEF x
  <2>3. /\ x.status = v.status /\ x.run = v.run /\ x.data = v.data /\ x.last = v.last
        /\ x.deferEnd = v.deferEnd /\ x.active = v.active /\ x.net = v.net /\ x.st = v.st
        /\ x.streams = v.streams /\ x.drain = v.drain /\ x.abort = v.abort
    BY <2>2 DEF Frame, FieldNames
  <2>4. QuietInv(x, b) /\ DrainInv(x)
    BY <1>1, <2>3 DEF QuietInv, DrainInv
  <2>5. CASE x.st[x.active].obj = "freed"
    BY <2>1, <2>2, <2>5, FreedDecoder
  <2>6. CASE x.st[x.active].obj # "freed"
    <3>1. OnMessageComplete(v) = u
      BY <2>1, <2>6 DEF Decode
    <3>2. Core(z) /\ Keeps(x, z) /\ DrainInv(z)
      <4>1. CASE x.deferEnd
        <5>1. /\ x.active # 0 /\ x.st[x.active].obj = "live"
              /\ x.st[x.active].app = "none" /\ ~x.st[x.active].sawLocal
              /\ x.req[x.active].remote
          BY <2>2, <2>3, <4>1 DEF Completes
        <5> QED
          BY <2>2, <4>1, <5>1, DecodeHeadersKeeps
      <4>2. CASE ~x.deferEnd
        <5>1. x.active # 0 /\ x.req[x.active].remote
          BY <1>5, <2>2, <2>3
        <5>2. Core(z) /\ Keeps(x, z) /\ Frame(x, z, {"st"})
          BY <2>2, <4>2, <5>1, DecodeDataKeeps
        <5> HIDE DEF z
        <5>3. z.drain = x.drain /\ z.streams = x.streams /\ z.net = x.net
          BY <5>2 DEF Frame, FieldNames
        <5> QED
          BY <5>2, <5>3, <2>4 DEF DrainInv
      <4> QED
        BY <4>1, <4>2
    <3> HIDE DEF z
    <3>3. /\ z.status = x.status /\ z.run = x.run /\ z.data = x.data /\ z.last = x.last
          /\ z.abort = x.abort /\ z.active \in {x.active, 0}
          /\ \A r \in R : z.req[r].remote = x.req[r].remote
      BY <3>2 DEF Keeps
    <3>4. QuietInv(z, b)
      BY <1>1, <2>3, <2>4, <3>2, QuietKept
    <3>5. ~Receiving(z)
      <4>1. v.active \in R
        BY <1>1, <1>5, CoreRecords
      <4> QED
        BY <4>1, <2>2, <2>3, <3>3 DEF Receiving
    <3>6. Core(u) /\ Frame(z, u, {"pc", "next"}) /\ u.pc = "app" /\ u.next = "end"
      BY <3>2, Called
    <3> HIDE DEF u
    <3>7. /\ u.status = z.status /\ u.run = z.run /\ u.data = z.data /\ u.last = z.last
          /\ u.active = z.active /\ u.net = z.net /\ u.req = z.req
          /\ u.streams = z.streams /\ u.drain = z.drain
      BY <3>6 DEF Frame, FieldNames
    <3>8. ~Receiving(u)
      BY <3>5, <3>7 DEF Receiving
    <3>9. Accounted(u, q, n)
      BY <1>1, <2>3, <3>3, <3>7, <3>8 DEF Accounted
    <3>10. FlowInv(u, q, n, sp)
      BY <1>1, <1>3, <2>3, <3>3, <3>6, <3>7, <3>9 DEF FlowInv
    <3>11. QuietInv(u, b) /\ DrainInv(u)
      BY <3>2, <3>4, <3>7 DEF QuietInv, DrainInv
    <3> QED
      BY <3>1, <3>6, <3>10, <3>11 DEF Good
  <2> QED
    BY <2>5, <2>6
<1> QED
  BY <1>4, <1>5

(* Between two tokens, or in the call for the headers.                     *)
LEMMA ParsesOn ==
    ASSUME NEW u, NEW q, NEW n, NEW b, NEW sp, Core(u), QuietInv(u, b), DrainInv(u),
           u.pc = "parse" \/ (u.pc = "app" /\ u.next = "headers"),
           u.status = "Ok", ~u.deferEnd, Len(u.data) = 1,
           Received(u) => Whole(u.run) /\ (~sp => u.run = <<>>), ~sp => Single(u.run), Accounted(u, q, n)
    PROVE  Good(u, q, n, b, sp)
<1>1. FlowInv(u, q, n, sp)
  BY DEF FlowInv, Parsed
<1> QED
  BY <1>1 DEF Good

(* x is v without the token t it is about to parse.                        *)
Taken(v, x, t, q, n, b, sp) ==
    /\ Core(x) /\ x.abort = "none" /\ x.pc = "parse" /\ x.status = "Ok" /\ ~x.deferEnd
    /\ Len(x.data) = 1 /\ Rest(x.run, n) /\ DrainInv(x) /\ x.body = v.body
    /\ (~b => x.net = "open") /\ (b \/ ~sp) /\ (~sp => Single(x.run))
    /\ t \in Firsts => x.active = 0 /\ x.last < N /\ Counts(x.run, x.last + 1, Sent(q, n))
    /\ t \in {"B", "E"} => Counts(x.run, x.last, Sent(q, n)) /\ ~Received(x)
    /\ t \in {"G", "X", "E"} => Whole(x.run) /\ (~sp => x.run = <<>>)
    /\ t \in {"H", "B"} => ~Begins(x.run) /\ (x.run = <<>> => n > 0)

(* So it is in every good state with a token to parse, unless the token    *)
(* begins a request in another one's place.                                *)
LEMMA TokenTaken ==
    ASSUME NEW v, NEW q \in Nat, NEW n \in Nat, NEW b, NEW sp, b \/ ~sp, Good(v, q, n, b, sp),
           v.abort = "none", v.pc = "parse", v.run # <<>>, ~TakesPlace(v)
    PROVE  /\ Head(v.run) \in Tok
           /\ Taken(v, [v EXCEPT !.run = Tail(@)], Head(v.run), q, n, b, sp)
<1> DEFINE s == v.run
           t == Head(s)
           x == [v EXCEPT !.run = Tail(@)]
<1>1. Core(v) /\ Shape(v) /\ Typed(v) /\ FlowInv(v, q, n, sp) /\ QuietInv(v, b) /\ DrainInv(v)
  BY CoreRecords DEF Good
<1>2. s \in Seq(Tok) /\ s # <<>>
  BY <1>1 DEF Typed
<1>3. /\ v.status = "Ok" /\ ~v.deferEnd /\ Len(v.data) = 1 /\ Accounted(v, q, n)
      /\ (Received(v) => Whole(s)) /\ (~sp => Single(s))
  BY <1>1 DEF FlowInv, Parsed
<1>4. Rest(s, n) /\ Counts(s, v.last, Sent(q, n))
  BY <1>3 DEF Accounted
<1>5. /\ Tail(s) \in Seq(Tok) /\ Rest(Tail(s), n) /\ t = s[1] /\ t \in Tok
      /\ t \in {"G", "X", "E"} => Whole(Tail(s)) /\ (Tail(s) = <<>> => n = 0)
      /\ t \in {"H", "B"} => ~Begins(Tail(s)) /\ (Tail(s) = <<>> => n > 0)
      /\ Single(s) => Single(Tail(s)) /\ ~Begins(Tail(s))
  <2> HIDE DEF s
  <2> QED
    BY <1>2, <1>4, TailRest
<1>6. Frame(v, x, {"run"}) /\ x.run = Tail(s)
  BY <1>1 DEF Shape, Frame, FieldNames
<1>7. Begins(s) <=> t \in Firsts
  BY <1>2, <1>5 DEF Begins
<1>17. t \in Firsts => v.active = 0
  BY <1>2 DEF TakesPlace, Firsts
<1>18. LET j == IF t \in Firsts THEN v.last + 1 ELSE v.last
       IN  v.last \in 0 .. N /\ j \in 0 .. N /\ Counts(Tail(s), j, Sent(q, n))
  <2> HIDE DEF s
  <2> QED
    BY <1>2, <1>4, <1>5, CountsTail
<1> HIDE DEF x, s, t
<1>8. Typed(x) /\ Frame(v, x, Outer)
  BY <1>1, <1>5, <1>6 DEF Typed, Frame, FieldNames, Outer
<1>9. Core(x)
  BY <1>1, <1>8, CoreOuter
<1>10. /\ x.status = v.status /\ x.data = v.data /\ x.last = v.last /\ x.abort = v.abort
       /\ x.deferEnd = v.deferEnd /\ x.active = v.active /\ x.net = v.net /\ x.req = v.req
       /\ x.streams = v.streams /\ x.drain = v.drain /\ x.pc = v.pc /\ x.body = v.body
  BY <1>6 DEF Frame, FieldNames
<1>11. t \in {"B", "E"} => Counts(x.run, x.last, Sent(q, n)) /\ ~Received(x)
  <2> SUFFICES ASSUME t \in {"B", "E"} PROVE Counts(x.run, x.last, Sent(q, n)) /\ ~Received(x)
    OBVIOUS
  <2>1. t \notin Firsts
    BY DEF Firsts
  <2>2. ~Received(v)
    BY <2>1, <1>2, <1>3, <1>7 DEF Whole, s
  <2> QED
    BY <2>1, <2>2, <1>6, <1>10, <1>18 DEF Received
<1>12. ~b => x.net = "open"
  BY <1>1, <1>10 DEF QuietInv
<1>13. t \in Firsts => x.active = 0 /\ x.last < N /\ Counts(x.run, x.last + 1, Sent(q, n))
  <2> SUFFICES ASSUME t \in Firsts
               PROVE  x.active = 0 /\ x.last < N /\ Counts(x.run, x.last + 1, Sent(q, n))
    OBVIOUS
  <2>1. v.last \in 0 .. N /\ v.last + 1 \in 0 .. N /\ Counts(Tail(s), v.last + 1, Sent(q, n))
    BY <1>18
  <2>2. v.last < N
    BY <2>1, NAssumption
  <2> QED
    BY <2>1, <2>2, <1>6, <1>10, <1>17
<1>14. /\ ~sp => Single(x.run)
       /\ t \in {"G", "X", "E"} => Whole(x.run) /\ (~sp => x.run = <<>>)
       /\ t \in {"H", "B"} => ~Begins(x.run) /\ (x.run = <<>> => n > 0)
  BY <1>3, <1>5, <1>6 DEF Whole
<1>15. DrainInv(x)
  BY <1>1, <1>10 DEF DrainInv
<1>16. Taken(v, x, t, q, n, b, sp)
  BY <1>3, <1>5, <1>6, <1>9, <1>10, <1>11, <1>12, <1>13, <1>14, <1>15 DEF Taken
<1> QED
  BY <1>5, <1>16 DEF x, t, s

(* A request without a body.                                               *)
LEMMA TokenG ==
    ASSUME NEW v, NEW x, NEW q, NEW n, NEW b, NEW sp, Taken(v, x, "G", q, n, b, sp)
    PROVE  Good(OnMessageComplete(OnHeadersComplete(OnMessageBegin(x), FALSE)), q, n, b, sp)
<1> DEFINE y == OnMessageBegin(x)
           z == OnHeadersComplete(y, FALSE)
<1>1. /\ Core(x) /\ x.abort = "none" /\ x.status = "Ok" /\ ~x.deferEnd /\ Len(x.data) = 1
      /\ DrainInv(x) /\ (~b => x.net = "open") /\ x.active = 0 /\ x.last < N
      /\ Counts(x.run, x.last + 1, Sent(q, n)) /\ Rest(x.run, n)
      /\ Whole(x.run) /\ (~sp => x.run = <<>>) /\ (b \/ ~sp)
  BY DEF Taken, Firsts
<1>2. Begun(x, y)
  BY <1>1, MessageBegins
<1> HIDE DEF y
<1>3. /\ y.status = x.status /\ y.data = x.data /\ y.abort = x.abort /\ y.run = x.run
      /\ y.deferEnd = x.deferEnd /\ y.net = x.net /\ y.drain = x.drain
      /\ y.last = x.last + 1 /\ (y.streams = <<>> => x.streams = <<>>) /\ Core(y)
  BY <1>2 DEF Begun, Frame, FieldNames
<1>4. QuietInv(y, b) /\ DrainInv(y)
  BY <1>1, <1>3 DEF QuietInv, DrainInv
<1>5. Completes(z, q, n, b, sp)
  <2>1. CASE y.active = 0
    <3>1. z = y
      BY <2>1 DEF OnHeadersComplete
    <3> QED
      BY <3>1, <1>1, <1>3, <1>4 DEF Completes
  <2>2. CASE y.active # 0
    <3>1. z = [y EXCEPT !.deferEnd = TRUE]
      BY <2>2 DEF OnHeadersComplete
    <3>2. Shape(y) /\ Typed(y)
      BY <1>3, CoreRecords
    <3> HIDE DEF z
    <3>3. Frame(y, z, {"deferEnd"}) /\ z.deferEnd = TRUE
      BY <3>1, <3>2 DEF Shape, Frame, FieldNames
    <3>4. Typed(z) /\ Frame(y, z, Outer)
      BY <3>2, <3>3 DEF Typed, Frame, FieldNames, Outer
    <3>5. Core(z)
      BY <1>3, <3>4, CoreOuter
    <3>6. /\ z.status = y.status /\ z.data = y.data /\ z.abort = y.abort /\ z.run = y.run
          /\ z.net = y.net /\ z.drain = y.drain /\ z.last = y.last /\ z.streams = y.streams
          /\ z.active = y.active /\ z.st = y.st
      BY <3>3 DEF Frame, FieldNames
    <3>7. QuietInv(z, b) /\ DrainInv(z)
      BY <1>4, <3>6 DEF QuietInv, DrainInv
    <3>8. /\ z.active # 0 /\ z.st[z.active].obj = "live"
          /\ z.st[z.active].app = "none" /\ ~z.st[z.active].sawLocal
      BY <1>2, <2>2, <3>6 DEF Begun
    <3> QED
      BY <1>1, <1>3, <3>5, <3>6, <3>7, <3>8 DEF Completes
  <2> QED
    BY <2>1, <2>2
<1> HIDE DEF z
<1>6. Good(OnMessageComplete(z), q, n, b, sp)
  BY <1>5, CompleteGood
<1> QED
  BY <1>6 DEF z, y

(* Where there is a Host header, decode_headers leaves the network alone.  *)
LEMMA DecodeHeadersNet ==
    ASSUME NEW v, Core(v), v.active # 0, NEW end \in BOOLEAN, kind[v.active] # "nohost"
    PROVE  DecodeHeaders(v, end).net = v.net
<1> DEFINE r == v.active
           g == kind[r] = "close"
           d == IF end THEN "end" ELSE "headers"
           x == [v EXCEPT !.st[r].lastByte = TRUE, !.st[r].shouldDrain = g, !.st[r].decoded = d]
           y == [x EXCEPT !.st[r].app = IF @ = "none" THEN "called" ELSE @]
<1>1. Shape(v)
  BY CoreRecords
<1>2. DecodeHeaders(v, end) = y
  BY DEF DecodeHeaders
<1> HIDE DEF g, d, r
<1>3. Frame(v, x, {"st"})
  BY <1>1 DEF Shape, Frame, FieldNames
<1>4. x.net = v.net /\ Shape(x)
  BY <1>3 DEF Frame, FieldNames
<1> HIDE DEF x
<1>5. y.net = x.net
  BY <1>4 DEF Shape, FieldNames
<1> QED
  BY <1>2, <1>4, <1>5

(* The headers of a request with a body.                                   *)
LEMMA TokenH ==
    ASSUME NEW v, NEW x, NEW q, NEW n, NEW b, NEW sp, Taken(v, x, "H", q, n, b, sp),
           ~b => \A r \in R : kind[r] # "nohost"
    PROVE  Good(OnHeadersComplete(OnMessageBegin(x), TRUE), q, n, b, sp)
<1> DEFINE y == OnMessageBegin(x)
           z == DecodeHeaders(y, FALSE)
           u == Call(z, "headers")
<1>1. /\ Core(x) /\ x.abort = "none" /\ x.status = "Ok" /\ ~x.deferEnd /\ Len(x.data) = 1
      /\ DrainInv(x) /\ (~b => x.net = "open") /\ x.active = 0 /\ x.last < N /\ x.pc = "parse"
      /\ Counts(x.run, x.last + 1, Sent(q, n)) /\ Rest(x.run, n) /\ (~sp => Single(x.run))
      /\ ~Begins(x.run) /\ (x.run = <<>> => n > 0)
  BY DEF Taken, Firsts
<1>2. Begun(x, y)
  BY <1>1, MessageBegins
<1> HIDE DEF y
<1>3. /\ y.status = x.status /\ y.data = x.data /\ y.abort = x.abort /\ y.run = x.run
      /\ y.deferEnd = x.deferEnd /\ y.net = x.net /\ y.drain = x.drain /\ y.pc = x.pc
      /\ y.last = x.last + 1 /\ (y.streams = <<>> => x.streams = <<>>) /\ Core(y)
  BY <1>2 DEF Begun, Frame, FieldNames
<1>4. QuietInv(y, b) /\ DrainInv(y)
  BY <1>1, <1>3 DEF QuietInv, DrainInv
<1>5. CASE y.active = 0
  <2>1. OnHeadersComplete(y, TRUE) = y
    BY <1>5 DEF OnHeadersComplete
  <2>2. ~Received(y) /\ ~Receiving(y)
    BY <1>5 DEF Received, Receiving
  <2>3. Accounted(y, q, n)
    BY <1>1, <1>3, <2>2 DEF Accounted
  <2>4. Good(y, q, n, b, sp)
    BY <1>1, <1>3, <1>4, <2>2, <2>3, ParsesOn
  <2> QED
    BY <2>1, <2>4 DEF y
<1>6. CASE y.active # 0
  <2>1. /\ y.st[y.active].obj = "live" /\ ~y.st[y.active].sawLocal
        /\ y.st[y.active].app = "none" /\ ~y.req[y.active].remote
    BY <1>2, <1>6 DEF Begun
  <2>2. OnHeadersComplete(y, TRUE) = u
    BY <1>6, <2>1 DEF OnHeadersComplete, Decode
  <2>3. Core(z) /\ Keeps(y, z) /\ DrainInv(z)
    BY <1>3, <1>6, <2>1, DecodeHeadersKeeps
  <2>4. y.active \in R
    BY <1>3, <1>6, CoreRecords
  <2>5. ~b => z.net = "open"
    BY <1>1, <1>3, <1>6, <2>4, DecodeHeadersNet
  <2> HIDE DEF z
  <2>6. /\ z.status = y.status /\ z.run = y.run /\ z.data = y.data /\ z.last = y.last
        /\ z.abort = y.abort /\ z.active \in {y.active, 0} /\ z.deferEnd = y.deferEnd
        /\ \A r \in R : z.req[r].remote = y.req[r].remote
    BY <2>3 DEF Keeps
  <2>7. ~Received(z)
    BY <2>1, <2>4, <2>6 DEF Received
  <2>8. Core(u) /\ Frame(z, u, {"pc", "next"}) /\ u.pc = "app" /\ u.next = "headers"
    BY <2>3, Called
  <2> HIDE DEF u
  <2>9. /\ u.status = z.status /\ u.run = z.run /\ u.data = z.data /\ u.last = z.last
        /\ u.active = z.active /\ u.net = z.net /\ u.req = z.req /\ u.deferEnd = z.deferEnd
        /\ u.streams = z.streams /\ u.drain = z.drain
    BY <2>8 DEF Frame, FieldNames
  <2>10. ~Received(u)
    BY <2>7, <2>9 DEF Received
  <2>11. Accounted(u, q, n)
    BY <1>1, <1>3, <2>6, <2>9 DEF Accounted
  <2>12. QuietInv(u, b) /\ DrainInv(u)
    BY <2>3, <2>5, <2>9 DEF QuietInv, DrainInv
  <2>13. Good(u, q, n, b, sp)
    BY <1>1, <1>3, <2>6, <2>8, <2>9, <2>10, <2>11, <2>12, ParsesOn
  <2> QED
    BY <2>2, <2>13 DEF y
<1> QED
  BY <1>5, <1>6

(* Headers that the codec refuses.                                         *)
LEMMA TokenX ==
    ASSUME NEW v, NEW x, NEW q, NEW n, NEW b, NEW sp, Taken(v, x, "X", q, n, b, sp)
    PROVE  Good(OnBadHeaders(OnMessageBegin(x)), q, n, b, sp)
<1> DEFINE y == OnMessageBegin(x)
           u == [y EXCEPT !.status = "CodecProtocolError", !.pc = "done", !.run = <<>>]
<1>1. /\ Core(x) /\ ~x.deferEnd /\ DrainInv(x) /\ (~b => x.net = "open") /\ x.active = 0 /\ x.last < N
  BY DEF Taken, Firsts
<1>2. Begun(x, y)
  BY <1>1, MessageBegins
<1> HIDE DEF y
<1>3. /\ y.deferEnd = x.deferEnd /\ y.net = x.net /\ y.drain = x.drain
      /\ (y.streams = <<>> => x.streams = <<>>) /\ Core(y)
  BY <1>2 DEF Begun, Frame, FieldNames
<1>4. Shape(y) /\ Typed(y)
  BY <1>3, CoreRecords
<1>5. Frame(y, u, {"status", "pc", "run"}) /\ u.status = "CodecProtocolError" /\ u.pc = "done" /\ u.run = <<>>
  BY <1>4 DEF Shape, Frame, FieldNames
<1> HIDE DEF u
<1>6. Typed(u) /\ Frame(y, u, Outer)
  <2>1. <<>> \in Seq(Tok)
    OBVIOUS
  <2> QED
    BY <1>4, <1>5, <2>1 DEF Typed, Frame, FieldNames, Outer
<1>7. Core(u)
  BY <1>3, <1>6, CoreOuter
<1>8. /\ u.deferEnd = y.deferEnd /\ u.net = y.net /\ u.drain = y.drain /\ u.streams = y.streams
      /\ u.active = y.active /\ u.req = y.req
  BY <1>5 DEF Frame, FieldNames
<1>9. ~Received(u)
  BY <1>2, <1>8 DEF Begun, Received
<1>10. FlowInv(u, q, n, sp)
  BY <1>1, <1>3, <1>5, <1>8, <1>9, NoTokens DEF FlowInv, Parsed
<1>11. QuietInv(u, b) /\ DrainInv(u)
  BY <1>1, <1>3, <1>8 DEF QuietInv, DrainInv
<1>12. Good(u, q, n, b, sp)
  BY <1>7, <1>10, <1>11 DEF Good
<1> QED
  BY <1>12 DEF u, y, OnBadHeaders

(* Body.                                                                   *)
LEMMA TokenB ==
    ASSUME NEW v, NEW x, NEW q, NEW n, NEW b, NEW sp, Taken(v, x, "B", q, n, b, sp)
    PROVE  Good([x EXCEPT !.body = TRUE], q, n, b, sp)
<1> DEFINE u == [x EXCEPT !.body = TRUE]
<1>1. /\ Core(x) /\ x.abort = "none" /\ x.status = "Ok" /\ ~x.deferEnd /\ Len(x.data) = 1
      /\ DrainInv(x) /\ (~b => x.net = "open") /\ x.pc = "parse" /\ ~Received(x)
      /\ Counts(x.run, x.last, Sent(q, n)) /\ Rest(x.run, n) /\ (~sp => Single(x.run))
      /\ ~Begins(x.run) /\ (x.run = <<>> => n > 0)
  BY DEF Taken
<1>2. Shape(x) /\ Typed(x)
  BY <1>1, CoreRecords
<1>3. Frame(x, u, {"body"}) /\ u.body = TRUE
  BY <1>2 DEF Shape, Frame, FieldNames
<1> HIDE DEF u
<1>4. Typed(u) /\ Frame(x, u, Outer)
  BY <1>2, <1>3 DEF Typed, Frame, FieldNames, Outer
<1>5. Core(u)
  BY <1>1, <1>4, CoreOuter
<1>6. /\ u.status = x.status /\ u.run = x.run /\ u.data = x.data /\ u.last = x.last
      /\ u.active = x.active /\ u.net = x.net /\ u.req = x.req /\ u.deferEnd = x.deferEnd
      /\ u.streams = x.streams /\ u.drain = x.drain /\ u.pc = x.pc
  BY <1>3 DEF Frame, FieldNames
<1>7. ~Received(u)
  BY <1>1, <1>6 DEF Received
<1>8. Accounted(u, q, n)
  BY <1>1, <1>6 DEF Accounted
<1>9. QuietInv(u, b) /\ DrainInv(u)
  BY <1>1, <1>6 DEF QuietInv, DrainInv
<1>10. Good(u, q, n, b, sp)
  BY <1>1, <1>5, <1>6, <1>7, <1>8, <1>9, ParsesOn
<1> QED
  BY <1>10 DEF u

(* dispatch_buffered_body, at the end of a message or of a slice.          *)
LEMMA BodyGood ==
    ASSUME NEW v, NEW q, NEW n, NEW b, NEW sp, Core(v), v.status = "Ok", ~v.deferEnd,
           Rest(v.run, n), Counts(v.run, v.last, Sent(q, n)), Whole(v.run), ~sp => v.run = <<>>,
           QuietInv(v, b), DrainInv(v), NEW next, NEW after,
           \/ next = "bodyThenEnd" /\ Len(v.data) = 1
           \/ next = "bodyThenDone" /\ v.run = <<>> /\ v.data = <<>> /\ (Receiving(v) => n > 0),
           ~(v.body /\ v.active # 0) => Good(after, q, n, b, sp)
    PROVE  Good(DispatchBufferedBody(v, next, after), q, n, b, sp)
<1> DEFINE y == [v EXCEPT !.body = FALSE]
           z == DecodeData(y, FALSE)
           u == Call(z, next)
<1>1. CASE ~(v.body /\ v.active # 0)
  BY <1>1 DEF DispatchBufferedBody
<1>2. CASE v.body /\ v.active # 0
  <2>1. DispatchBufferedBody(v, next, after) = Call(Decode(y, z), next)
    BY <1>2 DEF DispatchBufferedBody
  <2>2. next \in {"headers", "bodyThenEnd", "end", "bodyThenDone"}
    OBVIOUS
  <2>3. Shape(v) /\ Typed(v)
    BY CoreRecords
  <2>4. Frame(v, y, {"body"}) /\ y.body = FALSE
    BY <2>3 DEF Shape, Frame, FieldNames
  <2> HIDE DEF y
  <2>5. Typed(y) /\ Frame(v, y, Outer)
    BY <2>3, <2>4 DEF Typed, Frame, FieldNames, Outer
  <2>6. Core(y)
    BY <2>5, CoreOuter
  <2>7. y.active = v.active
    BY <2>4 DEF Frame, FieldNames
  <2>8. CASE y.st[y.active].obj = "freed"
    BY <2>1, <2>2, <2>6, <2>8, FreedDecoder
  <2>9. CASE y.st[y.active].obj # "freed"
    <3>1. DispatchBufferedBody(v, next, after) = u
      BY <2>1, <2>9 DEF Decode
    <3>2. Core(z) /\ Frame(y, z, {"st"})
      BY <1>2, <2>6, <2>7, DecodeDataKeeps
    <3> HIDE DEF z
    <3>3. Core(u) /\ Frame(z, u, {"pc", "next"}) /\ u.pc = "app" /\ u.next = next
      BY <2>2, <3>2, Called
    <3> HIDE DEF u
    <3>4. Frame(v, u, {"body", "st", "pc", "next"})
      BY <2>4, <3>2, <3>3 DEF Frame
    <3>5. /\ u.status = v.status /\ u.run = v.run /\ u.data = v.data /\ u.last = v.last
          /\ u.active = v.active /\ u.net = v.net /\ u.req = v.req /\ u.deferEnd = v.deferEnd
          /\ u.streams = v.streams /\ u.drain = v.drain
      BY <3>4 DEF Frame, FieldNames
    <3>6. Receiving(u) <=> Receiving(v)
      BY <3>5 DEF Receiving
    <3>7. Accounted(u, q, n)
      BY <3>3, <3>5, <3>6, NoTokens DEF Accounted
    <3>8. FlowInv(u, q, n, sp)
      BY <3>3, <3>5, <3>7, NoTokens DEF FlowInv
    <3>9. QuietInv(u, b) /\ DrainInv(u)
      BY <3>5 DEF QuietInv, DrainInv
    <3> QED
      BY <3>1, <3>3, <3>8, <3>9 DEF Good
  <2> QED
    BY <2>8, <2>9
<1> QED
  BY <1>1, <1>2

(* The end of a message.                                                   *)
LEMMA TokenE ==
    ASSUME NEW v, NEW x, NEW q, NEW n, NEW b, NEW sp, Taken(v, x, "E", q, n, b, sp)
    PROVE  Good(DispatchBufferedBody(x, "bodyThenEnd", OnMessageComplete([x EXCEPT !.body = FALSE])), q, n, b, sp)
<1> DEFINE y == [x EXCEPT !.body = FALSE]
<1>1. /\ Core(x) /\ x.abort = "none" /\ x.status = "Ok" /\ ~x.deferEnd /\ Len(x.data) = 1
      /\ DrainInv(x) /\ (~b => x.net = "open") /\ (b \/ ~sp)
      /\ Counts(x.run, x.last, Sent(q, n)) /\ Rest(x.run, n) /\ Whole(x.run) /\ (~sp => x.run = <<>>)
  BY DEF Taken
<1>2. Shape(x) /\ Typed(x)
  BY <1>1, CoreRecords
<1>3. Frame(x, y, {"body"}) /\ y.body = FALSE
  BY <1>2 DEF Shape, Frame, FieldNames
<1> HIDE DEF y
<1>4. Typed(y) /\ Frame(x, y, Outer)
  BY <1>2, <1>3 DEF Typed, Frame, FieldNames, Outer
<1>5. Core(y)
  BY <1>1, <1>4, CoreOuter
<1>6. /\ y.status = x.status /\ y.run = x.run /\ y.data = x.data /\ y.last = x.last
      /\ y.net = x.net /\ y.deferEnd = x.deferEnd /\ y.abort = x.abort
      /\ y.streams = x.streams /\ y.drain = x.drain
  BY <1>3 DEF Frame, FieldNames
<1>7. QuietInv(x, b) /\ QuietInv(y, b) /\ DrainInv(y)
  BY <1>1, <1>6 DEF QuietInv, DrainInv
<1>8. Completes(y, q, n, b, sp)
  BY <1>1, <1>5, <1>6, <1>7 DEF Completes
<1>9. Good(OnMessageComplete(y), q, n, b, sp)
  BY <1>8, CompleteGood
<1>10. Good(DispatchBufferedBody(x, "bodyThenEnd", OnMessageComplete(y)), q, n, b, sp)
  BY <1>1, <1>7, <1>9, BodyGood
<1> QED
  BY <1>10 DEF y

(* The parser goes on, with a token or at the end of its slice.            *)
LEMMA TokenGood ==
    ASSUME NEW v, NEW q \in Nat, NEW n \in Nat, NEW b, NEW sp, b \/ ~sp, Good(v, q, n, b, sp),
           v.abort = "none", v.pc = "parse", v.run # <<>>, ~TakesPlace(v),
           ~b => \A r \in R : kind[r] # "nohost"
    PROVE  Good(OnToken(v, Head(v.run)), q, n, b, sp)
<1> DEFINE t == Head(v.run)
           x == [v EXCEPT !.run = Tail(@)]
<1>1. t \in Tok /\ Taken(v, x, t, q, n, b, sp)
  BY TokenTaken
<1> HIDE DEF t
<1>2. /\ t = "G" => OnToken(v, t) = OnMessageComplete(OnHeadersComplete(OnMessageBegin(x), FALSE))
      /\ t = "H" => OnToken(v, t) = OnHeadersComplete(OnMessageBegin(x), TRUE)
      /\ t = "B" => OnToken(v, t) = [x EXCEPT !.body = TRUE]
      /\ t = "E" => OnToken(v, t) =
            DispatchBufferedBody(x, "bodyThenEnd", OnMessageComplete([x EXCEPT !.body = FALSE]))
      /\ t = "X" => OnToken(v, t) = OnBadHeaders(OnMessageBegin(x))
  BY DEF OnToken
<1> HIDE DEF x
<1> SUFFICES Good(OnToken(v, t), q, n, b, sp)
  BY DEF t
<1>3. CASE t = "G"
  <2> DEFINE z == OnMessageComplete(OnHeadersComplete(OnMessageBegin(x), FALSE))
  <2>1. Taken(v, x, "G", q, n, b, sp)
    BY <1>1, <1>3
  <2>2. Good(z, q, n, b, sp)
    BY <2>1, TokenG
  <2>3. OnToken(v, t) = z
    BY <1>2, <1>3
  <2> HIDE DEF z
  <2> QED
    BY <2>2, <2>3
<1>4. CASE t = "H"
  <2> DEFINE z == OnHeadersComplete(OnMessageBegin(x), TRUE)
  <2>1. Taken(v, x, "H", q, n, b, sp)
    BY <1>1, <1>4
  <2>2. Good(z, q, n, b, sp)
    BY <2>1, TokenH
  <2>3. OnToken(v, t) = z
    BY <1>2, <1>4
  <2> HIDE DEF z
  <2> QED
    BY <2>2, <2>3
<1>5. CASE t = "B"
  <2>1. Taken(v, x, "B", q, n, b, sp)
    BY <1>1, <1>5
  <2> QED
    BY <1>2, <1>5, <2>1, TokenB
<1>6. CASE t = "E"
  <2>1. Taken(v, x, "E", q, n, b, sp)
    BY <1>1, <1>6
  <2> QED
    BY <1>2, <1>6, <2>1, TokenE
<1>7. CASE t = "X"
  <2>1. Taken(v, x, "X", q, n, b, sp)
    BY <1>1, <1>7
  <2> QED
    BY <1>2, <1>7, <2>1, TokenX
<1> QED
  BY <1>1, <1>3, <1>4, <1>5, <1>6, <1>7 DEF Tok

(* The end of the slice.                                                   *)
LEMMA SliceGood ==
    ASSUME NEW v, NEW q, NEW n, NEW b, NEW sp, Good(v, q, n, b, sp), v.abort = "none", v.pc = "parse", v.run = <<>>
    PROVE  LET x == [v EXCEPT !.data = Tail(@)]
           IN  /\ x.data = <<>>
               /\ Good(DispatchBufferedBody(x, "bodyThenDone", [x EXCEPT !.body = FALSE, !.pc = "done"]), q, n, b, sp)
<1> DEFINE x == [v EXCEPT !.data = Tail(@)]
           u == [x EXCEPT !.body = FALSE, !.pc = "done"]
           D == v.data
<1>1. Core(v) /\ Shape(v) /\ Typed(v) /\ FlowInv(v, q, n, sp) /\ QuietInv(v, b) /\ DrainInv(v)
  BY CoreRecords DEF Good
<1>2. /\ v.status = "Ok" /\ ~v.deferEnd /\ Len(v.data) = 1 /\ Accounted(v, q, n)
  BY <1>1 DEF FlowInv
<1>3. D \in Seq(Seq(Tok)) /\ Len(D) = 1
  BY <1>1, <1>2 DEF Typed
<1>4. Frame(v, x, {"data"}) /\ x.data = Tail(D)
  BY <1>1 DEF Shape, Frame, FieldNames
<1> HIDE DEF x, D
<1>5. x.data = <<>>
  <2> DEFINE T == Tail(D)
  <2>1. T \in Seq(Seq(Tok)) /\ Len(T) = 0
    BY <1>3
  <2> HIDE DEF T
  <2>2. T = <<>>
    BY <2>1, EmptySeq
  <2> QED
    BY <2>2, <1>4 DEF T
<1>6. Typed(x) /\ Frame(v, x, Outer)
  <2>1. <<>> \in Seq(Seq(Tok))
    OBVIOUS
  <2> QED
    BY <2>1, <1>1, <1>4, <1>5 DEF Typed, Frame, FieldNames, Outer
<1>7. Core(x)
  BY <1>1, <1>6, CoreOuter
<1>8. /\ x.status = v.status /\ x.run = v.run /\ x.last = v.last /\ x.pc = v.pc
      /\ x.active = v.active /\ x.net = v.net /\ x.req = v.req /\ x.deferEnd = v.deferEnd
      /\ x.streams = v.streams /\ x.drain = v.drain
  BY <1>4 DEF Frame, FieldNames
<1>9. QuietInv(x, b) /\ DrainInv(x)
  BY <1>1, <1>8 DEF QuietInv, DrainInv
<1>10. Rest(v.run, n) /\ Counts(v.run, v.last, Sent(q, n)) /\ Whole(v.run) /\ (Receiving(v) => n > 0)
  BY <1>2, NoTokens DEF Accounted
<1>11. (Receiving(x) <=> Receiving(v)) /\ (Received(x) <=> Received(v))
  BY <1>8 DEF Receiving, Received
<1>12. Good(u, q, n, b, sp)
  <2>1. Shape(x)
    BY <1>6 DEF Typed
  <2>2. Frame(x, u, {"body", "pc"}) /\ u.body = FALSE /\ u.pc = "done"
    BY <2>1 DEF Shape, Frame, FieldNames
  <2> HIDE DEF u
  <2>3. Typed(u) /\ Frame(x, u, Outer)
    BY <1>6, <2>2 DEF Typed, Frame, FieldNames, Outer
  <2>4. Core(u)
    BY <1>7, <2>3, CoreOuter
  <2>5. /\ u.status = x.status /\ u.run = x.run /\ u.last = x.last /\ u.data = x.data
        /\ u.active = x.active /\ u.net = x.net /\ u.req = x.req /\ u.deferEnd = x.deferEnd
        /\ u.streams = x.streams /\ u.drain = x.drain
    BY <2>2 DEF Frame, FieldNames
  <2>6. Receiving(u) <=> Receiving(v)
    BY <1>11, <2>5 DEF Receiving
  <2>7. Accounted(u, q, n)
    BY <1>8, <1>10, <2>5, <2>6, NoTokens DEF Accounted
  <2>8. FlowInv(u, q, n, sp)
    BY <1>2, <1>5, <1>8, <2>2, <2>5, <2>7, NoTokens DEF FlowInv, Parsed
  <2>9. QuietInv(u, b) /\ DrainInv(u)
    BY <1>9, <2>5 DEF QuietInv, DrainInv
  <2> QED
    BY <2>4, <2>8, <2>9 DEF Good
<1> HIDE DEF u
<1>13. Good(DispatchBufferedBody(x, "bodyThenDone", u), q, n, b, sp)
  BY <1>2, <1>5, <1>7, <1>8, <1>9, <1>10, <1>11, <1>12, BodyGood
<1> QED
  BY <1>5, <1>13 DEF x, u

(* The application returns to the parser.                                  *)
LEMMA ReturnGood ==
    ASSUME NEW v, NEW q, NEW n, NEW b, NEW sp, b \/ ~sp, Good(v, q, n, b, sp), v.abort = "none", v.pc = "app"
    PROVE  LET x == [v EXCEPT !.next = "none", !.pc = "parse"]
           IN  /\ v.next \in {"headers", "bodyThenEnd", "bodyThenDone", "end"}
               /\ v.next = "headers" => Good([x EXCEPT !.paused = @ \/ ~IsOpen(x)], q, n, b, sp)
               /\ v.next = "bodyThenEnd" => Good(OnMessageComplete(x), q, n, b, sp)
               /\ v.next = "bodyThenDone" => Good([x EXCEPT !.pc = "done"], q, n, b, sp)
               /\ v.next = "end" => Good([x EXCEPT !.paused = TRUE, !.deferEnd = FALSE], q, n, b, sp)
<1> DEFINE x == [v EXCEPT !.next = "none", !.pc = "parse"]
<1>1. Core(v) /\ Shape(v) /\ Typed(v) /\ FlowInv(v, q, n, sp) /\ QuietInv(v, b) /\ DrainInv(v)
  BY CoreRecords DEF Good
<1>2. /\ v.status = "Ok" /\ Accounted(v, q, n) /\ (~sp => Single(v.run))
      /\ (Received(v) => Whole(v.run) /\ (~sp => v.run = <<>>))
      /\ v.next # "bodyThenDone" => Len(v.data) = 1
      /\ v.next # "end" => ~v.deferEnd
      /\ v.next = "bodyThenDone" => v.run = <<>> /\ v.data = <<>>
      /\ v.next = "bodyThenEnd" => Whole(v.run) /\ (~sp => v.run = <<>>)
  BY <1>1 DEF FlowInv, Parsed
<1>3. v.next \in {"headers", "bodyThenEnd", "bodyThenDone", "end"}
  BY <1>1 DEF Typed, FlowInv
<1>4. Frame(v, x, {"next", "pc"}) /\ x.next = "none" /\ x.pc = "parse"
  BY <1>1 DEF Shape, Frame, FieldNames
<1> HIDE DEF x
<1>5. Typed(x) /\ Frame(v, x, Outer)
  BY <1>1, <1>4 DEF Typed, Frame, FieldNames, Outer
<1>6. Core(x) /\ Shape(x)
  BY <1>1, <1>5, CoreOuter DEF Typed
<1>7. /\ x.status = v.status /\ x.run = v.run /\ x.last = v.last /\ x.data = v.data
      /\ x.active = v.active /\ x.net = v.net /\ x.req = v.req /\ x.deferEnd = v.deferEnd
      /\ x.streams = v.streams /\ x.drain = v.drain /\ x.abort = v.abort
  BY <1>4 DEF Frame, FieldNames
<1>8. QuietInv(x, b) /\ DrainInv(x)
  BY <1>1, <1>7 DEF QuietInv, DrainInv
<1>9. ASSUME NEW u, Frame(x, u, {"paused", "deferEnd", "pc"}), u.paused \in BOOLEAN, ~u.deferEnd,
             u.deferEnd \in BOOLEAN, \/ u.pc = "parse" /\ v.next \in {"headers", "end"}
                                     \/ u.pc = "done" /\ v.next = "bodyThenDone"
      PROVE  Good(u, q, n, b, sp)
  <2>1. Typed(u) /\ Frame(x, u, Outer)
    BY <1>5, <1>9 DEF Typed, Frame, FieldNames, Outer
  <2>2. Core(u)
    BY <1>6, <2>1, CoreOuter
  <2>3. /\ u.status = v.status /\ u.run = v.run /\ u.last = v.last /\ u.data = v.data
        /\ u.active = v.active /\ u.net = v.net /\ u.req = v.req
        /\ u.streams = v.streams /\ u.drain = v.drain
    BY <1>7, <1>9 DEF Frame, FieldNames
  <2>4. (Receiving(u) <=> Receiving(v)) /\ (Received(u) <=> Received(v))
    BY <2>3 DEF Receiving, Received
  <2>5. Accounted(u, q, n)
    BY <1>2, <1>9, <2>3, <2>4 DEF Accounted
  <2>6. FlowInv(u, q, n, sp)
    BY <1>2, <1>9, <2>3, <2>4, <2>5 DEF FlowInv, Parsed
  <2>7. QuietInv(u, b) /\ DrainInv(u)
    BY <1>1, <2>3 DEF QuietInv, DrainInv
  <2> QED
    BY <2>2, <2>6, <2>7 DEF Good
<1>10. ASSUME v.next = "headers" PROVE Good([x EXCEPT !.paused = @ \/ ~IsOpen(x)], q, n, b, sp)
  <2> DEFINE c == x.paused \/ ~IsOpen(x)
             u == [x EXCEPT !.paused = c]
  <2>1. c \in BOOLEAN
    OBVIOUS
  <2> HIDE DEF c
  <2>2. Frame(x, u, {"paused"}) /\ u.paused = c
    BY <1>6 DEF Shape, Frame, FieldNames
  <2> HIDE DEF u
  <2>3. Frame(x, u, {"paused", "deferEnd", "pc"}) /\ u.deferEnd = v.deferEnd /\ u.pc = "parse"
    BY <1>4, <1>7, <2>2 DEF Frame, FieldNames
  <2>4. v.deferEnd \in BOOLEAN
    BY <1>1 DEF Typed
  <2>5. Good(u, q, n, b, sp)
    BY <1>2, <1>9, <1>10, <2>1, <2>2, <2>3, <2>4
  <2> QED
    BY <2>5 DEF u, c
<1>11. ASSUME v.next = "bodyThenEnd" PROVE Good(OnMessageComplete(x), q, n, b, sp)
  <2>1. Rest(v.run, n) /\ Counts(v.run, v.last, Sent(q, n))
    BY <1>2 DEF Accounted
  <2>2. Completes(x, q, n, b, sp)
    BY <1>2, <1>6, <1>7, <1>8, <1>11, <2>1 DEF Completes
  <2> QED
    BY <2>2, CompleteGood
<1>12. ASSUME v.next = "bodyThenDone" PROVE Good([x EXCEPT !.pc = "done"], q, n, b, sp)
  <2> DEFINE u == [x EXCEPT !.pc = "done"]
  <2>1. Frame(x, u, {"pc"}) /\ u.pc = "done"
    BY <1>6 DEF Shape, Frame, FieldNames
  <2> HIDE DEF u
  <2>2. Frame(x, u, {"paused", "deferEnd", "pc"}) /\ u.deferEnd = v.deferEnd /\ u.paused = x.paused
    BY <1>4, <1>7, <2>1 DEF Frame, FieldNames
  <2>3. v.deferEnd \in BOOLEAN /\ x.paused \in BOOLEAN
    BY <1>1, <1>5 DEF Typed
  <2>4. Good(u, q, n, b, sp)
    BY <1>2, <1>9, <1>12, <2>1, <2>2, <2>3
  <2> QED
    BY <2>4 DEF u
<1>13. ASSUME v.next = "end" PROVE Good([x EXCEPT !.paused = TRUE, !.deferEnd = FALSE], q, n, b, sp)
  <2> DEFINE u == [x EXCEPT !.paused = TRUE, !.deferEnd = FALSE]
  <2>1. Frame(x, u, {"paused", "deferEnd"}) /\ u.paused = TRUE /\ u.deferEnd = FALSE
    BY <1>6 DEF Shape, Frame, FieldNames
  <2> HIDE DEF u
  <2>2. Frame(x, u, {"paused", "deferEnd", "pc"}) /\ u.pc = "parse"
    BY <1>4, <2>1 DEF Frame, FieldNames
  <2>3. Good(u, q, n, b, sp)
    BY <1>9, <1>13, <2>1, <2>2
  <2> QED
    BY <2>3 DEF u
<1> QED
  BY <1>3, <1>10, <1>11, <1>12, <1>13 DEF x

-----------------------------------------------------------------------------
(* The steps.                                                              *)

(* The tokens of a request.                                                *)
LEMMA TokensOf ==
    ASSUME NEW r
    PROVE  /\ kind[r] = "post" => /\ Len(Tokens(r)) = 3
                                 /\ Tokens(r)[1] = "H" /\ Tokens(r)[2] = "B" /\ Tokens(r)[3] = "E"
           /\ kind[r] # "post" => Len(Tokens(r)) = 1 /\ Tokens(r)[1] \in {"G", "X"}
<1> DEFINE u == Tokens(r)
<1>1. /\ kind[r] = "post" => u = <<"H", "B", "E">>
      /\ kind[r] = "bad" => u = <<"X">>
      /\ kind[r] \notin {"post", "bad"} => u = <<"G">>
  BY DEF Tokens
<1> HIDE DEF u
<1>2. CASE kind[r] = "post"
  BY <1>1, <1>2 DEF u
<1>3. CASE kind[r] = "bad"
  BY <1>1, <1>3 DEF u
<1>4. CASE kind[r] \notin {"post", "bad"}
  BY <1>1, <1>4 DEF u
<1> QED
  BY <1>2, <1>3, <1>4

(* The next token, and where it leaves the client.                         *)
LEMMA AfterPlace ==
    ASSUME NEW p, Place(p), p[1] <= N
    PROVE  LET a == After(p)
               t == Tokens(p[1])[p[2] + 1]
           IN  /\ Place(a) /\ t \in Tok
               /\ \/ a[2] = 0 /\ t \in {"G", "X", "E"} /\ a[1] = p[1] + 1
                  \/ a[2] = 1 /\ t = "H" /\ a[1] = p[1]
                  \/ a[2] = 2 /\ t = "B" /\ a[1] = p[1]
               /\ p[2] = 0 => t \in Firsts
               /\ p[2] = 1 => t = "B"
               /\ p[2] = 2 => t = "E"
<1> DEFINE q == p[1]
           k == p[2]
           t == Tokens(q)[k + 1]
           a == After(p)
<1>1. q \in 1 .. N + 1 /\ q <= N /\ q \in Nat /\ k \in {0, 1, 2} /\ (k > 0 => kind[q] = "post") /\ N \in Nat
  <2>1. p \in (1 .. N + 1) \X (0 .. 2)
    BY DEF Place
  <2>2. q \in 1 .. N + 1 /\ k \in 0 .. 2 /\ N \in Nat
    BY <2>1, NAssumption
  <2>3. k > 0 => kind[q] = "post"
    BY DEF Place
  <2> QED
    BY <2>2, <2>3
<1>2. /\ kind[q] = "post" => /\ Len(Tokens(q)) = 3
                            /\ Tokens(q)[1] = "H" /\ Tokens(q)[2] = "B" /\ Tokens(q)[3] = "E"
      /\ kind[q] # "post" => Len(Tokens(q)) = 1 /\ Tokens(q)[1] \in {"G", "X"}
  BY TokensOf
<1>3. a = IF k + 1 = Len(Tokens(q)) THEN <<q + 1, 0>> ELSE <<q, k + 1>>
  BY <1>1 DEF After
<1> HIDE DEF a
<1>4. ASSUME NEW m \in 0 .. 2, NEW l \in 1 .. N + 1, a = <<l, m>>, m > 0 => l <= N /\ kind[l] = "post"
      PROVE  Place(a) /\ a[1] = l /\ a[2] = m
  <2>1. a \in (1 .. N + 1) \X (0 .. 2) /\ a[1] = l /\ a[2] = m
    BY <1>4
  <2> QED
    BY <1>4, <2>1 DEF Place
<1>5. CASE kind[q] # "post"
  <2>0. k = 0
    BY <1>1, <1>5
  <2>1. k = 0 /\ t = Tokens(q)[1] /\ k + 1 = Len(Tokens(q))
    BY <2>0, <1>2, <1>5
  <2>2. a = <<q + 1, 0>> /\ q + 1 \in 1 .. N + 1 /\ 0 \in 0 .. 2
    BY <2>1, <1>1, <1>3
  <2>3. Place(a) /\ a[1] = q + 1 /\ a[2] = 0
    BY <2>2, <1>4
  <2> QED
    BY <2>1, <2>3, <1>2, <1>5 DEF a, Tok, Firsts
<1>6. CASE kind[q] = "post" /\ k = 2
  <2>1. t = "E" /\ k + 1 = Len(Tokens(q))
    BY <1>2, <1>6
  <2>2. a = <<q + 1, 0>> /\ q + 1 \in 1 .. N + 1 /\ 0 \in 0 .. 2
    BY <2>1, <1>1, <1>3
  <2>3. Place(a) /\ a[1] = q + 1 /\ a[2] = 0
    BY <2>2, <1>4
  <2> QED
    BY <2>1, <2>3, <1>6 DEF a, Tok
<1>7. CASE kind[q] = "post" /\ k = 1
  <2>1. t = "B" /\ k + 1 # Len(Tokens(q))
    BY <1>2, <1>7
  <2>2. a = <<q, 2>> /\ 2 \in 0 .. 2
    BY <2>1, <1>3, <1>7
  <2>3. Place(a) /\ a[1] = q /\ a[2] = 2
    BY <2>2, <1>1, <1>4, <1>7
  <2> QED
    BY <2>1, <2>3, <1>7 DEF a, Tok
<1>8. CASE kind[q] = "post" /\ k = 0
  <2>1. t = "H" /\ k + 1 # Len(Tokens(q))
    BY <1>2, <1>8
  <2>2. a = <<q, 1>> /\ 1 \in 0 .. 2
    BY <2>1, <1>3, <1>8
  <2>3. Place(a) /\ a[1] = q /\ a[2] = 1
    BY <2>2, <1>1, <1>4, <1>8
  <2> QED
    BY <2>1, <2>3, <1>8 DEF a, Tok, Firsts
<1> QED
  BY <1>1, <1>5, <1>6, <1>7, <1>8

(* f is where the client is after each token from p on.                    *)
Walk(f, p) == f[0] = p /\ \A i \in 1 .. MaxSlice : f[i] = After(f[i - 1])

(* The tokens of the first n steps.                                        *)
Slice(f, n) == [i \in 1 .. n |-> Tokens(f[i - 1][1])[f[i - 1][2] + 1]]

(* It never goes back.                                                     *)
LEMMA WalkOn ==
    ASSUME NEW f, NEW p, Place(p), Walk(f, p), NEW j \in 0 .. MaxSlice
    PROVE  Place(f[j]) /\ \A i \in 0 .. j : f[i][1] <= f[j][1]
<1> DEFINE S == {k \in 0 .. MaxSlice : Place(f[k]) /\ \A i \in 0 .. k : f[i][1] \in Nat /\ f[i][1] <= f[k][1]}
<1>1. MaxSlice \in Nat
  BY NAssumption DEF MaxSlice
<1>2. \A x : Place(x) => x[1] \in Nat
  BY NAssumption DEF Place
<1>3. 0 \in S
  <2>1. Place(f[0]) /\ f[0][1] \in Nat
    BY <1>2 DEF Walk
  <2>2. \A i \in 0 .. 0 : i = 0
    OBVIOUS
  <2> QED
    BY <2>1, <2>2, <1>1
<1>4. ASSUME NEW k \in 0 .. MaxSlice, k # MaxSlice, k \in S PROVE k + 1 \in S
  <2>1. k + 1 \in 1 .. MaxSlice /\ k + 1 \in 0 .. MaxSlice /\ (k + 1) - 1 = k
    BY <1>1, <1>4
  <2>2. f[k + 1] = After(f[k])
    BY <2>1 DEF Walk
  <2>3. Place(f[k]) /\ \A i \in 0 .. k : f[i][1] \in Nat /\ f[i][1] <= f[k][1]
    BY <1>4
  <2>4. Place(f[k + 1]) /\ f[k][1] <= f[k + 1][1]
    <3>1. CASE f[k][1] <= N
      BY <3>1, <2>2, <2>3, <1>2, AfterPlace
    <3>2. CASE ~(f[k][1] <= N)
      <4>1. f[k][1] > N
        BY <3>2, <2>3, <1>2, NAssumption
      <4>2. f[k + 1] = f[k]
        BY <4>1, <2>2 DEF After
      <4> QED
        BY <4>2, <2>3, <1>2
    <3> QED
      BY <3>1, <3>2
  <2>5. ASSUME NEW i \in 0 .. k + 1 PROVE f[i][1] \in Nat /\ f[i][1] <= f[k + 1][1]
    <3>1. CASE i = k + 1
      BY <3>1, <2>4, <1>2
    <3>2. CASE i # k + 1
      <4>1. i \in 0 .. k
        BY <3>2, <1>4
      <4>2. f[i][1] \in Nat /\ f[i][1] <= f[k][1] /\ f[k][1] <= f[k + 1][1]
        BY <4>1, <2>3, <2>4
      <4>3. f[k][1] \in Nat /\ f[k + 1][1] \in Nat
        BY <2>3, <2>4, <1>2
      <4> QED
        BY <4>2, <4>3
    <3> QED
      BY <3>1, <3>2
  <2> QED
    BY <2>1, <2>4, <2>5
<1> HIDE DEF S
<1>5. j \in S
  BY <1>1, <1>3, <1>4, UpTo
<1> QED
  BY <1>5 DEF S
(* What the client sends in n steps is a slice, and of one request if the  *)
(* steps begin no other.                                                   *)
LEMMA WalkSlice ==
    ASSUME NEW f, NEW p, Place(p), Walk(f, p), NEW n \in 1 .. MaxSlice, f[n - 1][1] <= N
    PROVE  /\ IsSlice(Slice(f, n), p[1], p[2], f[n][1], f[n][2]) /\ Place(f[n])
           /\ f[n - 1][1] = p[1] => Single(Slice(f, n))
<1> DEFINE s == Slice(f, n)
           g == [i \in 0 .. n |-> Sent(f[i][1], f[i][2])]
<1>1. MaxSlice \in Nat /\ n \in Nat /\ n >= 1 /\ n - 1 \in 0 .. MaxSlice /\ n \in 0 .. MaxSlice
      /\ f[0] = p /\ N \in Nat
  BY NAssumption DEF MaxSlice, Walk
<1>2. \A i \in 0 .. n : Place(f[i])
  <2>1. \A i \in 0 .. n : i \in 0 .. MaxSlice
    BY <1>1
  <2> QED
    BY <2>1, WalkOn
<1>3. \A x : Place(x) => /\ x[1] \in 1 .. N + 1 /\ x[1] \in Nat /\ x[2] \in {0, 1, 2}
                         /\ (x[2] # 0 => x[1] <= N) /\ Sent(x[1], x[2]) \in 0 .. N
  <2> SUFFICES ASSUME NEW x, Place(x)
               PROVE  /\ x[1] \in 1 .. N + 1 /\ x[1] \in Nat /\ x[2] \in {0, 1, 2}
                      /\ (x[2] # 0 => x[1] <= N) /\ Sent(x[1], x[2]) \in 0 .. N
    OBVIOUS
  <2>1. x \in (1 .. N + 1) \X (0 .. 2) /\ (x[2] > 0 => x[1] <= N)
    BY DEF Place
  <2>2. x[1] \in 1 .. N + 1 /\ x[2] \in 0 .. 2
    BY <2>1
  <2> HIDE DEF Place
  <2>3. x[1] \in Nat /\ x[2] \in {0, 1, 2} /\ (x[2] # 0 => x[1] <= N)
    BY <2>1, <2>2, <1>1
  <2> QED
    BY <2>2, <2>3, <1>1 DEF Sent
<1>4. ASSUME NEW i \in 1 .. n
      PROVE  /\ i - 1 \in 0 .. n /\ i \in 0 .. n
             /\ s[i] \in Tok
             /\ \/ f[i][2] = 0 /\ s[i] \in {"G", "X", "E"} /\ f[i][1] = f[i - 1][1] + 1
                \/ f[i][2] = 1 /\ s[i] = "H" /\ f[i][1] = f[i - 1][1]
                \/ f[i][2] = 2 /\ s[i] = "B" /\ f[i][1] = f[i - 1][1]
             /\ f[i - 1][2] = 0 => s[i] \in Firsts
             /\ f[i - 1][2] = 1 => s[i] = "B"
             /\ f[i - 1][2] = 2 => s[i] = "E"
  <2>1. i \in 1 .. MaxSlice /\ i - 1 \in 0 .. n /\ i \in 0 .. n /\ i - 1 \in 0 .. n - 1
    BY <1>1
  <2>2. f[i] = After(f[i - 1]) /\ s[i] = Tokens(f[i - 1][1])[f[i - 1][2] + 1]
    BY <2>1 DEF Walk, Slice
  <2>3. f[i - 1][1] <= N
    <3>1. f[i - 1][1] <= f[n - 1][1]
      BY <1>1, <2>1, WalkOn
    <3>2. Place(f[i - 1]) /\ Place(f[n - 1])
      BY <1>1, <1>2, <2>1
    <3> QED
      BY <3>1, <3>2, <1>1, <1>3
  <2>4. Place(f[i - 1])
    BY <1>2, <2>1
  <2> HIDE DEF s
  <2> QED
    BY <2>1, <2>2, <2>3, <2>4, AfterPlace
<1>5. s \in Seq(Tok) /\ Len(s) = n /\ s # <<>>
  <2>1. s = [i \in 1 .. n |-> s[i]]
    BY DEF Slice
  <2> HIDE DEF s
  <2>2. s \in [1 .. n -> Tok]
    BY <2>1, <1>4
  <2>3. s \in Seq(Tok) /\ Len(s) = n
    BY <2>2, <1>1
  <2> QED
    BY <2>3, <1>1
<1> HIDE DEF s
<1>6. Rest(s, f[n][2])
  <2>1. ASSUME NEW i \in 1 .. Len(s) - 1 PROVE Follows(s[i], s[i + 1])
    <3>1. i \in 1 .. n /\ i + 1 \in 1 .. n /\ (i + 1) - 1 = i
      BY <1>1, <1>5
    <3>2. /\ f[i][2] = 0 => s[i + 1] \in Firsts
          /\ f[i][2] = 1 => s[i + 1] = "B"
          /\ f[i][2] = 2 => s[i + 1] = "E"
      BY <3>1, <1>4
    <3>3. \/ f[i][2] = 0 /\ s[i] \in {"G", "X", "E"}
          \/ f[i][2] = 1 /\ s[i] = "H"
          \/ f[i][2] = 2 /\ s[i] = "B"
      BY <3>1, <1>4
    <3> QED
      BY <3>2, <3>3 DEF Follows
  <2>2. n \in 1 .. n
    BY <1>1
  <2>3. \/ f[n][2] = 0 /\ s[n] \in {"G", "X", "E"}
        \/ f[n][2] = 1 /\ s[n] = "H"
        \/ f[n][2] = 2 /\ s[n] = "B"
    BY <2>2, <1>4
  <2> QED
    BY <2>1, <2>3, <1>5 DEF Rest
<1>7. Begins(s) <=> p[2] = 0
  <2>1. 1 \in 1 .. n /\ 1 - 1 = 0 /\ p[2] \in {0, 1, 2}
    BY <1>1, <1>3
  <2>2. /\ p[2] = 0 => s[1] \in Firsts
        /\ p[2] = 1 => s[1] = "B"
        /\ p[2] = 2 => s[1] = "E"
    BY <2>1, <1>1, <1>4
  <2>3. "B" \notin Firsts /\ "E" \notin Firsts
    BY DEF Firsts
  <2> QED
    BY <2>1, <2>2, <2>3, <1>5 DEF Begins
<1>8. ASSUME NEW i \in 1 .. n
      PROVE  Sent(f[i][1], f[i][2]) =
                IF s[i] \in Firsts THEN Sent(f[i - 1][1], f[i - 1][2]) + 1
                                   ELSE Sent(f[i - 1][1], f[i - 1][2])
  <2> DEFINE a == f[i][1]
             m == f[i][2]
             b == f[i - 1][1]
             k == f[i - 1][2]
             t == s[i]
  <2>1. a \in Nat /\ b \in Nat /\ k \in {0, 1, 2} /\ b >= 1
    <3>1. Place(f[i]) /\ Place(f[i - 1])
      BY <1>2, <1>4
    <3> QED
      BY <3>1, <1>3
  <2>2. /\ \/ m = 0 /\ t \in {"G", "X", "E"} /\ a = b + 1
           \/ m = 1 /\ t = "H" /\ a = b
           \/ m = 2 /\ t = "B" /\ a = b
        /\ k = 0 => t \in Firsts
        /\ k = 1 => t = "B"
        /\ k = 2 => t = "E"
    BY <1>4
  <2> HIDE DEF a, b, m, k, t
  <2>3. Sent(a, m) = IF t \in Firsts THEN Sent(b, k) + 1 ELSE Sent(b, k)
    <3>1. CASE k = 0
      BY <3>1, <2>1, <2>2 DEF Sent, Firsts
    <3>2. CASE k = 1
      BY <3>2, <2>1, <2>2 DEF Sent, Firsts
    <3>3. CASE k = 2
      BY <3>3, <2>1, <2>2 DEF Sent, Firsts
    <3> QED
      BY <2>1, <3>1, <3>2, <3>3
  <2> QED
    BY <2>3 DEF a, b, m, k, t
<1>9. Counts(s, Sent(p[1], p[2]), Sent(f[n][1], f[n][2]))
  <2>1. g \in [0 .. n -> 0 .. N]
    BY <1>2, <1>3
  <2>2. \A i \in 0 .. n : g[i] = Sent(f[i][1], f[i][2])
    OBVIOUS
  <2> HIDE DEF g
  <2>3. g[0] = Sent(p[1], p[2]) /\ g[n] = Sent(f[n][1], f[n][2])
    BY <2>2, <1>1
  <2>4. \A i \in 1 .. n : g[i] = IF s[i] \in Firsts THEN g[i - 1] + 1 ELSE g[i - 1]
    BY <2>2, <1>4, <1>8
  <2> QED
    BY <2>1, <2>3, <2>4, <1>5 DEF Counts
<1>10. ASSUME f[n - 1][1] = p[1], NEW i \in 1 .. n, i > 1, s[i] \in Firsts PROVE FALSE
  <2>1. i - 1 \in 1 .. n /\ i - 1 \in 0 .. n - 1 /\ (i - 1) - 1 \in 0 .. n - 1 /\ i - 1 \in 0 .. MaxSlice
        /\ (i - 1) - 1 \in 0 .. MaxSlice
    BY <1>1, <1>10
  <2>2. f[i - 1][2] = 0
    <3>1. f[i - 1][2] \in {0, 1, 2}
      BY <1>2, <1>3, <1>4
    <3>2. f[i - 1][2] \in {1, 2} => s[i] \in {"B", "E"}
      BY <1>4
    <3> QED
      BY <3>1, <3>2, <1>10 DEF Firsts
  <2>3. f[i - 1][1] = f[(i - 1) - 1][1] + 1
    BY <2>1, <2>2, <1>4
  <2>4. f[i - 1][1] <= f[n - 1][1]
    BY <2>1, <1>1, WalkOn
  <2>5. f[0][1] <= f[(i - 1) - 1][1]
    <3>1. 0 \in 0 .. (i - 1) - 1
      BY <2>1
    <3> QED
      BY <2>1, <3>1, WalkOn
  <2>6. f[(i - 1) - 1][1] \in Nat /\ p[1] \in Nat
    <3>1. (i - 1) - 1 \in 0 .. n
      BY <2>1, <1>1
    <3> QED
      BY <3>1, <1>2, <1>3
  <2> QED
    BY <2>3, <2>4, <2>5, <2>6, <1>1, <1>10
<1>11. f[n - 1][1] = p[1] => Single(s)
  BY <1>5, <1>10 DEF Single
<1>12. Place(f[n])
  BY <1>1, <1>2
<1> QED
  BY <1>5, <1>6, <1>7, <1>9, <1>11, <1>12 DEF IsSlice, s

(* readcb reads such a slice.                                              *)
LEMMA OnDataSlice ==
    ASSUME OnData
    PROVE  \E f : \E n \in 1 .. MaxSlice :
              /\ Walk(f, sent) /\ f[n - 1][1] <= N /\ sent' = f[n]
              /\ spans' = (spans \/ f[n - 1][1] # sent[1]) /\ (spans' => busy)
              /\ w' = Dispatch([w EXCEPT !.data = Append(@, Slice(f, n))])
<1> DEFINE M == MaxSlice
           q == sent
           Step(x) == After(x)
           Is(f, n) == f = [i \in 0 .. n |-> IF i = 0 THEN q ELSE Step(f[i - 1])]
           S == {n \in 0 .. M : \E f : Is(f, n)}
           h == CHOOSE f : Is(f, M)
<1>0. M \in Nat
  BY NAssumption DEF MaxSlice
<1>1. PICK n \in 1 .. M :
         /\ h[n - 1][1] <= N /\ sent' = h[n]
         /\ spans' = (spans \/ h[n - 1][1] # sent[1]) /\ (spans' => busy)
         /\ w' = Dispatch([w EXCEPT !.data = Append(@, Slice(h, n))])
  BY DEF OnData, Slice
<1> HIDE DEF Step, q, h, M
<1>2. 0 \in S
  <2>1. Is([i \in 0 .. 0 |-> q], 0)
    OBVIOUS
  <2>2. \E f : Is(f, 0)
    <3> HIDE DEF Is
    <3> QED
      BY <2>1
  <2>3. 0 \in 0 .. M
    BY <1>0
  <2> HIDE DEF Is
  <2> QED
    BY <2>2, <2>3
<1>3. ASSUME NEW m \in 0 .. M, m # M, m \in S PROVE m + 1 \in S
  <2>1. PICK f : Is(f, m)
    BY <1>3
  <2> DEFINE g == [i \in 0 .. m + 1 |-> IF i <= m THEN f[i] ELSE Step(f[m])]
  <2>2. Is(g, m + 1)
    BY <2>1
  <2>3. m + 1 \in 0 .. M
    BY <1>0, <1>3
  <2> HIDE DEF Is, g
  <2> QED
    BY <2>2, <2>3
<1>4. M \in S
  <2>1. \A i \in 0 .. M : i # M /\ i \in S => i + 1 \in S
    BY <1>3
  <2> HIDE DEF S
  <2>2. \A i \in 0 .. M : i \in S
    BY <1>0, <1>2, <2>1, UpTo
  <2> QED
    BY <1>0, <2>2
<1>5. Is(h, M)
  <2> HIDE DEF Is
  <2> QED
    BY <1>4 DEF h
<1>6. h[0] = q /\ \A i \in 1 .. M : h[i] = Step(h[i - 1])
  <2>1. h = [i \in 0 .. M |-> IF i = 0 THEN q ELSE Step(h[i - 1])]
    BY <1>5
  <2>2. 0 \in 0 .. M /\ \A i \in 1 .. M : i \in 0 .. M /\ i # 0
    BY <1>0
  <2> QED
    BY <2>1, <2>2
<1>7. Walk(h, sent)
  BY <1>6 DEF Walk, Step, q, M
<1> QED
  BY <1>1, <1>7 DEF M

(* readcb.                                                                 *)
LEMMA OnDataStep ==
    ASSUME IInv, OnData
    PROVE  IInv'
<1> DEFINE q == sent[1]
           k == sent[2]
<1>1. PICK f : \E n \in 1 .. MaxSlice :
         /\ Walk(f, sent) /\ f[n - 1][1] <= N /\ sent' = f[n]
         /\ spans' = (spans \/ f[n - 1][1] # sent[1]) /\ (spans' => busy)
         /\ w' = Dispatch([w EXCEPT !.data = Append(@, Slice(f, n))])
  BY OnDataSlice
<1>2. PICK n \in 1 .. MaxSlice :
         /\ Walk(f, sent) /\ f[n - 1][1] <= N /\ sent' = f[n]
         /\ spans' = (spans \/ f[n - 1][1] # sent[1]) /\ (spans' => busy)
         /\ w' = Dispatch([w EXCEPT !.data = Append(@, Slice(f, n))])
  BY <1>1
<1>3. /\ w.abort = "none" /\ w.pc = "idle" /\ w.net = "open" /\ w.dis = 0
      /\ busy' = busy /\ kind' = kind /\ overrun' = overrun
  BY DEF OnData, Idle, Running
<1>4. ClientInv /\ Place(sent) /\ busy \in BOOLEAN /\ spans \in BOOLEAN
  BY DEF IInv, ClientInv
<1> DEFINE s == Slice(f, n)
<1>5. /\ IsSlice(s, q, k, f[n][1], f[n][2]) /\ Place(f[n])
      /\ f[n - 1][1] = q => Single(s)
  BY <1>2, <1>4, WalkSlice
<1> HIDE DEF s
<1>6. /\ q \in Nat /\ k \in Nat /\ f[n][1] \in Nat /\ f[n][2] \in Nat
  BY <1>4, <1>5, NAssumption DEF Place
<1>7. spans' \in BOOLEAN /\ (spans => spans') /\ (~spans' => Single(s))
  BY <1>2, <1>4, <1>5
<1>8. ClientInv'
  <2>2. Place(sent)'
    BY <1>2, <1>3, <1>5 DEF Place
  <2> QED
    BY <2>2, <1>2, <1>3, <1>4, <1>7 DEF ClientInv
<1>9. ASSUME ~overrun PROVE Good(w', sent'[1], sent'[2], busy, spans')
  <2>1. Good(w, q, k, busy, spans)
    BY <1>9 DEF IInv
  <2> DEFINE v == [w EXCEPT !.data = Append(@, s)]
  <2>2. w' = Dispatch(v)
    BY <1>2 DEF s
  <2> HIDE DEF q, k
  <2>3. Good(Dispatch(v), f[n][1], f[n][2], busy, spans')
    BY <2>1, <1>3, <1>5, <1>6, <1>7, OnDataGood
  <2> HIDE DEF v
  <2> QED
    BY <2>2, <2>3, <1>2
<1> QED
  BY <1>3, <1>7, <1>8, <1>9 DEF IInv

(* A step of the connection alone.                                         *)
LEMMA StepGood ==
    ASSUME IInv, UNCHANGED <<busy, kind, sent, spans, overrun>>,
           ~overrun => Good(w', sent[1], sent[2], busy, spans)
    PROVE  IInv'
<1>1. /\ busy' = busy /\ kind' = kind /\ sent' = sent /\ spans' = spans /\ overrun' = overrun
  OBVIOUS
<1>2. ClientInv'
  BY <1>1 DEF IInv, ClientInv, Place
<1> QED
  BY <1>1, <1>2 DEF IInv

(* The parser.                                                             *)
LEMMA ParseStep ==
    ASSUME IInv, Parse
    PROVE  IInv'
<1> DEFINE q == sent[1]
           k == sent[2]
<1>1. /\ q \in Nat /\ k \in Nat /\ (~overrun => Good(w, q, k, busy, spans))
      /\ (~busy => \A r \in R : kind[r] # "nohost") /\ (busy \/ ~spans)
      /\ spans \in BOOLEAN /\ overrun \in BOOLEAN /\ (overrun => spans)
  BY NAssumption DEF IInv, ClientInv, Place
<1>2. /\ w.abort = "none" /\ w.pc = "parse" /\ busy' = busy /\ kind' = kind /\ sent' = sent
      /\ spans' = spans /\ overrun' = (overrun \/ TakesPlace(w))
  BY DEF Parse, Running
<1>3. ClientInv'
  <2>1. overrun' \in BOOLEAN
    BY <1>1, <1>2 DEF TakesPlace
  <2> QED
    BY <2>1, <1>2 DEF IInv, ClientInv, Place
<1> HIDE DEF q, k
<1>4. CASE overrun
  BY <1>1, <1>2, <1>3, <1>4 DEF IInv
<1>5. CASE ~overrun /\ TakesPlace(w)
  <2>1. Core(w) /\ FlowInv(w, q, k, spans)
    BY <1>1, <1>2, <1>5 DEF Good
  <2>2. w.run # <<>> /\ Begins(w.run) /\ w.active # 0
    <3>1. w.run \in Seq(Tok)
      BY <2>1 DEF Core, Typed
    <3>2. w.run # <<>> => Head(w.run) = w.run[1]
      BY <3>1
    <3> QED
      BY <3>2, <1>5 DEF TakesPlace, Begins, Firsts
  <2>3. ~Receiving(w)
    BY <2>1, <2>2, <1>2 DEF FlowInv, Accounted
  <2>4. Received(w)
    BY <2>2, <2>3 DEF Received, Receiving
  <2>5. spans
    BY <2>1, <2>2, <2>4, <1>2 DEF FlowInv, Parsed
  <2> QED
    BY <2>5, <1>2, <1>3, <1>5 DEF IInv
<1>6. CASE ~overrun /\ ~TakesPlace(w)
  <2>1. CASE w.run # <<>>
    <3>1. w' = OnToken(w, Head(w.run))
      BY <2>1 DEF Parse
    <3>2. Good(OnToken(w, Head(w.run)), q, k, busy, spans)
      BY <1>1, <1>2, <1>6, <2>1, TokenGood
    <3> QED
      BY <3>1, <3>2, <1>2, <1>3, <1>6 DEF IInv, q, k
  <2>2. CASE w.run = <<>>
    <3> DEFINE x == [w EXCEPT !.data = Tail(@)]
               u == DispatchBufferedBody(x, "bodyThenDone", [x EXCEPT !.body = FALSE, !.pc = "done"])
    <3>1. x.data = <<>> /\ Good(u, q, k, busy, spans)
      BY <1>1, <1>2, <1>6, <2>2, SliceGood
    <3>2. w' = IF x.data = <<>> \/ x.paused THEN u ELSE ExecuteSlice(x)
      BY <2>2 DEF Parse
    <3> HIDE DEF u, x
    <3>3. w' = u
      BY <3>1, <3>2
    <3> QED
      BY <3>1, <3>3, <1>2, <1>3, <1>6 DEF IInv, q, k
  <2> QED
    BY <2>1, <2>2
<1> QED
  BY <1>4, <1>5, <1>6

(* The return from the application.                                        *)
LEMMA ReturnStep ==
    ASSUME IInv, Return
    PROVE  IInv'
<1> DEFINE q == sent[1]
           k == sent[2]
           x == [w EXCEPT !.next = "none", !.pc = "parse"]
           u1 == [x EXCEPT !.paused = @ \/ ~IsOpen(x)]
           u2 == OnMessageComplete(x)
           u3 == [x EXCEPT !.pc = "done"]
           u4 == [x EXCEPT !.paused = TRUE, !.deferEnd = FALSE]
<1> SUFFICES ASSUME ~overrun PROVE Good(w', q, k, busy, spans)
  BY StepGood DEF Return
<1>1. Good(w, q, k, busy, spans) /\ (busy \/ ~spans)
  BY DEF IInv, ClientInv
<1>2. w.abort = "none" /\ w.pc = "app"
  BY DEF Return, Running
<1> HIDE DEF q, k
<1>3. w' = CASE w.next = "headers" -> u1
             [] w.next = "bodyThenEnd" -> u2
             [] w.next = "bodyThenDone" -> u3
             [] w.next = "end" -> u4
  BY DEF Return
<1>4. /\ w.next \in {"headers", "bodyThenEnd", "bodyThenDone", "end"}
      /\ w.next = "headers" => Good(u1, q, k, busy, spans)
      /\ w.next = "bodyThenEnd" => Good(u2, q, k, busy, spans)
      /\ w.next = "bodyThenDone" => Good(u3, q, k, busy, spans)
      /\ w.next = "end" => Good(u4, q, k, busy, spans)
  BY <1>1, <1>2, ReturnGood
<1> HIDE DEF u1, u2, u3, u4
<1> QED
  BY <1>3, <1>4

(* The end of dispatch.                                                    *)
LEMMA DispatchDoneStep ==
    ASSUME IInv, DispatchDone
    PROVE  IInv'
<1> DEFINE q == sent[1]
           k == sent[2]
           c == CheckForDeferredClose(w)
           u == [c EXCEPT !.pc = "idle"]
<1> SUFFICES ASSUME ~overrun PROVE Good(w', q, k, busy, spans)
  BY StepGood DEF DispatchDone
<1>1. Good(w, q, k, busy, spans)
  BY DEF IInv
<1>2. w.abort = "none" /\ w.pc \in {"done", "tail"}
  BY DEF DispatchDone, Running
<1> HIDE DEF q, k
<1>3. /\ ~(w.pc = "done" /\ Received(w) /\ w.data # <<>>)
      /\ IsOpen(c) /\ c.data # <<>> /\ c.streams = <<>> => Good(Dispatch(c), q, k, busy, spans)
      /\ Good(u, q, k, busy, spans)
  BY <1>1, <1>2, DoneGood
<1>4. ~(w.pc = "done" /\ w.active # 0 /\ w.req[w.active].remote /\ w.data # <<>>)
  BY <1>3 DEF Received
<1>5. w' = IF IsOpen(c) /\ c.data # <<>> /\ c.streams = <<>> THEN Dispatch(c) ELSE u
  BY <1>4 DEF DispatchDone
<1> HIDE DEF c, u
<1> QED
  BY <1>3, <1>5

(* The application.                                                        *)
LEMMA ApplicationStep ==
    ASSUME IInv, NEW r \in R, EncodeHeaders(r) \/ EncodeEnd(r) \/ LocalReply(r) \/ Reset(r)
    PROVE  IInv'
<1> DEFINE q == sent[1]
           k == sent[2]
<1> SUFFICES ASSUME ~overrun PROVE Good(w', q, k, busy, spans)
  BY StepGood DEF EncodeHeaders, EncodeEnd, LocalReply, Reset
<1>1. Good(w, q, k, busy, spans) /\ (busy \/ ~spans)
  BY DEF IInv, ClientInv
<1>2. MayAct(r)
  BY DEF EncodeHeaders, EncodeEnd, LocalReply, Reset
<1>3. Acts(w, r, busy)
  BY <1>2 DEF MayAct, Acts, Running
<1> HIDE DEF q, k
<1>4. CASE EncodeHeaders(r)
  <2>1. w.st[r].app = "called"
    BY <1>4 DEF EncodeHeaders
  <2>2. PICK end \in BOOLEAN :
           LET v == EncodeHeadersTo([w EXCEPT !.st[r].app = IF end THEN "done" ELSE "headers"], r, end)
           IN  w' = IF end THEN EndStream(v, r) ELSE v
    BY <1>4 DEF EncodeHeaders
  <2>3. CASE end = TRUE
    <3> DEFINE u == EndStream(EncodeHeadersTo([w EXCEPT !.st[r].app = "done"], r, TRUE), r)
    <3>1. w' = u
      BY <2>2, <2>3
    <3>2. Good(u, q, k, busy, spans)
      BY <1>1, <1>3, <2>1, HeadersEndGood
    <3> HIDE DEF u
    <3> QED
      BY <3>1, <3>2
  <2>4. CASE end = FALSE
    <3> DEFINE u == EncodeHeadersTo([w EXCEPT !.st[r].app = "headers"], r, FALSE)
    <3>1. w' = u
      BY <2>2, <2>4
    <3>2. Good(u, q, k, busy, spans)
      BY <1>1, <1>3, <2>1, HeadersGood
    <3> HIDE DEF u
    <3> QED
      BY <3>1, <3>2
  <2> QED
    BY <2>3, <2>4
<1>5. CASE EncodeEnd(r)
  <2> DEFINE u == EndStream(EndEncode([w EXCEPT !.st[r].app = "done"], r), r)
  <2>1. w.st[r].app = "headers" /\ w' = u
    BY <1>5 DEF EncodeEnd
  <2>2. Good(u, q, k, busy, spans)
    BY <1>1, <1>3, <2>1, EndGood
  <2> HIDE DEF u
  <2> QED
    BY <2>1, <2>2
<1>6. CASE LocalReply(r)
  <2>1. w' = SendLocalReply(w, r)
    BY <1>6 DEF LocalReply
  <2>2. Good(w', q, k, busy, spans)
    BY <1>1, <1>3, <2>1, ReplyGood
  <2> QED
    BY <2>2
<1>7. CASE Reset(r)
  <2> DEFINE u == DoEndStream([w EXCEPT !.st[r].app = "done"], r)
  <2>1. w.st[r].app = "headers" /\ w' = u
    BY <1>7 DEF Reset
  <2>2. Good(u, q, k, busy, spans)
    BY <1>1, <1>3, <2>1, ResetGood
  <2> HIDE DEF u
  <2> QED
    BY <2>1, <2>2
<1> QED
  BY <1>4, <1>5, <1>6, <1>7

(* The loop.                                                               *)
LEMMA LoopStep ==
    ASSUME IInv, ClearDeferredList \/ Flushed \/ RemoteClose
    PROVE  IInv'
<1> DEFINE q == sent[1]
           k == sent[2]
<1> SUFFICES ASSUME ~overrun PROVE Good(w', q, k, busy, spans)
  BY StepGood DEF ClearDeferredList, Flushed, RemoteClose
<1>1. Good(w, q, k, busy, spans) /\ (busy \/ ~spans)
  BY DEF IInv, ClientInv
<1>2. Idle
  BY DEF ClearDeferredList, Flushed, RemoteClose
<1>3. w.abort = "none" /\ w.pc = "idle"
  BY <1>2 DEF Idle, Running
<1> HIDE DEF q, k
<1>4. CASE ClearDeferredList
  <2>1. w' = ClearDeferred(w)
    BY <1>4 DEF ClearDeferredList
  <2>2. Good(w', q, k, busy, spans)
    BY <1>1, <1>3, <2>1, ClearGood
  <2> QED
    BY <2>2
<1>5. CASE Flushed
  <2> DEFINE u == [w EXCEPT !.pend = FALSE, !.net = IF @ = "flushing" THEN "closed" ELSE @]
  <2>1. w' = u
    BY <1>5 DEF Flushed
  <2>2. Good(u, q, k, busy, spans)
    BY <1>1, <1>3, FlushedGood
  <2> HIDE DEF u
  <2> QED
    BY <2>1, <2>2
<1>6. CASE RemoteClose
  <2> DEFINE u == ResetAllStreams([w EXCEPT !.net = "closed"])
  <2>1. w' = u
    BY <1>6 DEF RemoteClose
  <2>2. Good(u, q, k, busy, spans)
    BY <1>1, <1>3, RemoteCloseGood
  <2> HIDE DEF u
  <2> QED
    BY <2>1, <2>2
<1> QED
  BY <1>4, <1>5, <1>6

-----------------------------------------------------------------------------
(* The theorems.                                                           *)

(* A new connection is in the invariant.                                   *)
LEMMA InitGood ==
    ASSUME Init
    PROVE  IInv
<1> DEFINE req0 == [r \in R |-> [obj |-> "none", remote |-> FALSE]]
           enc0 == [r \in R |-> [dis |-> 0, reset |-> FALSE, event |-> FALSE]]
           st0 == [r \in R |-> [obj |-> "none", sawLocal |-> FALSE, encComplete |-> FALSE,
                       onReset |-> FALSE, zombie |-> FALSE, lastByte |-> FALSE,
                       shouldDrain |-> FALSE, decoded |-> "none", app |-> "none"]]
<1>1. w = [net |-> "open", pend |-> FALSE, dis |-> 0, data |-> <<>>,
           active |-> 0, last |-> 0, resetCalled |-> FALSE, deferEnd |-> FALSE,
           status |-> "Ok", body |-> FALSE, paused |-> FALSE,
           run |-> <<>>, pc |-> "idle", next |-> "none",
           drain |-> FALSE, streams |-> <<>>, rqActive |-> 0,
           req |-> req0, enc |-> enc0, st |-> st0,
           deferred |-> <<>>, out |-> <<>>, abort |-> "none"]
  BY DEF Init
<1>2. req0 \in [R -> ReqRec] /\ \A r \in R : ~req0[r].remote
  BY DEF ReqRec, Objects
<1>3. enc0 \in [R -> EncRec] /\ \A r \in R : ~enc0[r].reset /\ ~enc0[r].event
  BY DEF EncRec, MaxDisable
<1>4. /\ st0 \in [R -> StRec]
      /\ \A r \in R : /\ st0[r].obj = "none" /\ st0[r].app = "none" /\ st0[r].decoded = "none"
                      /\ ~st0[r].sawLocal
  BY DEF StRec, Objects
<1> HIDE DEF req0, enc0, st0
<1>5. Shape(w)
  BY <1>1 DEF Shape, FieldNames
<1>6. /\ w.net = "open" /\ w.pend = FALSE /\ w.dis = 0 /\ w.data = <<>> /\ w.active = 0 /\ w.last = 0
      /\ w.resetCalled = FALSE /\ w.deferEnd = FALSE /\ w.status = "Ok" /\ w.body = FALSE
      /\ w.paused = FALSE /\ w.run = <<>>
  BY <1>1
<1>7. /\ w.pc = "idle" /\ w.next = "none" /\ w.drain = FALSE /\ w.streams = <<>> /\ w.rqActive = 0
      /\ w.req = req0 /\ w.enc = enc0 /\ w.st = st0 /\ w.deferred = <<>> /\ w.out = <<>>
      /\ w.abort = "none"
  BY <1>1
<1>8. <<>> \in Seq(Seq(Tok)) /\ <<>> \in Seq(Tok) /\ <<>> \in Seq(R) /\ <<>> \in Seq(Items)
      /\ <<>> \in Seq(Writes) /\ Len(<<>>) = 0 /\ DOMAIN <<>> = {}
  OBVIOUS
<1>9. Typed(w)
  <2>1. w.dis \in 0 .. MaxDisable
    BY <1>6 DEF MaxDisable
  <2>2. /\ w.net \in {"open", "flushing", "closed"} /\ w.status \in {"Ok", "CodecProtocolError"}
        /\ w.pc \in {"idle", "parse", "app", "done", "tail"}
        /\ w.next \in {"none", "headers", "bodyThenEnd", "end", "bodyThenDone"}
        /\ w.abort \in {"none", "dispatch_slice:122", "read_disable:523", "on_encode_complete:270",
                         "dispose:303 spins", "freed decoder"}
    BY <1>6, <1>7
  <2>3. /\ w.pend \in BOOLEAN /\ w.resetCalled \in BOOLEAN /\ w.deferEnd \in BOOLEAN
        /\ w.body \in BOOLEAN /\ w.paused \in BOOLEAN /\ w.drain \in BOOLEAN
    BY <1>6, <1>7
  <2>4. w.data \in Seq(Seq(Tok)) /\ w.run \in Seq(Tok)
    BY <1>6, <1>8
  <2> QED
    BY <1>5, <2>1, <2>2, <2>3, <2>4 DEF Typed
<1>10. StreamInv(<<>>, 0, st0, enc0, <<>>)
  <2>1. Inj(<<>>) /\ \A x : ~Has(<<>>, x)
    BY <1>8 DEF Inj, Has
  <2> QED
    BY <2>1, <1>3, <1>4, <1>8 DEF StreamInv
<1>11. CodecInv(0, 0, st0, req0)
  <2>1. 0 \in 0 .. N /\ 0 \notin R
    BY NAssumption DEF R
  <2> QED
    BY <2>1, <1>2, <1>4 DEF CodecInv
<1>12. OutInv(<<>>, 0, st0)
  BY <1>8 DEF OutInv, Ordered
<1>13. Core(w)
  BY <1>6, <1>7, <1>9, <1>10, <1>11, <1>12 DEF Core
<1>14. /\ sent = <<1, 0>> /\ busy \in BOOLEAN /\ kind \in Scripts /\ spans = FALSE /\ overrun = FALSE
       /\ ~busy => \A r \in R : kind[r] # "nohost"
  BY DEF Init
<1>15. sent[1] = 1 /\ sent[2] = 0 /\ sent \in (1 .. N + 1) \X (0 .. 2)
  BY <1>14, NAssumption
<1>16. ClientInv
  <2>1. Place(sent)
    BY <1>15 DEF Place
  <2>2. spans \in BOOLEAN /\ overrun \in BOOLEAN
    BY <1>14
  <2>3. ~busy => ~spans /\ \A r \in R : kind[r] # "nohost"
    BY <1>14
  <2>4. busy \in BOOLEAN /\ kind \in Scripts
    BY <1>14
  <2> QED
    BY <2>1, <2>2, <2>3, <2>4, Zenon DEF ClientInv
<1>17. Accounted(w, 1, 0)
  <2>1. Sent(1, 0) = 0 /\ 0 \in 0 .. N
    BY NAssumption DEF Sent
  <2>2. Counts(<<>>, 0, 0)
    BY <2>1, CountsSame
  <2> QED
    BY <2>1, <2>2, <1>6, NoTokens DEF Accounted, Receiving
<1>18. FlowInv(w, 1, 0, spans) /\ QuietInv(w, busy) /\ DrainInv(w)
  BY <1>6, <1>7, <1>17, NoTokens DEF FlowInv, QuietInv, DrainInv, Received, Parsed
<1> QED
  BY <1>13, <1>14, <1>15, <1>16, <1>18 DEF IInv, Good

(* The invariant holds in every reachable state, whatever the client       *)
(* sends and however the network cuts it: until a request takes another    *)
(* one's place, the codec, the streams, the input left and the output      *)
(* agree, and a request does so only if one read held parts of both.       *)
THEOREM Inductive == Spec => []IInv
<1>1. Init => IInv
  BY InitGood
<1>2. IInv /\ [Next]_vars => IInv'
  <2> SUFFICES ASSUME IInv, [Next]_vars PROVE IInv'
    OBVIOUS
  <2>1. CASE OnData
    BY <2>1, OnDataStep
  <2>2. CASE Parse
    BY <2>2, ParseStep
  <2>3. CASE Return
    BY <2>3, ReturnStep
  <2>4. CASE DispatchDone
    BY <2>4, DispatchDoneStep
  <2>5. CASE \E r \in R : EncodeHeaders(r) \/ EncodeEnd(r) \/ LocalReply(r) \/ Reset(r)
    BY <2>5, ApplicationStep
  <2>6. CASE ClearDeferredList \/ Flushed \/ RemoteClose
    BY <2>6, LoopStep
  <2>7. CASE UNCHANGED vars
    <3>1. UNCHANGED <<busy, kind, sent, spans, overrun>> /\ w' = w
      BY <2>7 DEF vars
    <3>2. ~overrun => Good(w', sent[1], sent[2], busy, spans)
      BY <3>1 DEF IInv
    <3> QED
      BY <3>1, <3>2, StepGood
  <2> QED
    BY <2>1, <2>2, <2>3, <2>4, <2>5, <2>6, <2>7 DEF Next
<1> QED
  BY <1>1, <1>2, PTL DEF Spec

(* Streams and connections end when they should: for a client that waits   *)
(* for its responses, once the connection is gone and the loop has freed   *)
(* what do_deferred_stream_destroy gave it, no active stream is left and   *)
(* downstream_rq_active is zero; and for every client whose requests keep  *)
(* their places in the codec, a draining connection that has no streams    *)
(* has been closed by check_for_deferred_close.                            *)
THEOREM StreamsEnd == Spec => [](EveryStreamEnds /\ (~overrun => StreamsAndDrainsEnd))
<1>1. IInv => EveryStreamEnds /\ (~overrun => StreamsAndDrainsEnd)
  <2> SUFFICES ASSUME IInv PROVE EveryStreamEnds /\ (~overrun => StreamsAndDrainsEnd)
    OBVIOUS
  <2>1. /\ ClientInv /\ (~busy => ~overrun)
        /\ ~overrun => Core(w) /\ (w.abort = "none" => QuietInv(w, busy) /\ DrainInv(w))
    BY DEF IInv, ClientInv, Good
  <2>2. ~overrun => TypeOK
    BY <2>1, CoreTypes DEF TypeOK, ClientInv, Place
  <2>3. EveryStreamEnds
    <3> SUFFICES ASSUME ~busy, Idle, w.net = "closed", w.deferred = <<>>
                 PROVE  /\ w.streams = <<>> /\ w.rqActive = 0
                        /\ \A r \in R : w.st[r].obj \in {"none", "freed"}
      BY DEF EveryStreamEnds
    <3>1. w.streams = <<>>
      BY <2>1 DEF Idle, Running, QuietInv
    <3>2. StreamInv(<<>>, w.rqActive, w.st, w.enc, <<>>)
      BY <2>1, <3>1 DEF Core
    <3>3. w.rqActive = 0
      BY <3>2 DEF StreamInv
    <3>4. \A x : ~Has(<<>>, x)
      BY DEF Has
    <3>5. \A r \in R : w.st[r].obj \in Objects /\ w.st[r].obj # "live" /\ w.st[r].obj # "deferred"
      BY <3>2, <3>4 DEF StreamInv, StRec
    <3> QED
      BY <3>1, <3>3, <3>5 DEF Objects
  <2>4. ~overrun => DrainedIsClosed
    BY <2>1 DEF DrainedIsClosed, Idle, Running, DrainInv
  <2> QED
    BY <2>2, <2>3, <2>4 DEF StreamsAndDrainsEnd
<1> QED
  BY <1>1, Inductive, PTL

(* What flush_output writes is in the order of the requests, and no        *)
(* response has two ends, as long as no request takes m_active_request     *)
(* from another.                                                           *)
THEOREM InOrder == Spec => []ResponsesInOrder
<1>1. IInv => ResponsesInOrder
  BY DEF IInv, Good, Core, OutInv, Ordered, ResponsesInOrder
<1> QED
  BY <1>1, Inductive, PTL

(* And none does unless one read held parts of two requests: however the   *)
(* requests are spread over reads, dispatch_i, the disabled reads and      *)
(* on_data's loop never let the parser reach a request while the one       *)
(* before it is in m_active_request.                                       *)
THEOREM ReadsApart == Spec => []ReadsKeepRequestsApart
<1>1. IInv => ReadsKeepRequestsApart
  BY DEF IInv, ReadsKeepRequestsApart
<1> QED
  BY <1>1, Inductive, PTL

=============================================================================
