--------------------------- MODULE ConnPoolProofs ---------------------------
(***************************************************************************)
(* Machine-checked proofs about ConnPool, for any number of streams and    *)
(* clients and any limits.                                                 *)
(*                                                                         *)
(* Books says what holds of a pool between any two of the operations that  *)
(* an entry is made of, Settled what holds besides when the entry returns. *)
(* What waits with the dispatcher is a parameter of Books, so that it also *)
(* describes a pool in the middle of a pass over the deferred list.        *)
(***************************************************************************)
EXTENDS ConnPool, SequenceTheorems, FiniteSetTheorems, WellFoundedInduction, TLAPS

(* Sequences without repetitions, and what is in one.                      *)
Inj(q) == \A i, j \in DOMAIN q : q[i] = q[j] => i = j
Has(q, x) == \E i \in DOMAIN q : q[i] = x

(* The pool is a record of these fields.                                   *)
FieldNames ==
    {"list", "pending", "state", "remaining", "wrapper", "capacity", "connecting_capacity",
     "active", "resources", "scheduled", "draining", "deferred", "status", "destroyed", "exhausted"}
Shape(p) == p = [k \in FieldNames |-> p[k]]

Items == {"wrapper", "client"} \X Clients

(* The list named n is that of the clients in state s.                     *)
Owns(n, s) == s \notin {"None", "Closed"} /\ OwningList(s) = n

(* Every list holds the clients of its states, once.                       *)
ListInv(l, st) ==
    /\ l \in [ListNames -> Seq(Clients)] /\ st \in [Clients -> ClientStates]
    /\ \A n \in ListNames :
          /\ Inj(l[n])
          /\ \A c \in Clients : Has(l[n], c) <=> Owns(n, st[c])

(* What the state of a client says of its streams.                         *)
ClientInv(st, re, wr) ==
    /\ re \in [Clients -> 0 .. MaxRequests] /\ wr \in [Clients -> Streams \cup {NoStream}]
    /\ \A c \in Clients :
          /\ st[c] \in {"None", "Connecting", "Ready", "Closed"} => wr[c] = NoStream
          /\ st[c] = "Connecting" => re[c] = MaxRequests
          /\ st[c] \in {"Ready", "Busy"} => re[c] > 0

(* The dispatcher has each closed client once, and a client's wrapper only *)
(* in front of the client.                                                 *)
DeferInv(D, st) ==
    /\ D \in Seq(Items) /\ Inj(D)
    /\ \A c \in Clients : st[c] = "Closed" <=> Has(D, <<"client", c>>)
    /\ \A i \in DOMAIN D : D[i][1] = "wrapper" =>
          \E j \in DOMAIN D : j > i /\ D[j] = <<"client", D[i][2]>>

(* A stream is in the pending list, with one client, or over.              *)
StreamInv(pe, sta, wr) ==
    /\ pe \in Seq(Streams) /\ sta \in [Streams -> StreamStates] /\ Inj(pe)
    /\ \A s \in Streams : Has(pe, s) <=> sta[s] = "pending"
    /\ \A c, d \in Clients : wr[c] = wr[d] /\ wr[c] # NoStream => c = d
    /\ \A s \in Streams : sta[s] \in {"sending", "sent"} <=> \E c \in Clients : wr[c] = s

(* The clients with a wrapper, and those whose wrapper is with the         *)
(* dispatcher.                                                             *)
Attached(wr) == {c \in Clients : wr[c] # NoStream}
Wrapped(D) == {c \in Clients : Has(D, <<"wrapper", c>>)}

(* The counters that the code adjusts and never recomputes.                *)
CountInv(ac, rs, wr, D) ==
    /\ ac \in Nat /\ rs \in Nat /\ rs >= ac
    /\ ac = Cardinality(Attached(wr)) + Cardinality(Wrapped(D))
CapacityInv(ca, cc, l) == ca \in Int /\ cc \in Nat /\ Len(l["connecting"]) <= cc

FlagInv(p) ==
    /\ p.scheduled \in BOOLEAN /\ p.draining \in BOOLEAN /\ p.destroyed \in BOOLEAN
    /\ p.exhausted \in BOOLEAN

Books(p, D) ==
    /\ Shape(p) /\ FlagInv(p) /\ p.deferred \in Seq(Items)
    /\ ListInv(p.list, p.state)
    /\ ClientInv(p.state, p.remaining, p.wrapper)
    /\ DeferInv(D, p.state)
    /\ StreamInv(p.pending, p.status, p.wrapper)
    /\ CountInv(p.active, p.resources, p.wrapper, D)
    /\ CapacityInv(p.capacity, p.connecting_capacity, p.list)

(* The clients outside X that are busy or drain have a stream.             *)
Serving(p, X) ==
    \A c \in Clients \ X : p.state[c] \in {"Busy", "Draining"} => p.wrapper[c] # NoStream

NoneReady(p) == \A c \in Clients : p.state[c] # "Ready"

Settled(p) ==
    /\ Serving(p, {})
    /\ p.pending # <<>> => p.scheduled \/ NoneReady(p)
    /\ p.draining => NoneReady(p)
    /\ p.destroyed => \A c \in Clients : p.state[c] = "None"

(* The inductive invariant.                                                *)
IInv == Books(pool, pool.deferred) /\ Settled(pool)

-----------------------------------------------------------------------------
(* Induction, and sequences.                                               *)

(* The least of a set of naturals.                                         *)
LEMMA LeastNat ==
    ASSUME NEW T \in SUBSET Nat, T # {}
    PROVE  \E n \in T : \A m \in T : ~(m < n)
<1>1. IsWellFoundedOn(OpToRel(<, Nat), Nat)
  BY NatLessThanWellFounded
<1>2. \E n \in T : \A m \in T : ~(<<m, n>> \in OpToRel(<, Nat))
  BY <1>1, WFMin
<1> QED
  BY <1>2 DEF OpToRel

(* Induction up to a bound, over a set of the numbers that are reached.    *)
LEMMA UpTo ==
    ASSUME NEW n \in Nat, NEW S, 0 \in S, \A i \in 0 .. n : i # n /\ i \in S => i + 1 \in S
    PROVE  \A i \in 0 .. n : i \in S
<1> SUFFICES ASSUME NEW i \in 0 .. n, i \notin S PROVE FALSE
  OBVIOUS
<1> DEFINE T == {k \in 0 .. n : k \notin S}
<1>1. PICK k \in T : \A m \in T : ~(m < k)
  <2>1. T \in SUBSET Nat /\ T # {}
    OBVIOUS
  <2> QED
    BY <2>1, LeastNat
<1>2. k # 0 /\ k \in 0 .. n /\ k \notin S
  BY <1>1
<1>3. k - 1 \in 0 .. n /\ k - 1 # n /\ k - 1 < k
  BY <1>2
<1>4. k - 1 \in S
  BY <1>1, <1>3
<1>5. (k - 1) + 1 \in S
  BY <1>3, <1>4
<1> QED
  BY <1>2, <1>5

(* RemoveFirst closes the gap that the element leaves.                     *)
LEMMA RemoveFirstIs ==
    ASSUME NEW T, NEW q \in Seq(T), Inj(q), NEW k \in DOMAIN q
    PROVE  LET r == RemoveFirst(q, q[k])
           IN  /\ r \in Seq(T) /\ Len(r) = Len(q) - 1
               /\ \A i \in DOMAIN r : r[i] = IF i < k THEN q[i] ELSE q[i + 1]
<1> DEFINE I == {i \in 1 .. Len(q) : q[i] = q[k]}
<1>1. I = {k}
  BY DEF Inj
<1>2. k \in Nat /\ k <= Len(q) /\ k >= 1
  OBVIOUS
<1>3. Min(I) = k
  <2>1. \A x \in {k} : x = k
    OBVIOUS
  <2> QED
  BY <1>1, <1>2 DEF Min
<1>5. RemoveFirst(q, q[k]) = SubSeq(q, 1, k - 1) \o SubSeq(q, k + 1, Len(q))
  <2>1. RemoveFirst(q, q[k]) = RemoveAt(q, IF I # {} THEN Min(I) ELSE 0)
    <3>1. \E i \in 1 .. Len(q) : q[i] = q[k]
      BY <1>2
    <3> QED
      BY <3>1 DEF RemoveFirst, SelectInSeq
  <2>2. RemoveFirst(q, q[k]) = RemoveAt(q, k)
    BY <2>1, <1>1, <1>3
  <2> QED
    BY <2>2 DEF RemoveAt
<1> DEFINE a == SubSeq(q, 1, k - 1)
           b == SubSeq(q, k + 1, Len(q))
<1>6. /\ a \in Seq(T) /\ Len(a) = k - 1
      /\ \A i \in 1 .. k - 1 : a[i] = q[i]
  BY <1>2
<1>7. /\ b \in Seq(T) /\ Len(b) = Len(q) - k
      /\ \A i \in 1 .. Len(q) - k : b[i] = q[k + i]
  BY <1>2
<1>8. /\ a \o b \in Seq(T) /\ Len(a \o b) = Len(q) - 1
      /\ \A i \in 1 .. Len(q) - 1 : (a \o b)[i] = IF i < k THEN q[i] ELSE q[i + 1]
  <2> HIDE DEF a, b
  <2>1. /\ a \o b \in Seq(T) /\ Len(a \o b) = Len(q) - 1
    BY <1>2, <1>6, <1>7
  <2>2. ASSUME NEW i \in 1 .. Len(q) - 1, i < k PROVE (a \o b)[i] = q[i]
    BY <1>2, <1>6, <1>7, <2>2
  <2>3. ASSUME NEW i \in 1 .. Len(q) - 1, ~(i < k) PROVE (a \o b)[i] = q[i + 1]
    <3>1. (a \o b)[i] = b[i - (k - 1)]
      BY <1>2, <1>6, <1>7, <2>3
    <3>2. i - (k - 1) \in 1 .. Len(q) - k /\ k + (i - (k - 1)) = i + 1
      BY <1>2, <2>3
    <3> QED
      BY <3>1, <3>2, <1>7
  <2> QED
    BY <2>1, <2>2, <2>3
<1> DEFINE r == RemoveFirst(q, q[k])
<1>9. r \in Seq(T) /\ Len(r) = Len(q) - 1 /\ r = a \o b
  BY <1>5, <1>8
<1> HIDE DEF r, a, b
<1>10. \A i \in DOMAIN r : r[i] = IF i < k THEN q[i] ELSE q[i + 1]
  <2>1. DOMAIN r = 1 .. Len(q) - 1
    BY <1>9
  <2> QED
    BY <2>1, <1>8, <1>9
<1> QED
  BY <1>9, <1>10 DEF r

(* What is left when an element is removed.                                *)
LEMMA RemoveHas ==
    ASSUME NEW T, NEW q \in Seq(T), Inj(q), NEW x, Has(q, x)
    PROVE  LET r == RemoveFirst(q, x)
           IN  /\ r \in Seq(T) /\ Len(r) = Len(q) - 1 /\ Inj(r)
               /\ \A y : Has(r, y) <=> Has(q, y) /\ y # x
<1>1. PICK k \in DOMAIN q : q[k] = x
  BY DEF Has
<1> DEFINE r == RemoveFirst(q, x)
<1>2. /\ r \in Seq(T) /\ Len(r) = Len(q) - 1
      /\ \A i \in DOMAIN r : r[i] = IF i < k THEN q[i] ELSE q[i + 1]
  BY <1>1, RemoveFirstIs
<1> HIDE DEF r
<1>3. DOMAIN r = 1 .. Len(q) - 1 /\ DOMAIN q = 1 .. Len(q) /\ Len(q) \in Nat
  BY <1>2
<1>4. Inj(r)
  <2> SUFFICES ASSUME NEW i \in DOMAIN r, NEW j \in DOMAIN r, r[i] = r[j] PROVE i = j
    BY DEF Inj
  <2> QED
    BY <1>2, <1>3 DEF Inj
<1>5. ASSUME NEW y, Has(r, y) PROVE Has(q, y) /\ y # x
  <2>1. PICK i \in DOMAIN r : r[i] = y
    BY <1>5 DEF Has
  <2>2. CASE i < k
    <3>1. q[i] = y /\ i \in DOMAIN q
      BY <1>2, <1>3, <2>1, <2>2
    <3> QED
      BY <3>1, <2>2, <1>1, <1>3 DEF Has, Inj
  <2>3. CASE ~(i < k)
    <3>1. q[i + 1] = y /\ i + 1 \in DOMAIN q /\ i + 1 # k
      BY <1>2, <1>3, <2>1, <2>3
    <3> QED
      BY <3>1, <1>1, <1>3 DEF Has, Inj
  <2> QED
    BY <2>2, <2>3
<1>6. ASSUME NEW y, Has(q, y), y # x PROVE Has(r, y)
  <2>1. PICK i \in DOMAIN q : q[i] = y
    BY <1>6 DEF Has
  <2>2. CASE i < k
    <3>1. i \in DOMAIN r /\ r[i] = y
      BY <1>2, <1>3, <2>1, <2>2
    <3> QED
      BY <3>1 DEF Has
  <2>3. CASE i > k
    <3>1. i - 1 \in DOMAIN r /\ ~(i - 1 < k) /\ (i - 1) + 1 = i
      BY <1>3, <2>1, <2>3
    <3>2. r[i - 1] = y
      BY <3>1, <1>2, <2>1
    <3> QED
      BY <3>1, <3>2 DEF Has
  <2>4. i # k
    BY <1>1, <1>6, <2>1
  <2> QED
    BY <2>2, <2>3, <2>4, <1>3
<1> QED
  BY <1>2, <1>4, <1>5, <1>6 DEF r

(* An element that is new at the end.                                      *)
LEMMA AppendHas ==
    ASSUME NEW T, NEW q \in Seq(T), Inj(q), NEW x \in T, ~Has(q, x)
    PROVE  LET r == Append(q, x)
           IN  /\ r \in Seq(T) /\ Len(r) = Len(q) + 1 /\ Inj(r)
               /\ \A y : Has(r, y) <=> Has(q, y) \/ y = x
<1> DEFINE r == Append(q, x)
<1>1. /\ r \in Seq(T) /\ Len(r) = Len(q) + 1 /\ Len(q) \in Nat
      /\ DOMAIN q = 1 .. Len(q) /\ DOMAIN r = 1 .. Len(q) + 1
      /\ \A i \in 1 .. Len(q) : r[i] = q[i]
      /\ r[Len(q) + 1] = x
  OBVIOUS
<1> HIDE DEF r
<1>2. Inj(r)
  BY <1>1 DEF Inj, Has
<1>3. \A y : Has(r, y) <=> Has(q, y) \/ y = x
  BY <1>1 DEF Has
<1> QED
  BY <1>1, <1>2, <1>3 DEF r

(* The same at the front.                                                  *)
LEMMA ConsHas ==
    ASSUME NEW T, NEW q \in Seq(T), Inj(q), NEW x \in T, ~Has(q, x)
    PROVE  LET r == <<x>> \o q
           IN  /\ r \in Seq(T) /\ Len(r) = Len(q) + 1 /\ Inj(r)
               /\ \A y : Has(r, y) <=> Has(q, y) \/ y = x
<1> DEFINE r == <<x>> \o q
<1>1. /\ r \in Seq(T) /\ Len(r) = Len(q) + 1 /\ Len(q) \in Nat
      /\ DOMAIN q = 1 .. Len(q) /\ DOMAIN r = 1 .. Len(q) + 1
  OBVIOUS
<1>2. /\ r[1] = x
      /\ \A i \in 2 .. Len(q) + 1 : r[i] = q[i - 1]
  OBVIOUS
<1> HIDE DEF r
<1>3. \A i \in 1 .. Len(q) : i + 1 \in 2 .. Len(q) + 1 /\ (i + 1) - 1 = i
  BY <1>1
<1>4. \A i \in 1 .. Len(q) : r[i + 1] = q[i] /\ i + 1 \in DOMAIN r
  BY <1>1, <1>2, <1>3
<1>5. Inj(r)
  <2>1. \A i \in 2 .. Len(q) + 1 : i - 1 \in DOMAIN q
    BY <1>1
  <2>2. \A i \in 2 .. Len(q) + 1 : r[i] # x
    BY <1>2, <2>1 DEF Has
  <2>3. ASSUME NEW i \in 2 .. Len(q) + 1, NEW j \in 2 .. Len(q) + 1, r[i] = r[j] PROVE i = j
    <3>1. i - 1 \in DOMAIN q /\ j - 1 \in DOMAIN q /\ q[i - 1] = q[j - 1]
      BY <1>2, <2>1, <2>3
    <3>2. i - 1 = j - 1
      BY <3>1 DEF Inj
    <3> QED
      BY <3>2
  <2>4. DOMAIN r = {1} \cup 2 .. Len(q) + 1
    BY <1>1
  <2> HIDE <1>1
  <2> QED
    BY <1>2, <2>2, <2>3, <2>4 DEF Inj
<1>6. \A y : Has(r, y) <=> Has(q, y) \/ y = x
  <2>1. 1 \in DOMAIN r
    BY <1>1
  <2>2. ASSUME NEW y, Has(r, y) PROVE Has(q, y) \/ y = x
    <3>1. PICK i \in DOMAIN r : r[i] = y
      BY <2>2 DEF Has
    <3>2. CASE i # 1
      <4>1. i \in 2 .. Len(q) + 1 /\ i - 1 \in DOMAIN q
        BY <1>1, <3>2
      <4> QED
        BY <4>1, <3>1, <1>2 DEF Has
    <3> QED
      BY <3>1, <3>2, <1>2
  <2>3. ASSUME NEW y, Has(q, y) PROVE Has(r, y)
    <3>1. PICK i \in DOMAIN q : q[i] = y
      BY <2>3 DEF Has
    <3> QED
      BY <3>1, <1>1, <1>4 DEF Has
  <2>4. Has(r, x)
    BY <2>1, <1>2 DEF Has
  <2> QED
    BY <2>2, <2>3, <2>4
<1> QED
  BY <1>1, <1>5, <1>6 DEF r

(* The list without its last element.                                      *)
LEMMA FrontHas ==
    ASSUME NEW T, NEW q \in Seq(T), Inj(q), q # <<>>
    PROVE  LET r == Front(q)
           IN  /\ r \in Seq(T) /\ Len(r) = Len(q) - 1 /\ Inj(r)
               /\ Has(q, Last(q)) /\ Last(q) \in T
               /\ \A y : Has(r, y) <=> Has(q, y) /\ y # Last(q)
<1> DEFINE r == Front(q)
<1>0. Len(q) \in Nat \ {0} /\ DOMAIN q = 1 .. Len(q)
  OBVIOUS
<1>1. /\ r \in Seq(T) /\ Len(r) = Len(q) - 1 /\ Len(q) \in Nat \ {0}
      /\ DOMAIN q = 1 .. Len(q) /\ DOMAIN r = 1 .. Len(q) - 1
      /\ \A i \in 1 .. Len(q) - 1 : r[i] = q[i]
      /\ Last(q) = q[Len(q)]
  <2>1. r = SubSeq(q, 1, Len(q) - 1) /\ Last(q) = q[Len(q)]
    BY DEF Front, Last
  <2>2. /\ r \in Seq(T) /\ Len(r) = Len(q) - 1
        /\ \A i \in 1 .. Len(q) - 1 : r[i] = q[i]
    BY <2>1, <1>0, SubSeqProperties
  <2> HIDE DEF r
  <2>3. DOMAIN r = 1 .. Len(q) - 1
    BY <2>2
  <2> QED
    BY <1>0, <2>1, <2>2, <2>3
<1> HIDE DEF r
<1>2. Inj(r)
  BY <1>1 DEF Inj
<1>3. Has(q, Last(q)) /\ Last(q) \in T
  BY <1>1 DEF Has
<1>4. \A y : Has(r, y) <=> Has(q, y) /\ y # Last(q)
  BY <1>1 DEF Has, Inj
<1> QED
  BY <1>1, <1>2, <1>3, <1>4 DEF r

(* A list is empty when nothing is in it; its head is in it.               *)
LEMMA EmptyHas ==
    ASSUME NEW T, NEW q \in Seq(T)
    PROVE  /\ q = <<>> <=> \A y : ~Has(q, y)
           /\ q # <<>> => Has(q, Head(q)) /\ Head(q) \in T
           /\ \A y : Has(q, y) => y \in T
<1>1. CASE q = <<>>
  BY <1>1 DEF Has
<1>2. CASE q # <<>>
  <2>1. 1 \in DOMAIN q /\ q[1] = Head(q) /\ Head(q) \in T
    BY <1>2
  <2> QED
    BY <1>2, <2>1 DEF Has
<1> QED
  BY <1>1, <1>2

-----------------------------------------------------------------------------
(* What the parts of the invariant need when a client changes its state.   *)

(* The lists by name.                                                      *)
LEMMA OwnsIs ==
    /\ OwningList("Connecting") = "connecting" /\ OwningList("Ready") = "ready"
    /\ OwningList("Busy") = "busy" /\ OwningList("Draining") = "busy"
    /\ \A s \in ClientStates : /\ Owns("connecting", s) <=> s = "Connecting"
                               /\ Owns("ready", s) <=> s = "Ready"
                               /\ Owns("busy", s) <=> s \in {"Busy", "Draining"}
    /\ \A s \in ClientStates \ {"None", "Closed"} :
          OwningList(s) \in ListNames /\ Owns(OwningList(s), s)
<1>1. /\ OwningList("Connecting") = "connecting" /\ OwningList("Ready") = "ready"
      /\ OwningList("Busy") = "busy" /\ OwningList("Draining") = "busy"
  BY DEF OwningList
<1> QED
  BY <1>1 DEF Owns, ClientStates, ListNames

(* A client in state s is in no list but that of s.                        *)
LEMMA OwnsOnce ==
    ASSUME NEW s \in ClientStates, NEW n \in ListNames
    PROVE  Owns(n, s) <=> s \notin {"None", "Closed"} /\ n = OwningList(s)
BY DEF Owns

(* A client that moves from one list to another.                           *)
LEMMA ListMove ==
    ASSUME NEW l, NEW st, ListInv(l, st), NEW c \in Clients,
           NEW s \in ClientStates \ {"None", "Closed"}, st[c] \notin {"None", "Closed"},
           OwningList(st[c]) # OwningList(s)
    PROVE  LET k == [l EXCEPT ![OwningList(st[c])] = RemoveFirst(@, c), ![OwningList(s)] = Append(@, c)]
           IN  /\ ListInv(k, [st EXCEPT ![c] = s])
               /\ s # "Connecting" /\ st[c] = "Connecting" => Len(k["connecting"]) = Len(l["connecting"]) - 1
               /\ s # "Connecting" /\ st[c] # "Connecting" => Len(k["connecting"]) = Len(l["connecting"])
<1> DEFINE a == OwningList(st[c])
           b == OwningList(s)
           x == RemoveFirst(l[a], c)
           y == Append(l[b], c)
           k == [l EXCEPT ![a] = RemoveFirst(@, c), ![b] = Append(@, c)]
           t == [st EXCEPT ![c] = s]
<1>0. /\ l \in [ListNames -> Seq(Clients)] /\ st \in [Clients -> ClientStates]
      /\ \A n \in ListNames : Inj(l[n]) /\ \A d \in Clients : Has(l[n], d) <=> Owns(n, st[d])
  BY DEF ListInv
<1>1. a \in ListNames /\ b \in ListNames /\ a # b /\ Has(l[a], c) /\ ~Has(l[b], c)
  BY <1>0, OwnsIs, OwnsOnce
<1>2. /\ x \in Seq(Clients) /\ Inj(x) /\ Len(x) = Len(l[a]) - 1
      /\ \A d : Has(x, d) <=> Has(l[a], d) /\ d # c
  BY <1>0, <1>1, RemoveHas
<1>3. /\ y \in Seq(Clients) /\ Inj(y) /\ \A d : Has(y, d) <=> Has(l[b], d) \/ d = c
  BY <1>0, <1>1, AppendHas
<1>4. /\ k \in [ListNames -> Seq(Clients)] /\ k[a] = x /\ k[b] = y
      /\ \A n \in ListNames : n # a /\ n # b => k[n] = l[n]
  <2> HIDE DEF a, b
  <2> QED
    BY <1>0, <1>1, <1>2, <1>3
<1>5. t \in [Clients -> ClientStates] /\ t[c] = s /\ \A d \in Clients : d # c => t[d] = st[d]
  BY <1>0
<1>6. ASSUME NEW n \in ListNames PROVE Inj(k[n]) /\ \A d \in Clients : Has(k[n], d) <=> Owns(n, t[d])
  <2>0. Owns(n, s) <=> n = b
    BY OwnsOnce
  <2>9. Owns(n, st[c]) <=> n = a
    BY <1>0, OwnsOnce
  <2> HIDE DEF k, t, x, y, a, b
  <2>1. CASE n = a
    BY <2>0, <2>1, <1>0, <1>1, <1>2, <1>4, <1>5
  <2>2. CASE n = b
    BY <2>0, <2>2, <1>0, <1>1, <1>3, <1>4, <1>5
  <2>3. CASE n # a /\ n # b
    BY <2>0, <2>9, <2>3, <1>0, <1>1, <1>4, <1>5
  <2> QED
    BY <2>1, <2>2, <2>3
<1>7. ListInv(k, t)
  <2> HIDE DEF k, t
  <2> QED
    BY <1>4, <1>5, <1>6 DEF ListInv
<1>8. ASSUME s # "Connecting"
      PROVE  Len(k["connecting"]) = IF st[c] = "Connecting" THEN Len(l["connecting"]) - 1
                                     ELSE Len(l["connecting"])
  <2>1. b # "connecting" /\ "connecting" \in ListNames
    BY <1>8, OwnsIs DEF ClientStates, ListNames
  <2>2. a = "connecting" <=> st[c] = "Connecting"
    <3>1. st[c] \in {"Connecting", "Ready", "Busy", "Draining"}
      BY <1>0 DEF ClientStates
    <3> QED
      BY <3>1, OwnsIs
  <2> HIDE DEF k, a, b, x, y
  <2> QED
    BY <2>1, <2>2, <1>2, <1>4
<1> QED
  BY <1>7, <1>8

(* A client that is closed leaves its list.                                *)
LEMMA ListDrop ==
    ASSUME NEW l, NEW st, ListInv(l, st), NEW c \in Clients, st[c] \notin {"None", "Closed"}
    PROVE  LET k == [l EXCEPT ![OwningList(st[c])] = RemoveFirst(@, c)]
           IN  /\ ListInv(k, [st EXCEPT ![c] = "Closed"])
               /\ Len(k["connecting"]) = IF st[c] = "Connecting" THEN Len(l["connecting"]) - 1
                                         ELSE Len(l["connecting"])
<1> DEFINE a == OwningList(st[c])
           x == RemoveFirst(l[a], c)
           k == [l EXCEPT ![a] = RemoveFirst(@, c)]
           t == [st EXCEPT ![c] = "Closed"]
<1>0. /\ l \in [ListNames -> Seq(Clients)] /\ st \in [Clients -> ClientStates]
      /\ \A n \in ListNames : Inj(l[n]) /\ \A d \in Clients : Has(l[n], d) <=> Owns(n, st[d])
  BY DEF ListInv
<1>1. a \in ListNames /\ Has(l[a], c)
  BY <1>0, OwnsIs, OwnsOnce
<1>2. /\ x \in Seq(Clients) /\ Inj(x) /\ Len(x) = Len(l[a]) - 1
      /\ \A d : Has(x, d) <=> Has(l[a], d) /\ d # c
  BY <1>0, <1>1, RemoveHas
<1>4. /\ k \in [ListNames -> Seq(Clients)] /\ k[a] = x
      /\ \A n \in ListNames : n # a => k[n] = l[n]
  <2> HIDE DEF a
  <2> QED
    BY <1>0, <1>1, <1>2
<1>5. t \in [Clients -> ClientStates] /\ t[c] = "Closed" /\ \A d \in Clients : d # c => t[d] = st[d]
  BY <1>0 DEF ClientStates
<1>6. ASSUME NEW n \in ListNames PROVE Inj(k[n]) /\ \A d \in Clients : Has(k[n], d) <=> Owns(n, t[d])
  <2>0. ~Owns(n, "Closed")
    BY DEF Owns
  <2>9. Owns(n, st[c]) <=> n = a
    BY <1>0, OwnsOnce
  <2> HIDE DEF k, t, x, a
  <2>1. CASE n = a
    BY <2>0, <2>1, <1>0, <1>1, <1>2, <1>4, <1>5
  <2>3. CASE n # a
    BY <2>0, <2>9, <2>3, <1>0, <1>1, <1>4, <1>5
  <2> QED
    BY <2>1, <2>3
<1>7. ListInv(k, t)
  <2> HIDE DEF k, t
  <2> QED
    BY <1>4, <1>5, <1>6 DEF ListInv
<1>8. Len(k["connecting"]) = IF st[c] = "Connecting" THEN Len(l["connecting"]) - 1
                             ELSE Len(l["connecting"])
  <2>1. "connecting" \in ListNames
    BY DEF ListNames
  <2>2. a = "connecting" <=> st[c] = "Connecting"
    <3>1. st[c] \in {"Connecting", "Ready", "Busy", "Draining"}
      BY <1>0 DEF ClientStates
    <3> QED
      BY <3>1, OwnsIs
  <2> HIDE DEF k, a, x
  <2> QED
    BY <2>1, <2>2, <1>2, <1>4
<1> QED
  BY <1>7, <1>8

(* A new client is put in front of those that connect.                     *)
LEMMA ListAdd ==
    ASSUME NEW l, NEW st, ListInv(l, st), NEW c \in Clients, st[c] = "None"
    PROVE  LET k == [l EXCEPT !["connecting"] = <<c>> \o @]
           IN  /\ ListInv(k, [st EXCEPT ![c] = "Connecting"])
               /\ Len(k["connecting"]) = Len(l["connecting"]) + 1
<1> DEFINE x == <<c>> \o l["connecting"]
           k == [l EXCEPT !["connecting"] = <<c>> \o @]
           t == [st EXCEPT ![c] = "Connecting"]
<1>0. /\ l \in [ListNames -> Seq(Clients)] /\ st \in [Clients -> ClientStates]
      /\ \A n \in ListNames : Inj(l[n]) /\ \A d \in Clients : Has(l[n], d) <=> Owns(n, st[d])
  BY DEF ListInv
<1>1. /\ "connecting" \in ListNames /\ ~Has(l["connecting"], c)
      /\ \A n \in ListNames : ~Owns(n, st[c]) /\ (Owns(n, "Connecting") <=> n = "connecting")
  BY <1>0, OwnsIs DEF ListNames, Owns
<1>2. /\ x \in Seq(Clients) /\ Inj(x) /\ Len(x) = Len(l["connecting"]) + 1
      /\ \A d : Has(x, d) <=> Has(l["connecting"], d) \/ d = c
  BY <1>0, <1>1, ConsHas
<1>4. /\ k \in [ListNames -> Seq(Clients)] /\ k["connecting"] = x
      /\ \A n \in ListNames : n # "connecting" => k[n] = l[n]
  BY <1>0, <1>1, <1>2
<1>5. t \in [Clients -> ClientStates] /\ t[c] = "Connecting" /\ \A d \in Clients : d # c => t[d] = st[d]
  BY <1>0 DEF ClientStates
<1>6. ASSUME NEW n \in ListNames PROVE Inj(k[n]) /\ \A d \in Clients : Has(k[n], d) <=> Owns(n, t[d])
  <2> HIDE DEF k, t, x
  <2>1. CASE n = "connecting"
    BY <2>1, <1>0, <1>1, <1>2, <1>4, <1>5
  <2>3. CASE n # "connecting"
    <3>1. k[n] = l[n] /\ ~Owns(n, st[c]) /\ ~Owns(n, t[c])
      BY <2>3, <1>1, <1>4, <1>5
    <3>2. \A d \in Clients : Owns(n, st[d]) <=> Owns(n, t[d])
      BY <3>1, <1>5
    <3> QED
      BY <3>1, <3>2, <1>0
  <2> QED
    BY <2>1, <2>3
<1>7. ListInv(k, t)
  <2> HIDE DEF k, t
  <2> QED
    BY <1>4, <1>5, <1>6 DEF ListInv
<1> QED
  BY <1>2, <1>4, <1>7

(* A client that changes its state and stays in its list.                  *)
LEMMA ListStay ==
    ASSUME NEW l, NEW st, ListInv(l, st), NEW c \in Clients, NEW s \in ClientStates,
           \A n \in ListNames : Owns(n, s) <=> Owns(n, st[c])
    PROVE  ListInv(l, [st EXCEPT ![c] = s])
BY DEF ListInv

(* The dispatcher's list grows by a client, or by its wrapper and it.      *)
LEMMA DeferClient ==
    ASSUME NEW D, NEW st, DeferInv(D, st), NEW c \in Clients, st \in [Clients -> ClientStates],
           st[c] # "Closed"
    PROVE  LET E == Append(D, <<"client", c>>)
           IN  /\ DeferInv(E, [st EXCEPT ![c] = "Closed"])
               /\ Wrapped(E) = Wrapped(D) /\ c \notin Wrapped(D)
<1> DEFINE i0 == <<"client", c>>
           E == Append(D, i0)
           t == [st EXCEPT ![c] = "Closed"]
<1>0. /\ D \in Seq(Items) /\ Inj(D) /\ ~Has(D, i0)
      /\ \A d \in Clients : st[d] = "Closed" <=> Has(D, <<"client", d>>)
      /\ \A i \in DOMAIN D : D[i][1] = "wrapper" =>
            \E j \in DOMAIN D : j > i /\ D[j] = <<"client", D[i][2]>>
  BY DEF DeferInv
<1>1. i0 \in Items
  BY DEF Items
<1>2. E \in Seq(Items) /\ Inj(E) /\ (\A y : Has(E, y) <=> Has(D, y) \/ y = i0) /\ Len(E) = Len(D) + 1
  BY <1>0, <1>1, AppendHas
<1>3. \A i \in DOMAIN D : E[i] = D[i] /\ i \in DOMAIN E
  BY <1>0, <1>1
<1>4. E[Len(D) + 1] = i0 /\ DOMAIN E = 1 .. Len(D) + 1 /\ DOMAIN D = 1 .. Len(D) /\ Len(D) \in Nat
  BY <1>0, <1>1
<1> HIDE DEF E
<1>5. \A d \in Clients : t[d] = "Closed" <=> Has(E, <<"client", d>>)
  BY <1>0, <1>2
<1>6. ASSUME NEW i \in DOMAIN E, E[i][1] = "wrapper"
      PROVE  \E j \in DOMAIN E : j > i /\ E[j] = <<"client", E[i][2]>>
  <2>1. i # Len(D) + 1
    BY <1>4, <1>6
  <2>2. i \in DOMAIN D /\ E[i] = D[i]
    BY <2>1, <1>3, <1>4
  <2>3. PICK j \in DOMAIN D : j > i /\ D[j] = <<"client", D[i][2]>>
    BY <2>2, <1>0, <1>6
  <2> QED
    BY <2>2, <2>3, <1>3
<1>7. DeferInv(E, t)
  BY <1>2, <1>5, <1>6 DEF DeferInv
<1>8. Wrapped(E) = Wrapped(D)
  BY <1>2 DEF Wrapped
<1>9. c \notin Wrapped(D)
  <2> SUFFICES ASSUME Has(D, <<"wrapper", c>>) PROVE FALSE
    BY DEF Wrapped
  <2>1. PICK i \in DOMAIN D : D[i] = <<"wrapper", c>>
    BY DEF Has
  <2>2. PICK j \in DOMAIN D : D[j] = <<"client", D[i][2]>>
    BY <2>1, <1>0
  <2>3. D[j] = i0
    BY <2>1, <2>2
  <2> QED
    BY <2>3, <1>0 DEF Has
<1> QED
  BY <1>7, <1>8, <1>9 DEF E

(* A client that is closed under a stream: its wrapper comes first.        *)
LEMMA DeferBoth ==
    ASSUME NEW D, NEW st, DeferInv(D, st), NEW c \in Clients, st \in [Clients -> ClientStates],
           st[c] # "Closed"
    PROVE  LET E == Append(Append(D, <<"wrapper", c>>), <<"client", c>>)
           IN  /\ DeferInv(E, [st EXCEPT ![c] = "Closed"])
               /\ Wrapped(E) = Wrapped(D) \cup {c} /\ c \notin Wrapped(D)
<1> DEFINE w0 == <<"wrapper", c>>
           i0 == <<"client", c>>
           B == Append(D, w0)
           E == Append(B, i0)
           t == [st EXCEPT ![c] = "Closed"]
<1>0. /\ D \in Seq(Items) /\ Inj(D) /\ ~Has(D, i0)
      /\ \A d \in Clients : st[d] = "Closed" <=> Has(D, <<"client", d>>)
      /\ \A i \in DOMAIN D : D[i][1] = "wrapper" =>
            \E j \in DOMAIN D : j > i /\ D[j] = <<"client", D[i][2]>>
  BY DEF DeferInv
<1>1. i0 \in Items /\ w0 \in Items /\ i0 # w0
  BY DEF Items
<1>2. ~Has(D, w0) /\ c \notin Wrapped(D)
  BY DeferClient DEF Wrapped
<1>3. B \in Seq(Items) /\ Inj(B) /\ (\A y : Has(B, y) <=> Has(D, y) \/ y = w0) /\ Len(B) = Len(D) + 1
  BY <1>0, <1>1, <1>2, AppendHas
<1>4. ~Has(B, i0)
  BY <1>0, <1>1, <1>3
<1>5. E \in Seq(Items) /\ Inj(E) /\ (\A y : Has(E, y) <=> Has(B, y) \/ y = i0) /\ Len(E) = Len(B) + 1
  <2> HIDE DEF B
  <2> QED
    BY <1>1, <1>3, <1>4, AppendHas
<1>6. /\ DOMAIN D = 1 .. Len(D) /\ Len(D) \in Nat /\ DOMAIN E = 1 .. Len(D) + 2
      /\ \A i \in DOMAIN D : E[i] = D[i]
      /\ E[Len(D) + 1] = w0 /\ E[Len(D) + 2] = i0
  BY <1>0, <1>1
<1> HIDE DEF B, E
<1>7. \A y : Has(E, y) <=> Has(D, y) \/ y = w0 \/ y = i0
  BY <1>3, <1>5
<1>8. \A d \in Clients : t[d] = "Closed" <=> Has(E, <<"client", d>>)
  <2>1. \A d \in Clients : <<"client", d>> # w0
    OBVIOUS
  <2> QED
    BY <2>1, <1>0, <1>7
<1>9. ASSUME NEW i \in DOMAIN E, E[i][1] = "wrapper"
      PROVE  \E j \in DOMAIN E : j > i /\ E[j] = <<"client", E[i][2]>>
  <2>1. i # Len(D) + 2
    BY <1>6, <1>9
  <2>2. CASE i \in DOMAIN D
    <3>1. PICK j \in DOMAIN D : j > i /\ D[j] = <<"client", D[i][2]>>
      BY <2>2, <1>0, <1>6, <1>9
    <3>2. j \in DOMAIN E /\ E[j] = D[j] /\ E[i] = D[i]
      BY <3>1, <2>2, <1>6
    <3> QED
      BY <3>1, <3>2
  <2>3. CASE i = Len(D) + 1
    <3>1. E[i][2] = c /\ Len(D) + 2 \in DOMAIN E /\ Len(D) + 2 > i
      BY <2>3, <1>6
    <3> QED
      BY <3>1, <1>6
  <2> QED
    BY <2>1, <2>2, <2>3, <1>6
<1>10. DeferInv(E, t)
  BY <1>5, <1>8, <1>9 DEF DeferInv
<1>11. Wrapped(E) = Wrapped(D) \cup {c}
  <2>1. \A d \in Clients : <<"wrapper", d>> # i0 /\ (<<"wrapper", d>> = w0 <=> d = c)
    OBVIOUS
  <2> QED
    BY <2>1, <1>7 DEF Wrapped
<1> QED
  BY <1>2, <1>10, <1>11 DEF B, E

(* A change of state that is neither to nor from Closed.                   *)
LEMMA DeferStay ==
    ASSUME NEW D, NEW st, NEW t, DeferInv(D, st),
           \A c \in Clients : t[c] = "Closed" <=> st[c] = "Closed"
    PROVE  DeferInv(D, t)
BY DEF DeferInv

(* The counts are of finite sets.                                          *)
LEMMA FiniteSets ==
    ASSUME NEW wr, NEW D
    PROVE  /\ IsFiniteSet(Attached(wr)) /\ IsFiniteSet(Wrapped(D))
           /\ Cardinality(Attached(wr)) \in Nat /\ Cardinality(Wrapped(D)) \in Nat
<1>1. IsFiniteSet(Clients)
  BY ConnPoolAssumption, FS_Interval DEF Clients
<1>2. Attached(wr) \subseteq Clients /\ Wrapped(D) \subseteq Clients
  BY DEF Attached, Wrapped
<1>3. IsFiniteSet(Attached(wr)) /\ IsFiniteSet(Wrapped(D))
  BY <1>1, <1>2, FS_Subset
<1> QED
  BY <1>3, FS_CardinalityType

(* A client gets a wrapper.                                                *)
LEMMA CountAttach ==
    ASSUME NEW ac, NEW rs, NEW wr, NEW D, CountInv(ac, rs, wr, D), wr \in [Clients -> Streams \cup {NoStream}],
           NEW c \in Clients, wr[c] = NoStream, NEW s \in Streams
    PROVE  CountInv(ac + 1, rs + 1, [wr EXCEPT ![c] = s], D)
<1> DEFINE v == [wr EXCEPT ![c] = s]
<1>1. Attached(v) = Attached(wr) \cup {c} /\ c \notin Attached(wr)
  BY ConnPoolAssumption DEF Attached
<1>2. Cardinality(Attached(v)) = Cardinality(Attached(wr)) + 1
  BY <1>1, FiniteSets, FS_AddElement
<1> QED
  BY <1>2, FiniteSets DEF CountInv

(* A client loses its wrapper, which is gone.                              *)
LEMMA CountDetach ==
    ASSUME NEW ac, NEW rs, NEW wr, NEW D, CountInv(ac, rs, wr, D), wr \in [Clients -> Streams \cup {NoStream}],
           NEW c \in Clients, wr[c] # NoStream
    PROVE  CountInv(ac - 1, rs - 1, [wr EXCEPT ![c] = NoStream], D)
<1> DEFINE v == [wr EXCEPT ![c] = NoStream]
<1>1. Attached(wr) = Attached(v) \cup {c} /\ c \notin Attached(v)
  BY DEF Attached
<1>2. Cardinality(Attached(wr)) = Cardinality(Attached(v)) + 1
  <2> HIDE DEF v
  <2> QED
    BY <1>1, FiniteSets, FS_AddElement
<1>3. Cardinality(Attached(v)) \in Nat /\ Cardinality(Wrapped(D)) \in Nat
  BY FiniteSets
<1> QED
  BY <1>2, <1>3 DEF CountInv

(* A client loses its wrapper, which waits with the dispatcher.            *)
LEMMA CountDefer ==
    ASSUME NEW ac, NEW rs, NEW wr, NEW D, NEW E, CountInv(ac, rs, wr, D),
           wr \in [Clients -> Streams \cup {NoStream}],
           NEW c \in Clients, wr[c] # NoStream, Wrapped(E) = Wrapped(D) \cup {c}, c \notin Wrapped(D)
    PROVE  CountInv(ac, rs, [wr EXCEPT ![c] = NoStream], E)
<1> DEFINE v == [wr EXCEPT ![c] = NoStream]
<1>1. Attached(wr) = Attached(v) \cup {c} /\ c \notin Attached(v)
  BY DEF Attached
<1>2. Cardinality(Attached(wr)) = Cardinality(Attached(v)) + 1
  <2> HIDE DEF v
  <2> QED
    BY <1>1, FiniteSets, FS_AddElement
<1>3. Cardinality(Wrapped(E)) = Cardinality(Wrapped(D)) + 1
  BY FiniteSets, FS_AddElement
<1>4. Cardinality(Attached(v)) \in Nat /\ Cardinality(Wrapped(D)) \in Nat
  BY FiniteSets
<1> QED
  BY <1>2, <1>3, <1>4 DEF CountInv

(* A wrapper that waited is disposed of.                                   *)
LEMMA CountDispose ==
    ASSUME NEW ac, NEW rs, NEW wr, NEW D, NEW E, CountInv(ac, rs, wr, D),
           NEW c, Wrapped(D) = Wrapped(E) \cup {c}, c \notin Wrapped(E)
    PROVE  CountInv(ac - 1, rs - 1, wr, E)
<1>1. Cardinality(Wrapped(D)) = Cardinality(Wrapped(E)) + 1
  BY FiniteSets, FS_AddElement
<1>2. Cardinality(Attached(wr)) \in Nat /\ Cardinality(Wrapped(E)) \in Nat
  BY FiniteSets
<1> QED
  BY <1>1, <1>2 DEF CountInv

-----------------------------------------------------------------------------
(* The operations on the record.                                           *)

(* The unused capacity of an HTTP/1 client is 1 or 0.                      *)
LEMMA UnusedIs ==
    ASSUME NEW p, NEW c, p.remaining[c] \in Nat
    PROVE  CurrentUnusedCapacity(p, c) =
             IF p.wrapper[c] # NoStream \/ p.remaining[c] = 0 THEN 0 ELSE 1
BY DEF CurrentUnusedCapacity, NumActiveStreams, Min

(* A record with the books in order is a pool.                             *)
LEMMA BooksType == ASSUME NEW p, NEW D, Books(p, D) PROVE p \in PoolType
BY DEF Books, Shape, FieldNames, PoolType, FlagInv, ListInv, ClientInv, StreamInv, CountInv, CapacityInv, Items

(* What creating a connection may change.                                  *)
Creates(p, q) ==
    /\ \A d \in Clients : q.state[d] = p.state[d] \/ (p.state[d] = "None" /\ q.state[d] = "Connecting")
    /\ q.pending = p.pending /\ q.wrapper = p.wrapper /\ q.status = p.status
    /\ q.deferred = p.deferred /\ q.scheduled = p.scheduled /\ q.draining = p.draining
    /\ q.destroyed = p.destroyed

(* A client is created, and nothing else changes.                          *)
LEMMA CreateFields ==
    ASSUME NEW p, Shape(p), p.state \in [Clients -> ClientStates],
           ClientInv(p.state, p.remaining, p.wrapper),
           TryCreateNewConnection(p) # p, TryCreateNewConnection(p) # [p EXCEPT !.exhausted = TRUE]
    PROVE  LET q == TryCreateNewConnection(p)
           IN  \E d \in Clients :
                  /\ p.state[d] = "None" /\ Shape(q)
                  /\ q.list = [p.list EXCEPT !["connecting"] = <<d>> \o @]
                  /\ q.state = [p.state EXCEPT ![d] = "Connecting"]
                  /\ q.remaining = [p.remaining EXCEPT ![d] = MaxRequests]
                  /\ q.capacity = p.capacity + 1
                  /\ q.connecting_capacity = p.connecting_capacity + 1
                  /\ q.pending = p.pending /\ q.wrapper = p.wrapper /\ q.status = p.status
                  /\ q.active = p.active /\ q.resources = p.resources /\ q.deferred = p.deferred
                  /\ q.scheduled = p.scheduled /\ q.draining = p.draining
                  /\ q.destroyed = p.destroyed /\ q.exhausted = p.exhausted
<1> DEFINE d == CHOOSE d \in Clients : p.state[d] = "None"
           r == [p EXCEPT !.state[d] = "Connecting", !.remaining[d] = MaxRequests,
                          !.list["connecting"] = <<d>> \o @]
           u == CurrentUnusedCapacity(r, d)
           q == IncrCapacity(r, u, d)
<1>1. TryCreateNewConnection(p) = q /\ ~(\A c \in Clients : p.state[c] # "None")
  BY DEF TryCreateNewConnection
<1>2. d \in Clients /\ p.state[d] = "None"
  BY <1>1
<1> HIDE DEF d
<1>3. /\ Shape(r) /\ r.list = [p.list EXCEPT !["connecting"] = <<d>> \o @]
      /\ r.state = [p.state EXCEPT ![d] = "Connecting"]
      /\ r.remaining = [p.remaining EXCEPT ![d] = MaxRequests]
      /\ r.capacity = p.capacity /\ r.connecting_capacity = p.connecting_capacity
      /\ r.pending = p.pending /\ r.wrapper = p.wrapper /\ r.status = p.status
      /\ r.active = p.active /\ r.resources = p.resources /\ r.deferred = p.deferred
      /\ r.scheduled = p.scheduled /\ r.draining = p.draining
      /\ r.destroyed = p.destroyed /\ r.exhausted = p.exhausted
  BY DEF Shape, FieldNames
<1> HIDE DEF r
<1>4. r.remaining[d] \in Nat \ {0} /\ r.wrapper[d] = NoStream /\ r.state[d] = "Connecting"
  BY <1>2, <1>3, ConnPoolAssumption DEF ClientInv
<1>5. u = 1
  BY <1>4, UnusedIs
<1> HIDE DEF u
<1>6. /\ Shape(q) /\ q.list = r.list /\ q.state = r.state /\ q.remaining = r.remaining
      /\ q.capacity = r.capacity + 1 /\ q.connecting_capacity = r.connecting_capacity + 1
      /\ q.pending = r.pending /\ q.wrapper = r.wrapper /\ q.status = r.status
      /\ q.active = r.active /\ q.resources = r.resources /\ q.deferred = r.deferred
      /\ q.scheduled = r.scheduled /\ q.draining = r.draining
      /\ q.destroyed = r.destroyed /\ q.exhausted = r.exhausted
  BY <1>3, <1>4, <1>5 DEF Shape, FieldNames, IncrCapacity, HasHandshakeCompleted
<1> HIDE DEF q
<1> QED
  BY <1>1, <1>2, <1>3, <1>6

(* try_create_new_connection keeps the books.                              *)
LEMMA CreateBooks ==
    ASSUME NEW p, NEW D, Books(p, D)
    PROVE  LET q == TryCreateNewConnection(p) IN Books(q, D) /\ Creates(p, q)
<1> DEFINE q == TryCreateNewConnection(p)
<1>0. /\ Shape(p) /\ FlagInv(p) /\ p.deferred \in Seq(Items)
      /\ ListInv(p.list, p.state) /\ ClientInv(p.state, p.remaining, p.wrapper)
      /\ DeferInv(D, p.state) /\ StreamInv(p.pending, p.status, p.wrapper)
      /\ CountInv(p.active, p.resources, p.wrapper, D)
      /\ CapacityInv(p.capacity, p.connecting_capacity, p.list)
  BY DEF Books
<1>1. CASE q = p
  BY <1>1 DEF Creates
<1>2. CASE q = [p EXCEPT !.exhausted = TRUE]
  <2>1. /\ Shape(q) /\ q.list = p.list /\ q.state = p.state /\ q.remaining = p.remaining
        /\ q.capacity = p.capacity /\ q.connecting_capacity = p.connecting_capacity
        /\ q.pending = p.pending /\ q.wrapper = p.wrapper /\ q.status = p.status
        /\ q.active = p.active /\ q.resources = p.resources /\ q.deferred = p.deferred
        /\ q.scheduled = p.scheduled /\ q.draining = p.draining
        /\ q.destroyed = p.destroyed /\ q.exhausted = TRUE
    BY <1>0, <1>2 DEF Shape, FieldNames
  <2> HIDE DEF q
  <2>2. FlagInv(q)
    BY <1>0, <2>1 DEF FlagInv
  <2>3. Creates(p, q)
    BY <2>1 DEF Creates
  <2>4. Books(q, D)
    BY <1>0, <2>1, <2>2 DEF Books
  <2> QED
    BY <2>3, <2>4 DEF q
<1>3. CASE ~(q = p) /\ ~(q = [p EXCEPT !.exhausted = TRUE])
  <2>1. PICK d \in Clients :
           /\ p.state[d] = "None" /\ Shape(q)
           /\ q.list = [p.list EXCEPT !["connecting"] = <<d>> \o @]
           /\ q.state = [p.state EXCEPT ![d] = "Connecting"]
           /\ q.remaining = [p.remaining EXCEPT ![d] = MaxRequests]
           /\ q.capacity = p.capacity + 1
           /\ q.connecting_capacity = p.connecting_capacity + 1
           /\ q.pending = p.pending /\ q.wrapper = p.wrapper /\ q.status = p.status
           /\ q.active = p.active /\ q.resources = p.resources /\ q.deferred = p.deferred
           /\ q.scheduled = p.scheduled /\ q.draining = p.draining
           /\ q.destroyed = p.destroyed /\ q.exhausted = p.exhausted
    <3>1. p.state \in [Clients -> ClientStates]
      BY <1>0 DEF ListInv
    <3> QED
      BY <1>0, <1>3, <3>1, CreateFields
  <2> HIDE DEF q
  <2>2. p.state \in [Clients -> ClientStates] /\ p.remaining \in [Clients -> 0 .. MaxRequests]
    BY <1>0 DEF ListInv, ClientInv
  <2>3. q.state[d] = "Connecting" /\ q.remaining[d] = MaxRequests /\ MaxRequests \in Nat \ {0}
    BY <2>1, <2>2, ConnPoolAssumption
  <2>5. ListInv(q.list, q.state) /\ Len(q.list["connecting"]) = Len(p.list["connecting"]) + 1
    <3> DEFINE k == [p.list EXCEPT !["connecting"] = <<d>> \o @]
               t == [p.state EXCEPT ![d] = "Connecting"]
    <3>1. ListInv(k, t) /\ Len(k["connecting"]) = Len(p.list["connecting"]) + 1
      <4>1. ListInv(p.list, p.state) /\ p.state[d] = "None"
        BY <1>0, <2>1
      <4> QED
        BY <4>1, ListAdd
    <3>2. q.list = k /\ q.state = t
      BY <2>1
    <3> HIDE DEF k, t
    <3> QED
      BY <3>1, <3>2
  <2>6. ClientInv(q.state, q.remaining, q.wrapper)
    <3>1. q.remaining \in [Clients -> 0 .. MaxRequests]
      BY <2>1, <2>2, ConnPoolAssumption
    <3>2. \A c \in Clients : c # d => q.state[c] = p.state[c] /\ q.remaining[c] = p.remaining[c]
      BY <2>1, <2>2
    <3>3. q.wrapper[d] = NoStream
      BY <2>1, <1>0 DEF ClientInv
    <3> QED
      BY <3>1, <3>2, <3>3, <2>1, <2>3, <1>0 DEF ClientInv
  <2>7. \A c \in Clients : q.state[c] = p.state[c] \/ (p.state[c] = "None" /\ q.state[c] = "Connecting")
    BY <2>1, <2>2
  <2>8. DeferInv(D, q.state)
    BY <2>7, <1>0, DeferStay
  <2>9. CapacityInv(q.capacity, q.connecting_capacity, q.list)
    <3>1. Len(p.list["connecting"]) \in Nat
      BY <1>0 DEF ListInv, ListNames
    <3> QED
      BY <3>1, <2>1, <2>5, <1>0 DEF CapacityInv
  <2>10. /\ Shape(q) /\ q.pending = p.pending /\ q.wrapper = p.wrapper /\ q.status = p.status
         /\ q.active = p.active /\ q.resources = p.resources /\ q.deferred = p.deferred
         /\ q.scheduled = p.scheduled /\ q.draining = p.draining
         /\ q.destroyed = p.destroyed /\ q.exhausted = p.exhausted
    BY <2>1
  <2>11. FlagInv(q)
    BY <1>0, <2>10 DEF FlagInv
  <2>12. Creates(p, q)
    BY <2>7, <2>10 DEF Creates
  <2>13. Books(q, D)
    BY <1>0, <2>10, <2>11, <2>5, <2>6, <2>8, <2>9 DEF Books
  <2> QED
    BY <2>12, <2>13 DEF q
<1> QED
  BY <1>1, <1>2, <1>3

(* Creating twice is creating.                                             *)
LEMMA CreatesTrans ==
    ASSUME NEW p, NEW q, NEW r, Creates(p, q), Creates(q, r) PROVE Creates(p, r)
BY DEF Creates

(* try_create_new_connections keeps the books.                             *)
LEMMA CreateAllBooks ==
    ASSUME NEW p, NEW D, Books(p, D)
    PROVE  LET q == TryCreateNewConnections(p) IN Books(q, D) /\ Creates(p, q)
<1> DEFINE a == TryCreateNewConnection(p)
           b == TryCreateNewConnection(a)
           q == TryCreateNewConnection(b)
<1>1. Books(a, D) /\ Creates(p, a)
  BY CreateBooks
<1>2. Books(b, D) /\ Creates(a, b)
  <2> HIDE DEF a
  <2> QED
    BY <1>1, CreateBooks
<1>3. Books(q, D) /\ Creates(b, q)
  <2> HIDE DEF b
  <2> QED
    BY <1>2, CreateBooks
<1>4. TryCreateNewConnections(p) = q
  BY DEF TryCreateNewConnections
<1> HIDE DEF a, b, q
<1> QED
  BY <1>1, <1>2, <1>3, <1>4, CreatesTrans

-----------------------------------------------------------------------------
(* What happens to a stream.                                               *)

(* The streams that wait are told that they get no connection.             *)
LEMMA StreamPurge ==
    ASSUME NEW pe, NEW sta, NEW wr, StreamInv(pe, sta, wr)
    PROVE  StreamInv(<<>>, [s \in Streams |-> IF s \in ToSet(pe) THEN "failed" ELSE sta[s]], wr)
<1> DEFINE v == [s \in Streams |-> IF s \in ToSet(pe) THEN "failed" ELSE sta[s]]
<1>1. \A s \in Streams : s \in ToSet(pe) <=> sta[s] = "pending"
  BY DEF StreamInv, Has, ToSet
<1>2. v \in [Streams -> StreamStates] /\ \A s \in Streams : v[s] = IF sta[s] = "pending" THEN "failed" ELSE sta[s]
  BY <1>1 DEF StreamInv, StreamStates
<1> HIDE DEF v
<1>3. \A s : ~Has(<<>>, s)
  BY DEF Has
<1>4. Inj(<<>>)
  BY DEF Inj
<1>5. <<>> \in Seq(Streams)
  OBVIOUS
<1>6. StreamInv(<<>>, v, wr)
  BY <1>2, <1>3, <1>4, <1>5 DEF StreamInv
<1> QED
  BY <1>6 DEF v

(* A stream that was served is over.                                       *)
LEMMA StreamDetach ==
    ASSUME NEW pe, NEW sta, NEW wr, StreamInv(pe, sta, wr), wr \in [Clients -> Streams \cup {NoStream}],
           NEW c \in Clients, wr[c] # NoStream
    PROVE  StreamInv(pe, [sta EXCEPT ![wr[c]] = "done"], [wr EXCEPT ![c] = NoStream])
<1> DEFINE w == wr[c]
           v == [sta EXCEPT ![w] = "done"]
           x == [wr EXCEPT ![c] = NoStream]
<1>1. w \in Streams /\ sta[w] \in {"sending", "sent"} /\ ~Has(pe, w) /\ NoStream \notin Streams
  BY ConnPoolAssumption DEF StreamInv
<1>2. v \in [Streams -> StreamStates] /\ v[w] = "done" /\ \A s \in Streams : s # w => v[s] = sta[s]
  BY <1>1 DEF StreamInv, StreamStates
<1>3. /\ x[c] = NoStream /\ \A d \in Clients : d # c => x[d] = wr[d] /\ x[d] # w
  BY DEF StreamInv
<1> HIDE DEF v, x, w
<1>4. \A s \in Streams : v[s] \in {"sending", "sent"} <=> \E d \in Clients : x[d] = s
  <2> SUFFICES ASSUME NEW s \in Streams
               PROVE  v[s] \in {"sending", "sent"} <=> \E d \in Clients : x[d] = s
    OBVIOUS
  <2>1. CASE s = w
    BY <2>1, <1>1, <1>2, <1>3
  <2>2. CASE s # w
    <3>1. wr[c] # s
      BY <2>2 DEF w
    <3> QED
      BY <3>1, <2>2, <1>1, <1>2, <1>3 DEF StreamInv
  <2> QED
    BY <2>1, <2>2
<1>5. \A s \in Streams : Has(pe, s) <=> v[s] = "pending"
  BY <1>1, <1>2 DEF StreamInv
<1>6. \A d, e \in Clients : x[d] = x[e] /\ x[d] # NoStream => d = e
  BY <1>3 DEF StreamInv
<1>7. StreamInv(pe, v, x)
  BY <1>2, <1>4, <1>5, <1>6 DEF StreamInv
<1> QED
  BY <1>7 DEF v, x, w

(* A client gets the stream s, which waited or is new.                     *)
LEMMA StreamAttach ==
    ASSUME NEW pe, NEW sta, NEW wr, StreamInv(pe, sta, wr), wr \in [Clients -> Streams \cup {NoStream}],
           NEW c \in Clients, wr[c] = NoStream, NEW s \in Streams, sta[s] \in {"new", "pending"},
           NEW pf, pf \in Seq(Streams), Inj(pf), \A y : Has(pf, y) <=> Has(pe, y) /\ y # s
    PROVE  StreamInv(pf, [sta EXCEPT ![s] = "sending"], [wr EXCEPT ![c] = s])
<1> DEFINE v == [sta EXCEPT ![s] = "sending"]
           x == [wr EXCEPT ![c] = s]
<1>1. (\A d \in Clients : wr[d] # s) /\ NoStream \notin Streams
  BY ConnPoolAssumption DEF StreamInv
<1>2. v \in [Streams -> StreamStates] /\ v[s] = "sending" /\ \A t \in Streams : t # s => v[t] = sta[t]
  BY <1>1 DEF StreamInv, StreamStates
<1>3. x[c] = s /\ \A d \in Clients : d # c => x[d] = wr[d]
  OBVIOUS
<1> HIDE DEF v, x
<1>4. \A t \in Streams : v[t] \in {"sending", "sent"} <=> \E d \in Clients : x[d] = t
  <2> SUFFICES ASSUME NEW t \in Streams
               PROVE  v[t] \in {"sending", "sent"} <=> \E d \in Clients : x[d] = t
    OBVIOUS
  <2>1. CASE t = s
    BY <2>1, <1>2, <1>3
  <2>2. CASE t # s
    <3>1. wr[c] # t
      BY <1>1
    <3> QED
      BY <3>1, <2>2, <1>1, <1>2, <1>3 DEF StreamInv
  <2> QED
    BY <2>1, <2>2
<1>5. \A t \in Streams : Has(pf, t) <=> v[t] = "pending"
  BY <1>2 DEF StreamInv
<1>6. \A d, e \in Clients : x[d] = x[e] /\ x[d] # NoStream => d = e
  BY <1>1, <1>3 DEF StreamInv
<1>7. StreamInv(pf, v, x)
  BY <1>2, <1>4, <1>5, <1>6 DEF StreamInv
<1> QED
  BY <1>7 DEF v, x

(* A stream that no client serves gets the status z, and the list follows. *)
LEMMA StreamMark ==
    ASSUME NEW pe, NEW sta, NEW wr, StreamInv(pe, sta, wr), NEW s \in Streams, sta[s] \in {"new", "pending"},
           NEW z \in {"pending", "failed", "cancelled"},
           NEW pf, pf \in Seq(Streams), Inj(pf),
           \A y : Has(pf, y) <=> (IF y = s THEN z = "pending" ELSE Has(pe, y))
    PROVE  StreamInv(pf, [sta EXCEPT ![s] = z], wr)
<1> DEFINE v == [sta EXCEPT ![s] = z]
<1>1. \A d \in Clients : wr[d] # s
  BY DEF StreamInv
<1>2. v \in [Streams -> StreamStates] /\ v[s] = z /\ \A t \in Streams : t # s => v[t] = sta[t]
  BY <1>1 DEF StreamInv, StreamStates
<1> HIDE DEF v
<1>4. \A t \in Streams : v[t] \in {"sending", "sent"} <=> \E d \in Clients : wr[d] = t
  BY <1>1, <1>2 DEF StreamInv
<1>5. \A t \in Streams : Has(pf, t) <=> v[t] = "pending"
  BY <1>2 DEF StreamInv
<1>7. StreamInv(pf, v, wr)
  BY <1>2, <1>4, <1>5 DEF StreamInv
<1> QED
  BY <1>7 DEF v

-----------------------------------------------------------------------------
(* Changing the state of a client.                                         *)

(* The fields of q that neither a client's state nor its capacity touches. *)
Rest(p, q) ==
    /\ q.pending = p.pending /\ q.wrapper = p.wrapper /\ q.status = p.status
    /\ q.active = p.active /\ q.resources = p.resources /\ q.deferred = p.deferred
    /\ q.scheduled = p.scheduled /\ q.draining = p.draining
    /\ q.destroyed = p.destroyed /\ q.exhausted = p.exhausted

(* drain() of a client.                                                    *)
LEMMA DrainFields ==
    ASSUME NEW p, Shape(p), NEW c, p.remaining[c] \in Nat
    PROVE  LET q == DrainClient(p, c)
               u == CurrentUnusedCapacity(p, c)
           IN  /\ Shape(q) /\ Rest(p, q) /\ q.list = p.list /\ q.state = p.state
               /\ u \in {0, 1}
               /\ u = 0 => q = p
               /\ u = 1 => /\ q.remaining = [p.remaining EXCEPT ![c] = 0]
                           /\ q.capacity = p.capacity - 1
                           /\ q.connecting_capacity =
                                 IF p.state[c] = "Connecting" THEN p.connecting_capacity - 1
                                 ELSE p.connecting_capacity
<1> DEFINE q == DrainClient(p, c)
           u == CurrentUnusedCapacity(p, c)
<1>1. u \in {0, 1}
  BY UnusedIs
<1>2. CASE u = 0
  <2>1. q = p
    BY <1>2 DEF DrainClient
  <2> HIDE DEF q, u
  <2> QED
    BY <1>1, <1>2, <2>1 DEF q, u, Rest
<1>3. CASE u = 1
  <2>1. q = [DecrCapacity(p, 1, c) EXCEPT !.remaining[c] = 0]
    BY <1>3 DEF DrainClient
  <2>2. /\ Shape(q) /\ Rest(p, q) /\ q.list = p.list /\ q.state = p.state
        /\ q.remaining = [p.remaining EXCEPT ![c] = 0]
        /\ q.capacity = p.capacity - 1
        /\ q.connecting_capacity = IF p.state[c] = "Connecting" THEN p.connecting_capacity - 1
                                   ELSE p.connecting_capacity
    BY <2>1 DEF Shape, FieldNames, Rest, DecrCapacity, HasHandshakeCompleted
  <2> HIDE DEF q, u
  <2> QED
    BY <1>1, <1>3, <2>2 DEF q, u
<1> QED
  BY <1>1, <1>2, <1>3

(* The fields after a change of state to s, where r is the pool p after    *)
(* the drain() that goes before it, if any.                                *)
Transited(p, r, q, c, s) ==
    /\ Shape(q) /\ Rest(r, q) /\ q.state = [p.state EXCEPT ![c] = s]
    /\ q.remaining = r.remaining /\ q.capacity = r.capacity
    /\ q.connecting_capacity = r.connecting_capacity
    /\ OwningList(p.state[c]) = OwningList(s) => q.list = p.list
    /\ OwningList(p.state[c]) # OwningList(s) =>
          q.list = [p.list EXCEPT ![OwningList(p.state[c])] = RemoveFirst(@, c), ![OwningList(s)] = Append(@, c)]

(* rp_conn_pool_impl_base_transition_active_client_state.                  *)
LEMMA TransitionFields ==
    ASSUME NEW p, NEW c, NEW s, NEW r, r = (IF s = "Draining" THEN DrainClient(p, c) ELSE p),
           Shape(r), r.state = p.state, r.list = p.list
    PROVE  Transited(p, r, TransitionActiveClientState(p, c, s), c, s)
<1> DEFINE q == TransitionActiveClientState(p, c, s)
           a == OwningList(p.state[c])
           b == OwningList(s)
<1>1. q = LET t == [r EXCEPT !.state[c] = s]
          IN IF a = b THEN t ELSE [t EXCEPT !.list[a] = RemoveFirst(@, c), !.list[b] = Append(@, c)]
  BY DEF TransitionActiveClientState
<1> HIDE DEF q, a, b
<1>2. CASE a = b
  <2>1. q = [r EXCEPT !.state[c] = s]
    BY <1>1, <1>2
  <2>2. /\ Shape(q) /\ Rest(r, q) /\ q.state = [p.state EXCEPT ![c] = s]
        /\ q.remaining = r.remaining /\ q.capacity = r.capacity
        /\ q.connecting_capacity = r.connecting_capacity /\ q.list = p.list
    BY <2>1 DEF Shape, FieldNames, Rest
  <2> QED
    BY <1>2, <2>2 DEF q, a, b, Transited
<1>3. CASE a # b
  <2>1. q = [r EXCEPT !.state[c] = s, !.list[a] = RemoveFirst(@, c), !.list[b] = Append(@, c)]
    BY <1>1, <1>3 DEF Shape, FieldNames
  <2>2. /\ Shape(q) /\ Rest(r, q) /\ q.state = [p.state EXCEPT ![c] = s]
        /\ q.remaining = r.remaining /\ q.capacity = r.capacity
        /\ q.connecting_capacity = r.connecting_capacity
        /\ q.list = [p.list EXCEPT ![a] = RemoveFirst(@, c), ![b] = Append(@, c)]
    BY <2>1 DEF Shape, FieldNames, Rest
  <2> QED
    BY <1>3, <2>2 DEF q, a, b, Transited
<1> QED
  BY <1>2, <1>3

-----------------------------------------------------------------------------
(* Closing a client.                                                       *)

(* on_connection_event with a close, up to the new connections.            *)
ClosedOnly(p, c) ==
    LET q == [DecrCapacity(p, CurrentUnusedCapacity(p, c), c) EXCEPT !.remaining[c] = 0]
        r == IF HasHandshakeCompleted(p, c) THEN q ELSE PurgePendingStreams(q)
    IN  [ReleaseClient(r, c) EXCEPT !.state[c] = "Closed"]

(* What it does to the fields that the way of the client does not matter   *)
(* to, u being the capacity that the client had left.                      *)
CloseCommon(p, t, c, u) ==
    /\ Shape(t)
    /\ t.list = [p.list EXCEPT ![OwningList(p.state[c])] = RemoveFirst(@, c)]
    /\ t.state = [p.state EXCEPT ![c] = "Closed"]
    /\ t.remaining = [p.remaining EXCEPT ![c] = 0]
    /\ t.capacity = p.capacity - u
    /\ t.connecting_capacity = IF p.state[c] = "Connecting" THEN p.connecting_capacity - u
                               ELSE p.connecting_capacity
    /\ t.active = p.active /\ t.resources = p.resources
    /\ t.scheduled = p.scheduled /\ t.draining = p.draining
    /\ t.destroyed = p.destroyed /\ t.exhausted = p.exhausted

(* release_resources, without and with a stream.                           *)
Released(p, t, c) ==
    /\ Shape(t)
    /\ t.list = [p.list EXCEPT ![OwningList(p.state[c])] = RemoveFirst(@, c)]
    /\ t.state = [p.state EXCEPT ![c] = "Closed"]
    /\ t.remaining = p.remaining /\ t.capacity = p.capacity
    /\ t.connecting_capacity = p.connecting_capacity
    /\ t.active = p.active /\ t.resources = p.resources
    /\ t.scheduled = p.scheduled /\ t.draining = p.draining
    /\ t.destroyed = p.destroyed /\ t.exhausted = p.exhausted
    /\ t.pending = p.pending
    /\ p.wrapper[c] = NoStream =>
          /\ t.deferred = Append(p.deferred, <<"client", c>>)
          /\ t.wrapper = p.wrapper /\ t.status = p.status
    /\ p.wrapper[c] # NoStream =>
          /\ t.deferred = Append(Append(p.deferred, <<"wrapper", c>>), <<"client", c>>)
          /\ t.wrapper = [p.wrapper EXCEPT ![c] = NoStream]
          /\ t.status = [p.status EXCEPT ![p.wrapper[c]] = "done"]

(* The fields of the pool after release_resources.                         *)
LEMMA ReleaseFields ==
    ASSUME NEW p, Shape(p), NEW c
    PROVE  Released(p, [ReleaseClient(p, c) EXCEPT !.state[c] = "Closed"], c)
<1> DEFINE a == OwningList(p.state[c])
           w == p.wrapper[c]
<1> HIDE DEF a, w
<1>1. CASE w = NoStream
  <2> DEFINE q == [p EXCEPT !.list[a] = RemoveFirst(@, c), !.deferred = Append(@, <<"client", c>>)]
             t == [q EXCEPT !.state[c] = "Closed"]
  <2>1. ReleaseClient(p, c) = q
    BY <1>1 DEF ReleaseClient, a, w
  <2>2. /\ Shape(t)
        /\ t.list = [p.list EXCEPT ![a] = RemoveFirst(@, c)]
        /\ t.state = [p.state EXCEPT ![c] = "Closed"]
        /\ t.remaining = p.remaining /\ t.capacity = p.capacity
        /\ t.connecting_capacity = p.connecting_capacity
        /\ t.active = p.active /\ t.resources = p.resources
        /\ t.scheduled = p.scheduled /\ t.draining = p.draining
        /\ t.destroyed = p.destroyed /\ t.exhausted = p.exhausted
        /\ t.pending = p.pending
        /\ t.deferred = Append(p.deferred, <<"client", c>>)
        /\ t.wrapper = p.wrapper /\ t.status = p.status
    BY DEF Shape, FieldNames
  <2>3. t = [ReleaseClient(p, c) EXCEPT !.state[c] = "Closed"]
    BY <2>1
  <2> HIDE DEF t
  <2> QED
    BY <1>1, <2>2, <2>3 DEF a, w, Released
<1>2. CASE w # NoStream
  <2> DEFINE o == [p EXCEPT !.deferred = Append(@, <<"wrapper", c>>), !.status[w] = "done",
                            !.wrapper[c] = NoStream]
             q == [o EXCEPT !.list[a] = RemoveFirst(@, c), !.deferred = Append(@, <<"client", c>>)]
             t == [q EXCEPT !.state[c] = "Closed"]
  <2>1. ReleaseClient(p, c) = q
    BY <1>2 DEF ReleaseClient, a, w
  <2>2. /\ Shape(t)
        /\ t.list = [p.list EXCEPT ![a] = RemoveFirst(@, c)]
        /\ t.state = [p.state EXCEPT ![c] = "Closed"]
        /\ t.remaining = p.remaining /\ t.capacity = p.capacity
        /\ t.connecting_capacity = p.connecting_capacity
        /\ t.active = p.active /\ t.resources = p.resources
        /\ t.scheduled = p.scheduled /\ t.draining = p.draining
        /\ t.destroyed = p.destroyed /\ t.exhausted = p.exhausted
        /\ t.pending = p.pending
        /\ t.deferred = Append(Append(p.deferred, <<"wrapper", c>>), <<"client", c>>)
        /\ t.wrapper = [p.wrapper EXCEPT ![c] = NoStream]
        /\ t.status = [p.status EXCEPT ![w] = "done"]
    BY DEF Shape, FieldNames
  <2>3. t = [ReleaseClient(p, c) EXCEPT !.state[c] = "Closed"]
    BY <2>1
  <2> HIDE DEF t
  <2> QED
    BY <1>2, <2>2, <2>3 DEF a, w, Released
<1> QED
  BY <1>1, <1>2

(* The fields of the pool after a close: a close of a client that connects *)
(* purges the pending streams.                                             *)
PurgedStatus(p, c) ==
    IF p.state[c] = "Connecting"
    THEN [s \in Streams |-> IF s \in ToSet(p.pending) THEN "failed" ELSE p.status[s]]
    ELSE p.status
ClosedFields(p, t, c) ==
    /\ CloseCommon(p, t, c, CurrentUnusedCapacity(p, c))
    /\ t.pending = IF p.state[c] = "Connecting" THEN <<>> ELSE p.pending
    /\ p.wrapper[c] = NoStream =>
          /\ t.deferred = Append(p.deferred, <<"client", c>>)
          /\ t.wrapper = p.wrapper /\ t.status = PurgedStatus(p, c)
    /\ p.wrapper[c] # NoStream =>
          /\ t.deferred = Append(Append(p.deferred, <<"wrapper", c>>), <<"client", c>>)
          /\ t.wrapper = [p.wrapper EXCEPT ![c] = NoStream]
          /\ t.status = [PurgedStatus(p, c) EXCEPT ![p.wrapper[c]] = "done"]

(* They are the fields of ClosedOnly.                                      *)
LEMMA CloseFields == ASSUME NEW p, Shape(p), NEW c PROVE ClosedFields(p, ClosedOnly(p, c), c)
<1> DEFINE u == CurrentUnusedCapacity(p, c)
           q == [DecrCapacity(p, u, c) EXCEPT !.remaining[c] = 0]
           r == IF HasHandshakeCompleted(p, c) THEN q ELSE PurgePendingStreams(q)
           t == [ReleaseClient(r, c) EXCEPT !.state[c] = "Closed"]
           sta == PurgedStatus(p, c)
<1>0. ClosedOnly(p, c) = t
  BY DEF ClosedOnly
<1> HIDE DEF u
<1>1. /\ Shape(q) /\ Rest(p, q) /\ q.list = p.list /\ q.state = p.state
      /\ q.remaining = [p.remaining EXCEPT ![c] = 0]
      /\ q.capacity = p.capacity - u
      /\ q.connecting_capacity = IF p.state[c] = "Connecting" THEN p.connecting_capacity - u
                                 ELSE p.connecting_capacity
  BY DEF Shape, FieldNames, Rest, DecrCapacity, HasHandshakeCompleted
<1> HIDE DEF q
<1>2. /\ Shape(r) /\ r.list = q.list /\ r.state = q.state /\ r.remaining = q.remaining
      /\ r.capacity = q.capacity /\ r.connecting_capacity = q.connecting_capacity
      /\ r.active = q.active /\ r.resources = q.resources
      /\ r.scheduled = q.scheduled /\ r.draining = q.draining
      /\ r.destroyed = q.destroyed /\ r.exhausted = q.exhausted
      /\ r.deferred = q.deferred /\ r.wrapper = q.wrapper
      /\ r.pending = (IF p.state[c] = "Connecting" THEN <<>> ELSE p.pending)
      /\ r.status = sta
  <2>1. CASE p.state[c] # "Connecting"
    <3>1. r = q /\ sta = p.status
      BY <2>1 DEF HasHandshakeCompleted, PurgedStatus
    <3> HIDE DEF r, sta
    <3> QED
      BY <2>1, <3>1, <1>1 DEF Rest
  <2>2. CASE p.state[c] = "Connecting"
    <3> DEFINE v == PurgePendingStreams(q)
    <3>1. r = v
      BY <2>2 DEF HasHandshakeCompleted
    <3>2. /\ Shape(v) /\ v.list = q.list /\ v.state = q.state /\ v.remaining = q.remaining
          /\ v.capacity = q.capacity /\ v.connecting_capacity = q.connecting_capacity
          /\ v.active = q.active /\ v.resources = q.resources
          /\ v.scheduled = q.scheduled /\ v.draining = q.draining
          /\ v.destroyed = q.destroyed /\ v.exhausted = q.exhausted
          /\ v.deferred = q.deferred /\ v.wrapper = q.wrapper
          /\ v.pending = <<>>
          /\ v.status = [s \in Streams |-> IF s \in ToSet(q.pending) THEN "failed" ELSE q.status[s]]
      BY <1>1 DEF Shape, FieldNames, PurgePendingStreams
    <3>3. v.status = sta
      BY <2>2, <3>2, <1>1 DEF Rest, PurgedStatus
    <3> HIDE DEF r, v, sta
    <3> QED
      BY <2>2, <3>1, <3>2, <3>3
  <2> QED
    BY <2>1, <2>2
<1> HIDE DEF r, sta
<1>3. Released(r, t, c)
  BY <1>2, ReleaseFields
<1> HIDE DEF t
<1>6. r.wrapper = p.wrapper /\ r.deferred = p.deferred /\ r.state = p.state /\ r.list = p.list
  BY <1>1, <1>2 DEF Rest
<1>7. CloseCommon(p, t, c, u)
  BY <1>1, <1>2, <1>3, <1>6 DEF CloseCommon, Rest, Released
<1>8. t.pending = IF p.state[c] = "Connecting" THEN <<>> ELSE p.pending
  BY <1>2, <1>3 DEF Released
<1>9. p.wrapper[c] = NoStream =>
         /\ t.deferred = Append(p.deferred, <<"client", c>>)
         /\ t.wrapper = p.wrapper /\ t.status = sta
  BY <1>2, <1>3, <1>6 DEF Released
<1>10. p.wrapper[c] # NoStream =>
         /\ t.deferred = Append(Append(p.deferred, <<"wrapper", c>>), <<"client", c>>)
         /\ t.wrapper = [p.wrapper EXCEPT ![c] = NoStream]
         /\ t.status = [sta EXCEPT ![p.wrapper[c]] = "done"]
  BY <1>2, <1>3, <1>6 DEF Released
<1> QED
  BY <1>0, <1>7, <1>8, <1>9, <1>10 DEF u, sta, ClosedFields

(* What closing the clients in X may change: the pending streams may be    *)
(* purged, and connections created for the ones that are still there.      *)
Closes(p, q, X) ==
    /\ \A d \in X : q.state[d] = "Closed"
    /\ \A d \in Clients \ X :
          /\ q.state[d] = p.state[d] \/ (p.state[d] = "None" /\ q.state[d] = "Connecting")
          /\ q.wrapper[d] = p.wrapper[d]
    /\ q.pending = p.pending \/ q.pending = <<>>
    /\ p.pending = <<>> => \A d \in Clients \ X : q.state[d] = p.state[d]
    /\ q.scheduled = p.scheduled /\ q.draining = p.draining /\ q.destroyed = p.destroyed

(* A client that can be closed.                                            *)
Open(p, c) == c \in Clients /\ p.state[c] \notin {"None", "Closed"}

(* The parts of the books.                                                 *)
LEMMA BooksParts ==
    ASSUME NEW p, NEW D, Books(p, D)
    PROVE  /\ Shape(p) /\ FlagInv(p) /\ p.deferred \in Seq(Items)
           /\ ListInv(p.list, p.state) /\ ClientInv(p.state, p.remaining, p.wrapper)
           /\ DeferInv(D, p.state) /\ StreamInv(p.pending, p.status, p.wrapper)
           /\ CountInv(p.active, p.resources, p.wrapper, D)
           /\ CapacityInv(p.capacity, p.connecting_capacity, p.list)
           /\ p.list \in [ListNames -> Seq(Clients)] /\ p.state \in [Clients -> ClientStates]
           /\ p.remaining \in [Clients -> 0 .. MaxRequests]
           /\ p.wrapper \in [Clients -> Streams \cup {NoStream}]
           /\ p.pending \in Seq(Streams) /\ p.status \in [Streams -> StreamStates]
<1>1. /\ Shape(p) /\ FlagInv(p) /\ p.deferred \in Seq(Items)
      /\ ListInv(p.list, p.state) /\ ClientInv(p.state, p.remaining, p.wrapper)
      /\ DeferInv(D, p.state) /\ StreamInv(p.pending, p.status, p.wrapper)
      /\ CountInv(p.active, p.resources, p.wrapper, D)
      /\ CapacityInv(p.capacity, p.connecting_capacity, p.list)
  BY DEF Books
<1>2. /\ p.list \in [ListNames -> Seq(Clients)] /\ p.state \in [Clients -> ClientStates]
      /\ p.remaining \in [Clients -> 0 .. MaxRequests]
      /\ p.wrapper \in [Clients -> Streams \cup {NoStream}]
      /\ p.pending \in Seq(Streams) /\ p.status \in [Streams -> StreamStates]
  BY <1>1 DEF ListInv, ClientInv, StreamInv
<1> QED
  BY <1>1, <1>2

(* One client changes, and what is said of it holds.                       *)
ClientKept(p, t, c) ==
    /\ t.remaining \in [Clients -> 0 .. MaxRequests]
    /\ t.wrapper \in [Clients -> Streams \cup {NoStream}]
    /\ \A d \in Clients : d # c =>
          t.state[d] = p.state[d] /\ t.remaining[d] = p.remaining[d] /\ t.wrapper[d] = p.wrapper[d]
    /\ t.state[c] \in {"None", "Connecting", "Ready", "Closed"} => t.wrapper[c] = NoStream
    /\ t.state[c] = "Connecting" => t.remaining[c] = MaxRequests
    /\ t.state[c] \in {"Ready", "Busy"} => t.remaining[c] > 0

(* Then it holds of every client.                                          *)
LEMMA ClientStep ==
    ASSUME NEW p, NEW t, NEW c, ClientInv(p.state, p.remaining, p.wrapper), ClientKept(p, t, c)
    PROVE  ClientInv(t.state, t.remaining, t.wrapper)
<1> DEFINE a == t.state
           f == t.remaining
           v == t.wrapper
<1>1. /\ f \in [Clients -> 0 .. MaxRequests] /\ v \in [Clients -> Streams \cup {NoStream}]
      /\ \A d \in Clients : d # c => a[d] = p.state[d] /\ f[d] = p.remaining[d] /\ v[d] = p.wrapper[d]
      /\ a[c] \in {"None", "Connecting", "Ready", "Closed"} => v[c] = NoStream
      /\ a[c] = "Connecting" => f[c] = MaxRequests
      /\ a[c] \in {"Ready", "Busy"} => f[c] > 0
  BY DEF ClientKept
<1> HIDE DEF a, f, v
<1>2. ASSUME NEW d \in Clients
      PROVE  /\ a[d] \in {"None", "Connecting", "Ready", "Closed"} => v[d] = NoStream
             /\ a[d] = "Connecting" => f[d] = MaxRequests
             /\ a[d] \in {"Ready", "Busy"} => f[d] > 0
  BY <1>1 DEF ClientInv
<1>3. ClientInv(a, f, v)
  BY <1>1, <1>2 DEF ClientInv
<1> QED
  BY <1>3 DEF a, f, v

(* The close keeps the books, before connections are created.              *)
LEMMA ClosedOnlyBooks ==
    ASSUME NEW p, Books(p, p.deferred), NEW c, Open(p, c)
    PROVE  LET t == ClosedOnly(p, c)
           IN  /\ Books(t, t.deferred) /\ Closes(p, t, {c})
               /\ \A d \in Clients \ {c} : t.state[d] = p.state[d]
               /\ p.state[c] = "Connecting" => t.pending = <<>>
<1> DEFINE t == ClosedOnly(p, c)
           u == CurrentUnusedCapacity(p, c)
<1>0. /\ Shape(p) /\ FlagInv(p) /\ p.deferred \in Seq(Items)
      /\ ListInv(p.list, p.state) /\ ClientInv(p.state, p.remaining, p.wrapper)
      /\ DeferInv(p.deferred, p.state) /\ StreamInv(p.pending, p.status, p.wrapper)
      /\ CountInv(p.active, p.resources, p.wrapper, p.deferred)
      /\ CapacityInv(p.capacity, p.connecting_capacity, p.list)
      /\ p.list \in [ListNames -> Seq(Clients)] /\ p.state \in [Clients -> ClientStates]
      /\ p.remaining \in [Clients -> 0 .. MaxRequests]
      /\ p.wrapper \in [Clients -> Streams \cup {NoStream}]
      /\ p.pending \in Seq(Streams) /\ p.status \in [Streams -> StreamStates]
  BY BooksParts
<1>1. c \in Clients /\ p.state[c] \notin {"None", "Closed"} /\ p.remaining[c] \in Nat
  BY <1>0, ConnPoolAssumption DEF Open
<1>2. ClosedFields(p, t, c)
  BY <1>0, CloseFields
<1>3. u \in {0, 1} /\ (p.state[c] = "Connecting" => u = 1 /\ p.wrapper[c] = NoStream)
  <2>1. p.state[c] = "Connecting" => p.wrapper[c] = NoStream /\ p.remaining[c] # 0
    BY <1>0, <1>1, ConnPoolAssumption DEF ClientInv
  <2> QED
    BY <2>1, <1>1, UnusedIs
<1>4. CloseCommon(p, t, c, u)
  BY <1>2 DEF ClosedFields
<1> HIDE DEF t, u
<1>5. /\ Shape(t)
      /\ t.active = p.active /\ t.resources = p.resources
      /\ t.scheduled = p.scheduled /\ t.draining = p.draining
      /\ t.destroyed = p.destroyed /\ t.exhausted = p.exhausted
  BY <1>4 DEF CloseCommon
<1>6. ListInv(t.list, t.state) /\ Len(t.list["connecting"]) =
         IF p.state[c] = "Connecting" THEN Len(p.list["connecting"]) - 1 ELSE Len(p.list["connecting"])
  <2> DEFINE k == [p.list EXCEPT ![OwningList(p.state[c])] = RemoveFirst(@, c)]
             x == [p.state EXCEPT ![c] = "Closed"]
  <2>1. ListInv(k, x) /\ Len(k["connecting"]) =
           IF p.state[c] = "Connecting" THEN Len(p.list["connecting"]) - 1 ELSE Len(p.list["connecting"])
    <3>1. ListInv(p.list, p.state) /\ c \in Clients /\ p.state[c] \notin {"None", "Closed"}
      BY <1>0, <1>1
    <3> QED
      BY <3>1, ListDrop
  <2>2. t.list = k /\ t.state = x
    BY <1>4 DEF CloseCommon
  <2> HIDE DEF k, x
  <2> QED
    BY <2>1, <2>2
<1>7. /\ t.state = [p.state EXCEPT ![c] = "Closed"]
      /\ t.remaining = [p.remaining EXCEPT ![c] = 0]
  BY <1>4 DEF CloseCommon
<1>8. t.state[c] = "Closed" /\ \A d \in Clients \ {c} : t.state[d] = p.state[d]
  BY <1>7, <1>1, <1>0
<1>9. CapacityInv(t.capacity, t.connecting_capacity, t.list)
  <2>1. Len(p.list["connecting"]) \in Nat
    BY <1>0 DEF ListNames
  <2>2. Len(p.list["connecting"]) <= p.connecting_capacity /\ p.connecting_capacity \in Nat /\ p.capacity \in Int
    BY <1>0 DEF CapacityInv
  <2>3. p.state[c] = "Connecting" => Len(p.list["connecting"]) # 0
    <3>1. p.state[c] = "Connecting" => Has(p.list["connecting"], c)
      BY <1>0, <1>1, OwnsIs DEF ListInv, ListNames
    <3>2. p.list["connecting"] \in Seq(Clients)
      BY <1>0 DEF ListNames
    <3> QED
      BY <3>1, <3>2 DEF Has
  <2>4. /\ t.capacity = p.capacity - u
        /\ t.connecting_capacity = IF p.state[c] = "Connecting" THEN p.connecting_capacity - u
                                   ELSE p.connecting_capacity
    BY <1>4 DEF CloseCommon
  <2>5. CASE p.state[c] = "Connecting"
    BY <2>5, <2>1, <2>2, <2>3, <2>4, <1>3, <1>6 DEF CapacityInv
  <2>6. CASE p.state[c] # "Connecting"
    BY <2>6, <2>1, <2>2, <2>4, <1>3, <1>6 DEF CapacityInv
  <2> QED
    BY <2>5, <2>6
<1>10. FlagInv(t)
  BY <1>0, <1>5 DEF FlagInv
<1>11. StreamInv(t.pending, PurgedStatus(p, c), p.wrapper)
  <2>1. CASE p.state[c] = "Connecting"
    <3> DEFINE v == [s \in Streams |-> IF s \in ToSet(p.pending) THEN "failed" ELSE p.status[s]]
    <3>1. StreamInv(<<>>, v, p.wrapper)
      BY <1>0, StreamPurge
    <3>2. PurgedStatus(p, c) = v /\ t.pending = <<>>
      BY <2>1, <1>2 DEF PurgedStatus, ClosedFields
    <3> HIDE DEF v
    <3> QED
      BY <3>1, <3>2
  <2>2. CASE p.state[c] # "Connecting"
    <3>2. PurgedStatus(p, c) = p.status /\ t.pending = p.pending
      BY <2>2, <1>2 DEF PurgedStatus, ClosedFields
    <3> QED
      BY <3>2, <1>0
  <2> QED
    BY <2>1, <2>2
<1>12. t.remaining \in [Clients -> 0 .. MaxRequests]
  BY <1>7, <1>0, <1>1, ConnPoolAssumption
<1>13. t.pending = p.pending \/ t.pending = <<>>
  BY <1>2 DEF ClosedFields
<1>14. p.state[c] = "Connecting" => t.pending = <<>>
  BY <1>2 DEF ClosedFields
<1>20. CASE p.wrapper[c] = NoStream
  <2>1. /\ t.deferred = Append(p.deferred, <<"client", c>>)
        /\ t.wrapper = p.wrapper /\ t.status = PurgedStatus(p, c)
    BY <1>2, <1>20 DEF ClosedFields
  <2>2. DeferInv(t.deferred, t.state) /\ Wrapped(t.deferred) = Wrapped(p.deferred)
    <3> DEFINE E == Append(p.deferred, <<"client", c>>)
               x == [p.state EXCEPT ![c] = "Closed"]
    <3>1. DeferInv(E, x) /\ Wrapped(E) = Wrapped(p.deferred)
      <4>1. DeferInv(p.deferred, p.state) /\ p.state \in [Clients -> ClientStates] /\ p.state[c] # "Closed"
        BY <1>0, <1>1
      <4> QED
        BY <4>1, <1>1, DeferClient
    <3>2. t.deferred = E /\ t.state = x
      BY <2>1, <1>7
    <3> HIDE DEF E, x
    <3> QED
      BY <3>1, <3>2
  <2>3. CountInv(t.active, t.resources, t.wrapper, t.deferred)
    BY <2>1, <2>2, <1>0, <1>5 DEF CountInv
  <2>4. StreamInv(t.pending, t.status, t.wrapper)
    BY <2>1, <1>11
  <2>5. ClientInv(t.state, t.remaining, t.wrapper)
    <3>1. \A d \in Clients : d # c => t.state[d] = p.state[d] /\ t.remaining[d] = p.remaining[d]
      BY <1>7, <1>0
    <3>2. t.wrapper \in [Clients -> Streams \cup {NoStream}] /\ t.wrapper[c] = NoStream
      BY <2>1, <1>0, <1>20
    <3>3. ClientInv(p.state, p.remaining, p.wrapper)
      BY <1>0
    <3>4. \A d \in Clients : d # c => t.wrapper[d] = p.wrapper[d]
      BY <2>1
    <3>5. \A d \in Clients : d # c =>
             t.state[d] = p.state[d] /\ t.remaining[d] = p.remaining[d] /\ t.wrapper[d] = p.wrapper[d]
      BY <3>1, <3>4
    <3>6. /\ t.state[c] \in {"None", "Connecting", "Ready", "Closed"} => t.wrapper[c] = NoStream
          /\ t.state[c] = "Connecting" => t.remaining[c] = MaxRequests
          /\ t.state[c] \in {"Ready", "Busy"} => t.remaining[c] > 0
      BY <3>2, <1>8
    <3>7. ClientKept(p, t, c)
      BY <3>2, <3>5, <3>6, <1>12 DEF ClientKept
    <3> QED
      BY <3>3, <3>7, ClientStep
  <2>6. t.deferred \in Seq(Items)
    BY <2>2 DEF DeferInv
  <2>7. Books(t, t.deferred)
    BY <1>5, <1>6, <1>9, <1>10, <2>2, <2>3, <2>4, <2>5, <2>6 DEF Books
  <2>8. Closes(p, t, {c})
    BY <1>5, <1>8, <1>13, <2>1 DEF Closes
  <2> QED
    BY <2>7, <2>8, <1>8, <1>14 DEF t
<1>30. CASE p.wrapper[c] # NoStream
  <2>1. /\ t.deferred = Append(Append(p.deferred, <<"wrapper", c>>), <<"client", c>>)
        /\ t.wrapper = [p.wrapper EXCEPT ![c] = NoStream]
        /\ t.status = [PurgedStatus(p, c) EXCEPT ![p.wrapper[c]] = "done"]
    BY <1>2, <1>30 DEF ClosedFields
  <2>2. /\ DeferInv(t.deferred, t.state) /\ Wrapped(t.deferred) = Wrapped(p.deferred) \cup {c}
        /\ c \notin Wrapped(p.deferred)
    <3> DEFINE E == Append(Append(p.deferred, <<"wrapper", c>>), <<"client", c>>)
               x == [p.state EXCEPT ![c] = "Closed"]
    <3>1. DeferInv(E, x) /\ Wrapped(E) = Wrapped(p.deferred) \cup {c} /\ c \notin Wrapped(p.deferred)
      <4>1. DeferInv(p.deferred, p.state) /\ p.state \in [Clients -> ClientStates] /\ p.state[c] # "Closed"
        BY <1>0, <1>1
      <4> QED
        BY <4>1, <1>1, DeferBoth
    <3>2. t.deferred = E /\ t.state = x
      BY <2>1, <1>7
    <3> HIDE DEF E, x
    <3> QED
      BY <3>1, <3>2
  <2>3. CountInv(t.active, t.resources, t.wrapper, t.deferred)
    <3> DEFINE x == [p.wrapper EXCEPT ![c] = NoStream]
    <3>1. CountInv(p.active, p.resources, x, t.deferred)
      <4>1. CountInv(p.active, p.resources, p.wrapper, p.deferred) /\ p.wrapper \in [Clients -> Streams \cup {NoStream}]
        BY <1>0
      <4> QED
        BY <4>1, <1>1, <1>30, <2>2, CountDefer
    <3>2. t.wrapper = x
      BY <2>1
    <3> HIDE DEF x
    <3> QED
      BY <3>1, <3>2, <1>5
  <2>4. StreamInv(t.pending, t.status, t.wrapper)
    <3> DEFINE x == [p.wrapper EXCEPT ![c] = NoStream]
               v == [PurgedStatus(p, c) EXCEPT ![p.wrapper[c]] = "done"]
    <3>1. StreamInv(t.pending, v, x)
      <4>1. p.wrapper \in [Clients -> Streams \cup {NoStream}]
        BY <1>0
      <4> QED
        BY <4>1, <1>1, <1>11, <1>30, StreamDetach
    <3>2. t.wrapper = x /\ t.status = v
      BY <2>1
    <3> HIDE DEF x, v
    <3> QED
      BY <3>1, <3>2
  <2>9. t.wrapper \in [Clients -> Streams \cup {NoStream}] /\ t.wrapper[c] = NoStream
        /\ \A d \in Clients : d # c => t.wrapper[d] = p.wrapper[d]
    BY <2>1, <1>0, <1>1
  <2>5. ClientInv(t.state, t.remaining, t.wrapper)
    <3>1. \A d \in Clients : d # c => t.state[d] = p.state[d] /\ t.remaining[d] = p.remaining[d]
      BY <1>7, <1>0
    <3>2. ClientInv(p.state, p.remaining, p.wrapper)
      BY <1>0
    <3>5. \A d \in Clients : d # c =>
             t.state[d] = p.state[d] /\ t.remaining[d] = p.remaining[d] /\ t.wrapper[d] = p.wrapper[d]
      BY <3>1, <2>9
    <3>6. /\ t.state[c] \in {"None", "Connecting", "Ready", "Closed"} => t.wrapper[c] = NoStream
          /\ t.state[c] = "Connecting" => t.remaining[c] = MaxRequests
          /\ t.state[c] \in {"Ready", "Busy"} => t.remaining[c] > 0
      BY <2>9, <1>8
    <3>7. ClientKept(p, t, c)
      BY <2>9, <3>5, <3>6, <1>12 DEF ClientKept
    <3> QED
      BY <3>2, <3>7, ClientStep
  <2>6. t.deferred \in Seq(Items)
    BY <2>2 DEF DeferInv
  <2>7. Books(t, t.deferred)
    BY <1>5, <1>6, <1>9, <1>10, <2>2, <2>3, <2>4, <2>5, <2>6 DEF Books
  <2>8. Closes(p, t, {c})
    BY <1>5, <1>8, <1>13, <2>9 DEF Closes
  <2> QED
    BY <2>7, <2>8, <1>8, <1>14 DEF t
<1> QED
  BY <1>20, <1>30

(* The whole close.                                                        *)
LEMMA CloseBooks ==
    ASSUME NEW p, Books(p, p.deferred), NEW c, Open(p, c)
    PROVE  LET q == CloseClient(p, c)
           IN  /\ Books(q, q.deferred) /\ Closes(p, q, {c})
               /\ p.state[c] = "Connecting" =>
                     q.pending = <<>> /\ \A d \in Clients \ {c} : q.state[d] = p.state[d]
<1> DEFINE t == ClosedOnly(p, c)
           q == CloseClient(p, c)
<1>1. /\ Books(t, t.deferred) /\ Closes(p, t, {c})
      /\ \A d \in Clients \ {c} : t.state[d] = p.state[d]
      /\ p.state[c] = "Connecting" => t.pending = <<>>
  BY ClosedOnlyBooks
<1>2. q = IF t.pending = <<>> THEN t ELSE TryCreateNewConnections(t)
  BY DEF CloseClient, ClosedOnly
<1> HIDE DEF t, q
<1>3. CASE t.pending = <<>>
  BY <1>1, <1>2, <1>3 DEF q
<1>4. CASE t.pending # <<>>
  <2>1. q = TryCreateNewConnections(t)
    BY <1>2, <1>4
  <2>2. Books(q, t.deferred) /\ Creates(t, q)
    BY <1>1, <2>1, CreateAllBooks
  <2>3. q.deferred = t.deferred
    BY <2>2 DEF Creates
  <2>4. t.state[c] = "Closed"
    BY <1>1 DEF Closes
  <2>5. q.state[c] = "Closed"
    BY <2>4, <2>2 DEF Creates, Open
  <2>6. p.pending # <<>>
    BY <1>1, <1>4 DEF Closes
  <2>7. Closes(p, q, {c})
    BY <1>1, <2>2, <2>5, <2>6 DEF Closes, Creates
  <2> QED
    BY <1>1, <1>4, <2>2, <2>3, <2>7 DEF q
<1> QED
  BY <1>3, <1>4

(* Closing one client after others.                                        *)
LEMMA ClosesTrans ==
    ASSUME NEW p, NEW q, NEW r, NEW X, NEW c, Closes(p, q, X), Closes(q, r, {c}), X \subseteq Clients
    PROVE  Closes(p, r, X \cup {c})
<1>1. \A d \in X \cup {c} : r.state[d] = "Closed"
  BY DEF Closes
<1>2. \A d \in Clients \ (X \cup {c}) :
         /\ r.state[d] = p.state[d] \/ (p.state[d] = "None" /\ r.state[d] = "Connecting")
         /\ r.wrapper[d] = p.wrapper[d]
  BY DEF Closes
<1>3. p.pending = <<>> => \A d \in Clients \ (X \cup {c}) : r.state[d] = p.state[d]
  BY DEF Closes
<1> QED
  BY <1>1, <1>2, <1>3 DEF Closes

-----------------------------------------------------------------------------
(* The loops, turn by turn.                                                *)

(* The loop of on_upstream_ready.                                          *)
AttachTurns(f, p) ==
    f[0] = p /\ \A i \in 1 .. Len(p.pending) : f[i] = AttachLastPending(f[i - 1])

(* Such a sequence of pools exists.                                        *)
LEMMA AttachPendingLoop ==
    ASSUME NEW p, Len(p.pending) \in Nat
    PROVE  \E f : AttachTurns(f, p) /\ AttachPendingStreams(p) = f[Len(p.pending)]
<1> DEFINE N == Len(p.pending)
           q == p
           Step(x, i) == AttachLastPending(x)
           Is(f, n) == f = [i \in 0 .. n |-> IF i = 0 THEN q ELSE Step(f[i - 1], i)]
           S == {n \in 0 .. N : \E f : Is(f, n)}
           h == CHOOSE f : Is(f, N)
<1>1. AttachPendingStreams(p) = h[N]
  BY DEF AttachPendingStreams
<1> HIDE DEF Step, q, h
<1>2. 0 \in S
  <2>1. Is([i \in 0 .. 0 |-> q], 0)
    OBVIOUS
  <2>2. \E f : Is(f, 0)
    <3> HIDE DEF Is
    <3> QED
      BY <2>1
  <2> HIDE DEF Is
  <2> QED
    BY <2>2
<1>3. ASSUME NEW n \in 0 .. N, n # N, n \in S PROVE n + 1 \in S
  <2>1. PICK f : Is(f, n)
    BY <1>3
  <2> DEFINE g == [i \in 0 .. n + 1 |-> IF i <= n THEN f[i] ELSE Step(f[n], n + 1)]
  <2>2. Is(g, n + 1)
    BY <2>1
  <2>3. n + 1 \in 0 .. N
    BY <1>3
  <2> HIDE DEF Is, g
  <2> QED
    BY <2>2, <2>3
<1>4. N \in S
  <2>1. N \in Nat /\ \A i \in 0 .. N : i # N /\ i \in S => i + 1 \in S
    BY <1>3
  <2> HIDE DEF S, N
  <2>2. \A i \in 0 .. N : i \in S
    BY <1>2, <2>1, UpTo
  <2> QED
    BY <2>1, <2>2
<1>5. Is(h, N)
  <2> HIDE DEF Is
  <2> QED
    BY <1>4 DEF h
<1>6. h[0] = q /\ \A i \in 1 .. N : h[i] = Step(h[i - 1], i)
  <2>1. N \in Nat
    OBVIOUS
  <2> HIDE DEF N
  <2>2. h = [i \in 0 .. N |-> IF i = 0 THEN q ELSE Step(h[i - 1], i)]
    BY <1>5
  <2>3. 0 \in 0 .. N /\ \A i \in 1 .. N : i \in 0 .. N /\ i # 0
    BY <2>1
  <2> QED
    BY <2>2, <2>3
<1> QED
  BY <1>1, <1>6 DEF Step, q, AttachTurns

(* The loops that close clients.                                           *)
CloseTurns(f, p, cs, chosen) ==
    /\ f[0] = p
    /\ \A i \in 1 .. Len(cs) : f[i] = IF cs[i] \in chosen THEN CloseClient(f[i - 1], cs[i]) ELSE f[i - 1]

(* Such a sequence of pools exists.                                        *)
LEMMA CloseClientsLoop ==
    ASSUME NEW p, NEW cs, Len(cs) \in Nat, NEW chosen
    PROVE  \E f : CloseTurns(f, p, cs, chosen) /\ CloseClients(p, cs, chosen) = f[Len(cs)]
<1> DEFINE N == Len(cs)
           q == p
           Step(x, i) == IF cs[i] \in chosen THEN CloseClient(x, cs[i]) ELSE x
           Is(f, n) == f = [i \in 0 .. n |-> IF i = 0 THEN q ELSE Step(f[i - 1], i)]
           S == {n \in 0 .. N : \E f : Is(f, n)}
           h == CHOOSE f : Is(f, N)
<1>1. CloseClients(p, cs, chosen) = h[N]
  BY DEF CloseClients
<1> HIDE DEF Step, q, h
<1>2. 0 \in S
  <2>1. Is([i \in 0 .. 0 |-> q], 0)
    OBVIOUS
  <2>2. \E f : Is(f, 0)
    <3> HIDE DEF Is
    <3> QED
      BY <2>1
  <2> HIDE DEF Is
  <2> QED
    BY <2>2
<1>3. ASSUME NEW n \in 0 .. N, n # N, n \in S PROVE n + 1 \in S
  <2>1. PICK f : Is(f, n)
    BY <1>3
  <2> DEFINE g == [i \in 0 .. n + 1 |-> IF i <= n THEN f[i] ELSE Step(f[n], n + 1)]
  <2>2. Is(g, n + 1)
    BY <2>1
  <2>3. n + 1 \in 0 .. N
    BY <1>3
  <2> HIDE DEF Is, g
  <2> QED
    BY <2>2, <2>3
<1>4. N \in S
  <2>1. N \in Nat /\ \A i \in 0 .. N : i # N /\ i \in S => i + 1 \in S
    BY <1>3
  <2> HIDE DEF S, N
  <2>2. \A i \in 0 .. N : i \in S
    BY <1>2, <2>1, UpTo
  <2> QED
    BY <2>1, <2>2
<1>5. Is(h, N)
  <2> HIDE DEF Is
  <2> QED
    BY <1>4 DEF h
<1>6. h[0] = q /\ \A i \in 1 .. N : h[i] = Step(h[i - 1], i)
  <2>1. N \in Nat
    OBVIOUS
  <2> HIDE DEF N
  <2>2. h = [i \in 0 .. N |-> IF i = 0 THEN q ELSE Step(h[i - 1], i)]
    BY <1>5
  <2>3. 0 \in 0 .. N /\ \A i \in 1 .. N : i \in 0 .. N /\ i # 0
    BY <2>1
  <2> QED
    BY <2>2, <2>3
<1> QED
  BY <1>1, <1>6 DEF Step, q, CloseTurns

(* The dispatcher's pass.                                                  *)
PassTurns(f, p) ==
    /\ f[0] = [p EXCEPT !.deferred = <<>>]
    /\ \A i \in 1 .. Len(p.deferred) : f[i] = DisposeDeferred(f[i - 1], p.deferred[i])

(* Such a sequence of pools exists.                                        *)
LEMMA ClearDeferredLoop ==
    ASSUME NEW p, Len(p.deferred) \in Nat
    PROVE  \E f : PassTurns(f, p) /\ ClearDeferredDeleteList(p) = f[Len(p.deferred)]
<1> DEFINE N == Len(p.deferred)
           q == [p EXCEPT !.deferred = <<>>]
           Step(x, i) == DisposeDeferred(x, p.deferred[i])
           Is(f, n) == f = [i \in 0 .. n |-> IF i = 0 THEN q ELSE Step(f[i - 1], i)]
           S == {n \in 0 .. N : \E f : Is(f, n)}
           h == CHOOSE f : Is(f, N)
<1>1. ClearDeferredDeleteList(p) = h[N]
  BY DEF ClearDeferredDeleteList
<1> HIDE DEF Step, q, h
<1>2. 0 \in S
  <2>1. Is([i \in 0 .. 0 |-> q], 0)
    OBVIOUS
  <2>2. \E f : Is(f, 0)
    <3> HIDE DEF Is
    <3> QED
      BY <2>1
  <2> HIDE DEF Is
  <2> QED
    BY <2>2
<1>3. ASSUME NEW n \in 0 .. N, n # N, n \in S PROVE n + 1 \in S
  <2>1. PICK f : Is(f, n)
    BY <1>3
  <2> DEFINE g == [i \in 0 .. n + 1 |-> IF i <= n THEN f[i] ELSE Step(f[n], n + 1)]
  <2>2. Is(g, n + 1)
    BY <2>1
  <2>3. n + 1 \in 0 .. N
    BY <1>3
  <2> HIDE DEF Is, g
  <2> QED
    BY <2>2, <2>3
<1>4. N \in S
  <2>1. N \in Nat /\ \A i \in 0 .. N : i # N /\ i \in S => i + 1 \in S
    BY <1>3
  <2> HIDE DEF S, N
  <2>2. \A i \in 0 .. N : i \in S
    BY <1>2, <2>1, UpTo
  <2> QED
    BY <2>1, <2>2
<1>5. Is(h, N)
  <2> HIDE DEF Is
  <2> QED
    BY <1>4 DEF h
<1>6. h[0] = q /\ \A i \in 1 .. N : h[i] = Step(h[i - 1], i)
  <2>1. N \in Nat
    OBVIOUS
  <2> HIDE DEF N
  <2>2. h = [i \in 0 .. N |-> IF i = 0 THEN q ELSE Step(h[i - 1], i)]
    BY <1>5
  <2>3. 0 \in 0 .. N /\ \A i \in 1 .. N : i \in 0 .. N /\ i # 0
    BY <2>1
  <2> QED
    BY <2>2, <2>3
<1> QED
  BY <1>1, <1>6 DEF Step, q, PassTurns

(* The loops that drain clients.                                           *)
DrainTurns(f, p, cs) ==
    /\ f[0] = p
    /\ \A i \in 1 .. Len(cs) : f[i] = IF f[i - 1].state[cs[i]] = "Draining" THEN f[i - 1]
                                    ELSE TransitionActiveClientState(f[i - 1], cs[i], "Draining")

(* Such a sequence of pools exists.                                        *)
LEMMA DrainClientsLoop ==
    ASSUME NEW p, NEW cs, Len(cs) \in Nat
    PROVE  \E f : DrainTurns(f, p, cs) /\ DrainClients(p, cs) = f[Len(cs)]
<1> DEFINE N == Len(cs)
           q == p
           Step(x, i) == IF x.state[cs[i]] = "Draining" THEN x ELSE TransitionActiveClientState(x, cs[i], "Draining")
           Is(f, n) == f = [i \in 0 .. n |-> IF i = 0 THEN q ELSE Step(f[i - 1], i)]
           S == {n \in 0 .. N : \E f : Is(f, n)}
           h == CHOOSE f : Is(f, N)
<1>1. DrainClients(p, cs) = h[N]
  BY DEF DrainClients
<1> HIDE DEF Step, q, h
<1>2. 0 \in S
  <2>1. Is([i \in 0 .. 0 |-> q], 0)
    OBVIOUS
  <2>2. \E f : Is(f, 0)
    <3> HIDE DEF Is
    <3> QED
      BY <2>1
  <2> HIDE DEF Is
  <2> QED
    BY <2>2
<1>3. ASSUME NEW n \in 0 .. N, n # N, n \in S PROVE n + 1 \in S
  <2>1. PICK f : Is(f, n)
    BY <1>3
  <2> DEFINE g == [i \in 0 .. n + 1 |-> IF i <= n THEN f[i] ELSE Step(f[n], n + 1)]
  <2>2. Is(g, n + 1)
    BY <2>1
  <2>3. n + 1 \in 0 .. N
    BY <1>3
  <2> HIDE DEF Is, g
  <2> QED
    BY <2>2, <2>3
<1>4. N \in S
  <2>1. N \in Nat /\ \A i \in 0 .. N : i # N /\ i \in S => i + 1 \in S
    BY <1>3
  <2> HIDE DEF S, N
  <2>2. \A i \in 0 .. N : i \in S
    BY <1>2, <2>1, UpTo
  <2> QED
    BY <2>1, <2>2
<1>5. Is(h, N)
  <2> HIDE DEF Is
  <2> QED
    BY <1>4 DEF h
<1>6. h[0] = q /\ \A i \in 1 .. N : h[i] = Step(h[i - 1], i)
  <2>1. N \in Nat
    OBVIOUS
  <2> HIDE DEF N
  <2>2. h = [i \in 0 .. N |-> IF i = 0 THEN q ELSE Step(h[i - 1], i)]
    BY <1>5
  <2>3. 0 \in 0 .. N /\ \A i \in 1 .. N : i \in 0 .. N /\ i # 0
    BY <2>1
  <2> QED
    BY <2>2, <2>3
<1> QED
  BY <1>1, <1>6 DEF Step, q, DrainTurns

-----------------------------------------------------------------------------
(* Closing clients, one after the other.                                   *)

(* Two lists in one.                                                       *)
LEMMA ConcatHas ==
    ASSUME NEW T, NEW a \in Seq(T), NEW b \in Seq(T), Inj(a), Inj(b), \A y : ~(Has(a, y) /\ Has(b, y))
    PROVE  LET r == a \o b
           IN  /\ r \in Seq(T) /\ Inj(r)
               /\ \A y : Has(r, y) <=> Has(a, y) \/ Has(b, y)
<1> DEFINE r == a \o b
<1>1. /\ r \in Seq(T) /\ Len(r) = Len(a) + Len(b) /\ Len(a) \in Nat /\ Len(b) \in Nat
      /\ DOMAIN a = 1 .. Len(a) /\ DOMAIN b = 1 .. Len(b) /\ DOMAIN r = 1 .. Len(a) + Len(b)
  OBVIOUS
<1>2. \A i \in 1 .. Len(a) : r[i] = a[i]
  OBVIOUS
<1>3. \A i \in 1 .. Len(a) + Len(b) : i > Len(a) => r[i] = b[i - Len(a)] /\ i - Len(a) \in 1 .. Len(b)
  BY <1>1
<1> HIDE DEF r
<1>4. \A i \in DOMAIN r : \/ i \in DOMAIN a /\ r[i] = a[i]
                          \/ i - Len(a) \in DOMAIN b /\ r[i] = b[i - Len(a)] /\ i > Len(a)
  BY <1>1, <1>2, <1>3
<1>5. Inj(r)
  <2> SUFFICES ASSUME NEW i \in DOMAIN r, NEW j \in DOMAIN r, r[i] = r[j] PROVE i = j
    BY DEF Inj
  <2>1. i \in Int /\ j \in Int
    BY <1>1
  <2>2. CASE i \in DOMAIN a /\ j \in DOMAIN a
    BY <2>2, <1>1, <1>2 DEF Inj
  <2>3. CASE i \in DOMAIN a /\ j \notin DOMAIN a
    BY <2>3, <1>1, <1>2, <1>4 DEF Has
  <2>4. CASE i \notin DOMAIN a /\ j \in DOMAIN a
    BY <2>4, <1>1, <1>2, <1>4 DEF Has
  <2>5. CASE i \notin DOMAIN a /\ j \notin DOMAIN a
    <3>1. i - Len(a) \in DOMAIN b /\ j - Len(a) \in DOMAIN b /\ b[i - Len(a)] = b[j - Len(a)]
      BY <2>5, <1>4
    <3>2. i - Len(a) = j - Len(a)
      BY <3>1 DEF Inj
    <3> QED
      BY <3>2, <2>1, <1>1
  <2> QED
    BY <2>2, <2>3, <2>4, <2>5
<1>6. \A y : Has(r, y) => Has(a, y) \/ Has(b, y)
  BY <1>4 DEF Has
<1>7. ASSUME NEW y, Has(a, y) PROVE Has(r, y)
  BY <1>7, <1>1, <1>2 DEF Has
<1>8. ASSUME NEW y, Has(b, y) PROVE Has(r, y)
  <2>1. PICK i \in DOMAIN b : b[i] = y
    BY <1>8 DEF Has
  <2>2. i + Len(a) \in DOMAIN r /\ i + Len(a) > Len(a) /\ (i + Len(a)) - Len(a) = i
    BY <2>1, <1>1
  <2>3. r[i + Len(a)] = y
    BY <2>1, <2>2, <1>1, <1>3
  <2> QED
    BY <2>2, <2>3 DEF Has
<1> QED
  BY <1>1, <1>5, <1>6, <1>7, <1>8 DEF r

(* The clients among the first i of cs that are chosen.                    *)
Among(cs, chosen, i) == {c \in Clients : c \in chosen /\ \E j \in 1 .. i : cs[j] = c}

(* How they grow.                                                          *)
LEMMA AmongNext ==
    ASSUME NEW cs \in Seq(Clients), Inj(cs), NEW chosen, NEW i \in 0 .. Len(cs), i # Len(cs)
    PROVE  /\ cs[i + 1] \in Clients /\ cs[i + 1] \notin Among(cs, chosen, i)
           /\ cs[i + 1] \in chosen => Among(cs, chosen, i + 1) = Among(cs, chosen, i) \cup {cs[i + 1]}
           /\ cs[i + 1] \notin chosen => Among(cs, chosen, i + 1) = Among(cs, chosen, i)
<1> DEFINE n == Len(cs)
<1>1. n \in Nat /\ DOMAIN cs = 1 .. n /\ i + 1 \in 1 .. n /\ cs[i + 1] \in Clients /\ i \in 0 .. n
  OBVIOUS
<1> HIDE DEF n
<1>2. 1 .. i + 1 = (1 .. i) \cup {i + 1} /\ i + 1 \notin 1 .. i /\ \A j \in 1 .. i : j \in 1 .. n
  BY <1>1
<1>3. \A j \in 1 .. i : cs[j] # cs[i + 1]
  BY <1>1, <1>2 DEF Inj
<1> QED
  BY <1>1, <1>2, <1>3 DEF Among

(* The books are kept, and the chosen clients closed.                      *)
LEMMA CloseSome ==
    ASSUME NEW p, Books(p, p.deferred), NEW cs \in Seq(Clients), Inj(cs),
           \A d : Has(cs, d) => Open(p, d), NEW chosen
    PROVE  LET q == CloseClients(p, cs, chosen)
           IN  Books(q, q.deferred) /\ Closes(p, q, {c \in Clients : c \in chosen /\ Has(cs, c)})
<1> DEFINE n == Len(cs)
           X(i) == Among(cs, chosen, i)
<1>0. n \in Nat /\ DOMAIN cs = 1 .. n
  OBVIOUS
<1>1. PICK f : CloseTurns(f, p, cs, chosen) /\ CloseClients(p, cs, chosen) = f[n]
  BY <1>0, CloseClientsLoop
<1>11. /\ f[0] = p
       /\ \A i \in 1 .. n : f[i] = IF cs[i] \in chosen THEN CloseClient(f[i - 1], cs[i]) ELSE f[i - 1]
  BY <1>1 DEF CloseTurns
<1> DEFINE S == {i \in 0 .. n : Books(f[i], f[i].deferred) /\ Closes(p, f[i], X(i))}
<1>2. 0 \in S
  <2>1. X(0) = {}
    BY DEF Among
  <2>2. Closes(p, p, {})
    BY DEF Closes
  <2> HIDE DEF X
  <2>3. Books(f[0], f[0].deferred) /\ Closes(p, f[0], X(0))
    BY <2>1, <2>2, <1>11
  <2> QED
    BY <2>3, <1>0
<1>3. ASSUME NEW i \in 0 .. n, i # n, i \in S PROVE i + 1 \in S
  <2> DEFINE c == cs[i + 1]
             a == f[i]
             b == f[i + 1]
  <2>1. Books(a, a.deferred) /\ Closes(p, a, X(i))
    BY <1>3
  <2>0. i \in 0 .. n /\ i # n
    BY <1>3
  <2>2. i + 1 \in 1 .. n /\ (i + 1) - 1 = i /\ i + 1 \in 0 .. n
    <3> HIDE DEF n, S
    <3> QED
      BY <1>0, <2>0
  <2>3. b = IF c \in chosen THEN CloseClient(a, c) ELSE a
    BY <2>2, <1>11
  <2>4. /\ c \in Clients /\ c \notin X(i)
        /\ c \in chosen => X(i + 1) = X(i) \cup {c}
        /\ c \notin chosen => X(i + 1) = X(i)
    BY <2>0, AmongNext
  <2>5. X(i) \subseteq Clients
    BY DEF Among
  <2>6. Has(cs, c)
    BY <2>2, <1>0 DEF Has
  <2> DEFINE Y == X(i)
             Z == X(i + 1)
  <2>7. Books(b, b.deferred) /\ Closes(p, b, Z)
    <3> HIDE DEF X, Y, Z, a, b, c
    <3>1. Closes(p, a, Y) /\ c \notin Y /\ c \in Clients /\ Y \subseteq Clients
      BY <2>1, <2>4, <2>5 DEF Y
    <3>2. Open(a, c)
      BY <3>1, <2>6 DEF Closes, Open
    <3>3. CASE c \in chosen
      <4>1. b = CloseClient(a, c) /\ Z = Y \cup {c}
        BY <3>3, <2>3, <2>4 DEF Y, Z
      <4>2. Books(b, b.deferred) /\ Closes(a, b, {c})
        BY <4>1, <3>2, <2>1, CloseBooks
      <4> QED
        BY <4>1, <4>2, <3>1, ClosesTrans
    <3>4. CASE c \notin chosen
      <4>1. b = a /\ Z = Y
        BY <3>4, <2>3, <2>4 DEF Y, Z
      <4> QED
        BY <4>1, <3>1, <2>1
    <3> QED
      BY <3>3, <3>4
  <2> QED
    BY <2>7, <2>2
<1>4. n \in S
  <2>1. \A i \in 0 .. n : i # n /\ i \in S => i + 1 \in S
    BY <1>3
  <2> HIDE DEF S, n
  <2>2. \A i \in 0 .. n : i \in S
    BY <1>0, <1>2, <2>1, UpTo
  <2> QED
    BY <1>0, <2>2
<1>5. X(n) = {c \in Clients : c \in chosen /\ Has(cs, c)}
  BY <1>0 DEF Among, Has
<1> HIDE DEF X
<1>6. Books(f[n], f[n].deferred) /\ Closes(p, f[n], X(n))
  BY <1>4
<1> QED
  BY <1>1, <1>5, <1>6

(* Closing clients that connect creates none: no stream is left waiting.   *)
LEMMA CloseConnecting ==
    ASSUME NEW p, Books(p, p.deferred), NEW cs \in Seq(Clients), Inj(cs),
           \A d : Has(cs, d) => d \in Clients /\ p.state[d] = "Connecting"
    PROVE  LET q == CloseClients(p, cs, Clients)
           IN  /\ Books(q, q.deferred) /\ q.draining = p.draining /\ q.destroyed = p.destroyed
               /\ \A d \in Clients : q.state[d] = IF Has(cs, d) THEN "Closed" ELSE p.state[d]
<1> DEFINE n == Len(cs)
           X(i) == Among(cs, Clients, i)
           Good(q, Y) == /\ Books(q, q.deferred) /\ q.draining = p.draining /\ q.destroyed = p.destroyed
                         /\ \A d \in Clients : q.state[d] = IF d \in Y THEN "Closed" ELSE p.state[d]
<1>0. n \in Nat /\ DOMAIN cs = 1 .. n
  OBVIOUS
<1>1. PICK f : CloseTurns(f, p, cs, Clients) /\ CloseClients(p, cs, Clients) = f[n]
  BY <1>0, CloseClientsLoop
<1>11. /\ f[0] = p
       /\ \A i \in 1 .. n : f[i] = IF cs[i] \in Clients THEN CloseClient(f[i - 1], cs[i]) ELSE f[i - 1]
  BY <1>1 DEF CloseTurns
<1> DEFINE S == {i \in 0 .. n : Good(f[i], X(i))}
<1>2. 0 \in S
  <2>1. X(0) = {}
    BY DEF Among
  <2>2. Good(p, {})
    OBVIOUS
  <2> HIDE DEF X, Good
  <2>3. Good(f[0], X(0))
    BY <2>1, <2>2, <1>11
  <2> QED
    BY <2>3, <1>0
<1>3. ASSUME NEW i \in 0 .. n, i # n, i \in S PROVE i + 1 \in S
  <2> DEFINE c == cs[i + 1]
             a == f[i]
             b == f[i + 1]
             Y == X(i)
             Z == X(i + 1)
  <2>1. Good(a, Y)
    BY <1>3
  <2>0. i \in 0 .. n /\ i # n
    BY <1>3
  <2>2. i + 1 \in 1 .. n /\ (i + 1) - 1 = i /\ i + 1 \in 0 .. n
    <3> HIDE DEF n, S
    <3> QED
      BY <1>0, <2>0
  <2>4. c \in Clients /\ c \notin Y /\ Z = Y \cup {c}
    BY <2>0, AmongNext
  <2>3. b = CloseClient(a, c)
    BY <2>2, <2>4, <1>11
  <2>6. Has(cs, c)
    BY <2>2, <1>0 DEF Has
  <2>7. Good(b, Z)
    <3> HIDE DEF Y, Z, a, b, c
    <3>1. a.state[c] = "Connecting"
      BY <2>1, <2>4, <2>6
    <3>2. Books(b, b.deferred) /\ Closes(a, b, {c}) /\ \A d \in Clients \ {c} : b.state[d] = a.state[d]
      BY <2>1, <2>3, <2>4, <3>1, CloseBooks DEF Open
    <3>3. b.state[c] = "Closed" /\ b.draining = a.draining /\ b.destroyed = a.destroyed
      BY <3>2 DEF Closes
    <3> QED
      BY <2>1, <2>4, <3>2, <3>3
  <2> HIDE DEF Good
  <2> QED
    BY <2>7, <2>2
<1>4. n \in S
  <2>1. \A i \in 0 .. n : i # n /\ i \in S => i + 1 \in S
    BY <1>3
  <2> HIDE DEF S, n
  <2>2. \A i \in 0 .. n : i \in S
    BY <1>0, <1>2, <2>1, UpTo
  <2> QED
    BY <1>0, <2>2
<1>5. \A c \in Clients : c \in X(n) <=> Has(cs, c)
  BY <1>0 DEF Among, Has
<1>6. Good(f[n], X(n))
  BY <1>4
<1> HIDE DEF X
<1> QED
  BY <1>1, <1>5, <1>6

(* A list holds the clients of its state.                                  *)
LEMMA ListsAre ==
    ASSUME NEW p, NEW D, Books(p, D)
    PROVE  /\ p.list["ready"] \in Seq(Clients) /\ Inj(p.list["ready"])
           /\ p.list["connecting"] \in Seq(Clients) /\ Inj(p.list["connecting"])
           /\ p.list["busy"] \in Seq(Clients) /\ Inj(p.list["busy"])
           /\ \A d : Has(p.list["ready"], d) <=> d \in Clients /\ p.state[d] = "Ready"
           /\ \A d : Has(p.list["connecting"], d) <=> d \in Clients /\ p.state[d] = "Connecting"
           /\ \A d : Has(p.list["busy"], d) <=> d \in Clients /\ p.state[d] \in {"Busy", "Draining"}
<1>1. ListInv(p.list, p.state) /\ p.list \in [ListNames -> Seq(Clients)] /\ p.state \in [Clients -> ClientStates]
  BY BooksParts
<1>2. "ready" \in ListNames /\ "connecting" \in ListNames /\ "busy" \in ListNames
  BY DEF ListNames
<1>3. /\ p.list["ready"] \in Seq(Clients) /\ Inj(p.list["ready"])
      /\ p.list["connecting"] \in Seq(Clients) /\ Inj(p.list["connecting"])
      /\ p.list["busy"] \in Seq(Clients) /\ Inj(p.list["busy"])
  BY <1>1, <1>2 DEF ListInv
<1>4. \A d \in Clients : /\ Has(p.list["ready"], d) <=> p.state[d] = "Ready"
                         /\ Has(p.list["connecting"], d) <=> p.state[d] = "Connecting"
                         /\ Has(p.list["busy"], d) <=> p.state[d] \in {"Busy", "Draining"}
  BY <1>1, <1>2, OwnsIs DEF ListInv
<1>5. \A d : /\ Has(p.list["ready"], d) => d \in Clients
             /\ Has(p.list["connecting"], d) => d \in Clients
             /\ Has(p.list["busy"], d) => d \in Clients
  BY <1>3, EmptyHas
<1> QED
  BY <1>3, <1>4, <1>5

(* No client is ready when the list of those is empty.                     *)
LEMMA NoneReadyIs ==
    ASSUME NEW p, NEW D, Books(p, D)
    PROVE  NoneReady(p) <=> p.list["ready"] = <<>>
<1>1. /\ p.list["ready"] \in Seq(Clients)
      /\ \A d : Has(p.list["ready"], d) <=> d \in Clients /\ p.state[d] = "Ready"
  BY ListsAre
<1>2. p.list["ready"] = <<>> <=> \A d : ~Has(p.list["ready"], d)
  BY <1>1, EmptyHas
<1> QED
  BY <1>1, <1>2 DEF NoneReady

(* close_idle_connection_for_draining_pool.                                *)
LEMMA IdleBooks ==
    ASSUME NEW p, Books(p, p.deferred)
    PROVE  LET q == CloseIdleConnections(p)
           IN  /\ Books(q, q.deferred) /\ NoneReady(q)
               /\ \E X \in SUBSET Clients : Closes(p, q, X)
<1> DEFINE con == IF p.pending = <<>> THEN p.list["connecting"] ELSE <<>>
           idle == {c \in Clients : p.wrapper[c] = NoStream}
           rdy == p.list["ready"]
           cs == rdy \o con
           X == {c \in Clients : c \in idle /\ Has(cs, c)}
           q == CloseIdleConnections(p)
<1>1. q = CloseClients(p, cs, idle)
  BY DEF CloseIdleConnections
<1>2. /\ rdy \in Seq(Clients) /\ Inj(rdy)
      /\ \A d : Has(rdy, d) <=> d \in Clients /\ p.state[d] = "Ready"
  BY ListsAre
<1>3. /\ con \in Seq(Clients) /\ Inj(con)
      /\ \A d : Has(con, d) => d \in Clients /\ p.state[d] = "Connecting"
  <2>1. CASE p.pending = <<>>
    BY <2>1, ListsAre
  <2>2. CASE p.pending # <<>>
    <3>1. con = <<>>
      BY <2>2
    <3> HIDE DEF con
    <3> QED
      BY <3>1 DEF Inj, Has
  <2> QED
    BY <2>1, <2>2
<1>4. cs \in Seq(Clients) /\ Inj(cs) /\ \A y : Has(cs, y) <=> Has(rdy, y) \/ Has(con, y)
  <2> HIDE DEF con, rdy
  <2>1. \A y : ~(Has(rdy, y) /\ Has(con, y))
    BY <1>2, <1>3
  <2> QED
    BY <1>2, <1>3, <2>1, ConcatHas
<1> HIDE DEF cs, con, rdy, q
<1>5. \A d : Has(cs, d) => Open(p, d)
  BY <1>2, <1>3, <1>4 DEF Open
<1> HIDE DEF idle
<1>6. Books(q, q.deferred) /\ Closes(p, q, X)
  BY <1>1, <1>4, <1>5, CloseSome
<1> HIDE DEF X
<1>7. NoneReady(q)
  <2> SUFFICES ASSUME NEW d \in Clients, q.state[d] = "Ready" PROVE FALSE
    BY DEF NoneReady
  <2>1. d \notin X
    BY <1>6 DEF Closes
  <2>2. p.state[d] = "Ready"
    BY <2>1, <1>6 DEF Closes
  <2>3. p.wrapper[d] = NoStream
    <3>1. ClientInv(p.state, p.remaining, p.wrapper)
      BY BooksParts
    <3> QED
      BY <3>1, <2>2 DEF ClientInv
  <2> QED
    BY <2>1, <2>2, <2>3, <1>2, <1>4 DEF X, idle
<1>8. X \in SUBSET Clients
  BY DEF X
<1> QED
  BY <1>6, <1>7, <1>8 DEF q

(* The check for an idle pool, which closes only when it drains.           *)
LEMMA CheckBooks ==
    ASSUME NEW p, Books(p, p.deferred)
    PROVE  LET q == CheckForIdleAndCloseIdleConnsIfDraining(p)
           IN  /\ Books(q, q.deferred) /\ (q.draining => NoneReady(q))
               /\ \E X \in SUBSET Clients : Closes(p, q, X)
<1> DEFINE q == CheckForIdleAndCloseIdleConnsIfDraining(p)
<1>1. CASE p.draining
  <2>1. q = CloseIdleConnections(p)
    BY <1>1 DEF CheckForIdleAndCloseIdleConnsIfDraining
  <2> HIDE DEF q
  <2>2. Books(q, q.deferred) /\ NoneReady(q) /\ \E X \in SUBSET Clients : Closes(p, q, X)
    BY <2>1, IdleBooks
  <2> QED
    BY <2>2 DEF q
<1>2. CASE ~p.draining
  <2>1. q = p
    BY <1>2 DEF CheckForIdleAndCloseIdleConnsIfDraining
  <2> HIDE DEF q
  <2>2. Closes(p, p, {}) /\ {} \in SUBSET Clients
    BY DEF Closes
  <2> QED
    BY <1>2, <2>1, <2>2 DEF q
<1> QED
  BY <1>1, <1>2

(* Closing leaves a pool settled, even if some of the clients in Y, which  *)
(* are closed, had lost their streams.                                     *)
LEMMA ClosesSettled ==
    ASSUME NEW p, NEW q, NEW X \in SUBSET Clients, NEW Y \in SUBSET X, Closes(p, q, X), Serving(p, Y),
           p.pending # <<>> => p.scheduled \/ NoneReady(p), ~p.destroyed,
           q.draining => NoneReady(q)
    PROVE  Settled(q)
<1>1. Serving(q, {})
  <2> SUFFICES ASSUME NEW d \in Clients, q.state[d] \in {"Busy", "Draining"} PROVE q.wrapper[d] # NoStream
    BY DEF Serving
  <2>1. d \notin X
    BY DEF Closes
  <2> QED
    BY <2>1 DEF Closes, Serving
<1>2. NoneReady(p) => NoneReady(q)
  BY DEF Closes, NoneReady
<1>3. q.pending # <<>> => q.scheduled \/ NoneReady(q)
  BY <1>2 DEF Closes
<1>4. ~q.destroyed
  BY DEF Closes
<1> QED
  BY <1>1, <1>3, <1>4 DEF Settled

-----------------------------------------------------------------------------
(* Attaching a stream to a ready client.                                   *)

(* The fields after attach_stream_to_client and on_pool_ready.             *)
AttachedFields(p, q, c, s) ==
    /\ Shape(q)
    /\ q.list = [p.list EXCEPT !["ready"] = RemoveFirst(@, c), !["busy"] = Append(@, c)]
    /\ \E z \in {"Busy", "Draining"} :
          q.state = [p.state EXCEPT ![c] = z] /\ (z = "Busy" => p.remaining[c] # 1)
    /\ q.remaining = [p.remaining EXCEPT ![c] = @ - 1]
    /\ q.capacity = p.capacity - 1 /\ q.connecting_capacity = p.connecting_capacity
    /\ q.active = p.active + 1 /\ q.resources = p.resources + 1
    /\ q.wrapper = [p.wrapper EXCEPT ![c] = s] /\ q.status = [p.status EXCEPT ![s] = "sending"]
    /\ q.pending = p.pending /\ q.deferred = p.deferred
    /\ q.scheduled = p.scheduled /\ q.draining = p.draining
    /\ q.destroyed = p.destroyed /\ q.exhausted = p.exhausted

(* They are those of the operation.                                        *)
LEMMA AttachFields ==
    ASSUME NEW p, Shape(p), NEW c \in Clients, NEW s, p.remaining \in [Clients -> 0 .. MaxRequests],
           p.state \in [Clients -> ClientStates],
           p.state[c] = "Ready", p.wrapper[c] = NoStream, p.remaining[c] > 0, CanCreate(p)
    PROVE  AttachedFields(p, AttachStreamToClient(p, c, s), c, s)
<1> DEFINE o == [p EXCEPT !.remaining[c] = @ - 1]
           z == IF o.remaining[c] = 0 THEN "Draining" ELSE "Busy"
           r == TransitionActiveClientState(o, c, z)
           q == [DecrCapacity(r, 1, c) EXCEPT !.active = @ + 1, !.resources = @ + 1,
                                              !.wrapper[c] = s, !.status[s] = "sending"]
<1>0. p.remaining[c] \in Nat
  BY ConnPoolAssumption
<1>1. CurrentUnusedCapacity(p, c) = 1
  BY <1>0, UnusedIs
<1>2. AttachStreamToClient(p, c, s) = q
  BY <1>1 DEF AttachStreamToClient
<1>3. /\ Shape(o) /\ Rest(p, o) /\ o.list = p.list /\ o.state = p.state
      /\ o.remaining = [p.remaining EXCEPT ![c] = @ - 1]
      /\ o.capacity = p.capacity /\ o.connecting_capacity = p.connecting_capacity
  BY DEF Shape, FieldNames, Rest
<1> HIDE DEF o
<1>4. o.remaining[c] = p.remaining[c] - 1
  BY <1>3
<1>5. z \in {"Busy", "Draining"} /\ (z = "Busy" => p.remaining[c] # 1)
  BY <1>4, <1>0
<1>6. o = IF z = "Draining" THEN DrainClient(o, c) ELSE o
  <2>1. CASE o.remaining[c] = 0
    <3>1. CurrentUnusedCapacity(o, c) = 0
      BY <2>1, UnusedIs
    <3>2. DrainClient(o, c) = o
      BY <3>1 DEF DrainClient
    <3> QED
      BY <3>2
  <2>2. CASE o.remaining[c] # 0
    BY <2>2
  <2> QED
    BY <2>1, <2>2
<1> HIDE DEF z
<1>7. OwningList(o.state[c]) = "ready" /\ OwningList(z) = "busy"
  BY <1>3, <1>5, OwnsIs
<1>8. Transited(o, o, r, c, z)
  BY <1>3, <1>6, TransitionFields
<1>81. /\ Shape(r) /\ Rest(o, r) /\ r.state = [o.state EXCEPT ![c] = z]
       /\ r.remaining = o.remaining /\ r.capacity = o.capacity
       /\ r.connecting_capacity = o.connecting_capacity
  BY <1>8 DEF Transited
<1>9. r.list = [o.list EXCEPT !["ready"] = RemoveFirst(@, c), !["busy"] = Append(@, c)]
  BY <1>7, <1>8 DEF Transited
<1> HIDE DEF r
<1>10. r.state[c] = z
  BY <1>81, <1>3
<1>11. /\ Shape(q) /\ q.list = r.list /\ q.state = r.state /\ q.remaining = r.remaining
       /\ q.capacity = r.capacity - 1 /\ q.connecting_capacity = r.connecting_capacity
       /\ q.active = r.active + 1 /\ q.resources = r.resources + 1
       /\ q.wrapper = [r.wrapper EXCEPT ![c] = s] /\ q.status = [r.status EXCEPT ![s] = "sending"]
       /\ q.pending = r.pending /\ q.deferred = r.deferred
       /\ q.scheduled = r.scheduled /\ q.draining = r.draining
       /\ q.destroyed = r.destroyed /\ q.exhausted = r.exhausted
  BY <1>5, <1>81, <1>10 DEF Shape, FieldNames, DecrCapacity, HasHandshakeCompleted
<1> HIDE DEF q
<1>12. q.state = [p.state EXCEPT ![c] = z]
  BY <1>3, <1>81, <1>11
<1>13. /\ q.list = [p.list EXCEPT !["ready"] = RemoveFirst(@, c), !["busy"] = Append(@, c)]
       /\ q.remaining = [p.remaining EXCEPT ![c] = @ - 1]
       /\ q.capacity = p.capacity - 1 /\ q.connecting_capacity = p.connecting_capacity
  BY <1>3, <1>81, <1>9, <1>11
<1>14. /\ q.active = p.active + 1 /\ q.resources = p.resources + 1
       /\ q.wrapper = [p.wrapper EXCEPT ![c] = s] /\ q.status = [p.status EXCEPT ![s] = "sending"]
       /\ q.pending = p.pending /\ q.deferred = p.deferred
       /\ q.scheduled = p.scheduled /\ q.draining = p.draining
       /\ q.destroyed = p.destroyed /\ q.exhausted = p.exhausted
  BY <1>3, <1>81, <1>11 DEF Rest
<1> QED
  BY <1>2, <1>5, <1>11, <1>12, <1>13, <1>14 DEF AttachedFields

(* What attaching streams may change: clients that were ready serve.       *)
Serves(p, q) ==
    /\ \A d \in Clients :
          \/ q.state[d] = p.state[d] /\ q.wrapper[d] = p.wrapper[d]
          \/ p.state[d] = "Ready" /\ q.state[d] \in {"Busy", "Draining"} /\ q.wrapper[d] # NoStream
    /\ q.deferred = p.deferred /\ q.scheduled = p.scheduled /\ q.draining = p.draining
    /\ q.destroyed = p.destroyed

(* A stream, new or taken off the list of those that wait, is attached, or *)
(* is told that the pool has failed.                                       *)
LEMMA AttachBooks ==
    ASSUME NEW p, NEW D, Books(p, D), NEW c \in Clients, p.state[c] = "Ready",
           NEW s \in Streams, p.status[s] \in {"new", "pending"},
           NEW pe, pe \in Seq(Streams), Inj(pe), \A y : Has(pe, y) <=> Has(p.pending, y) /\ y # s
    PROVE  LET q == [AttachStreamToClient(p, c, s) EXCEPT !.pending = pe]
           IN  Books(q, D) /\ Serves(p, q) /\ q.pending = pe
<1> DEFINE a == AttachStreamToClient(p, c, s)
           q == [a EXCEPT !.pending = pe]
<1>0. /\ Shape(p) /\ FlagInv(p) /\ p.deferred \in Seq(Items)
      /\ ListInv(p.list, p.state) /\ ClientInv(p.state, p.remaining, p.wrapper)
      /\ DeferInv(D, p.state) /\ StreamInv(p.pending, p.status, p.wrapper)
      /\ CountInv(p.active, p.resources, p.wrapper, D)
      /\ CapacityInv(p.capacity, p.connecting_capacity, p.list)
      /\ p.list \in [ListNames -> Seq(Clients)] /\ p.state \in [Clients -> ClientStates]
      /\ p.remaining \in [Clients -> 0 .. MaxRequests]
      /\ p.wrapper \in [Clients -> Streams \cup {NoStream}]
      /\ p.pending \in Seq(Streams) /\ p.status \in [Streams -> StreamStates]
  BY BooksParts
<1>1. p.wrapper[c] = NoStream /\ p.remaining[c] > 0 /\ p.remaining[c] \in 0 .. MaxRequests
  BY <1>0 DEF ClientInv
<1>2. CASE ~CanCreate(p)
  <2>1. a = [p EXCEPT !.status[s] = "failed"]
    BY <1>2 DEF AttachStreamToClient, OnPoolFailure
  <2>2. /\ Shape(q) /\ q.list = p.list /\ q.state = p.state /\ q.remaining = p.remaining
        /\ q.wrapper = p.wrapper /\ q.capacity = p.capacity
        /\ q.connecting_capacity = p.connecting_capacity
        /\ q.active = p.active /\ q.resources = p.resources
        /\ q.pending = pe /\ q.deferred = p.deferred
        /\ q.scheduled = p.scheduled /\ q.draining = p.draining
        /\ q.destroyed = p.destroyed /\ q.exhausted = p.exhausted
        /\ q.status = [p.status EXCEPT ![s] = "failed"]
    BY <2>1, <1>0 DEF Shape, FieldNames
  <2> HIDE DEF q
  <2>3. StreamInv(q.pending, q.status, q.wrapper)
    <3> DEFINE v == [p.status EXCEPT ![s] = "failed"]
    <3>1. StreamInv(pe, v, p.wrapper)
      <4>1. StreamInv(p.pending, p.status, p.wrapper) /\ "failed" \in {"pending", "failed", "cancelled"}
        BY <1>0
      <4>2. \A y : Has(pe, y) <=> (IF y = s THEN "failed" = "pending" ELSE Has(p.pending, y))
        OBVIOUS
      <4> QED
        BY <4>1, <4>2, StreamMark
    <3>2. q.pending = pe /\ q.status = v /\ q.wrapper = p.wrapper
      BY <2>2
    <3> HIDE DEF v
    <3> QED
      BY <3>1, <3>2
  <2>4. FlagInv(q)
    BY <1>0, <2>2 DEF FlagInv
  <2>5. Books(q, D)
    BY <1>0, <2>2, <2>3, <2>4 DEF Books
  <2>6. Serves(p, q)
    BY <2>2 DEF Serves
  <2> QED
    BY <2>2, <2>5, <2>6 DEF q
<1>3. CASE CanCreate(p)
  <2>1. AttachedFields(p, a, c, s)
    BY <1>0, <1>1, <1>3, AttachFields
  <2>2. /\ Shape(q) /\ q.list = a.list /\ q.state = a.state /\ q.remaining = a.remaining
        /\ q.wrapper = a.wrapper /\ q.capacity = a.capacity
        /\ q.connecting_capacity = a.connecting_capacity
        /\ q.active = a.active /\ q.resources = a.resources
        /\ q.pending = pe /\ q.deferred = a.deferred
        /\ q.scheduled = a.scheduled /\ q.draining = a.draining
        /\ q.destroyed = a.destroyed /\ q.exhausted = a.exhausted
        /\ q.status = a.status
    <3>1. Shape(a)
      BY <2>1 DEF AttachedFields
    <3> HIDE DEF a
    <3> QED
      BY <3>1 DEF Shape, FieldNames
  <2> HIDE DEF q, a
  <2>3. PICK z \in {"Busy", "Draining"} :
           q.state = [p.state EXCEPT ![c] = z] /\ (z = "Busy" => p.remaining[c] # 1)
    BY <2>1, <2>2 DEF AttachedFields
  <2>4. ListInv(q.list, q.state) /\ Len(q.list["connecting"]) = Len(p.list["connecting"])
    <3> DEFINE k == [p.list EXCEPT ![OwningList(p.state[c])] = RemoveFirst(@, c), ![OwningList(z)] = Append(@, c)]
               x == [p.state EXCEPT ![c] = z]
    <3>1. OwningList(p.state[c]) = "ready" /\ OwningList(z) = "busy"
      BY OwnsIs
    <3>2. /\ ListInv(k, x)
          /\ z # "Connecting" /\ p.state[c] # "Connecting" => Len(k["connecting"]) = Len(p.list["connecting"])
      <4>1. ListInv(p.list, p.state) /\ z \in ClientStates \ {"None", "Closed"}
            /\ p.state[c] \notin {"None", "Closed"} /\ OwningList(p.state[c]) # OwningList(z)
        BY <1>0, <3>1 DEF ClientStates
      <4> QED
        BY <4>1, ListMove
    <3>3. q.list = k /\ q.state = x
      BY <3>1, <2>1, <2>2, <2>3 DEF AttachedFields
    <3> HIDE DEF k, x
    <3> QED
      BY <3>2, <3>3
  <2>5. /\ q.remaining = [p.remaining EXCEPT ![c] = @ - 1]
        /\ q.wrapper = [p.wrapper EXCEPT ![c] = s]
        /\ q.capacity = p.capacity - 1 /\ q.connecting_capacity = p.connecting_capacity
        /\ q.active = p.active + 1 /\ q.resources = p.resources + 1
        /\ q.status = [p.status EXCEPT ![s] = "sending"] /\ q.deferred = p.deferred
        /\ q.scheduled = p.scheduled /\ q.draining = p.draining
        /\ q.destroyed = p.destroyed /\ q.exhausted = p.exhausted
    BY <2>1, <2>2 DEF AttachedFields
  <2>6. ClientInv(q.state, q.remaining, q.wrapper)
    <3>1. q.remaining \in [Clients -> 0 .. MaxRequests]
      <4>1. p.remaining[c] - 1 \in 0 .. MaxRequests
        BY <1>1, ConnPoolAssumption
      <4> QED
        BY <4>1, <2>5, <1>0
    <3>2. q.wrapper \in [Clients -> Streams \cup {NoStream}]
      BY <2>5, <1>0
    <3>3. \A d \in Clients : d # c =>
             q.state[d] = p.state[d] /\ q.remaining[d] = p.remaining[d] /\ q.wrapper[d] = p.wrapper[d]
      BY <2>3, <2>5, <1>0
    <3>4. q.state[c] = z /\ q.remaining[c] = p.remaining[c] - 1
      BY <2>3, <2>5, <1>0
    <3>5. q.state[c] \in {"Ready", "Busy"} => q.remaining[c] > 0
      BY <3>4, <2>3, <1>1, ConnPoolAssumption
    <3>6. ClientKept(p, q, c)
      BY <3>1, <3>2, <3>3, <3>4, <3>5 DEF ClientKept
    <3>7. ClientInv(p.state, p.remaining, p.wrapper)
      BY <1>0
    <3> QED
      BY <3>6, <3>7, ClientStep
  <2>7. DeferInv(D, q.state)
    <3>1. \A d \in Clients : q.state[d] = "Closed" <=> p.state[d] = "Closed"
      BY <2>3, <1>0
    <3>2. DeferInv(D, p.state)
      BY <1>0
    <3> QED
      BY <3>1, <3>2, DeferStay
  <2>8. StreamInv(q.pending, q.status, q.wrapper)
    <3> DEFINE v == [p.status EXCEPT ![s] = "sending"]
               x == [p.wrapper EXCEPT ![c] = s]
    <3>1. StreamInv(pe, v, x)
      <4>1. StreamInv(p.pending, p.status, p.wrapper) /\ p.wrapper \in [Clients -> Streams \cup {NoStream}]
        BY <1>0
      <4> QED
        BY <4>1, <1>1, StreamAttach
    <3>2. q.pending = pe /\ q.status = v /\ q.wrapper = x
      BY <2>2, <2>5
    <3> HIDE DEF v, x
    <3> QED
      BY <3>1, <3>2
  <2>9. CountInv(q.active, q.resources, q.wrapper, D)
    <3> DEFINE x == [p.wrapper EXCEPT ![c] = s]
    <3>1. CountInv(p.active + 1, p.resources + 1, x, D)
      <4>1. CountInv(p.active, p.resources, p.wrapper, D) /\ p.wrapper \in [Clients -> Streams \cup {NoStream}]
        BY <1>0
      <4> QED
        BY <4>1, <1>1, CountAttach
    <3>2. q.wrapper = x
      BY <2>5
    <3> HIDE DEF x
    <3> QED
      BY <3>1, <3>2, <2>5
  <2>10. CapacityInv(q.capacity, q.connecting_capacity, q.list)
    <3>1. p.capacity \in Int /\ p.connecting_capacity \in Nat /\ Len(p.list["connecting"]) <= p.connecting_capacity
      BY <1>0 DEF CapacityInv
    <3> QED
      BY <3>1, <2>4, <2>5 DEF CapacityInv
  <2>11. FlagInv(q)
    BY <1>0, <2>5 DEF FlagInv
  <2>12. Books(q, D)
    <3>1. Shape(q) /\ q.deferred \in Seq(Items)
      BY <1>0, <2>2, <2>5
    <3> QED
      BY <3>1, <2>4, <2>6, <2>7, <2>8, <2>9, <2>10, <2>11 DEF Books
  <2>13. Serves(p, q)
    <3>1. \A d \in Clients : d # c => q.state[d] = p.state[d] /\ q.wrapper[d] = p.wrapper[d]
      BY <2>3, <2>5, <1>0
    <3>2. q.state[c] = z /\ q.wrapper[c] = s /\ s # NoStream
      BY <2>3, <2>5, <1>0, ConnPoolAssumption
    <3> QED
      BY <3>1, <3>2, <2>5 DEF Serves
  <2> QED
    BY <2>2, <2>12, <2>13 DEF q, a
<1> QED
  BY <1>2, <1>3

(* Attaching twice is attaching.                                           *)
LEMMA ServesTrans ==
    ASSUME NEW p, NEW q, NEW r, Serves(p, q), Serves(q, r) PROVE Serves(p, r)
<1>1. \A d \in Clients :
          \/ r.state[d] = p.state[d] /\ r.wrapper[d] = p.wrapper[d]
          \/ p.state[d] = "Ready" /\ r.state[d] \in {"Busy", "Draining"} /\ r.wrapper[d] # NoStream
  BY DEF Serves
<1> QED
  BY <1>1 DEF Serves

(* attach_stream_to_client leaves the list of those that wait alone.       *)
LEMMA AttachKeeps ==
    ASSUME NEW p, NEW D, Books(p, D), NEW c \in Clients, p.state[c] = "Ready", NEW s
    PROVE  LET a == AttachStreamToClient(p, c, s)
           IN  Shape(a) /\ a.pending = p.pending /\ [a EXCEPT !.pending = p.pending] = a
<1> DEFINE a == AttachStreamToClient(p, c, s)
<1>0. Shape(p)
  BY BooksParts
<1>1. Shape(a) /\ a.pending = p.pending
  <2>1. CASE ~CanCreate(p)
    <3>1. a = [p EXCEPT !.status[s] = "failed"]
      BY <2>1 DEF AttachStreamToClient, OnPoolFailure
    <3> HIDE DEF a
    <3> QED
      BY <3>1, <1>0 DEF Shape, FieldNames
  <2>2. CASE CanCreate(p)
    <3>1. /\ p.state \in [Clients -> ClientStates] /\ p.remaining \in [Clients -> 0 .. MaxRequests]
          /\ ClientInv(p.state, p.remaining, p.wrapper)
      BY BooksParts
    <3>2. p.wrapper[c] = NoStream /\ p.remaining[c] > 0
      BY <3>1 DEF ClientInv
    <3>3. AttachedFields(p, a, c, s)
      BY <1>0, <2>2, <3>1, <3>2, AttachFields
    <3> QED
      BY <3>3 DEF AttachedFields
  <2> QED
    BY <2>1, <2>2
<1> HIDE DEF a
<1>2. [a EXCEPT !.pending = p.pending] = a
  <2>1. [a EXCEPT !.pending = a.pending] = a
    BY <1>1 DEF Shape, FieldNames
  <2> QED
    BY <1>1, <2>1
<1> QED
  BY <1>1, <1>2 DEF a

(* What the stream lists say of a stream.                                  *)
LEMMA StreamsAre ==
    ASSUME NEW p, NEW D, Books(p, D)
    PROVE  /\ p.pending \in Seq(Streams) /\ Inj(p.pending)
           /\ \A s \in Streams : Has(p.pending, s) <=> p.status[s] = "pending"
           /\ \A y : Has(p.pending, y) => y \in Streams
<1>1. StreamInv(p.pending, p.status, p.wrapper)
  BY BooksParts
<1>2. p.pending \in Seq(Streams) /\ Inj(p.pending) /\ \A s \in Streams : Has(p.pending, s) <=> p.status[s] = "pending"
  BY <1>1 DEF StreamInv
<1> QED
  BY <1>2, EmptyHas

(* The first ready client.                                                 *)
LEMMA FirstReady ==
    ASSUME NEW p, NEW D, Books(p, D), p.list["ready"] # <<>>
    PROVE  LET c == Head(p.list["ready"]) IN c \in Clients /\ p.state[c] = "Ready" /\ ~NoneReady(p)
<1> DEFINE c == Head(p.list["ready"])
<1>1. /\ p.list["ready"] \in Seq(Clients)
      /\ \A d : Has(p.list["ready"], d) <=> d \in Clients /\ p.state[d] = "Ready"
  BY ListsAre
<1>2. Has(p.list["ready"], c)
  BY <1>1, EmptyHas
<1> HIDE DEF c
<1>3. c \in Clients /\ p.state[c] = "Ready"
  BY <1>1, <1>2
<1> QED
  BY <1>3 DEF NoneReady, c

(* One turn of the loop: a stream less waits, or there is nothing to do.   *)
LEMMA AttachLastBooks ==
    ASSUME NEW p, NEW D, Books(p, D)
    PROVE  LET q == AttachLastPending(p)
           IN  /\ Books(q, D) /\ Serves(p, q)
               /\ p.list["ready"] = <<>> \/ p.pending = <<>> => q = p
               /\ ~(p.list["ready"] = <<>> \/ p.pending = <<>>) => Len(q.pending) = Len(p.pending) - 1
<1> DEFINE q == AttachLastPending(p)
<1>1. CASE p.list["ready"] = <<>> \/ p.pending = <<>>
  <2>1. q = p
    BY <1>1 DEF AttachLastPending
  <2>2. Serves(p, p)
    BY DEF Serves
  <2> HIDE DEF q
  <2> QED
    BY <1>1, <2>1, <2>2 DEF q
<1>2. CASE ~(p.list["ready"] = <<>> \/ p.pending = <<>>)
  <2> DEFINE c == Head(p.list["ready"])
             s == Last(p.pending)
             pe == Front(p.pending)
             a == AttachStreamToClient(p, c, s)
  <2>1. q = [a EXCEPT !.pending = Front(@)]
    BY <1>2 DEF AttachLastPending
  <2>2. c \in Clients /\ p.state[c] = "Ready"
    BY <1>2, FirstReady
  <2>3. p.pending \in Seq(Streams) /\ Inj(p.pending) /\ \A t \in Streams : Has(p.pending, t) <=> p.status[t] = "pending"
    BY StreamsAre
  <2>4. /\ pe \in Seq(Streams) /\ Len(pe) = Len(p.pending) - 1 /\ Inj(pe)
        /\ Has(p.pending, s) /\ s \in Streams
        /\ \A y : Has(pe, y) <=> Has(p.pending, y) /\ y # s
    BY <1>2, <2>3, FrontHas
  <2>5. p.status[s] = "pending"
    BY <2>3, <2>4
  <2>6. a.pending = p.pending
    <3> HIDE DEF c, s
    <3> QED
      BY <2>2, AttachKeeps
  <2>7. q = [a EXCEPT !.pending = pe]
    <3> HIDE DEF a
    <3> QED
      BY <2>1, <2>6
  <2> HIDE DEF q, c, s, pe
  <2>8. Books(q, D) /\ Serves(p, q) /\ q.pending = pe
    BY <2>2, <2>4, <2>5, <2>7, AttachBooks
  <2> QED
    BY <1>2, <2>4, <2>8 DEF q
<1> QED
  BY <1>1, <1>2

(* The whole loop: no stream is left waiting, or no client ready.          *)
LEMMA AttachPendingBooks ==
    ASSUME NEW p, NEW D, Books(p, D)
    PROVE  LET q == AttachPendingStreams(p)
           IN  Books(q, D) /\ Serves(p, q) /\ (q.pending # <<>> => q.list["ready"] = <<>>)
<1> DEFINE n == Len(p.pending)
           Good(q, i) == /\ Books(q, D) /\ Serves(p, q)
                         /\ q.list["ready"] = <<>> \/ Len(q.pending) <= n - i
<1>0. p.pending \in Seq(Streams) /\ n \in Nat
  BY BooksParts
<1>1. PICK f : AttachTurns(f, p) /\ AttachPendingStreams(p) = f[n]
  BY <1>0, AttachPendingLoop
<1>2. f[0] = p /\ \A i \in 1 .. n : f[i] = AttachLastPending(f[i - 1])
  BY <1>1 DEF AttachTurns
<1> HIDE DEF n
<1> DEFINE S == {i \in 0 .. n : Good(f[i], i)}
<1>3. 0 \in S
  <2>1. Serves(p, p)
    BY DEF Serves
  <2>2. Len(p.pending) <= n - 0
    BY <1>0 DEF n
  <2>3. Good(f[0], 0)
    BY <2>1, <2>2, <1>2
  <2> HIDE DEF Good
  <2> QED
    BY <2>3, <1>0
<1>4. ASSUME NEW i \in 0 .. n, i # n, i \in S PROVE i + 1 \in S
  <2> DEFINE a == f[i]
             b == f[i + 1]
  <2>1. Good(a, i)
    BY <1>4
  <2>2. i + 1 \in 1 .. n /\ (i + 1) - 1 = i /\ i + 1 \in 0 .. n
    <3> HIDE DEF S
    <3> QED
      BY <1>0, <1>4
  <2>3. b = AttachLastPending(a)
    BY <1>2, <2>2
  <2>4. Good(b, i + 1)
    <3> HIDE DEF a, b
    <3>1. /\ Books(b, D) /\ Serves(a, b)
          /\ a.list["ready"] = <<>> \/ a.pending = <<>> => b = a
          /\ ~(a.list["ready"] = <<>> \/ a.pending = <<>>) => Len(b.pending) = Len(a.pending) - 1
      BY <2>1, <2>3, AttachLastBooks
    <3>2. Serves(p, b)
      BY <2>1, <3>1, ServesTrans
    <3>3. a.pending \in Seq(Streams)
      BY <2>1, BooksParts
    <3>4. b.list["ready"] = <<>> \/ Len(b.pending) <= n - (i + 1)
      <4>1. CASE a.list["ready"] = <<>>
        BY <4>1, <3>1
      <4>2. CASE a.list["ready"] # <<>> /\ a.pending = <<>>
        <5>1. Len(b.pending) = 0
          BY <4>2, <3>1
        <5> QED
          BY <5>1, <2>2, <1>0
      <4>3. CASE a.list["ready"] # <<>> /\ a.pending # <<>>
        <5>1. Len(b.pending) = Len(a.pending) - 1 /\ Len(a.pending) <= n - i /\ Len(a.pending) \in Nat
          BY <4>3, <3>1, <3>3, <2>1
        <5> QED
          BY <5>1, <1>0
      <4> QED
        BY <4>1, <4>2, <4>3
    <3> QED
      BY <3>1, <3>2, <3>4
  <2> HIDE DEF Good
  <2> QED
    BY <2>4, <2>2
<1>5. n \in S
  <2>1. \A i \in 0 .. n : i # n /\ i \in S => i + 1 \in S
    BY <1>4
  <2> HIDE DEF S
  <2>2. \A i \in 0 .. n : i \in S
    BY <1>0, <1>3, <2>1, UpTo
  <2> QED
    BY <1>0, <2>2
<1> DEFINE q == f[n]
<1>6. Books(q, D) /\ Serves(p, q) /\ (q.list["ready"] = <<>> \/ Len(q.pending) <= n - n)
  BY <1>5
<1> HIDE DEF q
<1>7. q.pending # <<>> => q.list["ready"] = <<>>
  <2>1. q.pending \in Seq(Streams)
    BY <1>6, BooksParts
  <2>2. n - n = 0
    BY <1>0
  <2>3. q.pending # <<>> => ~(Len(q.pending) <= 0)
    BY <2>1
  <2> QED
    BY <1>6, <2>2, <2>3
<1> QED
  BY <1>1, <1>6, <1>7 DEF q

(* What on_upstream_ready may change.                                      *)
Readies(p, q) ==
    /\ \A d \in Clients :
          \/ q.state[d] = p.state[d] /\ q.wrapper[d] = p.wrapper[d]
          \/ p.state[d] = "Ready" /\ q.state[d] \in {"Busy", "Draining"} /\ q.wrapper[d] # NoStream
          \/ p.state[d] = "None" /\ q.state[d] = "Connecting" /\ q.wrapper[d] = p.wrapper[d]
    /\ q.deferred = p.deferred /\ q.scheduled = p.scheduled /\ q.draining = p.draining
    /\ q.destroyed = p.destroyed

(* Attaching, and then creating.                                           *)
LEMMA ServesCreates ==
    ASSUME NEW p, NEW q, NEW r, Serves(p, q), Creates(q, r) PROVE Readies(p, r)
<1>1. ASSUME NEW d \in Clients
      PROVE  \/ r.state[d] = p.state[d] /\ r.wrapper[d] = p.wrapper[d]
             \/ p.state[d] = "Ready" /\ r.state[d] \in {"Busy", "Draining"} /\ r.wrapper[d] # NoStream
             \/ p.state[d] = "None" /\ r.state[d] = "Connecting" /\ r.wrapper[d] = p.wrapper[d]
  BY DEF Serves, Creates
<1> QED
  BY <1>1 DEF Serves, Creates, Readies

(* on_upstream_ready: nothing waits beside a ready client afterwards.      *)
LEMMA UpstreamReadyBooks ==
    ASSUME NEW p, NEW D, Books(p, D)
    PROVE  LET q == OnUpstreamReady(p)
           IN  Books(q, D) /\ Readies(p, q) /\ (q.pending # <<>> => NoneReady(q))
<1> DEFINE a == AttachPendingStreams(p)
           q == OnUpstreamReady(p)
<1>1. Books(a, D) /\ Serves(p, a) /\ (a.pending # <<>> => a.list["ready"] = <<>>)
  BY AttachPendingBooks
<1>2. q = IF a.pending = <<>> THEN a ELSE TryCreateNewConnections(a)
  BY DEF OnUpstreamReady
<1> HIDE DEF a, q
<1>3. CASE a.pending = <<>>
  <2>1. q = a /\ Readies(p, a)
    BY <1>1, <1>2, <1>3 DEF Serves, Readies
  <2> QED
    BY <1>1, <1>3, <2>1 DEF q
<1>4. CASE a.pending # <<>>
  <2>1. Books(q, D) /\ Creates(a, q)
    BY <1>1, <1>2, <1>4, CreateAllBooks
  <2>2. NoneReady(a)
    BY <1>1, <1>4, NoneReadyIs
  <2>3. NoneReady(q)
    BY <2>1, <2>2 DEF NoneReady, Creates
  <2>4. Readies(p, q)
    BY <1>1, <2>1, ServesCreates
  <2> QED
    BY <2>1, <2>3, <2>4 DEF q
<1> QED
  BY <1>3, <1>4

-----------------------------------------------------------------------------
(* The dispatcher's pass over its list.                                    *)

(* The list without its first element.                                     *)
LEMMA TailHas ==
    ASSUME NEW T, NEW q \in Seq(T), Inj(q), q # <<>>
    PROVE  LET r == Tail(q)
           IN  /\ r \in Seq(T) /\ Len(r) = Len(q) - 1 /\ Inj(r)
               /\ \A i \in 1 .. Len(q) - 1 : r[i] = q[i + 1]
               /\ q[1] \in T
               /\ \A y : Has(r, y) <=> Has(q, y) /\ y # q[1]
<1> DEFINE r == Tail(q)
<1>1. /\ r \in Seq(T) /\ Len(r) = Len(q) - 1 /\ Len(q) \in Nat \ {0}
      /\ DOMAIN q = 1 .. Len(q) /\ DOMAIN r = 1 .. Len(q) - 1
      /\ \A i \in 1 .. Len(q) - 1 : r[i] = q[i + 1]
  OBVIOUS
<1> HIDE DEF r
<1>2. Inj(r)
  <2> SUFFICES ASSUME NEW i \in DOMAIN r, NEW j \in DOMAIN r, r[i] = r[j] PROVE i = j
    BY DEF Inj
  <2>1. i + 1 \in DOMAIN q /\ j + 1 \in DOMAIN q /\ q[i + 1] = q[j + 1]
    BY <1>1
  <2>2. i + 1 = j + 1
    BY <2>1 DEF Inj
  <2> QED
    BY <2>2, <1>1
<1>3. q[1] \in T
  BY <1>1
<1>4. ASSUME NEW y, Has(r, y) PROVE Has(q, y) /\ y # q[1]
  <2>1. PICK i \in DOMAIN r : r[i] = y
    BY <1>4 DEF Has
  <2>2. i + 1 \in DOMAIN q /\ q[i + 1] = y /\ 1 \in DOMAIN q /\ i + 1 # 1
    BY <2>1, <1>1
  <2> QED
    BY <2>2 DEF Has, Inj
<1>5. ASSUME NEW y, Has(q, y), y # q[1] PROVE Has(r, y)
  <2>1. PICK i \in DOMAIN q : q[i] = y
    BY <1>5 DEF Has
  <2>2. i # 1
    BY <2>1, <1>5
  <2>3. i - 1 \in DOMAIN r /\ (i - 1) + 1 = i
    BY <2>1, <2>2, <1>1
  <2>4. r[i - 1] = y
    BY <2>1, <2>3, <1>1
  <2> QED
    BY <2>3, <2>4 DEF Has
<1> QED
  BY <1>1, <1>2, <1>3, <1>4, <1>5 DEF r

(* The rest of the list, when its first object is disposed of.             *)
LEMMA DeferRest ==
    ASSUME NEW D, NEW st, DeferInv(D, st), D # <<>>, NEW t,
           NEW c \in Clients, NEW k \in {"wrapper", "client"}, D[1] = <<k, c>>,
           \A d \in Clients : d # c => t[d] = st[d],
           k = "wrapper" => t[c] = st[c], k = "client" => t[c] # "Closed"
    PROVE  /\ DeferInv(Tail(D), t) /\ st[c] = "Closed"
           /\ k = "wrapper" => Wrapped(D) = Wrapped(Tail(D)) \cup {c} /\ c \notin Wrapped(Tail(D))
           /\ k = "client" => Wrapped(D) = Wrapped(Tail(D))
<1> DEFINE r == Tail(D)
<1>0. /\ D \in Seq(Items) /\ Inj(D)
      /\ \A d \in Clients : st[d] = "Closed" <=> Has(D, <<"client", d>>)
      /\ \A i \in DOMAIN D : D[i][1] = "wrapper" =>
            \E j \in DOMAIN D : j > i /\ D[j] = <<"client", D[i][2]>>
  BY DEF DeferInv
<1>1. /\ r \in Seq(Items) /\ Len(r) = Len(D) - 1 /\ Inj(r)
      /\ \A i \in 1 .. Len(D) - 1 : r[i] = D[i + 1]
      /\ \A y : Has(r, y) <=> Has(D, y) /\ y # D[1]
  BY <1>0, TailHas
<1>2. Len(D) \in Nat \ {0} /\ DOMAIN D = 1 .. Len(D) /\ DOMAIN r = 1 .. Len(D) - 1
  <2>1. Len(D) \in Nat \ {0} /\ DOMAIN D = 1 .. Len(D)
    BY <1>0
  <2> HIDE DEF r
  <2> QED
    BY <2>1, <1>1
<1> HIDE DEF r
<1>3. st[c] = "Closed"
  <2>1. CASE k = "client"
    <3>1. Has(D, <<"client", c>>)
      BY <2>1, <1>2 DEF Has
    <3> QED
      BY <3>1, <1>0
  <2>2. CASE k = "wrapper"
    <3>1. 1 \in DOMAIN D /\ D[1][1] = "wrapper" /\ D[1][2] = c
      BY <2>2, <1>2
    <3>2. PICK j \in DOMAIN D : D[j] = <<"client", D[1][2]>>
      BY <3>1, <1>0
    <3>3. Has(D, <<"client", c>>)
      BY <3>1, <3>2 DEF Has
    <3> QED
      BY <3>3, <1>0
  <2> QED
    BY <2>1, <2>2
<1>4. \A d \in Clients : t[d] = "Closed" <=> Has(r, <<"client", d>>)
  <2> SUFFICES ASSUME NEW d \in Clients PROVE t[d] = "Closed" <=> Has(r, <<"client", d>>)
    OBVIOUS
  <2>1. Has(r, <<"client", d>>) <=> st[d] = "Closed" /\ <<"client", d>> # <<k, c>>
    BY <1>0, <1>1
  <2>2. <<"client", d>> = <<k, c>> <=> k = "client" /\ d = c
    OBVIOUS
  <2>3. CASE d # c
    BY <2>1, <2>2, <2>3
  <2>4. CASE d = c /\ k = "client"
    BY <2>1, <2>2, <2>4
  <2>5. CASE d = c /\ k = "wrapper"
    BY <2>1, <2>2, <2>5
  <2> QED
    BY <2>3, <2>4, <2>5
<1>5. ASSUME NEW i \in DOMAIN r, r[i][1] = "wrapper"
      PROVE  \E j \in DOMAIN r : j > i /\ r[j] = <<"client", r[i][2]>>
  <2>1. i + 1 \in DOMAIN D /\ r[i] = D[i + 1] /\ i \in Nat
    BY <1>1, <1>2
  <2>2. PICK j \in DOMAIN D : j > i + 1 /\ D[j] = <<"client", D[i + 1][2]>>
    BY <2>1, <1>0, <1>5
  <2>3. j - 1 \in DOMAIN r /\ j - 1 > i /\ (j - 1) + 1 = j
    BY <2>1, <2>2, <1>2
  <2>4. r[j - 1] = D[j]
    BY <2>3, <1>1, <1>2
  <2> QED
    BY <2>1, <2>2, <2>3, <2>4
<1>6. DeferInv(r, t)
  BY <1>1, <1>4, <1>5 DEF DeferInv
<1>7. \A d \in Clients : Has(D, <<"wrapper", d>>) <=> Has(r, <<"wrapper", d>>) \/ <<"wrapper", d>> = D[1]
  <2>1. Has(D, D[1])
    BY <1>2 DEF Has
  <2> QED
    BY <2>1, <1>1
<1>8. \A d \in Clients : <<"wrapper", d>> = D[1] <=> k = "wrapper" /\ d = c
  OBVIOUS
<1>9. k = "wrapper" => Wrapped(D) = Wrapped(r) \cup {c} /\ c \notin Wrapped(r)
  <2> SUFFICES ASSUME k = "wrapper" PROVE Wrapped(D) = Wrapped(r) \cup {c} /\ c \notin Wrapped(r)
    OBVIOUS
  <2>1. <<"wrapper", c>> = D[1]
    OBVIOUS
  <2>2. ~Has(r, <<"wrapper", c>>)
    BY <2>1, <1>1
  <2> QED
    BY <2>2, <1>7, <1>8 DEF Wrapped
<1>10. k = "client" => Wrapped(D) = Wrapped(r)
  BY <1>7, <1>8 DEF Wrapped
<1> QED
  BY <1>3, <1>6, <1>9, <1>10 DEF r

(* What disposing of deferred objects may change.                          *)
Disposes(p, q) ==
    /\ \A d \in Clients : q.state[d] = p.state[d] \/ (p.state[d] = "Closed" /\ q.state[d] = "None")
    /\ q.pending = p.pending /\ q.wrapper = p.wrapper /\ q.deferred = p.deferred
    /\ q.scheduled = p.scheduled /\ q.draining = p.draining /\ q.destroyed = p.destroyed

(* The first object of the list is disposed of.                            *)
LEMMA DisposeBooks ==
    ASSUME NEW p, NEW D, Books(p, D), D # <<>>
    PROVE  LET q == DisposeDeferred(p, D[1]) IN Books(q, Tail(D)) /\ Disposes(p, q)
<1> DEFINE q == DisposeDeferred(p, D[1])
<1>0. /\ Shape(p) /\ FlagInv(p) /\ p.deferred \in Seq(Items)
      /\ ListInv(p.list, p.state) /\ ClientInv(p.state, p.remaining, p.wrapper)
      /\ DeferInv(D, p.state) /\ StreamInv(p.pending, p.status, p.wrapper)
      /\ CountInv(p.active, p.resources, p.wrapper, D)
      /\ CapacityInv(p.capacity, p.connecting_capacity, p.list)
      /\ p.list \in [ListNames -> Seq(Clients)] /\ p.state \in [Clients -> ClientStates]
      /\ p.remaining \in [Clients -> 0 .. MaxRequests]
      /\ p.wrapper \in [Clients -> Streams \cup {NoStream}]
      /\ p.pending \in Seq(Streams) /\ p.status \in [Streams -> StreamStates]
  BY BooksParts
<1>1. PICK k \in {"wrapper", "client"}, c \in Clients : D[1] = <<k, c>>
  <2>1. D \in Seq(Items)
    BY <1>0 DEF DeferInv
  <2>2. D[1] \in Items
    BY <2>1
  <2> QED
    BY <2>2 DEF Items
<1>2. D[1][1] = k /\ D[1][2] = c
  BY <1>1
<1>3. CASE k = "wrapper"
  <2>1. /\ DeferInv(Tail(D), p.state) /\ p.state[c] = "Closed"
        /\ Wrapped(D) = Wrapped(Tail(D)) \cup {c} /\ c \notin Wrapped(Tail(D))
    <3>1. DeferInv(D, p.state) /\ (\A d \in Clients : d # c => p.state[d] = p.state[d])
          /\ (k = "wrapper" => p.state[c] = p.state[c]) /\ (k = "client" => p.state[c] # "Closed")
      BY <1>0, <1>3
    <3> QED
      BY <1>1, <1>3, <3>1, DeferRest
  <2>2. q = [p EXCEPT !.active = @ - 1, !.resources = @ - 1]
    <3> DEFINE o == [p EXCEPT !.active = @ - 1, !.resources = @ - 1]
    <3>1. o.state = p.state
      BY <1>0 DEF Shape, FieldNames
    <3>2. q = OnStreamClosed(p, c)
      BY <1>2, <1>3 DEF DisposeDeferred
    <3>3. o.state[c] # "Draining" /\ o.state[c] # "Busy"
      BY <3>1, <2>1
    <3> QED
      BY <3>2, <3>3 DEF OnStreamClosed
  <2>3. /\ Shape(q) /\ q.list = p.list /\ q.state = p.state /\ q.remaining = p.remaining
        /\ q.capacity = p.capacity /\ q.connecting_capacity = p.connecting_capacity
        /\ q.pending = p.pending /\ q.wrapper = p.wrapper /\ q.status = p.status
        /\ q.active = p.active - 1 /\ q.resources = p.resources - 1 /\ q.deferred = p.deferred
        /\ q.scheduled = p.scheduled /\ q.draining = p.draining
        /\ q.destroyed = p.destroyed /\ q.exhausted = p.exhausted
    <3> HIDE DEF q
    <3> QED
      BY <1>0, <2>2 DEF Shape, FieldNames
  <2> HIDE DEF q
  <2>4. CountInv(p.active - 1, p.resources - 1, p.wrapper, Tail(D))
    BY <1>0, <2>1, CountDispose
  <2>5. FlagInv(q)
    BY <1>0, <2>3 DEF FlagInv
  <2>6. Books(q, Tail(D))
    BY <1>0, <2>1, <2>3, <2>4, <2>5 DEF Books
  <2>7. Disposes(p, q)
    BY <2>3 DEF Disposes
  <2> QED
    BY <2>6, <2>7 DEF q
<1>4. CASE k = "client"
  <2>1. q = [p EXCEPT !.state[c] = "None"]
    BY <1>2, <1>4 DEF DisposeDeferred
  <2>2. /\ Shape(q) /\ q.list = p.list /\ q.state = [p.state EXCEPT ![c] = "None"]
        /\ q.remaining = p.remaining
        /\ q.capacity = p.capacity /\ q.connecting_capacity = p.connecting_capacity
        /\ q.pending = p.pending /\ q.wrapper = p.wrapper /\ q.status = p.status
        /\ q.active = p.active /\ q.resources = p.resources /\ q.deferred = p.deferred
        /\ q.scheduled = p.scheduled /\ q.draining = p.draining
        /\ q.destroyed = p.destroyed /\ q.exhausted = p.exhausted
    <3> HIDE DEF q
    <3> QED
      BY <1>0, <2>1 DEF Shape, FieldNames
  <2> HIDE DEF q
  <2>3. /\ q.state \in [Clients -> ClientStates] /\ q.state[c] = "None"
        /\ \A d \in Clients : d # c => q.state[d] = p.state[d]
    BY <2>2, <1>0 DEF ClientStates
  <2>4. DeferInv(Tail(D), q.state) /\ p.state[c] = "Closed" /\ Wrapped(D) = Wrapped(Tail(D))
    <3>1. DeferInv(D, p.state) /\ (k = "wrapper" => q.state[c] = p.state[c]) /\ (k = "client" => q.state[c] # "Closed")
      BY <1>0, <1>4, <2>3
    <3> QED
      BY <1>1, <1>4, <2>3, <3>1, DeferRest
  <2>5. ListInv(q.list, q.state)
    <3> DEFINE x == [p.state EXCEPT ![c] = "None"]
    <3>1. ListInv(p.list, x)
      <4>1. ListInv(p.list, p.state) /\ "None" \in ClientStates
        BY <1>0 DEF ClientStates
      <4>2. \A n \in ListNames : Owns(n, "None") <=> Owns(n, p.state[c])
        BY <2>4 DEF Owns
      <4> QED
        BY <4>1, <4>2, ListStay
    <3>2. q.list = p.list /\ q.state = x
      BY <2>2
    <3> HIDE DEF x
    <3> QED
      BY <3>1, <3>2
  <2>6. ClientInv(q.state, q.remaining, q.wrapper)
    <3>1. p.wrapper[c] = NoStream
      BY <1>0, <2>4 DEF ClientInv
    <3>2. ClientKept(p, q, c)
      BY <1>0, <2>2, <2>3, <3>1 DEF ClientKept
    <3>3. ClientInv(p.state, p.remaining, p.wrapper)
      BY <1>0
    <3> QED
      BY <3>2, <3>3, ClientStep
  <2>7. CountInv(q.active, q.resources, q.wrapper, Tail(D))
    BY <1>0, <2>2, <2>4 DEF CountInv
  <2>8. FlagInv(q)
    BY <1>0, <2>2 DEF FlagInv
  <2>9. /\ Shape(q) /\ q.deferred \in Seq(Items) /\ StreamInv(q.pending, q.status, q.wrapper)
        /\ CapacityInv(q.capacity, q.connecting_capacity, q.list)
    BY <1>0, <2>2
  <2>10. Books(q, Tail(D))
    BY <2>4, <2>5, <2>6, <2>7, <2>8, <2>9 DEF Books
  <2>11. Disposes(p, q)
    BY <2>2, <2>3, <2>4 DEF Disposes
  <2> QED
    BY <2>10, <2>11 DEF q
<1> QED
  BY <1>3, <1>4

(* The whole pass leaves nothing with the dispatcher.                      *)
LEMMA PassBooks ==
    ASSUME NEW p, Books(p, p.deferred)
    PROVE  LET q == ClearDeferredDeleteList(p)
               o == [p EXCEPT !.deferred = <<>>]
           IN  Books(q, <<>>) /\ Disposes(o, q) /\ q.deferred = <<>>
<1> DEFINE n == Len(p.deferred)
           o == [p EXCEPT !.deferred = <<>>]
           E == p.deferred
           Rem(D, i) == D \in Seq(Items) /\ Len(D) = n - i /\ \A j \in 1 .. n - i : D[j] = E[i + j]
           Good(q, i) == Disposes(o, q) /\ \E D : Books(q, D) /\ Rem(D, i)
<1>0. p.deferred \in Seq(Items) /\ n \in Nat /\ DOMAIN E = 1 .. n /\ Shape(p)
  BY BooksParts
<1>1. PICK f : PassTurns(f, p) /\ ClearDeferredDeleteList(p) = f[n]
  BY <1>0, ClearDeferredLoop
<1>2. f[0] = o /\ \A i \in 1 .. n : f[i] = DisposeDeferred(f[i - 1], E[i])
  BY <1>1 DEF PassTurns
<1>3. Books(o, E) /\ o.deferred = <<>>
  <2>1. /\ Shape(o) /\ o.list = p.list /\ o.state = p.state /\ o.remaining = p.remaining
        /\ o.capacity = p.capacity /\ o.connecting_capacity = p.connecting_capacity
        /\ o.pending = p.pending /\ o.wrapper = p.wrapper /\ o.status = p.status
        /\ o.active = p.active /\ o.resources = p.resources /\ o.deferred = <<>>
        /\ o.scheduled = p.scheduled /\ o.draining = p.draining
        /\ o.destroyed = p.destroyed /\ o.exhausted = p.exhausted
    BY <1>0 DEF Shape, FieldNames
  <2> HIDE DEF o
  <2>2. FlagInv(o) /\ o.deferred \in Seq(Items)
    BY <2>1 DEF FlagInv, Books
  <2>3. Books(o, E)
    BY <2>1, <2>2 DEF Books
  <2> QED
    BY <2>1, <2>3
<1> HIDE DEF n, o, E
<1> DEFINE S == {i \in 0 .. n : Good(f[i], i)}
<1>4. 0 \in S
  <2>1. Disposes(o, o)
    BY DEF Disposes
  <2>2. Rem(E, 0)
    BY <1>0 DEF n, E
  <2> HIDE DEF Rem
  <2>3. Good(o, 0)
    BY <2>1, <2>2, <1>3
  <2> HIDE DEF Good
  <2>4. Good(f[0], 0)
    BY <2>3, <1>2
  <2> QED
    BY <2>4, <1>0
<1>5. ASSUME NEW i \in 0 .. n, i # n, i \in S PROVE i + 1 \in S
  <2> DEFINE a == f[i]
             b == f[i + 1]
  <2>1. Good(a, i)
    BY <1>5
  <2>2. i + 1 \in 1 .. n /\ (i + 1) - 1 = i /\ i + 1 \in 0 .. n
    <3> HIDE DEF S
    <3> QED
      BY <1>0, <1>5
  <2>3. b = DisposeDeferred(a, E[i + 1])
    BY <1>2, <2>2
  <2>4. PICK D : Books(a, D) /\ Rem(D, i)
    BY <2>1
  <2>5. D # <<>> /\ D[1] = E[i + 1]
    <3>1. n - i \in Nat \ {0} /\ 1 \in 1 .. n - i
      BY <2>2, <1>0
    <3> QED
      BY <3>1, <2>4
  <2>6. Rem(Tail(D), i + 1)
    <3> DEFINE r == Tail(D)
    <3>1. r \in Seq(Items) /\ Len(r) = Len(D) - 1 /\ \A j \in 1 .. Len(D) - 1 : r[j] = D[j + 1]
      BY <2>4, <2>5
    <3>2. Len(D) = n - i /\ \A j \in 1 .. n - i : D[j] = E[i + j]
      BY <2>4
    <3> HIDE DEF r
    <3>3. Len(r) = n - (i + 1)
      BY <3>1, <3>2, <1>0, <2>2
    <3>4. ASSUME NEW j \in 1 .. n - (i + 1) PROVE r[j] = E[(i + 1) + j]
      <4>1. j \in 1 .. Len(D) - 1 /\ j + 1 \in 1 .. n - i /\ i + (j + 1) = (i + 1) + j
        BY <3>2, <1>0, <2>2
      <4> QED
        BY <4>1, <3>1, <3>2
    <3> QED
      BY <3>1, <3>3, <3>4 DEF r
  <2> HIDE DEF Rem, a, b
  <2>7. Books(b, Tail(D)) /\ Disposes(a, b)
    BY <2>3, <2>4, <2>5, DisposeBooks
  <2>8. Disposes(o, b)
    BY <2>1, <2>7 DEF Disposes
  <2>9. Good(b, i + 1)
    BY <2>6, <2>7, <2>8
  <2> HIDE DEF Good
  <2> QED
    BY <2>9, <2>2 DEF b
<1>6. n \in S
  <2>1. \A i \in 0 .. n : i # n /\ i \in S => i + 1 \in S
    BY <1>5
  <2> HIDE DEF S
  <2>2. \A i \in 0 .. n : i \in S
    BY <1>0, <1>4, <2>1, UpTo
  <2> QED
    BY <1>0, <2>2
<1> DEFINE q == f[n]
<1>7. Good(q, n)
  BY <1>6
<1> HIDE DEF q
<1>8. PICK D : Books(q, D) /\ Rem(D, n)
  BY <1>7
<1>9. D = <<>>
  <2>1. n - n = 0
    BY <1>0
  <2> QED
    BY <2>1, <1>8
<1>10. q.deferred = <<>>
  BY <1>3, <1>7 DEF Disposes
<1> QED
  BY <1>1, <1>7, <1>8, <1>9, <1>10 DEF q, o

-----------------------------------------------------------------------------
(* Changes of state.                                                       *)

(* A change of state to s that the books allow: c does not keep what only  *)
(* its old state permits, and the capacity of those that connect goes down *)
(* with their number at most.                                              *)
MayMove(p, r, c, s) ==
    /\ c \in Clients /\ s \in {"Ready", "Draining"} /\ Rest(p, r)
    /\ p.state[c] \in {"Connecting", "Ready", "Busy"} /\ p.state[c] # s
    /\ r.remaining \in [Clients -> 0 .. MaxRequests]
    /\ \A d \in Clients : d # c => r.remaining[d] = p.remaining[d]
    /\ s = "Ready" => p.wrapper[c] = NoStream /\ r.remaining[c] > 0
    /\ r.capacity \in Int /\ r.connecting_capacity \in Int
    /\ p.state[c] = "Connecting" => r.connecting_capacity >= p.connecting_capacity - 1
    /\ p.state[c] # "Connecting" => r.connecting_capacity = p.connecting_capacity

(* It keeps the books.                                                     *)
LEMMA TransitedBooks ==
    ASSUME NEW p, NEW D, Books(p, D), NEW r, NEW q, NEW c, NEW s,
           Transited(p, r, q, c, s), MayMove(p, r, c, s)
    PROVE  Books(q, D) /\ Rest(p, q) /\ q.state = [p.state EXCEPT ![c] = s]
<1>0. /\ Shape(p) /\ FlagInv(p) /\ p.deferred \in Seq(Items)
      /\ ListInv(p.list, p.state) /\ ClientInv(p.state, p.remaining, p.wrapper)
      /\ DeferInv(D, p.state) /\ StreamInv(p.pending, p.status, p.wrapper)
      /\ CountInv(p.active, p.resources, p.wrapper, D)
      /\ CapacityInv(p.capacity, p.connecting_capacity, p.list)
      /\ p.list \in [ListNames -> Seq(Clients)] /\ p.state \in [Clients -> ClientStates]
      /\ p.remaining \in [Clients -> 0 .. MaxRequests]
      /\ p.wrapper \in [Clients -> Streams \cup {NoStream}]
      /\ p.pending \in Seq(Streams) /\ p.status \in [Streams -> StreamStates]
  BY BooksParts
<1>9. /\ c \in Clients /\ s \in {"Ready", "Draining"}
      /\ p.state[c] \in {"Connecting", "Ready", "Busy"} /\ p.state[c] # s
  BY DEF MayMove
<1>1. /\ Shape(q) /\ q.state = [p.state EXCEPT ![c] = s]
      /\ q.remaining = r.remaining /\ q.capacity = r.capacity
      /\ q.connecting_capacity = r.connecting_capacity
  BY DEF Transited
<1>2. Rest(p, q)
  BY DEF Transited, Rest, MayMove
<1>3. q.state \in [Clients -> ClientStates] /\ q.state[c] = s /\ \A d \in Clients : d # c => q.state[d] = p.state[d]
  BY <1>0, <1>1, <1>9 DEF ClientStates
<1>4. /\ ListInv(q.list, q.state)
      /\ p.state[c] = "Connecting" => Len(q.list["connecting"]) = Len(p.list["connecting"]) - 1
      /\ p.state[c] # "Connecting" => Len(q.list["connecting"]) = Len(p.list["connecting"])
  <2> DEFINE x == [p.state EXCEPT ![c] = s]
  <2>1. CASE OwningList(p.state[c]) = OwningList(s)
    <3>1. p.state[c] = "Busy" /\ s = "Draining"
      BY <2>1, <1>9, OwnsIs
    <3>2. ListInv(p.list, p.state) /\ s \in ClientStates /\ (\A n \in ListNames : Owns(n, s) <=> Owns(n, p.state[c]))
      BY <3>1, <1>0, <2>1 DEF Owns, ClientStates
    <3>3. ListInv(p.list, x)
      BY <3>2, <1>9, ListStay
    <3>4. q.list = p.list /\ q.state = x
      BY <2>1, <1>1 DEF Transited
    <3> HIDE DEF x
    <3> QED
      BY <3>1, <3>3, <3>4
  <2>2. CASE OwningList(p.state[c]) # OwningList(s)
    <3> DEFINE k == [p.list EXCEPT ![OwningList(p.state[c])] = RemoveFirst(@, c), ![OwningList(s)] = Append(@, c)]
    <3>1. ListInv(p.list, p.state) /\ s \in ClientStates \ {"None", "Closed"} /\ p.state[c] \notin {"None", "Closed"}
      BY <1>0, <1>9 DEF ClientStates
    <3>2. /\ ListInv(k, x)
          /\ s # "Connecting" /\ p.state[c] = "Connecting" => Len(k["connecting"]) = Len(p.list["connecting"]) - 1
          /\ s # "Connecting" /\ p.state[c] # "Connecting" => Len(k["connecting"]) = Len(p.list["connecting"])
      BY <2>2, <3>1, <1>9, ListMove
    <3>3. q.list = k /\ q.state = x
      BY <2>2, <1>1 DEF Transited
    <3> HIDE DEF k, x
    <3> QED
      BY <3>2, <3>3, <1>9
  <2> QED
    BY <2>1, <2>2
<1>5. ClientInv(q.state, q.remaining, q.wrapper)
  <2>1. q.wrapper = p.wrapper
    BY <1>2 DEF Rest
  <2>2. ClientKept(p, q, c)
    <3>1. q.state[c] \in {"None", "Connecting", "Ready", "Closed"} => q.wrapper[c] = NoStream
      BY <1>3, <1>9, <2>1 DEF MayMove
    <3>2. q.state[c] \in {"Ready", "Busy"} => q.remaining[c] > 0
      BY <1>1, <1>3, <1>9 DEF MayMove
    <3>3. \A d \in Clients : d # c =>
             q.state[d] = p.state[d] /\ q.remaining[d] = p.remaining[d] /\ q.wrapper[d] = p.wrapper[d]
      BY <1>1, <1>3, <2>1 DEF MayMove
    <3>4. q.remaining \in [Clients -> 0 .. MaxRequests] /\ q.wrapper \in [Clients -> Streams \cup {NoStream}]
      BY <1>0, <1>1, <2>1 DEF MayMove
    <3> QED
      BY <1>3, <1>9, <3>1, <3>2, <3>3, <3>4 DEF ClientKept
  <2>3. ClientInv(p.state, p.remaining, p.wrapper)
    BY <1>0
  <2> QED
    BY <2>2, <2>3, ClientStep
<1>6. DeferInv(D, q.state)
  <2>1. \A d \in Clients : q.state[d] = "Closed" <=> p.state[d] = "Closed"
    BY <1>3, <1>9
  <2>2. DeferInv(D, p.state)
    BY <1>0
  <2> QED
    BY <2>1, <2>2, DeferStay
<1>7. CapacityInv(q.capacity, q.connecting_capacity, q.list)
  <2>1. p.connecting_capacity \in Nat /\ Len(p.list["connecting"]) <= p.connecting_capacity
    BY <1>0 DEF CapacityInv
  <2>2. Len(p.list["connecting"]) \in Nat /\ (p.state[c] = "Connecting" => Len(p.list["connecting"]) # 0)
    <3>1. /\ p.list["connecting"] \in Seq(Clients)
          /\ p.state[c] = "Connecting" => Has(p.list["connecting"], c)
      BY <1>9, ListsAre
    <3> QED
      BY <3>1 DEF Has
  <2>3. CASE p.state[c] = "Connecting"
    BY <2>1, <2>2, <2>3, <1>1, <1>4 DEF CapacityInv, MayMove
  <2>4. CASE p.state[c] # "Connecting"
    BY <2>1, <2>2, <2>4, <1>1, <1>4 DEF CapacityInv, MayMove
  <2> QED
    BY <2>3, <2>4
<1>8. FlagInv(q)
  BY <1>0, <1>2 DEF FlagInv, Rest
<1>11. /\ q.deferred \in Seq(Items) /\ StreamInv(q.pending, q.status, q.wrapper)
      /\ CountInv(q.active, q.resources, q.wrapper, D)
  BY <1>0, <1>2 DEF Rest
<1>10. Books(q, D)
  BY <1>1, <1>4, <1>5, <1>6, <1>7, <1>8, <1>11 DEF Books
<1> QED
  BY <1>1, <1>2, <1>10

(* A client starts to drain.                                               *)
LEMMA DrainBooks ==
    ASSUME NEW p, NEW D, Books(p, D), NEW c \in Clients, p.state[c] \in {"Connecting", "Ready", "Busy"}
    PROVE  LET q == TransitionActiveClientState(p, c, "Draining")
           IN  Books(q, D) /\ Rest(p, q) /\ q.state = [p.state EXCEPT ![c] = "Draining"]
<1> DEFINE q == TransitionActiveClientState(p, c, "Draining")
           r == DrainClient(p, c)
           u == CurrentUnusedCapacity(p, c)
<1>0. /\ Shape(p) /\ p.remaining \in [Clients -> 0 .. MaxRequests]
      /\ CapacityInv(p.capacity, p.connecting_capacity, p.list)
      /\ ClientInv(p.state, p.remaining, p.wrapper)
  BY BooksParts
<1>1. p.remaining[c] \in Nat
  BY <1>0, ConnPoolAssumption
<1>2. /\ Shape(r) /\ Rest(p, r) /\ r.list = p.list /\ r.state = p.state
      /\ u \in {0, 1}
      /\ u = 0 => r = p
      /\ u = 1 => /\ r.remaining = [p.remaining EXCEPT ![c] = 0]
                  /\ r.capacity = p.capacity - 1
                  /\ r.connecting_capacity =
                        IF p.state[c] = "Connecting" THEN p.connecting_capacity - 1
                        ELSE p.connecting_capacity
  BY <1>0, <1>1, DrainFields
<1>3. Transited(p, r, q, c, "Draining")
  BY <1>2, TransitionFields
<1> HIDE DEF q, r, u
<1>4. p.capacity \in Int /\ p.connecting_capacity \in Nat
  BY <1>0 DEF CapacityInv
<1>5. /\ r.remaining \in [Clients -> 0 .. MaxRequests]
      /\ \A d \in Clients : d # c => r.remaining[d] = p.remaining[d]
  <2>1. CASE u = 0
    BY <2>1, <1>0, <1>2
  <2>2. CASE u = 1
    BY <2>2, <1>0, <1>2, ConnPoolAssumption
  <2> QED
    BY <2>1, <2>2, <1>2
<1>6. /\ r.capacity \in Int /\ r.connecting_capacity \in Int
      /\ p.state[c] = "Connecting" => r.connecting_capacity >= p.connecting_capacity - 1
      /\ p.state[c] # "Connecting" => r.connecting_capacity = p.connecting_capacity
  BY <1>2, <1>4
<1>7. Books(q, D) /\ Rest(p, q) /\ q.state = [p.state EXCEPT ![c] = "Draining"]
  <2>1. MayMove(p, r, c, "Draining")
    BY <1>2, <1>5, <1>6 DEF MayMove
  <2> QED
    BY <1>3, <2>1, TransitedBooks
<1> QED
  BY <1>7 DEF q

(* A client without a stream becomes ready.                                *)
LEMMA ReadyBooks ==
    ASSUME NEW p, NEW D, Books(p, D), NEW c \in Clients, p.state[c] \in {"Connecting", "Busy"},
           p.wrapper[c] = NoStream
    PROVE  LET q == TransitionActiveClientState(p, c, "Ready")
           IN  Books(q, D) /\ Rest(p, q) /\ q.state = [p.state EXCEPT ![c] = "Ready"]
<1> DEFINE q == TransitionActiveClientState(p, c, "Ready")
<1>0. /\ Shape(p) /\ p.remaining \in [Clients -> 0 .. MaxRequests]
      /\ CapacityInv(p.capacity, p.connecting_capacity, p.list)
      /\ ClientInv(p.state, p.remaining, p.wrapper)
  BY BooksParts
<1>1. p.remaining[c] > 0
  BY <1>0, ConnPoolAssumption DEF ClientInv
<1>2. Transited(p, p, q, c, "Ready")
  <2>1. p = IF "Ready" = "Draining" THEN DrainClient(p, c) ELSE p
    OBVIOUS
  <2> QED
    BY <2>1, <1>0, TransitionFields
<1> HIDE DEF q
<1>3. /\ p.capacity \in Int /\ p.connecting_capacity \in Int
      /\ p.state[c] = "Connecting" => p.connecting_capacity >= p.connecting_capacity - 1
  BY <1>0 DEF CapacityInv
<1>4. Rest(p, p)
  BY DEF Rest
<1>5. Books(q, D) /\ Rest(p, q) /\ q.state = [p.state EXCEPT ![c] = "Ready"]
  <2>1. MayMove(p, p, c, "Ready")
    BY <1>0, <1>1, <1>3, <1>4 DEF MayMove
  <2> QED
    BY <1>2, <2>1, TransitedBooks
<1> QED
  BY <1>5 DEF q

(* What draining the clients in cs changes.                                *)
Drains(p, q, cs) ==
    /\ Rest(p, q)
    /\ \A d \in Clients : \/ q.state[d] = p.state[d]
                          \/ Has(cs, d) /\ p.state[d] \in {"Ready", "Busy"} /\ q.state[d] = "Draining"

(* The loops that drain clients.                                           *)
LEMMA DrainSome ==
    ASSUME NEW p, NEW D, Books(p, D), NEW cs \in Seq(Clients),
           \A d : Has(cs, d) => p.state[d] \in {"Ready", "Busy", "Draining"}
    PROVE  LET q == DrainClients(p, cs) IN Books(q, D) /\ Drains(p, q, cs)
<1> DEFINE n == Len(cs)
           Good(q) == Books(q, D) /\ Drains(p, q, cs)
<1>0. n \in Nat /\ DOMAIN cs = 1 .. n
  OBVIOUS
<1>1. PICK f : DrainTurns(f, p, cs) /\ DrainClients(p, cs) = f[n]
  BY <1>0, DrainClientsLoop
<1>2. /\ f[0] = p
      /\ \A i \in 1 .. n : f[i] = IF f[i - 1].state[cs[i]] = "Draining" THEN f[i - 1]
                                  ELSE TransitionActiveClientState(f[i - 1], cs[i], "Draining")
  BY <1>1 DEF DrainTurns
<1>9. \A i \in 1 .. n : cs[i] \in Clients
  OBVIOUS
<1> HIDE DEF n
<1> DEFINE S == {i \in 0 .. n : Good(f[i])}
<1>3. 0 \in S
  <2>1. Drains(p, p, cs)
    BY DEF Drains, Rest
  <2>2. Good(f[0])
    BY <2>1, <1>2
  <2> HIDE DEF Good
  <2> QED
    BY <2>2, <1>0
<1>4. ASSUME NEW i \in 0 .. n, i # n, i \in S PROVE i + 1 \in S
  <2> DEFINE a == f[i]
             b == f[i + 1]
             c == cs[i + 1]
  <2>1. Good(a)
    BY <1>4
  <2>2. i + 1 \in 1 .. n /\ (i + 1) - 1 = i /\ i + 1 \in 0 .. n
    <3> HIDE DEF S
    <3> QED
      BY <1>0, <1>4
  <2>3. b = IF a.state[c] = "Draining" THEN a ELSE TransitionActiveClientState(a, c, "Draining")
    BY <1>2, <2>2
  <2>4. c \in Clients /\ Has(cs, c)
    BY <1>0, <1>9, <2>2 DEF Has
  <2> HIDE DEF a, b, c
  <2>5. a.state[c] \in {"Ready", "Busy", "Draining"}
    BY <2>1, <2>4 DEF Drains
  <2>6. Good(b)
    <3>1. CASE a.state[c] = "Draining"
      BY <3>1, <2>1, <2>3
    <3>2. CASE a.state[c] # "Draining"
      <4>1. b = TransitionActiveClientState(a, c, "Draining") /\ a.state[c] \in {"Connecting", "Ready", "Busy"}
        BY <3>2, <2>3, <2>5
      <4>2. Books(b, D) /\ Rest(a, b) /\ b.state = [a.state EXCEPT ![c] = "Draining"]
        BY <4>1, <2>1, <2>4, DrainBooks
      <4>3. a.state \in [Clients -> ClientStates]
        BY <2>1, BooksParts
      <4>4. \A d \in Clients : IF d = c THEN b.state[d] = "Draining" ELSE b.state[d] = a.state[d]
        BY <4>2, <4>3, <2>4
      <4>5. Rest(p, b)
        BY <4>2, <2>1 DEF Drains, Rest
      <4>6. ASSUME NEW d \in Clients
            PROVE  \/ b.state[d] = p.state[d]
                   \/ Has(cs, d) /\ p.state[d] \in {"Ready", "Busy"} /\ b.state[d] = "Draining"
        BY <4>4, <2>1, <2>4, <2>5, <3>2 DEF Drains
      <4> QED
        BY <4>2, <4>5, <4>6 DEF Drains
    <3> QED
      BY <3>1, <3>2
  <2> HIDE DEF Good
  <2> QED
    BY <2>6, <2>2 DEF b
<1>5. n \in S
  <2>1. \A i \in 0 .. n : i # n /\ i \in S => i + 1 \in S
    BY <1>4
  <2> HIDE DEF S
  <2>2. \A i \in 0 .. n : i \in S
    BY <1>0, <1>3, <2>1, UpTo
  <2> QED
    BY <1>0, <2>2
<1>6. Good(f[n])
  BY <1>5
<1> QED
  BY <1>1, <1>6

-----------------------------------------------------------------------------
(* The entries into the pool.                                              *)

Good(p) == Books(p, p.deferred) /\ Settled(p)

(* Pools that differ in the flags at most.                                 *)
SameBut(p, q) ==
    /\ Shape(q) /\ q.list = p.list /\ q.state = p.state /\ q.remaining = p.remaining
    /\ q.capacity = p.capacity /\ q.connecting_capacity = p.connecting_capacity
    /\ q.pending = p.pending /\ q.wrapper = p.wrapper /\ q.status = p.status
    /\ q.active = p.active /\ q.resources = p.resources /\ q.deferred = p.deferred

(* They have the same books.                                               *)
LEMMA SameBooks ==
    ASSUME NEW p, NEW D, Books(p, D), NEW q, SameBut(p, q), FlagInv(q)
    PROVE  Books(q, D)
BY DEF SameBut, Books

(* What a settled pool says.                                               *)
LEMMA SettledParts ==
    ASSUME NEW p, Good(p)
    PROVE  /\ Books(p, p.deferred) /\ Serving(p, {})
           /\ p.pending # <<>> => p.scheduled \/ NoneReady(p)
           /\ p.draining => NoneReady(p)
BY DEF Good, Settled

(* A pool that on_upstream_ready has left is settled.                      *)
LEMMA ReadiesSettled ==
    ASSUME NEW p, NEW q, Readies(p, q), Serving(p, {}), ~p.destroyed, p.draining => NoneReady(p),
           q.pending # <<>> => q.scheduled \/ NoneReady(q)
    PROVE  Settled(q)
<1>1. Serving(q, {})
  BY DEF Serving, Readies
<1>2. q.draining => NoneReady(q)
  BY DEF Readies, NoneReady
<1>3. ~q.destroyed
  BY DEF Readies
<1> QED
  BY <1>1, <1>2, <1>3 DEF Settled

(* A close that comes from outside.                                        *)
LEMMA CloseGood ==
    ASSUME NEW p, Good(p), ~p.destroyed, NEW c, Open(p, c)
    PROVE  Good(CloseClient(p, c))
<1> DEFINE q == CloseClient(p, c)
<1>1. Books(q, q.deferred) /\ Closes(p, q, {c})
  BY SettledParts, CloseBooks
<1> HIDE DEF q
<1>2. q.draining => NoneReady(q)
  BY <1>1, SettledParts DEF Closes, NoneReady
<1>3. {c} \in SUBSET Clients /\ {} \in SUBSET {c}
  BY DEF Open
<1>4. Settled(q)
  BY <1>1, <1>2, <1>3, SettledParts, ClosesSettled
<1>5. Good(q)
  BY <1>1, <1>4 DEF Good
<1> QED
  BY <1>5 DEF q

(* A client that serves a stream is open.                                  *)
LEMMA ServingOpen ==
    ASSUME NEW p, NEW D, Books(p, D), NEW c \in Clients, p.wrapper[c] # NoStream
    PROVE  Open(p, c) /\ p.state[c] \in {"Busy", "Draining"}
<1>1. ClientInv(p.state, p.remaining, p.wrapper) /\ p.state \in [Clients -> ClientStates]
  BY BooksParts
<1>2. p.state[c] \in {"Busy", "Draining"}
  BY <1>1 DEF ClientInv, ClientStates
<1> QED
  BY <1>2 DEF Open

(* schedule_upstream_ready.                                                *)
LEMMA UpstreamReadyGood ==
    ASSUME NEW p, Good(p), ~p.destroyed
    PROVE  Good(OnUpstreamReady([p EXCEPT !.scheduled = FALSE]))
<1> DEFINE o == [p EXCEPT !.scheduled = FALSE]
           q == OnUpstreamReady(o)
<1>0. Books(p, p.deferred) /\ Shape(p) /\ FlagInv(p)
  BY SettledParts, BooksParts
<1>1. SameBut(p, o) /\ o.draining = p.draining /\ o.destroyed = p.destroyed /\ o.exhausted = p.exhausted
      /\ o.scheduled = FALSE
  BY <1>0 DEF SameBut, Shape, FieldNames
<1> HIDE DEF o
<1>2. FlagInv(o)
  BY <1>0, <1>1 DEF FlagInv
<1>3. Books(o, p.deferred)
  BY <1>0, <1>1, <1>2, SameBooks
<1>4. Books(q, p.deferred) /\ Readies(o, q) /\ (q.pending # <<>> => NoneReady(q))
  BY <1>3, UpstreamReadyBooks
<1> HIDE DEF q
<1>5. q.deferred = p.deferred
  BY <1>1, <1>4 DEF SameBut, Readies
<1>6. Serving(o, {}) /\ ~o.destroyed /\ (o.draining => NoneReady(o))
  BY <1>1, SettledParts DEF SameBut, Serving, NoneReady
<1>7. Settled(q)
  BY <1>4, <1>6, ReadiesSettled
<1>8. Good(q)
  BY <1>4, <1>5, <1>7 DEF Good
<1> QED
  BY <1>8 DEF q, o

(* The dispatcher's pass.                                                  *)
LEMMA PassGood ==
    ASSUME NEW p, Good(p), ~p.destroyed
    PROVE  Good(ClearDeferredDeleteList(p))
<1> DEFINE o == [p EXCEPT !.deferred = <<>>]
           q == ClearDeferredDeleteList(p)
<1>0. Books(p, p.deferred) /\ Shape(p)
  BY SettledParts, BooksParts
<1>1. /\ o.state = p.state /\ o.pending = p.pending /\ o.wrapper = p.wrapper
      /\ o.scheduled = p.scheduled /\ o.draining = p.draining /\ o.destroyed = p.destroyed
  BY <1>0 DEF Shape, FieldNames
<1>2. Books(q, <<>>) /\ Disposes(o, q) /\ q.deferred = <<>>
  BY <1>0, PassBooks
<1> HIDE DEF o, q
<1>3. Serving(q, {})
  BY <1>1, <1>2, SettledParts DEF Serving, Disposes
<1>4. NoneReady(p) => NoneReady(q)
  BY <1>1, <1>2 DEF NoneReady, Disposes
<1>5. Settled(q)
  BY <1>1, <1>2, <1>3, <1>4, SettledParts DEF Settled, Disposes
<1>6. Good(q)
  BY <1>2, <1>5 DEF Good
<1> QED
  BY <1>6 DEF q

(* The check for an idle pool at the end of an entry, when p is settled    *)
(* but for a ready client in a pool that drains.                           *)
LEMMA CheckGood ==
    ASSUME NEW p, Books(p, p.deferred), Serving(p, {}), ~p.destroyed,
           p.pending # <<>> => p.scheduled \/ NoneReady(p)
    PROVE  Good(CheckForIdleAndCloseIdleConnsIfDraining(p))
<1> DEFINE q == CheckForIdleAndCloseIdleConnsIfDraining(p)
<1>1. Books(q, q.deferred) /\ (q.draining => NoneReady(q)) /\ \E X \in SUBSET Clients : Closes(p, q, X)
  BY CheckBooks
<1> HIDE DEF q
<1>2. PICK X \in SUBSET Clients : Closes(p, q, X)
  BY <1>1
<1>3. {} \in SUBSET X
  OBVIOUS
<1>4. Settled(q)
  BY <1>1, <1>2, <1>3, ClosesSettled
<1>5. Good(q)
  BY <1>1, <1>4 DEF Good
<1> QED
  BY <1>5 DEF q

(* drain_connections_impl for deletion.                                    *)
LEMMA DrainDeleteGood ==
    ASSUME NEW p, Good(p), ~p.destroyed
    PROVE  Good(CheckForIdleAndCloseIdleConnsIfDraining([p EXCEPT !.draining = TRUE]))
<1> DEFINE o == [p EXCEPT !.draining = TRUE]
<1>0. Books(p, p.deferred) /\ Shape(p) /\ FlagInv(p)
  BY SettledParts, BooksParts
<1>1. SameBut(p, o) /\ o.scheduled = p.scheduled /\ o.destroyed = p.destroyed /\ o.exhausted = p.exhausted
      /\ o.draining = TRUE
  BY <1>0 DEF SameBut, Shape, FieldNames
<1> HIDE DEF o
<1>2. FlagInv(o)
  BY <1>0, <1>1 DEF FlagInv
<1>3. Books(o, o.deferred)
  <2>1. o.deferred = p.deferred
    BY <1>1 DEF SameBut
  <2>2. Books(o, p.deferred)
    BY <1>0, <1>1, <1>2, SameBooks
  <2> QED
    BY <2>1, <2>2
<1>4. Serving(o, {}) /\ ~o.destroyed /\ (o.pending # <<>> => o.scheduled \/ NoneReady(o))
  BY <1>1, SettledParts DEF SameBut, Serving, NoneReady
<1>5. Good(CheckForIdleAndCloseIdleConnsIfDraining(o))
  BY <1>3, <1>4, CheckGood
<1> QED
  BY <1>5 DEF o

(* on_encode_complete.                                                     *)
LEMMA EncodeGood ==
    ASSUME NEW p, Good(p), ~p.destroyed, NEW c \in Clients, p.wrapper[c] # NoStream,
           p.status[p.wrapper[c]] = "sending"
    PROVE  Good([p EXCEPT !.status[p.wrapper[c]] = "sent"])
<1> DEFINE w == p.wrapper[c]
           q == [p EXCEPT !.status[w] = "sent"]
<1>0. /\ Books(p, p.deferred) /\ Shape(p) /\ FlagInv(p) /\ StreamInv(p.pending, p.status, p.wrapper)
      /\ p.wrapper \in [Clients -> Streams \cup {NoStream}] /\ p.status \in [Streams -> StreamStates]
  BY SettledParts, BooksParts
<1>1. w \in Streams
  BY <1>0
<1> HIDE DEF w
<1>2. /\ Shape(q) /\ q.list = p.list /\ q.state = p.state /\ q.remaining = p.remaining
      /\ q.capacity = p.capacity /\ q.connecting_capacity = p.connecting_capacity
      /\ q.pending = p.pending /\ q.wrapper = p.wrapper /\ q.status = [p.status EXCEPT ![w] = "sent"]
      /\ q.active = p.active /\ q.resources = p.resources /\ q.deferred = p.deferred
      /\ q.scheduled = p.scheduled /\ q.draining = p.draining
      /\ q.destroyed = p.destroyed /\ q.exhausted = p.exhausted
  BY <1>0 DEF Shape, FieldNames
<1> HIDE DEF q
<1>3. /\ q.status \in [Streams -> StreamStates] /\ q.status[w] = "sent"
      /\ \A s \in Streams : s # w => q.status[s] = p.status[s]
  BY <1>0, <1>1, <1>2 DEF StreamStates
<1>4. p.status[w] = "sending"
  BY DEF w
<1>5. StreamInv(q.pending, q.status, q.wrapper)
  <2>1. \A s \in Streams : q.status[s] \in {"sending", "sent"} <=> p.status[s] \in {"sending", "sent"}
    BY <1>3, <1>4
  <2>2. \A s \in Streams : q.status[s] = "pending" <=> p.status[s] = "pending"
    BY <1>3, <1>4
  <2> QED
    BY <2>1, <2>2, <1>0, <1>2, <1>3 DEF StreamInv
<1>6. FlagInv(q)
  BY <1>0, <1>2 DEF FlagInv
<1>7. Books(q, q.deferred)
  BY <1>0, <1>2, <1>5, <1>6 DEF Books
<1>8. Settled(q)
  BY <1>2, SettledParts DEF Settled, Serving, NoneReady
<1> QED
  BY <1>7, <1>8 DEF Good, q, w

(* The stream of c is over and its connection is kept: the pool that       *)
(* on_decode_complete leaves to on_stream_closed, which counts it down.    *)
Decoded(p, c) ==
    [p EXCEPT !.scheduled = TRUE, !.status[p.wrapper[c]] = "done", !.wrapper[c] = NoStream,
              !.active = @ - 1, !.resources = @ - 1]
DecodedFields(p, x, c) ==
    /\ x.state = p.state /\ x.pending = p.pending /\ x.scheduled = TRUE
    /\ x.draining = p.draining /\ x.destroyed = p.destroyed
    /\ x.wrapper[c] = NoStream /\ \A d \in Clients : d # c => x.wrapper[d] = p.wrapper[d]

(* on_decode_complete, when the connection is kept: the stream is over.    *)
LEMMA DecodeBooks ==
    ASSUME NEW p, Books(p, p.deferred), NEW c \in Clients, p.wrapper[c] # NoStream, NEW x,
           x = Decoded(p, c)
    PROVE  Books(x, x.deferred) /\ DecodedFields(p, x, c)
<1> DEFINE w == p.wrapper[c]
<1>0. /\ Shape(p) /\ FlagInv(p) /\ p.deferred \in Seq(Items)
      /\ ListInv(p.list, p.state) /\ ClientInv(p.state, p.remaining, p.wrapper)
      /\ DeferInv(p.deferred, p.state) /\ StreamInv(p.pending, p.status, p.wrapper)
      /\ CountInv(p.active, p.resources, p.wrapper, p.deferred)
      /\ CapacityInv(p.capacity, p.connecting_capacity, p.list)
      /\ p.remaining \in [Clients -> 0 .. MaxRequests]
      /\ p.wrapper \in [Clients -> Streams \cup {NoStream}]
  BY BooksParts
<1>1. /\ Shape(x) /\ x.list = p.list /\ x.state = p.state /\ x.remaining = p.remaining
      /\ x.capacity = p.capacity /\ x.connecting_capacity = p.connecting_capacity
      /\ x.pending = p.pending /\ x.wrapper = [p.wrapper EXCEPT ![c] = NoStream]
      /\ x.status = [p.status EXCEPT ![w] = "done"]
      /\ x.active = p.active - 1 /\ x.resources = p.resources - 1 /\ x.deferred = p.deferred
      /\ x.scheduled = TRUE /\ x.draining = p.draining
      /\ x.destroyed = p.destroyed /\ x.exhausted = p.exhausted
  <2>1. x = [p EXCEPT !.scheduled = TRUE, !.status[w] = "done", !.wrapper[c] = NoStream,
                      !.active = @ - 1, !.resources = @ - 1]
    BY DEF Decoded
  <2> HIDE DEF w
  <2> QED
    BY <1>0, <2>1 DEF Shape, FieldNames
<1>2. StreamInv(x.pending, x.status, x.wrapper)
  <2> DEFINE v == [p.status EXCEPT ![p.wrapper[c]] = "done"]
             y == [p.wrapper EXCEPT ![c] = NoStream]
  <2>1. StreamInv(p.pending, p.status, p.wrapper) /\ p.wrapper \in [Clients -> Streams \cup {NoStream}]
    BY <1>0
  <2>2. StreamInv(p.pending, v, y)
    BY <2>1, StreamDetach
  <2>3. x.pending = p.pending /\ x.status = v /\ x.wrapper = y
    BY <1>1
  <2> HIDE DEF v, y
  <2> QED
    BY <2>2, <2>3
<1>3. CountInv(x.active, x.resources, x.wrapper, x.deferred)
  <2> DEFINE y == [p.wrapper EXCEPT ![c] = NoStream]
  <2>1. CountInv(p.active, p.resources, p.wrapper, p.deferred) /\ p.wrapper \in [Clients -> Streams \cup {NoStream}]
    BY <1>0
  <2>2. CountInv(p.active - 1, p.resources - 1, y, p.deferred)
    BY <2>1, CountDetach
  <2>3. x.wrapper = y
    BY <1>1
  <2> HIDE DEF y
  <2> QED
    BY <2>2, <2>3, <1>1
<1>4. /\ x.wrapper \in [Clients -> Streams \cup {NoStream}] /\ x.wrapper[c] = NoStream
      /\ \A d \in Clients : d # c => x.wrapper[d] = p.wrapper[d]
  BY <1>0, <1>1
<1>5. ClientInv(x.state, x.remaining, x.wrapper)
  <2>1. p.state[c] \in {"Busy", "Draining"}
    BY ServingOpen
  <2>2. p.state[c] = "Busy" => p.remaining[c] > 0
    BY <1>0 DEF ClientInv
  <2>3. ClientKept(p, x, c)
    BY <1>0, <1>1, <1>4, <2>1, <2>2 DEF ClientKept
  <2>4. ClientInv(p.state, p.remaining, p.wrapper)
    BY <1>0
  <2> QED
    BY <2>3, <2>4, ClientStep
<1>6. FlagInv(x)
  BY <1>0, <1>1 DEF FlagInv
<1>7. Books(x, x.deferred)
  <2>1. /\ Shape(x) /\ x.deferred \in Seq(Items) /\ ListInv(x.list, x.state) /\ DeferInv(x.deferred, x.state)
        /\ CapacityInv(x.capacity, x.connecting_capacity, x.list)
    BY <1>0, <1>1
  <2> QED
    BY <2>1, <1>2, <1>3, <1>5, <1>6 DEF Books
<1> QED
  BY <1>1, <1>4, <1>7 DEF DecodedFields

(* Then the client is closed, if it drains, or becomes ready.              *)
LEMMA DecodeGood ==
    ASSUME NEW p, Good(p), ~p.destroyed, NEW c \in Clients, p.wrapper[c] # NoStream
    PROVE  Good(CheckForIdleAndCloseIdleConnsIfDraining(
                  OnStreamClosed([p EXCEPT !.scheduled = TRUE, !.status[p.wrapper[c]] = "done",
                                           !.wrapper[c] = NoStream], c)))
<1> DEFINE o == [p EXCEPT !.scheduled = TRUE, !.status[p.wrapper[c]] = "done", !.wrapper[c] = NoStream]
           x == [o EXCEPT !.active = @ - 1, !.resources = @ - 1]
           q == OnStreamClosed(o, c)
<1>0. Books(p, p.deferred) /\ Shape(p)
  BY SettledParts, BooksParts
<1>1. x = Decoded(p, c)
  <2> DEFINE w == p.wrapper[c]
  <2> HIDE DEF w
  <2>1. [[p EXCEPT !.scheduled = TRUE, !.status[w] = "done", !.wrapper[c] = NoStream]
            EXCEPT !.active = @ - 1, !.resources = @ - 1]
        = [p EXCEPT !.scheduled = TRUE, !.status[w] = "done", !.wrapper[c] = NoStream,
                    !.active = @ - 1, !.resources = @ - 1]
    BY <1>0 DEF Shape, FieldNames
  <2> QED
    BY <2>1 DEF w, Decoded
<1>2. q = IF x.state[c] = "Draining" /\ NumActiveStreams(x, c) = 0 THEN CloseClient(x, c)
          ELSE IF x.state[c] = "Busy" /\ CurrentUnusedCapacity(x, c) > 0
          THEN TransitionActiveClientState(x, c, "Ready") ELSE x
  BY DEF OnStreamClosed
<1> HIDE DEF o, x, q
<1>3. /\ Books(x, x.deferred) /\ x.state = p.state /\ x.pending = p.pending /\ x.scheduled = TRUE
      /\ x.draining = p.draining /\ x.destroyed = p.destroyed
      /\ x.wrapper[c] = NoStream /\ \A d \in Clients : d # c => x.wrapper[d] = p.wrapper[d]
  <2>1. Books(x, x.deferred) /\ DecodedFields(p, x, c)
    BY <1>0, <1>1, DecodeBooks
  <2> QED
    BY <2>1 DEF DecodedFields
<1>4. Serving(x, {c})
  BY <1>3, SettledParts DEF Serving
<1>5. Open(x, c) /\ x.state[c] \in {"Busy", "Draining"}
  BY <1>0, <1>3, ServingOpen DEF Open
<1>6. /\ Books(q, q.deferred) /\ Serving(q, {}) /\ ~q.destroyed /\ q.scheduled = TRUE
  <2>1. CASE x.state[c] = "Draining"
    <3>1. q = CloseClient(x, c)
      BY <1>2, <1>3, <2>1 DEF NumActiveStreams
    <3>2. Books(q, q.deferred) /\ Closes(x, q, {c})
      BY <3>1, <1>3, <1>5, CloseBooks
    <3>3. Serving(q, {})
      BY <3>2, <1>4 DEF Serving, Closes
    <3> QED
      BY <3>2, <3>3, <1>3 DEF Closes
  <2>2. CASE x.state[c] = "Busy"
    <3>1. CurrentUnusedCapacity(x, c) > 0
      <4>1. ClientInv(x.state, x.remaining, x.wrapper) /\ x.remaining \in [Clients -> 0 .. MaxRequests]
        BY <1>3, BooksParts
      <4>2. x.remaining[c] > 0 /\ x.remaining[c] \in Nat
        BY <4>1, <2>2, ConnPoolAssumption DEF ClientInv
      <4>3. CurrentUnusedCapacity(x, c) = 1
        BY <4>2, <1>3, UnusedIs
      <4> QED
        BY <4>3
    <3>2. q = TransitionActiveClientState(x, c, "Ready")
      BY <1>2, <2>2, <3>1
    <3>3. Books(q, x.deferred) /\ Rest(x, q) /\ q.state = [x.state EXCEPT ![c] = "Ready"]
      BY <3>2, <2>2, <1>3, ReadyBooks
    <3>4. x.state \in [Clients -> ClientStates]
      BY <1>3, BooksParts
    <3>5. q.state[c] = "Ready" /\ \A d \in Clients : d # c => q.state[d] = x.state[d]
      BY <3>3, <3>4
    <3>6. Serving(q, {})
      BY <3>3, <3>5, <1>4 DEF Serving, Rest
    <3> QED
      BY <3>3, <3>6, <1>3 DEF Rest
  <2> QED
    BY <2>1, <2>2, <1>5
<1>7. Good(CheckForIdleAndCloseIdleConnsIfDraining(q))
  BY <1>6, CheckGood
<1> QED
  BY <1>7 DEF q, o

(* The connection of c is established.                                     *)
LEMMA ConnectedGood ==
    ASSUME NEW p, Good(p), ~p.destroyed, NEW c \in Clients, p.state[c] = "Connecting"
    PROVE  LET unused == CurrentUnusedCapacity(p, c)
               q == TransitionActiveClientState([p EXCEPT !.capacity = @ - unused], c,
                                                IF unused > 0 THEN "Ready" ELSE "Busy")
           IN  Good(CheckForIdleAndCloseIdleConnsIfDraining(
                      IF q.state[c] = "Ready" THEN OnUpstreamReady(q) ELSE q))
<1> DEFINE unused == CurrentUnusedCapacity(p, c)
           o == [p EXCEPT !.capacity = @ - 1]
           q == TransitionActiveClientState(o, c, "Ready")
           r == OnUpstreamReady(q)
<1>0. /\ Books(p, p.deferred) /\ Shape(p) /\ FlagInv(p) /\ p.state \in [Clients -> ClientStates]
      /\ CapacityInv(p.capacity, p.connecting_capacity, p.list)
      /\ ClientInv(p.state, p.remaining, p.wrapper)
  BY SettledParts, BooksParts
<1>1. p.wrapper[c] = NoStream /\ p.remaining[c] \in Nat \ {0}
  BY <1>0, ConnPoolAssumption DEF ClientInv
<1>2. unused = 1
  BY <1>1, UnusedIs
<1>3. /\ Shape(o) /\ o.list = p.list /\ o.state = p.state /\ o.remaining = p.remaining
      /\ o.capacity = p.capacity - 1 /\ o.connecting_capacity = p.connecting_capacity
      /\ Rest(p, o)
  BY <1>0 DEF Shape, FieldNames, Rest
<1> HIDE DEF unused, o
<1>4. Books(o, o.deferred)
  <2>1. CapacityInv(o.capacity, o.connecting_capacity, o.list)
    BY <1>0, <1>3 DEF CapacityInv
  <2>2. FlagInv(o)
    BY <1>0, <1>3 DEF FlagInv, Rest
  <2> QED
    BY <1>0, <1>3, <2>1, <2>2 DEF Books, Rest
<1>5. Books(q, o.deferred) /\ Rest(o, q) /\ q.state = [o.state EXCEPT ![c] = "Ready"]
  <2>1. o.state[c] = "Connecting" /\ o.wrapper[c] = NoStream
    BY <1>1, <1>3 DEF Rest
  <2> QED
    BY <2>1, <1>4, ReadyBooks
<1> HIDE DEF q
<1>6. q.state[c] = "Ready" /\ (\A d \in Clients : d # c => q.state[d] = p.state[d]) /\ Rest(p, q)
  BY <1>0, <1>3, <1>5 DEF Rest
<1>7. Books(q, q.deferred)
  BY <1>3, <1>5 DEF Rest
<1>8. Books(r, q.deferred) /\ Readies(q, r) /\ (r.pending # <<>> => NoneReady(r))
  BY <1>7, UpstreamReadyBooks
<1> HIDE DEF r
<1>9. Books(r, r.deferred) /\ ~r.destroyed
  BY <1>6, <1>8 DEF Readies, Rest
<1>10. Serving(r, {})
  <2>1. Serving(q, {})
    BY <1>6, SettledParts DEF Serving, Rest
  <2> QED
    BY <2>1, <1>8 DEF Serving, Readies
<1>11. Good(CheckForIdleAndCloseIdleConnsIfDraining(r))
  BY <1>8, <1>9, <1>10, CheckGood
<1>12. /\ [p EXCEPT !.capacity = @ - unused] = o
       /\ (IF unused > 0 THEN "Ready" ELSE "Busy") = "Ready"
  BY <1>2 DEF o
<1>13. (IF q.state[c] = "Ready" THEN OnUpstreamReady(q) ELSE q) = r
  BY <1>6 DEF r
<1> QED
  BY <1>11, <1>12, <1>13 DEF q, unused

(* new_stream, when a client is ready.                                     *)
LEMMA NewAttached ==
    ASSUME NEW p, Good(p), ~p.destroyed, NEW s \in Streams, p.status[s] = "new", p.list["ready"] # <<>>
    PROVE  Good(TryCreateNewConnections(AttachStreamToClient(p, Head(p.list["ready"]), s)))
<1> DEFINE c == Head(p.list["ready"])
           a == AttachStreamToClient(p, c, s)
           q == TryCreateNewConnections(a)
<1>0. Books(p, p.deferred)
  BY SettledParts
<1>1. c \in Clients /\ p.state[c] = "Ready" /\ ~NoneReady(p)
  BY <1>0, FirstReady
<1> HIDE DEF c
<1>2. Shape(a) /\ a.pending = p.pending /\ [a EXCEPT !.pending = p.pending] = a
  BY <1>0, <1>1, AttachKeeps
<1>3. Books(a, p.deferred) /\ Serves(p, a)
  <2>1. /\ p.pending \in Seq(Streams) /\ Inj(p.pending)
        /\ \A t \in Streams : Has(p.pending, t) <=> p.status[t] = "pending"
    BY <1>0, StreamsAre
  <2>2. \A y : Has(p.pending, y) <=> Has(p.pending, y) /\ y # s
    BY <2>1
  <2>3. p.status[s] \in {"new", "pending"}
    OBVIOUS
  <2> DEFINE b == [a EXCEPT !.pending = p.pending]
  <2>4. Books(b, p.deferred) /\ Serves(p, b) /\ b.pending = p.pending
    BY <1>0, <1>1, <2>1, <2>2, <2>3, AttachBooks
  <2>5. b = a
    BY <1>2
  <2> HIDE DEF a, b
  <2> QED
    BY <2>4, <2>5
<1> HIDE DEF a
<1>4. Books(q, p.deferred) /\ Creates(a, q)
  BY <1>3, CreateAllBooks
<1> HIDE DEF q
<1>5. Readies(p, q)
  BY <1>3, <1>4, ServesCreates
<1>6. q.pending # <<>> => q.scheduled \/ NoneReady(q)
  <2>1. q.pending = p.pending /\ q.scheduled = p.scheduled
    BY <1>2, <1>4, <1>5 DEF Creates, Readies
  <2>2. p.pending # <<>> => p.scheduled
    BY <1>1, SettledParts
  <2> QED
    BY <2>1, <2>2
<1>7. Settled(q)
  BY <1>5, <1>6, SettledParts, ReadiesSettled
<1>8. q.deferred = p.deferred
  BY <1>5 DEF Readies
<1>9. Good(q)
  BY <1>4, <1>7, <1>8 DEF Good
<1> QED
  BY <1>9 DEF q, a, c

(* The stream s, new or waiting, changes its status.                       *)
Marked(p, q, s, z, pe, rs) ==
    /\ Shape(q) /\ q.list = p.list /\ q.state = p.state /\ q.remaining = p.remaining
    /\ q.capacity = p.capacity /\ q.connecting_capacity = p.connecting_capacity
    /\ q.pending = pe /\ q.wrapper = p.wrapper /\ q.status = [p.status EXCEPT ![s] = z]
    /\ q.active = p.active /\ q.resources = rs /\ q.deferred = p.deferred
    /\ q.scheduled = p.scheduled /\ q.draining = p.draining
    /\ q.destroyed = p.destroyed /\ q.exhausted = p.exhausted

(* It keeps the books, when the list of those that wait agrees.            *)
LEMMA MarkBooks ==
    ASSUME NEW p, NEW D, Books(p, D), NEW s \in Streams, p.status[s] \in {"new", "pending"},
           NEW z \in {"pending", "failed", "cancelled"}, NEW pe, pe \in Seq(Streams), Inj(pe),
           \A y : Has(pe, y) <=> (IF y = s THEN z = "pending" ELSE Has(p.pending, y)),
           NEW rs \in Nat, rs >= p.resources, NEW q, Marked(p, q, s, z, pe, rs)
    PROVE  Books(q, D)
<1>0. /\ Shape(p) /\ FlagInv(p) /\ p.deferred \in Seq(Items)
      /\ ListInv(p.list, p.state) /\ ClientInv(p.state, p.remaining, p.wrapper)
      /\ DeferInv(D, p.state) /\ StreamInv(p.pending, p.status, p.wrapper)
      /\ CountInv(p.active, p.resources, p.wrapper, D)
      /\ CapacityInv(p.capacity, p.connecting_capacity, p.list)
  BY BooksParts
<1> DEFINE v == [p.status EXCEPT ![s] = z]
<1>1. StreamInv(pe, v, p.wrapper)
  <2>1. StreamInv(p.pending, p.status, p.wrapper)
    BY <1>0
  <2> HIDE <1>0
  <2> QED
    BY <2>1, StreamMark, ZenonT(60)
<1>2. q.pending = pe /\ q.status = v /\ q.wrapper = p.wrapper
  BY DEF Marked
<1> HIDE DEF v
<1>3. StreamInv(q.pending, q.status, q.wrapper)
  BY <1>1, <1>2
<1>4. CountInv(p.active, rs, p.wrapper, D)
  BY <1>0 DEF CountInv
<1>5. /\ Shape(q) /\ FlagInv(q) /\ q.deferred \in Seq(Items)
      /\ ListInv(q.list, q.state) /\ ClientInv(q.state, q.remaining, q.wrapper)
      /\ DeferInv(D, q.state)
      /\ CountInv(q.active, q.resources, q.wrapper, D)
      /\ CapacityInv(q.capacity, q.connecting_capacity, q.list)
  BY <1>0, <1>4 DEF Marked, FlagInv
<1> QED
  BY <1>3, <1>5 DEF Books

(* new_stream, when nothing may be created: the stream is told so.         *)
LEMMA NewFailed ==
    ASSUME NEW p, Good(p), ~p.destroyed, NEW s \in Streams, p.status[s] = "new"
    PROVE  Good(OnPoolFailure(p, s))
<1> DEFINE q == OnPoolFailure(p, s)
<1>0. Books(p, p.deferred) /\ Shape(p) /\ CountInv(p.active, p.resources, p.wrapper, p.deferred)
  BY SettledParts, BooksParts
<1>1. Marked(p, q, s, "failed", p.pending, p.resources)
  BY <1>0 DEF OnPoolFailure, Marked, Shape, FieldNames
<1> HIDE DEF q
<1>2. /\ p.pending \in Seq(Streams) /\ Inj(p.pending)
      /\ \A t \in Streams : Has(p.pending, t) <=> p.status[t] = "pending"
  BY <1>0, StreamsAre
<1>3. \A y : Has(p.pending, y) <=> (IF y = s THEN "failed" = "pending" ELSE Has(p.pending, y))
  BY <1>2
<1>4. p.resources \in Nat /\ p.resources >= p.resources
  BY <1>0 DEF CountInv
<1>5. p.status[s] \in {"new", "pending"} /\ "failed" \in {"pending", "failed", "cancelled"}
  OBVIOUS
<1>6. Books(q, p.deferred)
  BY <1>0, <1>1, <1>2, <1>3, <1>4, <1>5, MarkBooks
<1>7. Settled(q)
  BY <1>1, SettledParts DEF Marked, Settled, Serving, NoneReady
<1>8. q.deferred = p.deferred
  BY <1>1 DEF Marked
<1>9. Good(q)
  BY <1>6, <1>7, <1>8 DEF Good
<1> QED
  BY <1>9 DEF q

(* new_stream, when no client is ready: the stream waits.                  *)
LEMMA NewPending ==
    ASSUME NEW p, Good(p), ~p.destroyed, NEW s \in Streams, p.status[s] = "new", p.list["ready"] = <<>>
    PROVE  Good(TryCreateNewConnections(
                  [p EXCEPT !.pending = Append(@, s), !.status[s] = "pending", !.resources = @ + 1]))
<1> DEFINE o == [p EXCEPT !.pending = Append(@, s), !.status[s] = "pending", !.resources = @ + 1]
           q == TryCreateNewConnections(o)
           pe == Append(p.pending, s)
<1>0. Books(p, p.deferred) /\ Shape(p) /\ CountInv(p.active, p.resources, p.wrapper, p.deferred)
  BY SettledParts, BooksParts
<1>1. Marked(p, o, s, "pending", pe, p.resources + 1)
  BY <1>0 DEF Marked, Shape, FieldNames
<1> HIDE DEF o
<1>2. /\ p.pending \in Seq(Streams) /\ Inj(p.pending)
      /\ \A t \in Streams : Has(p.pending, t) <=> p.status[t] = "pending"
  BY <1>0, StreamsAre
<1>3. /\ pe \in Seq(Streams) /\ Inj(pe)
      /\ \A y : Has(pe, y) <=> Has(p.pending, y) \/ y = s
  <2>1. ~Has(p.pending, s)
    BY <1>2
  <2> QED
    BY <1>2, <2>1, AppendHas
<1> HIDE DEF pe
<1>4. \A y : Has(pe, y) <=> (IF y = s THEN "pending" = "pending" ELSE Has(p.pending, y))
  BY <1>3
<1> DEFINE rs == p.resources + 1
<1>5. rs \in Nat /\ rs >= p.resources
  BY <1>0 DEF CountInv
<1>6. p.status[s] \in {"new", "pending"} /\ "pending" \in {"pending", "failed", "cancelled"}
  OBVIOUS
<1>7. Books(o, p.deferred)
  <2>1. Marked(p, o, s, "pending", pe, rs)
    BY <1>1
  <2> HIDE DEF rs
  <2> QED
    BY <1>0, <1>3, <1>4, <1>5, <1>6, <2>1, MarkBooks
<1>8. Books(q, p.deferred) /\ Creates(o, q)
  BY <1>7, CreateAllBooks
<1> HIDE DEF q
<1>9. NoneReady(p)
  BY <1>0, NoneReadyIs
<1>10. NoneReady(q)
  BY <1>1, <1>8, <1>9 DEF NoneReady, Creates, Marked
<1>11. Serving(q, {})
  BY <1>1, <1>8, SettledParts DEF Serving, Creates, Marked
<1>12. q.deferred = p.deferred /\ ~q.destroyed
  BY <1>1, <1>8 DEF Creates, Marked
<1>13. Settled(q)
  BY <1>10, <1>11, <1>12 DEF Settled
<1>14. Good(q)
  BY <1>8, <1>12, <1>13 DEF Good
<1> QED
  BY <1>14 DEF q, o

(* on_pending_stream_cancel, before the check for an idle pool: o is the   *)
(* pool without the stream.                                                *)
LEMMA CancelBooks ==
    ASSUME NEW p, Good(p), ~p.destroyed, NEW s \in Streams, p.status[s] = "pending", NEW o,
           Marked(p, o, s, "cancelled", RemoveFirst(p.pending, s), p.resources)
    PROVE  Good(o) /\ ~o.destroyed
<1> DEFINE pe == RemoveFirst(p.pending, s)
<1>0. Books(p, p.deferred) /\ CountInv(p.active, p.resources, p.wrapper, p.deferred)
  BY SettledParts, BooksParts
<1>1. Marked(p, o, s, "cancelled", pe, p.resources)
  OBVIOUS
<1>2. /\ p.pending \in Seq(Streams) /\ Inj(p.pending)
      /\ \A t \in Streams : Has(p.pending, t) <=> p.status[t] = "pending"
  BY <1>0, StreamsAre
<1>3. Has(p.pending, s)
  BY <1>2
<1>4. /\ pe \in Seq(Streams) /\ Inj(pe)
      /\ \A y : Has(pe, y) <=> Has(p.pending, y) /\ y # s
  BY <1>2, <1>3, RemoveHas
<1> HIDE DEF pe
<1>5. \A y : Has(pe, y) <=> (IF y = s THEN "cancelled" = "pending" ELSE Has(p.pending, y))
  BY <1>4
<1>6. p.resources \in Nat /\ p.resources >= p.resources
  BY <1>0 DEF CountInv
<1>7. p.status[s] \in {"new", "pending"} /\ "cancelled" \in {"pending", "failed", "cancelled"}
  OBVIOUS
<1>8. Books(o, p.deferred)
  BY <1>0, <1>1, <1>4, <1>5, <1>6, <1>7, MarkBooks
<1>9. p.pending # <<>>
  BY <1>2, <1>3, EmptyHas
<1>10. Settled(o) /\ o.deferred = p.deferred /\ ~o.destroyed
  BY <1>1, <1>9, SettledParts DEF Marked, Settled, Serving, NoneReady
<1> QED
  BY <1>8, <1>10 DEF Good

(* A connecting client that nobody needs any more is drained and closed.   *)
LEMMA ExcessBooks ==
    ASSUME NEW p, Good(p), ~p.destroyed, p.list["connecting"] # <<>>
    PROVE  LET c == Head(p.list["connecting"])
               q == CloseClient(TransitionActiveClientState(p, c, "Draining"), c)
           IN  Good(q) /\ ~q.destroyed
<1> DEFINE c == Head(p.list["connecting"])
           r == TransitionActiveClientState(p, c, "Draining")
           q == CloseClient(r, c)
<1>0. Books(p, p.deferred) /\ p.state \in [Clients -> ClientStates]
  BY SettledParts, BooksParts
<1>1. c \in Clients /\ p.state[c] = "Connecting"
  <2>1. /\ p.list["connecting"] \in Seq(Clients)
        /\ \A d : Has(p.list["connecting"], d) <=> d \in Clients /\ p.state[d] = "Connecting"
    BY <1>0, ListsAre
  <2>2. Has(p.list["connecting"], c)
    BY <2>1, EmptyHas
  <2> QED
    BY <2>1, <2>2
<1> HIDE DEF c
<1>2. Books(r, p.deferred) /\ Rest(p, r) /\ r.state = [p.state EXCEPT ![c] = "Draining"]
  BY <1>0, <1>1, DrainBooks
<1> HIDE DEF r
<1>3. r.state[c] = "Draining" /\ \A d \in Clients : d # c => r.state[d] = p.state[d]
  BY <1>0, <1>1, <1>2
<1>4. Books(r, r.deferred) /\ Open(r, c)
  BY <1>1, <1>2, <1>3 DEF Rest, Open
<1>5. Books(q, q.deferred) /\ Closes(r, q, {c})
  BY <1>4, CloseBooks
<1> HIDE DEF q
<1>6. /\ Serving(r, {c}) /\ ~r.destroyed /\ (r.draining => NoneReady(r))
      /\ r.pending # <<>> => r.scheduled \/ NoneReady(r)
  BY <1>2, <1>3, SettledParts DEF Serving, NoneReady, Rest
<1>7. q.draining => NoneReady(q)
  BY <1>5, <1>6 DEF Closes, NoneReady
<1>8. {c} \in SUBSET Clients /\ {c} \in SUBSET {c}
  BY <1>1
<1>9. Settled(q)
  BY <1>5, <1>6, <1>7, <1>8, ClosesSettled
<1>10. ~q.destroyed
  BY <1>5, <1>6 DEF Closes
<1>11. Good(q) /\ ~q.destroyed
  BY <1>5, <1>9, <1>10 DEF Good
<1> QED
  BY <1>11 DEF q, r, c

(* The whole of it.                                                        *)
LEMMA CancelGood ==
    ASSUME NEW p, Good(p), ~p.destroyed, NEW s \in Streams, p.status[s] = "pending", NEW policy
    PROVE  LET o == [p EXCEPT !.pending = RemoveFirst(@, s), !.status[s] = "cancelled"]
               c == Head(o.list["connecting"])
               excess == /\ policy = "CloseExcess"
                         /\ o.list["connecting"] # <<>>
                         /\ ConnectingConnectionIsExcess(o, c)
           IN  Good(CheckForIdleAndCloseIdleConnsIfDraining(
                      IF excess THEN CloseClient(TransitionActiveClientState(o, c, "Draining"), c) ELSE o))
<1> DEFINE o == [p EXCEPT !.pending = RemoveFirst(@, s), !.status[s] = "cancelled"]
           c == Head(o.list["connecting"])
           excess == /\ policy = "CloseExcess"
                     /\ o.list["connecting"] # <<>>
                     /\ ConnectingConnectionIsExcess(o, c)
           r == IF excess THEN CloseClient(TransitionActiveClientState(o, c, "Draining"), c) ELSE o
<1>0. Marked(p, o, s, "cancelled", RemoveFirst(p.pending, s), p.resources)
  <2>1. Shape(p)
    BY SettledParts, BooksParts
  <2> QED
    BY <2>1 DEF Marked, Shape, FieldNames
<1> HIDE DEF o
<1>1. Good(o) /\ ~o.destroyed
  BY <1>0, CancelBooks
<1>2. Good(r) /\ ~r.destroyed
  <2>1. CASE excess
    <3>1. o.list["connecting"] # <<>>
      BY <2>1
    <3> DEFINE q == CloseClient(TransitionActiveClientState(o, c, "Draining"), c)
    <3>2. Good(q) /\ ~q.destroyed
      BY <1>1, <3>1, ExcessBooks
    <3> HIDE DEF excess, q
    <3>3. r = q
      BY <2>1 DEF q
    <3> HIDE DEF r
    <3> QED
      BY <3>2, <3>3
  <2>2. CASE ~excess
    <3> HIDE DEF excess
    <3> QED
      BY <2>2, <1>1
  <2> QED
    BY <2>1, <2>2
<1> HIDE DEF r
<1>3. Good(CheckForIdleAndCloseIdleConnsIfDraining(r))
  <2>1. Books(r, r.deferred) /\ Serving(r, {}) /\ (r.pending # <<>> => r.scheduled \/ NoneReady(r))
    BY <1>2, SettledParts
  <2> QED
    BY <1>2, <2>1, CheckGood
<1> QED
  BY <1>3 DEF r, o

(* A loop that drains clients leaves a pool settled.                       *)
LEMMA DrainsSettled ==
    ASSUME NEW p, NEW q, NEW cs, Drains(p, q, cs), Serving(p, {}), NoneReady(p), ~p.destroyed
    PROVE  Serving(q, {}) /\ NoneReady(q) /\ ~q.destroyed /\ q.deferred = p.deferred
<1>1. \A d \in Clients : q.state[d] = p.state[d] \/ (p.state[d] = "Busy" /\ q.state[d] = "Draining")
  BY DEF Drains, NoneReady
<1>2. Rest(p, q)
  BY DEF Drains
<1>3. Serving(q, {})
  BY <1>1, <1>2 DEF Serving, Rest
<1>4. NoneReady(q)
  BY <1>1 DEF NoneReady
<1> QED
  BY <1>2, <1>3, <1>4 DEF Rest

(* drain_connections_impl for the existing connections.                    *)
LEMMA DrainExistingGood ==
    ASSUME NEW p, Good(p), ~p.destroyed
    PROVE  LET o == CloseIdleConnections(p)
               q == DrainClients(o, o.list["ready"])
           IN  Good(DrainClients(q, q.list["busy"]))
<1> DEFINE o == CloseIdleConnections(p)
           q == DrainClients(o, o.list["ready"])
           r == DrainClients(q, q.list["busy"])
<1>1. Books(o, o.deferred) /\ NoneReady(o) /\ \E X \in SUBSET Clients : Closes(p, o, X)
  BY SettledParts, IdleBooks
<1> HIDE DEF o
<1>2. PICK X \in SUBSET Clients : Closes(p, o, X)
  BY <1>1
<1>3. Settled(o)
  <2>1. {} \in SUBSET X
    OBVIOUS
  <2> QED
    BY <1>1, <1>2, <2>1, SettledParts, ClosesSettled
<1>4. Serving(o, {}) /\ ~o.destroyed
  BY <1>2, <1>3 DEF Settled, Closes
<1>5. Books(q, o.deferred) /\ Drains(o, q, o.list["ready"])
  <2>1. /\ o.list["ready"] \in Seq(Clients)
        /\ \A d : Has(o.list["ready"], d) <=> d \in Clients /\ o.state[d] = "Ready"
    BY <1>1, ListsAre
  <2>2. \A d : Has(o.list["ready"], d) => o.state[d] \in {"Ready", "Busy", "Draining"}
    BY <2>1
  <2> QED
    BY <1>1, <2>1, <2>2, DrainSome
<1> HIDE DEF q
<1>6. Serving(q, {}) /\ NoneReady(q) /\ ~q.destroyed /\ q.deferred = o.deferred
  BY <1>1, <1>4, <1>5, DrainsSettled
<1>7. Books(r, o.deferred) /\ Drains(q, r, q.list["busy"])
  <2>1. /\ q.list["busy"] \in Seq(Clients)
        /\ \A d : Has(q.list["busy"], d) <=> d \in Clients /\ q.state[d] \in {"Busy", "Draining"}
    BY <1>5, ListsAre
  <2>2. \A d : Has(q.list["busy"], d) => q.state[d] \in {"Ready", "Busy", "Draining"}
    BY <2>1
  <2> QED
    BY <1>5, <2>1, <2>2, DrainSome
<1> HIDE DEF r
<1>8. Serving(r, {}) /\ NoneReady(r) /\ ~r.destroyed /\ r.deferred = q.deferred
  BY <1>6, <1>7, DrainsSettled
<1>9. Settled(r)
  BY <1>8 DEF Settled
<1>10. Good(r)
  BY <1>6, <1>7, <1>8, <1>9 DEF Good
<1> QED
  BY <1>10 DEF r, q, o

(* The first two loops of destruct_all_connections leave no open client.   *)
LEMMA DestructCloses ==
    ASSUME NEW p, Good(p), ~p.destroyed
    PROVE  LET o == CloseClients(p, p.list["ready"] \o p.list["busy"], Clients)
               q == CloseClients(o, o.list["connecting"], Clients)
           IN  /\ Books(q, q.deferred) /\ ~q.destroyed
               /\ \A d \in Clients : q.state[d] \in {"None", "Closed"}
<1> DEFINE cs == p.list["ready"] \o p.list["busy"]
           o == CloseClients(p, cs, Clients)
           q == CloseClients(o, o.list["connecting"], Clients)
           X == {c \in Clients : c \in Clients /\ Has(cs, c)}
<1>0. Books(p, p.deferred) /\ p.state \in [Clients -> ClientStates]
  BY SettledParts, BooksParts
<1>1. /\ cs \in Seq(Clients) /\ Inj(cs)
      /\ \A d : Has(cs, d) <=> d \in Clients /\ p.state[d] \in {"Ready", "Busy", "Draining"}
  <2>1. /\ p.list["ready"] \in Seq(Clients) /\ Inj(p.list["ready"])
        /\ p.list["busy"] \in Seq(Clients) /\ Inj(p.list["busy"])
        /\ \A d : Has(p.list["ready"], d) <=> d \in Clients /\ p.state[d] = "Ready"
        /\ \A d : Has(p.list["busy"], d) <=> d \in Clients /\ p.state[d] \in {"Busy", "Draining"}
    BY <1>0, ListsAre
  <2>2. \A y : ~(Has(p.list["ready"], y) /\ Has(p.list["busy"], y))
    BY <2>1
  <2>3. /\ cs \in Seq(Clients) /\ Inj(cs)
        /\ \A y : Has(cs, y) <=> Has(p.list["ready"], y) \/ Has(p.list["busy"], y)
    BY <2>1, <2>2, ConcatHas
  <2> HIDE DEF cs
  <2> QED
    BY <2>1, <2>3
<1> HIDE DEF cs
<1>2. Books(o, o.deferred) /\ Closes(p, o, X)
  <2>1. \A d : Has(cs, d) => Open(p, d)
    BY <1>1 DEF Open
  <2> QED
    BY <1>0, <1>1, <2>1, CloseSome
<1> HIDE DEF o
<1>3. ~o.destroyed /\ \A d \in Clients : o.state[d] \in {"None", "Connecting", "Closed"}
  <2>1. ASSUME NEW d \in Clients PROVE o.state[d] \in {"None", "Connecting", "Closed"}
    <3>1. CASE d \in X
      BY <3>1, <1>2 DEF Closes
    <3>2. CASE d \notin X
      <4>1. p.state[d] \in {"None", "Connecting", "Closed"}
        BY <3>2, <1>0, <1>1 DEF ClientStates
      <4>2. o.state[d] = p.state[d] \/ o.state[d] = "Connecting"
        <5> HIDE DEF X
        <5> QED
          BY <3>2, <1>2 DEF Closes
      <4> QED
        BY <4>1, <4>2
    <3> QED
      BY <3>1, <3>2
  <2> QED
    BY <2>1, <1>2 DEF Closes
<1>4. /\ o.list["connecting"] \in Seq(Clients) /\ Inj(o.list["connecting"])
      /\ \A d : Has(o.list["connecting"], d) <=> d \in Clients /\ o.state[d] = "Connecting"
  BY <1>2, ListsAre
<1>5. /\ Books(q, q.deferred) /\ q.destroyed = o.destroyed
      /\ \A d \in Clients : q.state[d] = IF Has(o.list["connecting"], d) THEN "Closed" ELSE o.state[d]
  BY <1>2, <1>4, CloseConnecting
<1> HIDE DEF q
<1>6. \A d \in Clients : q.state[d] \in {"None", "Closed"}
  BY <1>3, <1>4, <1>5
<1>7. ~q.destroyed
  BY <1>3, <1>5
<1> QED
  BY <1>5, <1>6, <1>7 DEF q, o, cs

(* destruct_all_connections.                                               *)
LEMMA DestructGood ==
    ASSUME NEW p, Good(p), ~p.destroyed
    PROVE  LET o == CloseClients(p, p.list["ready"] \o p.list["busy"], Clients)
               q == CloseClients(o, o.list["connecting"], Clients)
           IN  Good([ClearDeferredDeleteList(q) EXCEPT !.destroyed = TRUE])
<1> DEFINE o == CloseClients(p, p.list["ready"] \o p.list["busy"], Clients)
           q == CloseClients(o, o.list["connecting"], Clients)
           r == ClearDeferredDeleteList(q)
           t == [r EXCEPT !.destroyed = TRUE]
           q0 == [q EXCEPT !.deferred = <<>>]
<1>1. /\ Books(q, q.deferred) /\ ~q.destroyed
      /\ \A d \in Clients : q.state[d] \in {"None", "Closed"}
  BY DestructCloses
<1> HIDE DEF o, q
<1>2. Books(r, <<>>) /\ Disposes(q0, r) /\ r.deferred = <<>>
  BY <1>1, PassBooks
<1>3. q0.state = q.state
  <2>1. Shape(q)
    BY <1>1, BooksParts
  <2> QED
    BY <2>1 DEF Shape, FieldNames
<1> HIDE DEF r, q0
<1>4. \A d \in Clients : r.state[d] = "None"
  <2>1. \A d \in Clients : r.state[d] \in {"None", "Closed"}
    BY <1>1, <1>2, <1>3 DEF Disposes
  <2>2. DeferInv(<<>>, r.state)
    BY <1>2, BooksParts
  <2>3. \A d \in Clients : ~Has(<<>>, <<"client", d>>)
    BY DEF Has
  <2>4. \A d \in Clients : r.state[d] # "Closed"
    BY <2>2, <2>3 DEF DeferInv
  <2> QED
    BY <2>1, <2>4
<1>5. Shape(r) /\ FlagInv(r)
  BY <1>2, BooksParts
<1>6. SameBut(r, t) /\ t.scheduled = r.scheduled /\ t.draining = r.draining /\ t.exhausted = r.exhausted
      /\ t.destroyed = TRUE
  BY <1>5 DEF SameBut, Shape, FieldNames
<1> HIDE DEF t
<1>7. FlagInv(t)
  BY <1>5, <1>6 DEF FlagInv
<1>8. Books(t, <<>>)
  BY <1>2, <1>6, <1>7, SameBooks
<1>9. t.deferred = <<>> /\ \A d \in Clients : t.state[d] = "None"
  BY <1>2, <1>4, <1>6 DEF SameBut
<1>10. Settled(t)
  BY <1>9 DEF Settled, Serving, NoneReady
<1>11. Good(t)
  BY <1>8, <1>9, <1>10 DEF Good
<1> QED
  BY <1>11 DEF t, r, q, o

-----------------------------------------------------------------------------
(* The invariant of the specification.                                     *)

(* The pool is created with its books in order.                            *)
LEMMA InitGood == Init => IInv
<1> SUFFICES ASSUME Init PROVE IInv
  OBVIOUS
<1>1. /\ pool.list = [l \in ListNames |-> <<>>] /\ pool.pending = <<>>
      /\ pool.state = [c \in Clients |-> "None"] /\ pool.remaining = [c \in Clients |-> 0]
      /\ pool.wrapper = [c \in Clients |-> NoStream]
      /\ pool.capacity = 0 /\ pool.connecting_capacity = 0 /\ pool.active = 0 /\ pool.resources = 0
      /\ pool.scheduled = FALSE /\ pool.draining = FALSE /\ pool.deferred = <<>>
      /\ pool.status = [s \in Streams |-> "new"] /\ pool.destroyed = FALSE /\ pool.exhausted = FALSE
  BY DEF Init
<1>2. Shape(pool)
  BY DEF Init, Shape, FieldNames
<1> HIDE DEF Init
<1>3. FlagInv(pool) /\ pool.deferred \in Seq(Items)
  <2>1. <<>> \in Seq(Items)
    OBVIOUS
  <2>2. FlagInv(pool)
    BY <1>1 DEF FlagInv
  <2> QED
    BY <2>1, <2>2, <1>1
<1>4. \A y : ~Has(<<>>, y)
  BY DEF Has
<1>5. Inj(<<>>)
  BY DEF Inj
<1>6. ListInv(pool.list, pool.state)
  BY <1>1, <1>4, <1>5 DEF ListInv, ClientStates, Owns
<1>7. ClientInv(pool.state, pool.remaining, pool.wrapper)
  BY <1>1, ConnPoolAssumption DEF ClientInv
<1>8. DeferInv(pool.deferred, pool.state)
  BY <1>1, <1>4, <1>5 DEF DeferInv
<1>9. StreamInv(pool.pending, pool.status, pool.wrapper)
  BY <1>1, <1>4, <1>5, ConnPoolAssumption DEF StreamInv, StreamStates
<1>10. CountInv(pool.active, pool.resources, pool.wrapper, pool.deferred)
  <2>1. Attached(pool.wrapper) = {} /\ Wrapped(pool.deferred) = {}
    BY <1>1, <1>4 DEF Attached, Wrapped
  <2>2. Cardinality({}) = 0
    BY FS_EmptySet
  <2> QED
    BY <2>1, <2>2, <1>1 DEF CountInv
<1>11. CapacityInv(pool.capacity, pool.connecting_capacity, pool.list)
  BY <1>1 DEF CapacityInv, ListNames
<1>12. Books(pool, pool.deferred)
  BY <1>2, <1>3, <1>6, <1>7, <1>8, <1>9, <1>10, <1>11 DEF Books
<1>13. Settled(pool)
  BY <1>1 DEF Settled, Serving, NoneReady
<1> QED
  BY <1>12, <1>13 DEF IInv

(* Every entry into the pool leaves it in order.                           *)
LEMMA StepGood == IInv /\ [Next]_vars => IInv'
<1> SUFFICES ASSUME IInv, [Next]_vars PROVE IInv'
  OBVIOUS
<1>0. Good(pool)
  BY DEF IInv, Good
<1>1. CASE UNCHANGED vars
  BY <1>1 DEF vars, IInv
<1>2. CASE Next
  <2>0. ~pool.destroyed
    BY <1>2 DEF Next
  <2> SUFFICES Good(pool')
    BY DEF Good, IInv
  <2>1. ASSUME NEW s \in Streams, NewStream(s) PROVE Good(pool')
    <3>0. pool.status[s] = "new"
      BY <2>1 DEF NewStream
    <3>1. CASE pool.list["ready"] # <<>>
      <4>1. pool' = TryCreateNewConnections(AttachStreamToClient(pool, Head(pool.list["ready"]), s))
        BY <2>1, <3>1 DEF NewStream, Enter
      <4> QED
        BY <4>1, <3>0, <3>1, <1>0, <2>0, NewAttached
    <3>2. CASE pool.list["ready"] = <<>> /\ ~CanCreate(pool)
      <4>1. pool' = OnPoolFailure(pool, s)
        BY <2>1, <3>2 DEF NewStream, Enter
      <4> QED
        BY <4>1, <3>0, <1>0, <2>0, NewFailed
    <3>3. CASE pool.list["ready"] = <<>> /\ CanCreate(pool)
      <4>1. pool' = TryCreateNewConnections(
                      [pool EXCEPT !.pending = Append(@, s), !.status[s] = "pending", !.resources = @ + 1])
        BY <2>1, <3>3 DEF NewStream, Enter
      <4> QED
        BY <4>1, <3>0, <3>3, <1>0, <2>0, NewPending
    <3> QED
      BY <3>1, <3>2, <3>3
  <2>2. ASSUME NEW s \in Streams, NEW policy \in Policies, Cancel(s, policy) PROVE Good(pool')
    <3> DEFINE o == [pool EXCEPT !.pending = RemoveFirst(@, s), !.status[s] = "cancelled"]
               c == Head(o.list["connecting"])
               excess == /\ policy = "CloseExcess"
                         /\ o.list["connecting"] # <<>>
                         /\ ConnectingConnectionIsExcess(o, c)
               r == CheckForIdleAndCloseIdleConnsIfDraining(
                      IF excess THEN CloseClient(TransitionActiveClientState(o, c, "Draining"), c) ELSE o)
    <3>1. pool.status[s] = "pending" /\ pool' = r
      BY <2>2 DEF Cancel, Enter
    <3>2. Good(r)
      BY <1>0, <2>0, <3>1, CancelGood
    <3> HIDE DEF r
    <3> QED
      BY <3>1, <3>2
  <2>3. ASSUME NEW c \in Clients, Connected(c) PROVE Good(pool')
    <3> DEFINE unused == CurrentUnusedCapacity(pool, c)
               q == TransitionActiveClientState([pool EXCEPT !.capacity = @ - unused], c,
                                                IF unused > 0 THEN "Ready" ELSE "Busy")
               r == CheckForIdleAndCloseIdleConnsIfDraining(
                      IF q.state[c] = "Ready" THEN OnUpstreamReady(q) ELSE q)
    <3>1. pool.state[c] = "Connecting" /\ pool' = r
      BY <2>3 DEF Connected, Enter
    <3>2. Good(r)
      BY <1>0, <2>0, <3>1, ConnectedGood
    <3> HIDE DEF r
    <3> QED
      BY <3>1, <3>2
  <2>4. ASSUME NEW c \in Clients, RemoteClose(c) PROVE Good(pool')
    <3>1. Open(pool, c) /\ pool' = CloseClient(pool, c)
      BY <2>4 DEF RemoteClose, Enter, Live, Open
    <3> QED
      BY <3>1, <1>0, <2>0, CloseGood
  <2>5. ASSUME NEW c \in Clients, OnEncodeComplete(c) PROVE Good(pool')
    <3> DEFINE r == [pool EXCEPT !.status[pool.wrapper[c]] = "sent"]
    <3>1. pool.wrapper[c] # NoStream /\ pool.status[pool.wrapper[c]] = "sending" /\ pool' = r
      BY <2>5 DEF OnEncodeComplete, Enter
    <3>2. Good(r)
      BY <3>1, <1>0, <2>0, EncodeGood
    <3> HIDE DEF r
    <3> QED
      BY <3>1, <3>2
  <2>6. ASSUME NEW c \in Clients, NEW close \in BOOLEAN, OnDecodeComplete(c, close) PROVE Good(pool')
    <3>0. pool.wrapper[c] # NoStream
      BY <2>6 DEF OnDecodeComplete
    <3> DEFINE r == CheckForIdleAndCloseIdleConnsIfDraining(
                      OnStreamClosed([pool EXCEPT !.scheduled = TRUE,
                                                  !.status[pool.wrapper[c]] = "done",
                                                  !.wrapper[c] = NoStream], c))
    <3>1. pool' = CloseClient(pool, c) \/ pool' = r
      BY <2>6 DEF OnDecodeComplete, Enter
    <3>2. Good(CloseClient(pool, c))
      <4>1. Open(pool, c)
        BY <1>0, <3>0, SettledParts, ServingOpen
      <4> QED
        BY <4>1, <1>0, <2>0, CloseGood
    <3>3. Good(r)
      BY <3>0, <1>0, <2>0, DecodeGood
    <3> HIDE DEF r
    <3> QED
      BY <3>1, <3>2, <3>3
  <2>7. ASSUME NEW c \in Clients, OnResetStream(c) PROVE Good(pool')
    <3>1. pool.wrapper[c] # NoStream /\ pool' = CloseClient(pool, c)
      BY <2>7 DEF OnResetStream, Enter
    <3>2. Open(pool, c)
      BY <1>0, <3>1, SettledParts, ServingOpen
    <3> QED
      BY <3>1, <3>2, <1>0, <2>0, CloseGood
  <2>8. CASE UpstreamReadyCb
    <3>1. pool' = OnUpstreamReady([pool EXCEPT !.scheduled = FALSE])
      BY <2>8 DEF UpstreamReadyCb, Enter
    <3> QED
      BY <3>1, <1>0, <2>0, UpstreamReadyGood
  <2>9. CASE DeferredDelete
    <3>1. pool' = ClearDeferredDeleteList(pool)
      BY <2>9 DEF DeferredDelete, Enter
    <3> QED
      BY <3>1, <1>0, <2>0, PassGood
  <2>10. CASE DrainAndDelete
    <3>1. pool' = CheckForIdleAndCloseIdleConnsIfDraining([pool EXCEPT !.draining = TRUE])
      BY <2>10 DEF DrainAndDelete, Enter
    <3> QED
      BY <3>1, <1>0, <2>0, DrainDeleteGood
  <2>11. CASE DrainExistingConnections
    <3> DEFINE o == CloseIdleConnections(pool)
               q == DrainClients(o, o.list["ready"])
               r == DrainClients(q, q.list["busy"])
    <3>1. pool' = r
      BY <2>11 DEF DrainExistingConnections, Enter
    <3>2. Good(r)
      BY <1>0, <2>0, DrainExistingGood
    <3> HIDE DEF r
    <3> QED
      BY <3>1, <3>2
  <2>12. CASE DestructAllConnections
    <3> DEFINE o == CloseClients(pool, pool.list["ready"] \o pool.list["busy"], Clients)
               q == CloseClients(o, o.list["connecting"], Clients)
               r == [ClearDeferredDeleteList(q) EXCEPT !.destroyed = TRUE]
    <3>1. pool' = r
      BY <2>12 DEF DestructAllConnections, Enter
    <3>2. Good(r)
      BY <1>0, <2>0, DestructGood
    <3> HIDE DEF r
    <3> QED
      BY <3>1, <3>2
  <2> QED
    BY <1>2, <2>1, <2>2, <2>3, <2>4, <2>5, <2>6, <2>7, <2>8, <2>9, <2>10, <2>11, <2>12 DEF Next
<1> QED
  BY <1>1, <1>2

(* In every reachable state the books are in order and the pool settled.   *)
THEOREM Inductive == Spec => []IInv
BY InitGood, StepGood, PTL DEF Spec

-----------------------------------------------------------------------------
(* The properties.                                                         *)

(* An element of a sequence without repetitions is at one place.           *)
LEMMA OnePlace ==
    ASSUME NEW T, NEW q \in Seq(T), Inj(q), NEW x
    PROVE  /\ Has(q, x) => Cardinality({i \in DOMAIN q : q[i] = x}) = 1
           /\ ~Has(q, x) => Cardinality({i \in DOMAIN q : q[i] = x}) = 0
<1> DEFINE P == {i \in DOMAIN q : q[i] = x}
<1>1. CASE Has(q, x)
  <2>1. PICK k \in DOMAIN q : q[k] = x
    BY <1>1 DEF Has
  <2>2. P = {k}
    BY <2>1 DEF Inj
  <2>3. Cardinality({k}) = 1
    BY FS_Singleton
  <2> QED
    BY <1>1, <2>2, <2>3
<1>2. CASE ~Has(q, x)
  <2>1. P = {}
    BY <1>2 DEF Has
  <2>2. Cardinality({}) = 0
    BY FS_EmptySet
  <2> QED
    BY <1>2, <2>1, <2>2
<1> QED
  BY <1>1, <1>2

(* What is in a sequence, in the words of the model.                       *)
LEMMA ToSetHas == ASSUME NEW q, NEW x PROVE x \in ToSet(q) <=> Has(q, x)
BY DEF ToSet, Has

(* The lists agree with the states of the clients.                         *)
LEMMA ListsFollow == IInv => ListsMatchStates
<1> SUFFICES ASSUME IInv, NEW c \in Clients
             PROVE  /\ InList(c) = IF Live(c) THEN {OwningList(pool.state[c])} ELSE {}
                    /\ \A l \in ListNames :
                          Cardinality({i \in DOMAIN pool.list[l] : pool.list[l][i] = c}) <= 1
                    /\ pool.state[c] = "Closed" <=> c \in DeferredSet("client")
  BY DEF ListsMatchStates
<1>0. /\ ListInv(pool.list, pool.state) /\ DeferInv(pool.deferred, pool.state)
      /\ pool.list \in [ListNames -> Seq(Clients)] /\ pool.state \in [Clients -> ClientStates]
  BY BooksParts DEF IInv
<1>1. \A l \in ListNames : Inj(pool.list[l]) /\ (Has(pool.list[l], c) <=> Owns(l, pool.state[c]))
  BY <1>0 DEF ListInv
<1>2. InList(c) = {l \in ListNames : Owns(l, pool.state[c])}
  <2>1. \A l \in ListNames : c \in ToSet(pool.list[l]) <=> Owns(l, pool.state[c])
    BY <1>1, ToSetHas
  <2> QED
    BY <2>1 DEF InList
<1>3. InList(c) = IF Live(c) THEN {OwningList(pool.state[c])} ELSE {}
  <2>1. CASE Live(c)
    <3>1. pool.state[c] \in ClientStates \ {"None", "Closed"}
      BY <1>0, <2>1 DEF Live
    <3>2. OwningList(pool.state[c]) \in ListNames /\ Owns(OwningList(pool.state[c]), pool.state[c])
      BY <3>1, OwnsIs
    <3>3. \A l \in ListNames : Owns(l, pool.state[c]) => l = OwningList(pool.state[c])
      BY DEF Owns
    <3> QED
      BY <2>1, <3>2, <3>3, <1>2
  <2>2. CASE ~Live(c)
    BY <2>2, <1>2 DEF Live, Owns
  <2> QED
    BY <2>1, <2>2
<1>4. ASSUME NEW l \in ListNames
      PROVE  Cardinality({i \in DOMAIN pool.list[l] : pool.list[l][i] = c}) <= 1
  <2> DEFINE q == pool.list[l]
  <2>1. q \in Seq(Clients) /\ Inj(q)
    BY <1>0, <1>1
  <2> DEFINE n == Cardinality({i \in DOMAIN q : q[i] = c})
  <2>2. n = 0 \/ n = 1
    BY <2>1, OnePlace
  <2> HIDE DEF n
  <2>3. n <= 1
    BY <2>2
  <2> QED
    BY <2>3 DEF n
<1>5. pool.state[c] = "Closed" <=> c \in DeferredSet("client")
  <2>1. <<"client", c>> \in ToSet(pool.deferred) <=> Has(pool.deferred, <<"client", c>>)
    BY ToSetHas
  <2>2. pool.state[c] = "Closed" <=> Has(pool.deferred, <<"client", c>>)
    BY <1>0 DEF DeferInv
  <2> QED
    BY <2>1, <2>2 DEF DeferredSet
<1> QED
  BY <1>3, <1>4, <1>5

(* The books and a settled pool give every part of Bookkeeping.            *)
LEMMA BookkeepingHolds == IInv => Bookkeeping
<1> SUFFICES ASSUME IInv PROVE Bookkeeping
  OBVIOUS
<1>0. /\ Books(pool, pool.deferred) /\ Settled(pool)
      /\ ClientInv(pool.state, pool.remaining, pool.wrapper) /\ DeferInv(pool.deferred, pool.state)
      /\ CountInv(pool.active, pool.resources, pool.wrapper, pool.deferred)
  BY BooksParts DEF IInv
<1>1. TypeOK
  BY <1>0, BooksType DEF TypeOK
<1>2. ListsMatchStates
  BY ListsFollow
<1>3. ActiveStreamsExact
  <2>1. DeferredSet("wrapper") = Wrapped(pool.deferred)
    BY ToSetHas DEF DeferredSet, Wrapped
  <2>2. {c \in Clients : pool.wrapper[c] # NoStream} = Attached(pool.wrapper)
    BY DEF Attached
  <2> QED
    BY <2>1, <2>2, <1>0 DEF ActiveStreamsExact, CountInv
<1>4. ReadyCanServe
  BY <1>0 DEF ReadyCanServe, ClientInv, Settled, Serving
<1>5. DrainingHoldsNoIdle
  BY <1>0, NoneReadyIs DEF DrainingHoldsNoIdle, Settled
<1>6. WrapperBeforeClient
  BY <1>0 DEF WrapperBeforeClient, DeferInv
<1> QED
  BY <1>1, <1>2, <1>3, <1>4, <1>5, <1>6 DEF Bookkeeping

(* After every call into the pool the lists, the states, the wrappers, the *)
(* deferred delete list and the counters agree, although the code adjusts  *)
(* each of them in many places: for any number of clients and streams.     *)
THEOREM BooksAlwaysAgree == Spec => []Bookkeeping
BY Inductive, BookkeepingHolds, PTL

(* No stream is lost or told two outcomes.                                 *)
LEMMA AccountedHolds == IInv => StreamsAccounted
<1> SUFFICES ASSUME IInv, NEW s \in Streams
             PROVE  /\ Cardinality({i \in DOMAIN pool.pending : pool.pending[i] = s})
                         = IF pool.status[s] = "pending" THEN 1 ELSE 0
                    /\ Cardinality({c \in Clients : pool.wrapper[c] = s})
                         = IF pool.status[s] \in {"sending", "sent"} THEN 1 ELSE 0
  BY DEF StreamsAccounted
<1>0. StreamInv(pool.pending, pool.status, pool.wrapper)
  BY BooksParts DEF IInv
<1>1. /\ pool.pending \in Seq(Streams) /\ Inj(pool.pending)
      /\ Has(pool.pending, s) <=> pool.status[s] = "pending"
      /\ \A c, d \in Clients : pool.wrapper[c] = pool.wrapper[d] /\ pool.wrapper[c] # NoStream => c = d
      /\ pool.status[s] \in {"sending", "sent"} <=> \E c \in Clients : pool.wrapper[c] = s
  BY <1>0 DEF StreamInv
<1>2. Cardinality({i \in DOMAIN pool.pending : pool.pending[i] = s})
        = IF pool.status[s] = "pending" THEN 1 ELSE 0
  BY <1>1, OnePlace
<1> DEFINE W == {c \in Clients : pool.wrapper[c] = s}
<1>3. Cardinality(W) = IF pool.status[s] \in {"sending", "sent"} THEN 1 ELSE 0
  <2>1. CASE pool.status[s] \in {"sending", "sent"}
    <3>1. PICK k \in Clients : pool.wrapper[k] = s
      BY <1>1, <2>1
    <3>2. W = {k}
      BY <1>1, <3>1, ConnPoolAssumption
    <3>3. Cardinality({k}) = 1
      BY FS_Singleton
    <3> QED
      BY <2>1, <3>2, <3>3
  <2>2. CASE pool.status[s] \notin {"sending", "sent"}
    <3>1. W = {}
      BY <1>1, <2>2
    <3>2. Cardinality({}) = 0
      BY FS_EmptySet
    <3> QED
      BY <2>2, <3>1, <3>2
  <2> QED
    BY <2>1, <2>2
<1> QED
  BY <1>2, <1>3

(* Every stream is in the pending list exactly once while it waits, with   *)
(* exactly one client while it is served, and nowhere once it is over.     *)
THEOREM EveryStreamAccounted == Spec => []StreamsAccounted
BY Inductive, AccountedHolds, PTL

(* A ready client beside a waiting stream: the callback is on its way.     *)
LEMMA StalledHolds == IInv => NoStalledStream
<1> SUFFICES ASSUME IInv PROVE NoStalledStream
  OBVIOUS
<1>1. Books(pool, pool.deferred) /\ (pool.pending # <<>> => pool.scheduled \/ NoneReady(pool))
  BY DEF IInv, Settled
<1>2. NoneReady(pool) <=> pool.list["ready"] = <<>>
  BY <1>1, NoneReadyIs
<1> QED
  BY <1>1, <1>2 DEF NoStalledStream

(* No stream waits beside a ready client, unless on_upstream_ready is      *)
(* scheduled.                                                              *)
THEOREM NoStreamStalls == Spec => []NoStalledStream
BY Inductive, StalledHolds, PTL

(* A pool without clients has no wrapper either, attached or deferred.     *)
LEMMA ReleasedHolds == IInv => DestructReleasesAll
<1> SUFFICES ASSUME IInv, pool.destroyed
             PROVE  (\A c \in Clients : pool.state[c] = "None") /\ pool.active = 0 /\ pool.deferred = <<>>
  BY DEF DestructReleasesAll
<1>0. /\ ClientInv(pool.state, pool.remaining, pool.wrapper) /\ DeferInv(pool.deferred, pool.state)
      /\ CountInv(pool.active, pool.resources, pool.wrapper, pool.deferred)
  BY BooksParts DEF IInv
<1>1. \A c \in Clients : pool.state[c] = "None"
  BY DEF IInv, Settled
<1>2. pool.deferred = <<>>
  <2> SUFFICES ASSUME pool.deferred # <<>> PROVE FALSE
    OBVIOUS
  <2>1. /\ pool.deferred \in Seq(Items)
        /\ \A c \in Clients : ~Has(pool.deferred, <<"client", c>>)
        /\ \A i \in DOMAIN pool.deferred : pool.deferred[i][1] = "wrapper" =>
              \E j \in DOMAIN pool.deferred : j > i /\ pool.deferred[j] = <<"client", pool.deferred[i][2]>>
    BY <1>0, <1>1 DEF DeferInv
  <2>2. 1 \in DOMAIN pool.deferred /\ pool.deferred[1] \in Items
    BY <2>1
  <2>3. PICK k \in {"wrapper", "client"}, c \in Clients : pool.deferred[1] = <<k, c>>
    BY <2>2 DEF Items
  <2>4. k = "wrapper"
    BY <2>1, <2>2, <2>3 DEF Has
  <2>5. Has(pool.deferred, <<"client", c>>)
    <3>1. pool.deferred[1][1] = "wrapper" /\ pool.deferred[1][2] = c
      BY <2>3, <2>4
    <3>2. PICK j \in DOMAIN pool.deferred : pool.deferred[j] = <<"client", pool.deferred[1][2]>>
      BY <2>1, <2>2, <3>1
    <3> QED
      BY <3>1, <3>2 DEF Has
  <2> QED
    BY <2>1, <2>5
<1>3. pool.active = 0
  <2>1. Attached(pool.wrapper) = {}
    BY <1>0, <1>1 DEF Attached, ClientInv
  <2>2. Wrapped(pool.deferred) = {}
    BY <1>2 DEF Wrapped, Has
  <2>3. Cardinality({}) = 0
    BY FS_EmptySet
  <2> QED
    BY <2>1, <2>2, <2>3, <1>0 DEF CountInv
<1> QED
  BY <1>1, <1>2, <1>3

(* When the pool has been disposed of, no client and no wrapper is left to *)
(* call into it, with the dispatcher neither.                              *)
THEOREM NothingOutlivesThePool == Spec => []DestructReleasesAll
BY Inductive, ReleasedHolds, PTL
=============================================================================
