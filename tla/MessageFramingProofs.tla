------------------------ MODULE MessageFramingProofs ------------------------
(***************************************************************************)
(* Machine-checked proofs about MessageFraming, for every set of bodies    *)
(* and every way they arrive in pieces: the framing the encoder writes is  *)
(* the one the peer reads, and the body behind it is the whole body.       *)
(*                                                                         *)
(* What the filters and the encoder have at a moment depends only on the   *)
(* message and on the part of its body that was decoded.  The inductive    *)
(* invariant says so; that the next piece keeps it rests on Inflate and    *)
(* FlattenSeq being homomorphisms, which is shown by induction first.      *)
(***************************************************************************)
EXTENDS MessageFraming, SequenceTheorems, WellFoundedInduction, TLAPS

-----------------------------------------------------------------------------
(* Induction, and sequences.                                               *)

(* The least of a set of naturals.                                         *)
LEMMA LeastNat ==
    ASSUME NEW T \in SUBSET Nat, T # {}
    PROVE  \E k \in T : \A j \in T : ~(j < k)
<1>1. IsWellFoundedOn(OpToRel(<, Nat), Nat)
  BY NatLessThanWellFounded
<1>2. \E k \in T : \A j \in T : ~(<<j, k>> \in OpToRel(<, Nat))
  BY <1>1, WFMin
<1> QED
  BY <1>2 DEF OpToRel

(* Induction up to a bound, over a set of the numbers that are reached.    *)
LEMMA UpTo ==
    ASSUME NEW b \in Nat, NEW S, 0 \in S, \A i \in 0 .. b : i # b /\ i \in S => i + 1 \in S
    PROVE  \A i \in 0 .. b : i \in S
<1> SUFFICES ASSUME NEW i \in 0 .. b, i \notin S PROVE FALSE
  OBVIOUS
<1> DEFINE T == {k \in 0 .. b : k \notin S}
<1>1. PICK k \in T : \A j \in T : ~(j < k)
  <2>1. T \in SUBSET Nat /\ T # {}
    OBVIOUS
  <2> QED
    BY <2>1, LeastNat
<1>2. k # 0 /\ k \in 0 .. b /\ k \notin S
  BY <1>1
<1>3. k - 1 \in 0 .. b /\ k - 1 # b /\ k - 1 < k
  BY <1>2
<1>4. k - 1 \in S
  BY <1>1, <1>3
<1>5. (k - 1) + 1 \in S
  BY <1>3, <1>4
<1> QED
  BY <1>2, <1>5

(* The elements of a concatenation.                                        *)
LEMMA CatParts ==
    ASSUME NEW T, NEW a \in Seq(T), NEW b \in Seq(T)
    PROVE  /\ a \o b \in Seq(T) /\ Len(a \o b) = Len(a) + Len(b)
           /\ Len(a) \in Nat /\ Len(b) \in Nat
           /\ \A i \in 1 .. Len(a) : (a \o b)[i] = a[i]
           /\ \A i \in 1 .. Len(b) : (a \o b)[Len(a) + i] = b[i]
  OBVIOUS

(* The turns of FlattenSeq, the zeroth one made explicit.                  *)
Turns(g, s) == g[0] = <<>> /\ \A i \in 1 .. Len(s) : g[i] = g[i - 1] \o s[i]

(* FlattenSeq goes through its turns.                                      *)
LEMMA FlattenTurns ==
    ASSUME NEW T, NEW s \in Seq(Seq(T))
    PROVE  \E g \in [0 .. Len(s) -> Seq(T)] : Turns(g, s) /\ FlattenSeq(s) = g[Len(s)]
<1> DEFINE M == Len(s)
           Step(x, i) == IF i = 1 THEN s[i] ELSE x \o s[i]
           Is(g, k) == g = [i \in 1 .. k |-> Step(g[i - 1], i)]
           S == {k \in 0 .. M : \E g : Is(g, k)}
           h == CHOOSE g : Is(g, M)
<1>a. M \in Nat
  OBVIOUS
<1>1. FlattenSeq(s) = IF M = 0 THEN s ELSE h[M]
  BY DEF FlattenSeq
<1> HIDE DEF h, Step
<1>2. 0 \in S
  <2>1. Is([i \in {} |-> <<>>], 0)
    OBVIOUS
  <2>2. \E g : Is(g, 0)
    <3> HIDE DEF Is
    <3> QED
      BY <2>1
  <2> HIDE DEF Is
  <2> QED
    BY <2>2, <1>a
<1>3. ASSUME NEW k \in 0 .. M, k # M, k \in S PROVE k + 1 \in S
  <2>1. PICK g : Is(g, k)
    BY <1>3
  <2> DEFINE u == [i \in 1 .. k + 1 |-> IF i <= k THEN g[i] ELSE Step(g[k], k + 1)]
  <2>2. Is(u, k + 1)
    <3>1. ASSUME NEW i \in 1 .. k + 1 PROVE u[i] = Step(u[i - 1], i)
      <4>1. CASE i = 1 /\ k = 0
        BY <4>1 DEF Step
      <4>2. CASE i = 1 /\ k > 0
        BY <4>2, <2>1 DEF Step
      <4>3. CASE i # 1 /\ i <= k
        <5>1. u[i - 1] = g[i - 1] /\ u[i] = g[i] /\ i \in 1 .. k
          BY <4>3
        <5> QED
          BY <5>1, <2>1
      <4>4. CASE i # 1 /\ ~(i <= k)
        <5>1. i = k + 1 /\ i - 1 \in 1 .. k + 1 /\ i - 1 = k
          BY <4>4
        <5>2. u[i - 1] = g[k] /\ u[i] = Step(g[k], k + 1)
          BY <5>1
        <5> QED
          BY <5>1, <5>2
      <4> QED
        BY <4>1, <4>2, <4>3, <4>4
    <3>2. u = [i \in 1 .. k + 1 |-> u[i]]
      OBVIOUS
    <3> QED
      BY <3>1, <3>2
  <2>3. k + 1 \in 0 .. M
    BY <1>3
  <2> HIDE DEF Is, u
  <2> QED
    BY <2>2, <2>3
<1>4. M \in S
  <2>1. M \in Nat /\ \A i \in 0 .. M : i # M /\ i \in S => i + 1 \in S
    BY <1>3, <1>a
  <2> HIDE DEF S, M
  <2>2. \A i \in 0 .. M : i \in S
    BY <1>2, <2>1, UpTo
  <2> QED
    BY <2>1, <2>2
<1>5. Is(h, M)
  <2> HIDE DEF Is
  <2> QED
    BY <1>4 DEF h
<1>6. \A i \in 1 .. M : h[i] = IF i = 1 THEN s[i] ELSE h[i - 1] \o s[i]
  BY <1>5 DEF Step
<1> DEFINE g == [i \in 0 .. M |-> IF i = 0 THEN <<>> ELSE h[i]]
           U == {i \in 0 .. M : g[i] \in Seq(T)}
<1> HIDE DEF Is, S
<1>7. ASSUME NEW i \in 1 .. M, g[i - 1] \in Seq(T) PROVE g[i] = g[i - 1] \o s[i] /\ g[i] \in Seq(T)
  <2>0. s[i] \in Seq(T)
    BY <1>a
  <2>1. CASE i = 1
    BY <1>6, <2>1, <2>0
  <2>2. CASE i # 1
    <3>0. i \in 0 .. M /\ i - 1 \in 0 .. M /\ i # 0 /\ i - 1 # 0
      <4> HIDE DEF M
      <4> QED
        BY <1>a, <2>2
    <3>1. h[i] = h[i - 1] \o s[i] /\ g[i] = h[i] /\ g[i - 1] = h[i - 1]
      <4> HIDE DEF M
      <4> QED
        BY <1>6, <3>0, <2>2
    <3> HIDE DEF g
    <3> QED
      BY <3>1, <1>7, <2>0
  <2> QED
    BY <2>1, <2>2
<1>8. \A i \in 0 .. M : i \in U
  <2>1. 0 \in U
    BY <1>a
  <2>2. ASSUME NEW i \in 0 .. M, i # M, i \in U PROVE i + 1 \in U
    <3>0. g[i] \in Seq(T)
      BY <2>2
    <3>1. i + 1 \in 1 .. M /\ (i + 1) - 1 = i /\ i + 1 \in 0 .. M
      <4> HIDE DEF M
      <4> QED
        BY <1>a, <2>2
    <3>2. g[i + 1] \in Seq(T)
      BY <3>0, <3>1, <1>7
    <3> QED
      BY <3>1, <3>2
  <2> HIDE DEF U
  <2> QED
    BY <2>1, <2>2, <1>a, UpTo
<1>9. g \in [0 .. M -> Seq(T)]
  BY <1>8
<1>10. Turns(g, s)
  <2>1. g[0] = <<>>
    BY <1>a
  <2>2. ASSUME NEW i \in 1 .. M PROVE g[i] = g[i - 1] \o s[i]
    <3>1. g[i - 1] \in Seq(T)
      BY <1>8, <1>a
    <3> QED
      BY <3>1, <1>7
  <2> QED
    BY <2>1, <2>2 DEF Turns
<1>11. FlattenSeq(s) = g[M]
  BY <1>1, <1>a
<1> QED
  BY <1>9, <1>10, <1>11

(* The pieces of a sequence of pieces, one behind the other.               *)
LEMMA FlattenType ==
    ASSUME NEW T, NEW s \in Seq(Seq(T))
    PROVE  FlattenSeq(s) \in Seq(T)
<1>1. PICK g \in [0 .. Len(s) -> Seq(T)] : Turns(g, s) /\ FlattenSeq(s) = g[Len(s)]
  BY FlattenTurns
<1>2. Len(s) \in 0 .. Len(s)
  OBVIOUS
<1> QED
  BY <1>1, <1>2

(* No pieces, and one piece.                                               *)
LEMMA FlattenSmall ==
    ASSUME NEW T, NEW x \in Seq(T)
    PROVE  FlattenSeq(<<>>) = <<>> /\ FlattenSeq(<<x>>) = x
<1>1. FlattenSeq(<<>>) = <<>>
  BY DEF FlattenSeq
<1>2. <<x>> \in Seq(Seq(T)) /\ Len(<<x>>) = 1
  OBVIOUS
<1>3. PICK g \in [0 .. 1 -> Seq(T)] : Turns(g, <<x>>) /\ FlattenSeq(<<x>>) = g[1]
  BY <1>2, FlattenTurns
<1> DEFINE q == <<x>>
<1>4. g[0] = <<>> /\ \A i \in 1 .. Len(q) : g[i] = g[i - 1] \o q[i]
  BY <1>3 DEF Turns
<1>5. q[1] = x /\ Len(q) = 1
  OBVIOUS
<1> HIDE DEF q
<1>6. g[1] = <<>> \o x
  <2>1. g[1] = g[1 - 1] \o q[1]
    BY <1>4, <1>5
  <2>2. 1 - 1 = 0
    OBVIOUS
  <2> QED
    BY <2>1, <2>2, <1>4, <1>5
<1> QED
  BY <1>1, <1>3, <1>6

(* FlattenSeq is a homomorphism.                                           *)
LEMMA FlattenCat ==
    ASSUME NEW T, NEW s \in Seq(Seq(T)), NEW t \in Seq(Seq(T))
    PROVE  FlattenSeq(s \o t) = FlattenSeq(s) \o FlattenSeq(t)
<1> DEFINE L == Len(s)
           K == Len(t)
           st == s \o t
<1>0. /\ L \in Nat /\ K \in Nat /\ st \in Seq(Seq(T)) /\ Len(st) = L + K
      /\ \A i \in 1 .. L : st[i] = s[i]
      /\ \A i \in 1 .. K : st[L + i] = t[i]
      /\ \A i \in 1 .. K : t[i] \in Seq(T)
  OBVIOUS
<1>1. PICK g \in [0 .. L + K -> Seq(T)] : Turns(g, st) /\ FlattenSeq(st) = g[L + K]
  <2> HIDE DEF st, L, K
  <2>1. \E g \in [0 .. Len(st) -> Seq(T)] : Turns(g, st) /\ FlattenSeq(st) = g[Len(st)]
    BY <1>0, FlattenTurns
  <2> QED
    BY <2>1, <1>0
<1>2. PICK a \in [0 .. L -> Seq(T)] : Turns(a, s) /\ FlattenSeq(s) = a[L]
  BY FlattenTurns
<1>3. PICK b \in [0 .. K -> Seq(T)] : Turns(b, t) /\ FlattenSeq(t) = b[K]
  BY FlattenTurns
<1>4. /\ g[0] = <<>> /\ a[0] = <<>> /\ b[0] = <<>>
      /\ \A i \in 1 .. L + K : g[i] = g[i - 1] \o st[i]
      /\ \A i \in 1 .. L : a[i] = a[i - 1] \o s[i]
      /\ \A i \in 1 .. K : b[i] = b[i - 1] \o t[i]
  BY <1>0, <1>1, <1>2, <1>3 DEF Turns
<1> HIDE DEF L, K, st
<1> DEFINE S == {i \in 0 .. L : g[i] = a[i]}
           U == {i \in 0 .. K : g[L + i] = a[L] \o b[i]}
<1>5. \A i \in 0 .. L : i \in S
  <2>1. 0 \in S
    BY <1>0, <1>4
  <2>2. ASSUME NEW i \in 0 .. L, i # L, i \in S PROVE i + 1 \in S
    <3>1. i + 1 \in 1 .. L /\ i + 1 \in 1 .. L + K /\ (i + 1) - 1 = i /\ i + 1 \in 0 .. L
      BY <1>0, <2>2
    <3>2. g[i + 1] = g[i] \o st[i + 1] /\ a[i + 1] = a[i] \o s[i + 1]
      BY <3>1, <1>4
    <3>3. g[i + 1] = a[i + 1]
      BY <3>1, <3>2, <1>0, <2>2
    <3> QED
      BY <3>1, <3>3
  <2> HIDE DEF S
  <2> QED
    BY <2>1, <2>2, <1>0, UpTo
<1>6. g[L] = a[L]
  BY <1>5, <1>0
<1>7. \A i \in 0 .. K : i \in U
  <2>1. 0 \in U
    <3>1. a[L] \in Seq(T)
      BY <1>0
    <3>2. a[L] \o <<>> = a[L]
      BY <3>1
    <3>3. L + 0 = L /\ 0 \in 0 .. K
      BY <1>0
    <3> QED
      BY <3>2, <3>3, <1>6, <1>4
  <2>2. ASSUME NEW i \in 0 .. K, i # K, i \in U PROVE i + 1 \in U
    <3>1. /\ i + 1 \in 1 .. K /\ L + (i + 1) \in 1 .. L + K
          /\ (L + (i + 1)) - 1 = L + i /\ (i + 1) - 1 = i /\ i + 1 \in 0 .. K
      BY <1>0, <2>2
    <3>2. g[L + (i + 1)] = g[L + i] \o t[i + 1] /\ b[i + 1] = b[i] \o t[i + 1]
      BY <3>1, <1>4, <1>0
    <3>3. g[L + i] = a[L] \o b[i]
      BY <2>2
    <3>4. a[L] \in Seq(T) /\ b[i] \in Seq(T) /\ t[i + 1] \in Seq(T)
      <4>1. L \in 0 .. L
        BY <1>0
      <4>2. a[L] \in Seq(T)
        BY <4>1
      <4> QED
        BY <4>2, <1>0, <3>1
    <3>5. (a[L] \o b[i]) \o t[i + 1] = a[L] \o (b[i] \o t[i + 1])
      <4>1. ASSUME NEW x \in Seq(T), NEW y \in Seq(T), NEW z \in Seq(T)
            PROVE  (x \o y) \o z = x \o (y \o z)
        OBVIOUS
      <4> QED
        BY <4>1, <3>4
    <3>6. g[L + (i + 1)] = a[L] \o b[i + 1]
      BY <3>2, <3>3, <3>5
    <3> QED
      BY <3>1, <3>6
  <2> HIDE DEF U
  <2> QED
    BY <2>1, <2>2, <1>0, UpTo
<1>8. g[L + K] = a[L] \o b[K]
  BY <1>7, <1>0
<1> QED
  BY <1>1, <1>2, <1>3, <1>8 DEF st

(* A piece more.                                                           *)
LEMMA FlattenAppend ==
    ASSUME NEW T, NEW s \in Seq(Seq(T)), NEW x \in Seq(T)
    PROVE  FlattenSeq(Append(s, x)) = FlattenSeq(s) \o x
<1>1. Append(s, x) = s \o <<x>> /\ <<x>> \in Seq(Seq(T))
  OBVIOUS
<1>2. FlattenSeq(s \o <<x>>) = FlattenSeq(s) \o FlattenSeq(<<x>>)
  BY <1>1, FlattenCat
<1>3. FlattenSeq(<<x>>) = x
  BY FlattenSmall
<1> QED
  BY <1>1, <1>2, <1>3

-----------------------------------------------------------------------------
(* What the filters make of a body.                                        *)

Symbols == {"zxu", "zv", "eos"}
Letters == {"x", "u", "v", "w"} \cup Symbols

(* A symbol stands for letters.                                            *)
LEMMA InflatedType == \A c \in Symbols : Inflated[c] \in Seq(Letters)
<1>1. Inflated["zxu"] = <<"x", "u">> /\ Inflated["zv"] = <<"v">> /\ Inflated["eos"] = <<>>
  BY DEF Inflated
<1>2. "x" \in Letters /\ "u" \in Letters /\ "v" \in Letters
  BY DEF Letters
<1>3. <<"x", "u">> \in Seq(Letters) /\ <<"v">> \in Seq(Letters) /\ <<>> \in Seq(Letters)
  BY <1>2
<1> QED
  BY <1>1, <1>3 DEF Symbols

(* Inflate is a homomorphism, too: what a piece inflates to does not       *)
(* depend on how the body was cut.                                         *)
LEMMA InflateCat ==
    ASSUME NEW s \in Seq(Symbols), NEW t \in Seq(Symbols)
    PROVE  /\ Inflate(s) \in Seq(Letters)
           /\ Inflate(s \o t) = Inflate(s) \o Inflate(t)
<1> DEFINE Map(q) == [i \in DOMAIN q |-> Inflated[q[i]]]
           A == Map(s)
           B == Map(t)
           C == Map(s \o t)
<1>1. ASSUME NEW q \in Seq(Symbols)
      PROVE  Map(q) \in Seq(Seq(Letters)) /\ Len(Map(q)) = Len(q) /\ \A i \in 1 .. Len(q) : Map(q)[i] = Inflated[q[i]]
  <2>1. \A i \in 1 .. Len(q) : q[i] \in Symbols
    OBVIOUS
  <2>2. \A i \in 1 .. Len(q) : Inflated[q[i]] \in Seq(Letters)
    BY <2>1, InflatedType
  <2>3. DOMAIN q = 1 .. Len(q) /\ Len(q) \in Nat
    OBVIOUS
  <2> QED
    BY <2>2, <2>3
<1>2. /\ A \in Seq(Seq(Letters)) /\ Len(A) = Len(s) /\ \A i \in 1 .. Len(s) : A[i] = Inflated[s[i]]
      /\ B \in Seq(Seq(Letters)) /\ Len(B) = Len(t) /\ \A i \in 1 .. Len(t) : B[i] = Inflated[t[i]]
  BY <1>1
<1>3. /\ s \o t \in Seq(Symbols) /\ Len(s \o t) = Len(s) + Len(t)
      /\ \A i \in 1 .. Len(s) + Len(t) : (s \o t)[i] = IF i <= Len(s) THEN s[i] ELSE t[i - Len(s)]
      /\ Len(s) \in Nat /\ Len(t) \in Nat
  OBVIOUS
<1>4. C \in Seq(Seq(Letters)) /\ Len(C) = Len(s \o t) /\ \A i \in 1 .. Len(s \o t) : C[i] = Inflated[(s \o t)[i]]
  BY <1>1, <1>3
<1>5. Inflate(s) = FlattenSeq(A) /\ Inflate(t) = FlattenSeq(B) /\ Inflate(s \o t) = FlattenSeq(C)
  BY DEF Inflate
<1> HIDE DEF A, B, C
<1>6. C = A \o B
  <2>1. /\ A \o B \in Seq(Seq(Letters)) /\ Len(A \o B) = Len(s) + Len(t)
        /\ \A i \in 1 .. Len(s) : (A \o B)[i] = A[i]
        /\ \A i \in 1 .. Len(t) : (A \o B)[Len(s) + i] = B[i]
    <3>1. A \in Seq(Seq(Letters)) /\ B \in Seq(Seq(Letters))
      BY <1>2
    <3>2. /\ A \o B \in Seq(Seq(Letters)) /\ Len(A \o B) = Len(A) + Len(B)
          /\ \A i \in 1 .. Len(A) : (A \o B)[i] = A[i]
          /\ \A i \in 1 .. Len(B) : (A \o B)[Len(A) + i] = B[i]
      BY <3>1, CatParts
    <3> QED
      BY <3>2, <1>2
  <2>2. ASSUME NEW i \in 1 .. Len(s) + Len(t) PROVE C[i] = (A \o B)[i]
    <3>1. CASE i <= Len(s)
      <4>1. i \in 1 .. Len(s) /\ i \in 1 .. Len(s \o t)
        BY <3>1, <1>3
      <4>2. C[i] = Inflated[s[i]]
        BY <4>1, <1>3, <1>4, <3>1
      <4> QED
        BY <4>1, <4>2, <2>1, <1>2
    <3>2. CASE ~(i <= Len(s))
      <4>1. i - Len(s) \in 1 .. Len(t) /\ Len(s) + (i - Len(s)) = i /\ i \in 1 .. Len(s \o t)
        BY <3>2, <1>3
      <4>2. C[i] = Inflated[t[i - Len(s)]]
        BY <4>1, <1>3, <1>4, <3>2
      <4>3. (A \o B)[i] = B[i - Len(s)]
        BY <4>1, <2>1
      <4> QED
        BY <4>1, <4>2, <4>3, <1>2
    <3> QED
      BY <3>1, <3>2
  <2>3. Len(C) = Len(A \o B)
    BY <2>1, <1>3, <1>4
  <2>4. \A i \in 1 .. Len(C) : C[i] = (A \o B)[i]
    BY <2>2, <1>3, <1>4
  <2> QED
    BY <2>1, <2>3, <2>4, <1>4, SeqEqual
<1>7. FlattenSeq(A \o B) = FlattenSeq(A) \o FlattenSeq(B)
  BY <1>2, FlattenCat
<1>8. FlattenSeq(A) \in Seq(Letters)
  BY <1>2, FlattenType
<1> QED
  BY <1>5, <1>6, <1>7, <1>8

(* Nothing inflates to nothing.                                            *)
LEMMA InflateEmpty == Inflate(<<>>) = <<>>
<1>1. [i \in DOMAIN <<>> |-> Inflated[<<>>[i]]] = <<>>
  OBVIOUS
<1>2. <<>> \in Seq({})
  OBVIOUS
<1>3. FlattenSeq(<<>>) = <<>>
  BY <1>2, FlattenSmall
<1> QED
  BY <1>1, <1>3 DEF Inflate

(* A letter more.                                                          *)
LEMMA RewriteLetterType ==
    ASSUME NEW q \in Seq(Letters), NEW c \in Letters
    PROVE  RewriteLetter(q, c) \in Seq(Letters) \ {<<>>}
<1>1. CASE c = "v" /\ q # <<>> /\ Last(q) = "u"
  <2>1. Front(q) \in Seq(Letters)
    <3>1. Len(q) - 1 \in Nat /\ Len(q) - 1 <= Len(q)
      BY <1>1
    <3> QED
      BY <3>1 DEF Front
  <2>2. "w" \in Letters
    BY DEF Letters
  <2>3. RewriteLetter(q, c) = Append(Front(q), "w")
    BY <1>1 DEF RewriteLetter
  <2> QED
    BY <2>1, <2>2, <2>3
<1>2. CASE ~(c = "v" /\ q # <<>> /\ Last(q) = "u")
  <2>1. RewriteLetter(q, c) = Append(q, c)
    BY <1>2 DEF RewriteLetter
  <2> QED
    BY <2>1
<1> QED
  BY <1>1, <1>2

(* What rewriting returns: letters, and some of them if there were any.    *)
LEMMA RewriteType ==
    ASSUME NEW s \in Seq(Letters)
    PROVE  Rewrite(s) \in Seq(Letters) /\ (Rewrite(s) = <<>> <=> s = <<>>)
<1> DEFINE M == Len(s)
           Step(x, i) == IF i = 0 THEN <<>> ELSE RewriteLetter(x, s[i])
           Is(g, k) == g = [i \in 0 .. k |-> Step(g[i - 1], i)]
           S == {k \in 0 .. M : \E g : Is(g, k)}
           h == CHOOSE g : Is(g, M)
<1>a. M \in Nat
  OBVIOUS
<1>1. Rewrite(s) = h[M]
  BY DEF Rewrite
<1> HIDE DEF h, Step
<1>2. 0 \in S
  <2>1. Is([i \in 0 .. 0 |-> Step(<<>>, 0)], 0)
    BY DEF Step
  <2>2. \E g : Is(g, 0)
    <3> HIDE DEF Is
    <3> QED
      BY <2>1
  <2> HIDE DEF Is
  <2> QED
    BY <2>2, <1>a
<1>3. ASSUME NEW k \in 0 .. M, k # M, k \in S PROVE k + 1 \in S
  <2>1. PICK g : Is(g, k)
    BY <1>3
  <2> DEFINE u == [i \in 0 .. k + 1 |-> IF i <= k THEN g[i] ELSE Step(g[k], k + 1)]
  <2>2. Is(u, k + 1)
    <3>1. ASSUME NEW i \in 0 .. k + 1 PROVE u[i] = Step(u[i - 1], i)
      <4>1. CASE i = 0
        BY <4>1, <2>1 DEF Step
      <4>2. CASE i # 0 /\ i <= k
        <5>1. u[i - 1] = g[i - 1] /\ u[i] = g[i] /\ i \in 0 .. k
          BY <4>2
        <5> QED
          BY <5>1, <2>1
      <4>3. CASE ~(i <= k)
        <5>1. i = k + 1 /\ i - 1 \in 0 .. k + 1 /\ i - 1 = k
          BY <4>3
        <5>2. u[i - 1] = g[k] /\ u[i] = Step(g[k], k + 1)
          BY <5>1
        <5> QED
          BY <5>1, <5>2
      <4> QED
        BY <4>1, <4>2, <4>3
    <3>2. u = [i \in 0 .. k + 1 |-> u[i]]
      OBVIOUS
    <3> QED
      BY <3>1, <3>2
  <2>3. k + 1 \in 0 .. M
    BY <1>3
  <2> HIDE DEF Is, u
  <2> QED
    BY <2>2, <2>3
<1>4. M \in S
  <2>1. M \in Nat /\ \A i \in 0 .. M : i # M /\ i \in S => i + 1 \in S
    BY <1>3, <1>a
  <2> HIDE DEF S, M
  <2>2. \A i \in 0 .. M : i \in S
    BY <1>2, <2>1, UpTo
  <2> QED
    BY <2>1, <2>2
<1>5. Is(h, M)
  <2> HIDE DEF Is
  <2> QED
    BY <1>4 DEF h
<1>6. \A i \in 0 .. M : h[i] = Step(h[i - 1], i)
  BY <1>5
<1> HIDE DEF Is, S
<1> DEFINE U == {i \in 0 .. M : h[i] \in Seq(Letters) /\ (h[i] = <<>> <=> i = 0)}
<1>7. 0 \in U
  <2>1. h[0] = <<>> /\ <<>> \in Seq(Letters) /\ 0 \in 0 .. M
    BY <1>6, <1>a DEF Step
  <2> HIDE DEF M
  <2> QED
    BY <2>1
<1>8. ASSUME NEW i \in 0 .. M, i # M, i \in U PROVE i + 1 \in U
  <2>1. s[i + 1] \in Letters
    BY <1>8
  <2>2. i + 1 \in 0 .. M /\ (i + 1) - 1 = i /\ i + 1 # 0
    <3> HIDE DEF M
    <3> QED
      BY <1>8, <1>a
  <2>3. h[i + 1] = RewriteLetter(h[i], s[i + 1])
    BY <2>2, <1>6 DEF Step
  <2>4. h[i] \in Seq(Letters)
    BY <1>8
  <2>5. h[i + 1] \in Seq(Letters) \ {<<>>}
    BY <2>1, <2>3, <2>4, RewriteLetterType
  <2> QED
    BY <2>2, <2>5
<1>9. \A i \in 0 .. M : i \in U
  <2> HIDE DEF U
  <2> QED
    BY <1>7, <1>8, <1>a, UpTo
<1>10. h[M] \in Seq(Letters) /\ (h[M] = <<>> <=> M = 0)
  BY <1>9, <1>a
<1>11. M = 0 <=> s = <<>>
  OBVIOUS
<1> QED
  BY <1>1, <1>10, <1>11

-----------------------------------------------------------------------------
(* The messages.                                                           *)

(* A body in pieces.                                                       *)
LEMMA SplitParts ==
    ASSUME NEW T, NEW b \in Seq(T), NEW p \in Splits(b)
    PROVE  p \in Seq(Seq(T) \ {<<>>}) /\ FlattenSeq(p) = b
<1>1. p \in SeqOf(Pieces(b), Len(b)) /\ FlattenSeq(p) = b
  BY DEF Splits
<1>2. PICK k \in 0 .. Len(b) : p \in [1 .. k -> Pieces(b)]
  BY <1>1 DEF SeqOf
<1>3. \A i \in 1 .. k : p[i] \in Seq(T) \ {<<>>}
  <2> SUFFICES ASSUME NEW i \in 1 .. k PROVE p[i] \in Seq(T) \ {<<>>}
    OBVIOUS
  <2>1. p[i] \in Pieces(b)
    BY <1>2
  <2>2. PICK r \in (1 .. Len(b)) \X (1 .. Len(b)) : r[1] <= r[2] /\ p[i] = SubSeq(b, r[1], r[2])
    BY <2>1 DEF Pieces
  <2>3. /\ r[1] \in 1 .. Len(b) /\ r[2] \in 1 .. Len(b) /\ r[1] <= r[2] /\ Len(b) \in Nat
    BY <2>2
  <2>4. p[i] \in Seq(T) /\ Len(p[i]) = r[2] - r[1] + 1
    BY <2>2, <2>3
  <2> QED
    BY <2>3, <2>4
<1> QED
  BY <1>1, <1>2, <1>3

(* How requests and responses are framed, and what they may ask for.       *)
PlainRequest == m.method \in {"GET", "HEAD", "POST"} /\ ~m.te /\ m.cl = None /\ m.pieces = <<>>
BodyRequest == m.method = "POST" /\ m.cl = IF m.te THEN None ELSE Len(Body)
ConnectRequest == m.method = "CONNECT" /\ m.rule = "passthrough" /\ ~m.upgrade
EmptyResponse == m.method \in {"GET", "HEAD"} /\ m.status \in {204, 304} /\ ~m.upgrade /\ ~m.zip
HeadResponse == m.method = "HEAD" /\ m.status = 200 /\ ~m.upgrade /\ ~m.zip
InterimResponse ==
    m.method = "GET" /\ m.status \in {100, 101} /\ ~m.zip /\ ~m.text /\ m.pieces = <<>>
GetResponse ==
    /\ m.method = "GET" /\ m.status = 200
    /\ m.cl = None \/ (m.cl = Len(Body) /\ ~m.te)
ConnectResponse ==
    /\ m.method = "CONNECT" /\ m.status \in {200, 403}
    /\ ~m.te /\ ~m.upgrade /\ ~m.zip /\ ~m.text
    /\ m.pieces = <<<<"x">>>> /\ m.cl = IF m.status = 200 THEN None ELSE 1

MessageInv ==
    /\ {m.te, m.upgrade, m.peerUpgrade, m.zip, m.text, m.moved, m.http10} \subseteq BOOLEAN
    /\ m.cl \in {None} \cup Nat /\ m.status \in Nat /\ m.rule \in Rules
    /\ m.pieces \in Seq(Seq(Letters) \ {<<>>})
    /\ m.zip => /\ m.pieces \in Seq(Seq(Symbols))
                /\ \A i \in 1 .. Len(Body) - 1 : Body[i] # "eos"
    /\ \/ /\ IsRequest /\ ~m.zip
          /\ PlainRequest \/ BodyRequest \/ Malformed \/ ConnectRequest
       \/ EmptyResponse \/ HeadResponse \/ InterimResponse \/ GetResponse \/ ConnectResponse

(* The part of the body that k pieces have.                                *)
Prefix(k) == FlattenSeq(SubSeq(m.pieces, 1, k))

(* What the filters in front of the rewriting one make of it, and whether  *)
(* the decompressor lets go of it.                                         *)
Plain(q) == IF Decompresses THEN Inflate(q) ELSE q
Ready(q) == Decompresses => q # <<>> /\ Last(q) = "eos"

(* The headers that the encoder is given, and its decision.                *)
Mutated == IF IsRequest THEN MutateRequest(Decoded) ELSE MutateResponse(Decoded)
Framing == EncodeHeadersBase(Mutated, FALSE)
NoBodyFraming == EncodeHeadersBase(Mutated, TRUE)
Connection == ConnectionHeader(Mutated)
Draining == Drains(Mutated)

(* What was written of the body.                                           *)
Data(b) == FlattenSeq([i \in DOMAIN b |-> b[i].data])

Written ==
    [cl: {None} \cup Nat, te: BOOLEAN, connection: {"none", "close", "keep-alive"},
     body: Seq([chunk: BOOLEAN, data: Seq(Letters)]), ended: BOOLEAN, closes: BOOLEAN]

StartInv ==
    /\ n = 0 /\ ~w.ended /\ w.body = <<>>
    /\ f = [inflated |-> <<>>, held |-> <<>>, finished |-> FALSE]

(* The headers were written as Framing says, the filters hold what they    *)
(* must of the pieces decoded so far and the rest of it was sent.          *)
FrameInv ==
    /\ ~Refused /\ ~Deferred
    /\ w.cl = Framing.cl /\ w.te = Framing.te
    /\ ~IsRequest => w.connection = Connection /\ w.closes = Draining
HeadersInv == FrameInv /\ e = [chunk |-> Framing.chunk] /\ ~w.ended
FiltersInv(q) ==
    f = [inflated |-> IF Ready(q) THEN <<>> ELSE Inflate(q),
         held |-> IF Rewrites /\ Ready(q) THEN Plain(q) ELSE <<>>,
         finished |-> Decompresses /\ Ready(q)]
SentInv(q) ==
    /\ w.body \in Seq([chunk: {Framing.chunk}, data: Seq(Letters) \ {<<>>}])
    /\ Sent = IF ~Rewrites /\ Ready(q) THEN Plain(q) ELSE <<>>
BodyInv ==
    n \in 0 .. Len(m.pieces) /\ HeadersInv /\ FiltersInv(Prefix(n)) /\ SentInv(Prefix(n))

(* The inductive invariant.                                                *)
IInv ==
    /\ MessageInv /\ w \in Written
    /\ pc \in {"start", "deferred", "body", "done", "error", "abort"}
    /\ pc \notin {"body", "done"} => StartInv
    /\ pc = "deferred" => ~Refused /\ Deferred
    /\ pc = "body" => BodyInv
    /\ pc = "done" => FramingAgrees /\ BodyDelivered
    /\ pc # "done" => ~w.ended

(* A sequence of one element.                                              *)
LEMMA OneElement ==
    ASSUME NEW T, NEW x \in T
    PROVE  <<x>> \in Seq(T)
  OBVIOUS

(* Every message is of one of these kinds.                                 *)
LEMMA RequestKinds ==
    ASSUME m \in Requests
    PROVE  MessageInv
<1> USE DEF Message, IsRequest, Rules, None
<1>0. {"x", "u", "v"} \subseteq Letters /\ <<"x">> \in Seq(Letters) \ {<<>>}
  BY DEF Letters
<1>1. CASE m \in BareRequests
  <2>1. PICK a \in {"GET", "HEAD", "POST"}, up \in BOOLEAN, mv \in BOOLEAN, old \in BOOLEAN, r \in Rules :
            m = Message(a, 0, FALSE, None, <<>>, up, FALSE, FALSE, FALSE, r, mv, old)
    BY <1>1 DEF BareRequests
  <2>2. <<>> \in Seq(Seq(Letters) \ {<<>>})
    OBVIOUS
  <2> QED
    BY <2>1, <2>2 DEF PlainRequest, MessageInv
<1>2. CASE m \in UNION {BodyRequests(b) : b \in Bodies}
  <2>1. PICK b \in Bodies : m \in BodyRequests(b)
    BY <1>2
  <2>2. PICK p \in Splits(b), te \in BOOLEAN, up \in BOOLEAN, mv \in BOOLEAN, old \in BOOLEAN, r \in Rules :
            m = Message("POST", 0, te, IF te THEN None ELSE Len(b), p, up, FALSE, FALSE, FALSE, r, mv, old)
    BY <2>1 DEF BodyRequests
  <2>3. b \in Seq(Letters)
    BY <1>0, BodiesAssumption
  <2>4. p \in Seq(Seq(Letters) \ {<<>>}) /\ FlattenSeq(p) = b /\ Len(b) \in Nat
    <3>1. p \in Seq(Seq(Letters) \ {<<>>}) /\ FlattenSeq(p) = b
      BY <2>3, SplitParts
    <3> QED
      BY <3>1, <2>3
  <2>5. /\ m.pieces = p /\ ~m.zip /\ m.method = "POST" /\ m.status = 0 /\ m.te = te
        /\ m.cl = IF te THEN None ELSE Len(b)
        /\ m.upgrade \in BOOLEAN /\ m.zip = FALSE /\ m.peerUpgrade = FALSE /\ m.text = FALSE
        /\ m.moved \in BOOLEAN /\ m.http10 \in BOOLEAN /\ m.rule \in Rules
    BY <2>2
  <2>6. Body = b
    BY <2>5, <2>4 DEF Body
  <2>7. BodyRequest
    BY <2>5, <2>6 DEF BodyRequest
  <2>8. m.cl \in {None} \cup Nat /\ m.te \in BOOLEAN /\ m.status \in Nat
    BY <2>4, <2>5
  <2>9. m.pieces \in Seq(Seq(Letters) \ {<<>>})
    BY <2>4, <2>5
  <2> QED
    BY <2>5, <2>7, <2>8, <2>9 DEF MessageInv
<1>3. CASE m = TwiceFramed
  <2>1. <<<<"x">>>> \in Seq(Seq(Letters) \ {<<>>})
    BY <1>0, OneElement
  <2> QED
    BY <1>3, <2>1 DEF TwiceFramed, Malformed, MessageInv
<1>4. CASE m \in ConnectRequests
  <2>1. PICK te \in BOOLEAN, cl \in {None, 0, 1}, p \in {<<>>, <<<<"x">>>>} :
            m = Message("CONNECT", 0, te, cl, p, FALSE, FALSE, FALSE, FALSE, "passthrough", FALSE, FALSE)
    BY <1>4 DEF ConnectRequests
  <2>2. p \in Seq(Seq(Letters) \ {<<>>})
    <3>1. <<<<"x">>>> \in Seq(Seq(Letters) \ {<<>>})
      BY <1>0, OneElement
    <3>2. <<>> \in Seq(Seq(Letters) \ {<<>>})
      OBVIOUS
    <3> QED
      BY <3>1, <3>2
  <2> QED
    BY <2>1, <2>2 DEF ConnectRequest, MessageInv
<1> HIDE DEF Message, IsRequest
<1> QED
  BY <1>1, <1>2, <1>3, <1>4 DEF Requests

(* The same for the responses.                                             *)
LEMMA ResponseKinds ==
    ASSUME m \in Responses
    PROVE  MessageInv
<1> USE DEF Message, IsRequest, Rules, None
<1>0. {"x", "u", "v"} \subseteq Letters /\ Symbols \subseteq Letters /\ <<"x">> \in Seq(Letters) \ {<<>>}
  BY DEF Letters
<1>1. CASE m \in EmptyResponses
  <2>1. PICK a \in {"GET", "HEAD"}, s \in {204, 304}, te \in BOOLEAN, old \in BOOLEAN, cl \in {None, 0, 2}, r \in Rules :
            m = Message(a, s, te, cl, <<>>, FALSE, FALSE, FALSE, FALSE, r, FALSE, old)
    BY <1>1 DEF EmptyResponses
  <2>2. <<>> \in Seq(Seq(Letters) \ {<<>>})
    OBVIOUS
  <2> QED
    BY <2>1, <2>2 DEF EmptyResponse, MessageInv
<1>2. CASE m \in HeadResponses
  <2>1. PICK te \in BOOLEAN, old \in BOOLEAN, cl \in {None, 2}, r \in Rules :
            m = Message("HEAD", 200, te, cl, <<>>, FALSE, FALSE, FALSE, TRUE, r, FALSE, old)
    BY <1>2 DEF HeadResponses
  <2>2. <<>> \in Seq(Seq(Letters) \ {<<>>})
    OBVIOUS
  <2> QED
    BY <2>1, <2>2 DEF HeadResponse, MessageInv
<1>3. ASSUME NEW b, NEW zip \in BOOLEAN, m \in GetResponses(b, zip), IF zip THEN b \in ZipBodies ELSE b \in Bodies
      PROVE  MessageInv
  <2>2. PICK k \in {"te", "cl", "close"}, p \in Splits(b), up \in BOOLEAN, rqup \in BOOLEAN, text \in BOOLEAN,
             old \in BOOLEAN, r \in Rules :
            m = Message("GET", 200, k = "te", IF k = "cl" THEN Len(b) ELSE None, p, up, rqup, zip, text, r, FALSE, old)
    BY <1>3 DEF GetResponses
  <2>3. b \in Seq(Letters)
    BY <1>0, <1>3, BodiesAssumption DEF Symbols
  <2>4. p \in Seq(Seq(Letters) \ {<<>>}) /\ FlattenSeq(p) = b /\ Len(b) \in Nat
    <3>1. p \in Seq(Seq(Letters) \ {<<>>}) /\ FlattenSeq(p) = b
      BY <2>3, SplitParts
    <3> QED
      BY <3>1, <2>3
  <2>5. ASSUME zip
        PROVE  p \in Seq(Seq(Symbols)) /\ \A i \in 1 .. Len(b) - 1 : b[i] # "eos"
    <3>1. b \in Seq(Symbols) /\ \A i \in 1 .. Len(b) - 1 : b[i] # "eos"
      BY <1>3, <2>5, BodiesAssumption DEF Symbols
    <3>2. p \in Seq(Seq(Symbols) \ {<<>>})
      BY <3>1, SplitParts
    <3>3. p \in Seq(Seq(Symbols))
      BY <3>2
    <3> QED
      BY <3>1, <3>3
  <2>6. /\ m.pieces = p /\ m.zip = zip /\ m.method = "GET" /\ m.status = 200
        /\ m.te = (k = "te") /\ m.cl = IF k = "cl" THEN Len(b) ELSE None
        /\ m.upgrade \in BOOLEAN /\ m.peerUpgrade \in BOOLEAN /\ m.text \in BOOLEAN
        /\ m.moved \in BOOLEAN /\ m.http10 \in BOOLEAN /\ m.rule \in Rules
    BY <2>2
  <2>7. Body = b
    BY <2>6, <2>4 DEF Body
  <2>8. m.zip \in BOOLEAN /\ m.te \in BOOLEAN
    BY <2>6
  <2>9. m.zip => m.pieces \in Seq(Seq(Symbols)) /\ \A i \in 1 .. Len(Body) - 1 : Body[i] # "eos"
    BY <2>5, <2>6, <2>7
  <2>10. GetResponse
    BY <2>6, <2>7 DEF GetResponse
  <2> QED
    BY <2>4, <2>6, <2>8, <2>9, <2>10 DEF MessageInv
<1>4. CASE m \in ConnectResponses
  <2>1. PICK s \in {200, 403}, r \in Rules, old \in BOOLEAN :
            m = Message("CONNECT", s, FALSE, IF s = 200 THEN None ELSE 1, <<<<"x">>>>, FALSE, FALSE, FALSE, FALSE, r, FALSE, old)
    BY <1>4 DEF ConnectResponses
  <2>2. <<<<"x">>>> \in Seq(Seq(Letters) \ {<<>>})
    BY <1>0, OneElement
  <2> QED
    BY <2>1, <2>2 DEF ConnectResponse, MessageInv
<1>5. CASE m \in InterimResponses
  <2>1. PICK s \in {100, 101}, te \in BOOLEAN, up \in BOOLEAN, rqup \in BOOLEAN, old \in BOOLEAN,
             cl \in {None, 0, 2}, r \in Rules :
            m = Message("GET", s, te, cl, <<>>, up, rqup, FALSE, FALSE, r, FALSE, old)
    BY <1>5 DEF InterimResponses
  <2>2. <<>> \in Seq(Seq(Letters) \ {<<>>})
    OBVIOUS
  <2> QED
    BY <2>1, <2>2 DEF InterimResponse, MessageInv
<1> HIDE DEF Message, IsRequest
<1>6. CASE m \in UNION {GetResponses(b, FALSE) : b \in Bodies}
  <2>1. PICK b \in Bodies : m \in GetResponses(b, FALSE)
    BY <1>6
  <2> QED
    BY <1>3, <2>1
<1>7. CASE m \in UNION {GetResponses(b, TRUE) : b \in ZipBodies}
  <2>1. PICK b \in ZipBodies : m \in GetResponses(b, TRUE)
    BY <1>7
  <2> QED
    BY <1>3, <2>1
<1> QED
  BY <1>1, <1>2, <1>4, <1>5, <1>6, <1>7 DEF Responses

(* The whole body, and its beginning.                                      *)
LEMMA PrefixEnds ==
    ASSUME MessageInv
    PROVE  /\ Prefix(0) = <<>> /\ Prefix(Len(m.pieces)) = Body /\ Len(m.pieces) \in Nat
           /\ Body \in Seq(Letters) /\ (m.zip => Body \in Seq(Symbols))
<1>1. m.pieces \in Seq(Seq(Letters)) /\ (m.zip => m.pieces \in Seq(Seq(Symbols)))
  BY DEF MessageInv
<1>2. SubSeq(m.pieces, 1, 0) = <<>> /\ SubSeq(m.pieces, 1, Len(m.pieces)) = m.pieces /\ Len(m.pieces) \in Nat
  BY <1>1
<1>3. FlattenSeq(<<>>) = <<>>
  <2>1. <<>> \in Seq(Letters)
    OBVIOUS
  <2> QED
    BY <2>1, FlattenSmall
<1>4. Body \in Seq(Letters)
  BY <1>1, FlattenType DEF Body
<1>5. m.zip => Body \in Seq(Symbols)
  BY <1>1, FlattenType DEF Body
<1> QED
  BY <1>2, <1>3, <1>4, <1>5 DEF Prefix, Body

(* A piece more.                                                           *)
LEMMA PrefixStep ==
    ASSUME MessageInv, NEW k \in 0 .. Len(m.pieces), k # Len(m.pieces)
    PROVE  /\ Prefix(k) \in Seq(Letters)
           /\ m.pieces[k + 1] \in Seq(Letters) /\ m.pieces[k + 1] # <<>>
           /\ Prefix(k + 1) = Prefix(k) \o m.pieces[k + 1]
           /\ m.zip => Prefix(k) \in Seq(Symbols) /\ m.pieces[k + 1] \in Seq(Symbols)
<1> DEFINE p == m.pieces
           s == SubSeq(p, 1, k)
           x == p[k + 1]
<1>1. /\ p \in Seq(Seq(Letters) \ {<<>>}) /\ (m.zip => p \in Seq(Seq(Symbols)))
  BY DEF MessageInv
<1>2. Len(p) \in Nat /\ k \in Nat /\ k + 1 \in 1 .. Len(p)
  BY <1>1
<1>3. x \in Seq(Letters) /\ x # <<>> /\ (m.zip => x \in Seq(Symbols))
  <2>1. x \in Seq(Letters) \ {<<>>}
    BY <1>1, <1>2
  <2>2. m.zip => x \in Seq(Symbols)
    BY <1>1, <1>2
  <2> QED
    BY <2>1, <2>2
<1>4. p \in Seq(Seq(Letters))
  BY <1>1
<1> HIDE DEF p, x
<1>5. s \in Seq(Seq(Letters)) /\ (m.zip => s \in Seq(Seq(Symbols)))
  BY <1>1, <1>2, <1>4
<1>6. SubSeq(p, 1, k + 1) = Append(s, x)
  <2>1. /\ SubSeq(p, 1, k + 1) \in Seq(Seq(Letters)) /\ Len(SubSeq(p, 1, k + 1)) = k + 1
        /\ \A i \in 1 .. k + 1 : SubSeq(p, 1, k + 1)[i] = p[i]
    BY <1>2, <1>4
  <2>2. s \in Seq(Seq(Letters)) /\ Len(s) = k /\ \A i \in 1 .. k : s[i] = p[i]
    BY <1>2, <1>4
  <2> HIDE DEF s
  <2>3. /\ Append(s, x) \in Seq(Seq(Letters)) /\ Len(Append(s, x)) = k + 1
        /\ \A i \in 1 .. k + 1 : Append(s, x)[i] = IF i <= k THEN s[i] ELSE x
    BY <2>2, <1>2, <1>3
  <2>4. \A i \in 1 .. k + 1 : SubSeq(p, 1, k + 1)[i] = Append(s, x)[i]
    BY <2>1, <2>2, <2>3, <1>2 DEF x
  <2> QED
    BY <2>1, <2>3, <2>4, SeqEqual
<1>7. FlattenSeq(Append(s, x)) = FlattenSeq(s) \o x
  BY <1>3, <1>5, FlattenAppend
<1>8. FlattenSeq(s) \in Seq(Letters)
  BY <1>5, FlattenType
<1>9. m.zip => FlattenSeq(s) \in Seq(Symbols)
  BY <1>5, FlattenType
<1>10. Prefix(k) = FlattenSeq(s) /\ Prefix(k + 1) = FlattenSeq(SubSeq(p, 1, k + 1))
  BY DEF Prefix, p
<1> QED
  BY <1>3, <1>6, <1>7, <1>8, <1>9, <1>10 DEF x, p

(* The decompressor is not ready while there are pieces left: only the     *)
(* last symbol of a body can be its end.                                   *)
LEMMA NotReady ==
    ASSUME MessageInv, NEW k \in 0 .. Len(m.pieces), k # Len(m.pieces), Decompresses
    PROVE  /\ ~Ready(Prefix(k))
           /\ Ready(Prefix(k + 1)) <=> Last(m.pieces[k + 1]) = "eos"
<1> DEFINE q == Prefix(k)
           x == m.pieces[k + 1]
           p == m.pieces
           t == SubSeq(p, k + 1, Len(p))
<1>1. q \in Seq(Letters) /\ x \in Seq(Letters) /\ x # <<>> /\ Prefix(k + 1) = q \o x
  BY PrefixStep
<1>2. Last(q \o x) = Last(x) /\ q \o x # <<>>
  <2> HIDE DEF q, x
  <2>1. Len(q \o x) = Len(q) + Len(x) /\ Len(q) \in Nat /\ Len(x) \in Nat /\ Len(x) # 0
    BY <1>1
  <2>2. Len(x) \in 1 .. Len(x)
    BY <2>1
  <2>3. (q \o x)[Len(q) + Len(x)] = x[Len(x)]
    BY <1>1, <2>2, CatParts
  <2> QED
    BY <1>1, <2>1, <2>3 DEF Last
<1>3. Ready(Prefix(k + 1)) <=> Last(x) = "eos"
  BY <1>1, <1>2 DEF Ready
<1>4. ~Ready(q)
  <2> SUFFICES ASSUME q # <<>>, Last(q) = "eos" PROVE FALSE
    BY DEF Ready
  <2>1. p \in Seq(Seq(Letters)) /\ Len(p) \in Nat /\ k + 1 \in 1 .. Len(p) /\ k \in 0 .. Len(p)
    BY DEF MessageInv
  <2>2. SubSeq(p, 1, k) \in Seq(Seq(Letters)) /\ t \in Seq(Seq(Letters)) /\ p = SubSeq(p, 1, k) \o t
    <3> HIDE DEF p
    <3>1. p = SubSeq(p, 1, k) \o SubSeq(p, k + 1, Len(p))
      BY <2>1
    <3> QED
      BY <2>1, <3>1
  <2>3. Body = q \o FlattenSeq(t)
    <3>1. FlattenSeq(SubSeq(p, 1, k) \o t) = FlattenSeq(SubSeq(p, 1, k)) \o FlattenSeq(t)
      BY <2>2, FlattenCat
    <3> QED
      BY <2>2, <3>1 DEF Body, Prefix
  <2>4. FlattenSeq(t) # <<>> /\ FlattenSeq(t) \in Seq(Letters)
    <3>1. t[1] = x /\ Len(t) \in Nat /\ Len(t) >= 1
      <4> HIDE DEF p
      <4> QED
        BY <2>1 DEF p
    <3>2. PICK g \in [0 .. Len(t) -> Seq(Letters)] : Turns(g, t) /\ FlattenSeq(t) = g[Len(t)]
      BY <2>2, FlattenTurns
    <3> HIDE DEF t, x
    <3>3. g[0] = <<>> /\ \A i \in 1 .. Len(t) : g[i] = g[i - 1] \o t[i]
      BY <3>2 DEF Turns
    <3> DEFINE S == {i \in 0 .. Len(t) : i = 0 \/ g[i] # <<>>}
    <3>4. 0 \in S
      BY <3>1
    <3>5. ASSUME NEW i \in 0 .. Len(t), i # Len(t), i \in S PROVE i + 1 \in S
      <4>1. i + 1 \in 1 .. Len(t) /\ (i + 1) - 1 = i /\ i + 1 \in 0 .. Len(t)
        BY <3>1, <3>5
      <4>2. g[i + 1] = g[i] \o t[i + 1] /\ g[i] \in Seq(Letters) /\ t[i + 1] \in Seq(Letters)
        <5>1. g[i + 1] = g[i] \o t[i + 1]
          BY <4>1, <3>3
        <5>2. t \in Seq(Seq(Letters))
          BY <2>2
        <5>3. t[i + 1] \in Seq(Letters)
          BY <4>1, <5>2
        <5> QED
          BY <5>1, <5>3
      <4>3. CASE i = 0
        <5>1. g[1] = <<>> \o x
          BY <4>2, <4>3, <3>3, <3>1
        <5>2. g[1] = x
          BY <5>1, <1>1
        <5> QED
          BY <5>2, <4>1, <4>3, <1>1
      <4>4. CASE i # 0
        <5>1. g[i] # <<>>
          BY <4>4, <3>5
        <5>2. g[i + 1] # <<>>
          BY <5>1, <4>2
        <5> QED
          BY <4>1, <5>2
      <4> QED
        BY <4>3, <4>4
    <3>6. \A i \in 0 .. Len(t) : i \in S
      <4> HIDE DEF S
      <4> QED
        BY <3>1, <3>4, <3>5, UpTo
    <3>7. Len(t) \in S /\ Len(t) \in 0 .. Len(t) /\ Len(t) # 0
      BY <3>6, <3>1
    <3> QED
      BY <3>2, <3>7
  <2> DEFINE r == FlattenSeq(t)
  <2> HIDE DEF q, r, x
  <2>5. Len(q) \in 1 .. Len(Body) - 1 /\ Body[Len(q)] = q[Len(q)]
    <3>1. r \in Seq(Letters) /\ Len(r) \in Nat /\ Len(r) # 0 /\ Len(q) \in Nat /\ Len(q) # 0
      BY <2>4, <1>1 DEF r
    <3>2. Len(Body) = Len(q) + Len(r)
      BY <3>1, <2>3, <1>1 DEF r
    <3>3. Len(q) \in 1 .. Len(q)
      BY <3>1
    <3>4. (q \o r)[Len(q)] = q[Len(q)]
      BY <3>1, <3>3, <1>1, CatParts
    <3> QED
      BY <3>1, <3>2, <3>4, <2>3 DEF r
  <2>6. m.zip
    BY DEF Decompresses
  <2> QED
    BY <2>5, <2>6 DEF MessageInv, Last
<1> QED
  BY <1>3, <1>4

(* What was written of the body: nothing at first, and then what there was *)
(* and the piece that was added.                                           *)
LEMMA DataWritten ==
    ASSUME NEW b \in Seq([chunk: BOOLEAN, data: Seq(Letters)]), NEW r \in [chunk: BOOLEAN, data: Seq(Letters)]
    PROVE  /\ Data(b) \in Seq(Letters) /\ Data(<<>>) = <<>>
           /\ Data(Append(b, r)) = Data(b) \o r.data
<1> DEFINE A == [i \in DOMAIN b |-> b[i].data]
           c == Append(b, r)
           C == [i \in DOMAIN c |-> c[i].data]
<1>1. Len(b) \in Nat /\ DOMAIN b = 1 .. Len(b) /\ \A i \in 1 .. Len(b) : b[i].data \in Seq(Letters)
  <2> DEFINE R == [chunk: BOOLEAN, data: Seq(Letters)]
  <2>1. \A y \in R : y.data \in Seq(Letters)
    OBVIOUS
  <2> HIDE DEF R
  <2>2. b \in Seq(R)
    BY DEF R
  <2>3. \A i \in 1 .. Len(b) : b[i] \in R
    BY <2>2
  <2> QED
    BY <2>1, <2>2, <2>3
<1>2. A \in Seq(Seq(Letters)) /\ Len(A) = Len(b) /\ \A i \in 1 .. Len(b) : A[i] = b[i].data
  BY <1>1
<1>3. /\ Len(c) = Len(b) + 1 /\ DOMAIN c = 1 .. Len(b) + 1
      /\ \A i \in 1 .. Len(b) : c[i] = b[i]
      /\ c[Len(b) + 1] = r
  BY <1>1
<1>4. r.data \in Seq(Letters)
  OBVIOUS
<1>5. /\ DOMAIN C = 1 .. Len(b) + 1
      /\ \A i \in 1 .. Len(b) : C[i] = b[i].data
      /\ C[Len(b) + 1] = r.data
  BY <1>1, <1>3
<1>6. C \in Seq(Seq(Letters)) /\ Len(C) = Len(b) + 1
  <2>1. C = [i \in 1 .. Len(b) + 1 |-> C[i]]
    BY <1>5
  <2>2. \A i \in 1 .. Len(b) + 1 : C[i] \in Seq(Letters)
    BY <1>1, <1>4, <1>5
  <2> HIDE DEF C
  <2> QED
    BY <1>1, <2>1, <2>2
<1>7. C = Append(A, r.data)
  <2> HIDE DEF A, C
  <2>1. /\ Append(A, r.data) \in Seq(Seq(Letters)) /\ Len(Append(A, r.data)) = Len(b) + 1
        /\ \A i \in 1 .. Len(b) + 1 : Append(A, r.data)[i] = IF i <= Len(b) THEN A[i] ELSE r.data
    BY <1>1, <1>2, <1>4
  <2>2. \A i \in 1 .. Len(b) + 1 : C[i] = Append(A, r.data)[i]
    BY <2>1, <1>1, <1>2, <1>5
  <2> QED
    BY <2>1, <2>2, <1>6, SeqEqual
<1>8. FlattenSeq(Append(A, r.data)) = FlattenSeq(A) \o r.data
  BY <1>2, <1>4, FlattenAppend
<1>9. FlattenSeq(A) \in Seq(Letters)
  BY <1>2, FlattenType
<1>10. Data(<<>>) = <<>>
  <2>1. [i \in DOMAIN <<>> |-> (<<>>)[i].data] = <<>>
    OBVIOUS
  <2>2. FlattenSeq(<<>>) = <<>>
    BY <1>4, FlattenSmall
  <2> QED
    BY <2>1, <2>2 DEF Data
<1>11. Data(b) = FlattenSeq(A) /\ Data(c) = FlattenSeq(C)
  BY DEF Data
<1> QED
  BY <1>7, <1>8, <1>9, <1>10, <1>11

-----------------------------------------------------------------------------
(* The kinds of message that have a body to stream, and the ones that end  *)
(* with their headers.                                                     *)

(* A compressed message is a response.                                     *)
LEMMA ZipIsResponse ==
    ASSUME MessageInv, Decompresses
    PROVE  ~IsRequest /\ m.zip
  BY DEF MessageInv, Decompresses, EmptyResponse, HeadResponse, InterimResponse, GetResponse, ConnectResponse, IsRequest

(* A body is framed by its length or by chunks; nobody touches a tunnel.   *)
LEMMA StreamKinds ==
    ASSUME MessageInv, ~Refused, ~Deferred
    PROVE  /\ Tunnel => ~Rewrites /\ ~Decompresses
           /\ ~Tunnel => ~BodyIgnored
           /\ ~Tunnel /\ InterimResponse => ~m.te /\ m.cl \in {None, 0}
           /\ ~Tunnel /\ ~InterimResponse =>
                 /\ ~PeerExpectsNone /\ ~Interim /\ m.status \notin {204, 304} /\ ~(IsRequest /\ m.method = "CONNECT")
                 /\ \/ m.cl # None /\ ~m.te
                    \/ m.cl = None /\ m.te /\ IsRequest /\ m.method = "POST"
                    \/ m.cl = None /\ m.te /\ ~IsRequest /\ m.method = "GET" /\ m.status = 200
<1> USE DEF Interim, IsRequest, Tunnel, Deferred, Refused, RequestDeferred, ResponseDeferred, CannotHaveBody, Malformed,
            ConnectWithBody, ResponseRefused, None
<1>1. CASE IsRequest
  <2>1. ~m.zip /\ (PlainRequest \/ BodyRequest \/ ConnectRequest)
    BY <1>1 DEF MessageInv, EmptyResponse, HeadResponse, InterimResponse, GetResponse, ConnectResponse
  <2>2. ~PlainRequest
    BY <1>1 DEF PlainRequest
  <2>3. CASE BodyRequest
    <3>1. m.te \/ (~m.te /\ m.cl # None)
      BY <2>3, <1>1 DEF BodyRequest
    <3>2. ~Interim /\ m.status \notin {204, 304} /\ ~InterimResponse
      BY <1>1 DEF InterimResponse
    <3>3. ~Tunnel /\ m.method = "POST" /\ ~BodyIgnored /\ ~PeerExpectsNone
      BY <1>1, <2>3 DEF BodyRequest, BodyIgnored, PeerExpectsNone
    <3>4. m.te => m.cl = None
      BY <2>3 DEF BodyRequest
    <3> HIDE DEF Interim, Tunnel
    <3> QED
      BY <1>1, <3>1, <3>2, <3>3, <3>4
  <2>4. CASE ConnectRequest
    BY <1>1, <2>1, <2>4 DEF ConnectRequest, Rewrites, RewritesRequest, Passthrough, Decompresses
  <2> QED
    BY <2>1, <2>2, <2>3, <2>4
<1>2. CASE ~IsRequest
  <2>1. EmptyResponse \/ HeadResponse \/ InterimResponse \/ GetResponse \/ ConnectResponse
    BY <1>2 DEF MessageInv
  <2>2. ~EmptyResponse /\ ~HeadResponse
    BY <1>2 DEF EmptyResponse, HeadResponse
  <2>3. CASE InterimResponse
    <3>1. ~m.te /\ ~(m.cl > 0) /\ ~CannotHaveBody
      BY <1>2, <2>3 DEF InterimResponse
    <3>2. m.cl \in {None, 0}
      BY <3>1 DEF MessageInv
    <3> QED
      BY <1>2, <2>3, <3>1, <3>2 DEF InterimResponse, BodyIgnored
  <2>4. CASE GetResponse
    <3>1. m.status = 200 /\ m.method = "GET" /\ ~Interim
      BY <2>4 DEF GetResponse
    <3>2. ~CannotHaveBody /\ (m.te \/ m.cl \notin {None, 0})
      BY <1>2, <3>1
    <3>3. ~Tunnel /\ ~InterimResponse /\ m.status \notin {204, 304}
      BY <3>1 DEF InterimResponse
    <3> HIDE DEF Interim, CannotHaveBody, Tunnel
    <3>4. ~PeerExpectsNone /\ ~BodyIgnored
      BY <1>2, <3>1, <3>2, <3>3 DEF PeerExpectsNone, BodyIgnored
    <3>5. (m.cl # None /\ ~m.te) \/ (m.cl = None /\ m.te)
      BY <2>4, <3>2 DEF GetResponse
    <3> QED
      BY <1>2, <3>1, <3>3, <3>4, <3>5
  <2>5. CASE ConnectResponse
    <3>1. ~Interim /\ m.status \in {200, 403} /\ m.method = "CONNECT"
      BY <2>5 DEF ConnectResponse
    <3>2. ~Rewrites /\ ~Decompresses
      BY <1>2, <2>5 DEF ConnectResponse, Rewrites, RewritesResponse, Decompresses
    <3>3. ~CannotHaveBody \/ Tunnel
      BY <1>2
    <3>4. ~Tunnel => m.cl # None /\ ~m.te
      BY <1>2, <2>5, <3>1 DEF ConnectResponse
    <3> HIDE DEF Interim, CannotHaveBody, Tunnel
    <3> QED
      BY <1>2, <3>1, <3>2, <3>3, <3>4 DEF PeerExpectsNone, BodyIgnored, InterimResponse
  <2> QED
    BY <2>1, <2>2, <2>3, <2>4, <2>5
<1> QED
  BY <1>1, <1>2

(* A message that ends with its headers has no body, or one that is        *)
(* ignored.                                                                *)
LEMMA DeferredKinds ==
    ASSUME MessageInv, ~Refused, Deferred
    PROVE  /\ ~Tunnel /\ ~Interim /\ (BodyIgnored <=> ~IsRequest)
           /\ IsRequest => /\ Body = <<>> /\ ~m.te /\ m.cl \in {None, 0} /\ ~m.zip
                           /\ m.method \in {"GET", "HEAD", "POST"}
           /\ ~IsRequest /\ ~PeerExpectsNone =>
                 /\ m.method = "GET" /\ m.status = 200 /\ ~m.te
                 /\ m.cl = None \/ (m.cl = 0 /\ Body = <<>>)
<1> USE DEF Interim, IsRequest, Tunnel, Deferred, Refused, RequestDeferred, ResponseDeferred, CannotHaveBody, Malformed,
            ConnectWithBody, ResponseRefused, None
<1>0. Body \in Seq(Letters)
  BY PrefixEnds
<1>1. CASE IsRequest
  <2>1. ~m.zip /\ (PlainRequest \/ BodyRequest)
    BY <1>1 DEF MessageInv, EmptyResponse, HeadResponse, InterimResponse, GetResponse, ConnectResponse, ConnectRequest
  <2>2. ~m.te /\ ~(m.cl > 0) /\ ~Tunnel
    BY <1>1
  <2>3. CASE PlainRequest
    <3>1. Body = <<>>
      BY <2>3, FlattenSmall, OneElement DEF PlainRequest, Body
    <3> QED
      BY <1>1, <2>1, <2>2, <2>3, <3>1 DEF PlainRequest, BodyIgnored
  <2>4. CASE BodyRequest
    <3>1. m.cl = Len(Body) /\ m.method = "POST"
      BY <2>2, <2>4 DEF BodyRequest
    <3>2. m.cl = 0 /\ Body = <<>>
      BY <1>0, <2>2, <3>1
    <3> QED
      BY <1>1, <2>1, <2>2, <3>1, <3>2 DEF BodyIgnored
  <2> QED
    BY <2>1, <2>3, <2>4
<1>2. CASE ~IsRequest
  <2>1. EmptyResponse \/ HeadResponse \/ InterimResponse \/ GetResponse \/ ConnectResponse
    BY <1>2 DEF MessageInv
  <2>2. CannotHaveBody /\ ~Tunnel
    BY <1>2
  <2>3. BodyIgnored
    BY <1>2, <2>2 DEF BodyIgnored
  <2>4. CASE EmptyResponse \/ HeadResponse
    <3>1. m.status \in {200, 204, 304} /\ (m.method = "HEAD" \/ m.status \in {204, 304})
      BY <2>4 DEF EmptyResponse, HeadResponse
    <3>2. ~Interim
      BY <3>1
    <3> HIDE DEF Interim
    <3> QED
      BY <1>2, <2>2, <2>3, <3>1, <3>2 DEF PeerExpectsNone
  <2>5. CASE GetResponse
    <3>1. m.method = "GET" /\ m.status = 200 /\ ~m.te /\ m.cl \in {None, 0}
      BY <2>2, <2>5 DEF GetResponse
    <3>2. m.cl = 0 => Body = <<>>
      BY <1>0, <2>5 DEF GetResponse
    <3>3. ~Interim
      BY <3>1
    <3> HIDE DEF Interim
    <3> QED
      BY <1>2, <2>2, <2>3, <3>1, <3>2, <3>3
  <2>6. CASE ConnectResponse
    BY <1>2, <2>2, <2>6 DEF ConnectResponse
  <2>7. ~InterimResponse
    <3>1. ASSUME m.status \in {100, 101}
          PROVE  ~(m.status >= 200) /\ m.status \notin {204, 304}
      BY <3>1
    <3> QED
      BY <2>2, <3>1 DEF InterimResponse
  <2> QED
    BY <2>1, <2>4, <2>5, <2>6, <2>7
<1> QED
  BY <1>1, <1>2

(* A withheld response is one of those whose headers are deferred.         *)
LEMMA WithheldKinds ==
    ASSUME MessageInv, ~Refused, ~Deferred
    PROVE  ~Withheld
<1>1. m.cl \in {None} \cup Nat /\ m.status \in Nat
  BY DEF MessageInv
<1> QED
  BY <1>1 DEF Withheld, AwaitsBody, Refused, ResponseRefused, Deferred, ResponseDeferred, CannotHaveBody, Tunnel,
              IsRequest, None

-----------------------------------------------------------------------------
(* The filters.                                                            *)

(* What the rewriting filter holds, and nothing else, changes.             *)
LEMMA NowHeld ==
    ASSUME NEW i, NEW h, NEW fin, NEW y, NEW g, g = [inflated |-> i, held |-> h, finished |-> fin]
    PROVE  [g EXCEPT !.held = y] = [inflated |-> i, held |-> y, finished |-> fin]
  OBVIOUS

(* The same for the length of the headers.                                 *)
LEMMA NowLength ==
    ASSUME NEW y, NEW z
    PROVE  [[cl |-> z, te |-> FALSE, chunk |-> FALSE] EXCEPT !.cl = y] = [cl |-> y, te |-> FALSE, chunk |-> FALSE]
  OBVIOUS

(* The next piece: the filters hold what they must, and what they let go   *)
(* continues what was sent.                                                *)
LEMMA FilterPiece ==
    ASSUME MessageInv, BodyInv, n # Len(m.pieces)
    PROVE  LET d == m.pieces[n + 1]
               q == Prefix(n + 1)
               a == IF IsRequest THEN FilterRequest(d, FALSE) ELSE FilterResponse(d, FALSE)
           IN  /\ a.go <=> ~Rewrites /\ Ready(q)
               /\ a.go => a.data \in Seq(Letters) /\ Sent \o a.data = Plain(q)
               /\ a.g = [inflated |-> IF Ready(q) THEN <<>> ELSE Inflate(q),
                         held |-> IF Rewrites /\ Ready(q) THEN Plain(q) ELSE <<>>,
                         finished |-> Decompresses /\ Ready(q)]
<1> DEFINE d == m.pieces[n + 1]
           b == Prefix(n)
           q == Prefix(n + 1)
           a == IF IsRequest THEN FilterRequest(d, FALSE) ELSE FilterResponse(d, FALSE)
<1> SUFFICES /\ a.go <=> ~Rewrites /\ Ready(q)
             /\ a.go => a.data \in Seq(Letters) /\ Sent \o a.data = Plain(q)
             /\ a.g = [inflated |-> IF Ready(q) THEN <<>> ELSE Inflate(q),
                       held |-> IF Rewrites /\ Ready(q) THEN Plain(q) ELSE <<>>,
                       finished |-> Decompresses /\ Ready(q)]
  OBVIOUS
<1>0. n \in 0 .. Len(m.pieces)
  BY DEF BodyInv
<1>1. /\ b \in Seq(Letters) /\ d \in Seq(Letters) /\ d # <<>> /\ q = b \o d
      /\ m.zip => b \in Seq(Symbols) /\ d \in Seq(Symbols)
  BY <1>0, PrefixStep
<1>2. /\ f = [inflated |-> IF Ready(b) THEN <<>> ELSE Inflate(b),
              held |-> IF Rewrites /\ Ready(b) THEN Plain(b) ELSE <<>>,
              finished |-> Decompresses /\ Ready(b)]
      /\ Sent = IF ~Rewrites /\ Ready(b) THEN Plain(b) ELSE <<>>
  BY DEF BodyInv, FiltersInv, SentInv
<1>3. CASE Decompresses
  <2>1. ~IsRequest /\ m.zip
    BY <1>3, ZipIsResponse
  <2>2. ~Ready(b) /\ (Ready(q) <=> Last(d) = "eos")
    BY <1>0, <1>3, NotReady
  <2>3. Inflate(q) = Inflate(b) \o Inflate(d) /\ Inflate(b) \in Seq(Letters) /\ Inflate(d) \in Seq(Letters)
    BY <1>1, <2>1, InflateCat
  <2>4. f = [inflated |-> Inflate(b), held |-> <<>>, finished |-> FALSE] /\ Sent = <<>>
    BY <1>2, <2>2
  <2>5. Inflate(q) \in Seq(Letters) /\ <<>> \o Inflate(q) = Inflate(q)
    <3> HIDE DEF b, d, q
    <3>1. Inflate(q) \in Seq(Letters)
      BY <2>3
    <3> QED
      BY <3>1
  <2>6. Plain(q) = Inflate(q)
    BY <1>3 DEF Plain
  <2>7. Rewrites = RewritesResponse
    BY <2>1 DEF Rewrites
  <2> DEFINE dec == Decompress(f, d)
  <2>8. a = IF dec.go /\ RewritesResponse THEN Collect(dec.g, dec.data, FALSE) ELSE dec
    BY <1>3, <2>1 DEF FilterResponse
  <2> HIDE DEF b, d, q, a
  <2>9. CASE Last(d) = "eos"
    <3>1. dec = [go |-> TRUE, data |-> Inflate(q), g |-> [inflated |-> <<>>, held |-> <<>>, finished |-> TRUE]]
      BY <1>1, <2>3, <2>4, <2>9 DEF Decompress
    <3> HIDE DEF dec
    <3>2. CASE RewritesResponse
      <4>1. a = Collect(dec.g, dec.data, FALSE)
        BY <2>8, <3>1, <3>2
      <4>2. a = [go |-> FALSE, data |-> <<>>, g |-> [inflated |-> <<>>, held |-> Inflate(q), finished |-> TRUE]]
        <5>1. dec.g = [inflated |-> <<>>, held |-> <<>>, finished |-> TRUE] /\ dec.data = Inflate(q)
          BY <3>1
        <5>2. a = [go |-> FALSE, data |-> <<>>, g |-> [dec.g EXCEPT !.held = <<>> \o Inflate(q)]]
          BY <4>1, <5>1 DEF Collect
        <5> DEFINE g == dec.g
                   y == Inflate(q)
                   none == <<>>
                   yes == TRUE
        <5>3. [g EXCEPT !.held = y] = [inflated |-> none, held |-> y, finished |-> yes]
          <6>1. g = [inflated |-> none, held |-> none, finished |-> yes]
            BY <5>1
          <6> HIDE DEF g, y, none, yes
          <6> QED
            BY <6>1, NowHeld
        <5> QED
          BY <5>2, <5>3, <2>5, Zenon
      <4> QED
        BY <4>2, <2>2, <2>6, <2>7, <2>9, <3>2, <1>3
    <3>3. CASE ~RewritesResponse
      <4>1. a = dec
        BY <2>8, <3>3
      <4> QED
        BY <4>1, <3>1, <2>2, <2>4, <2>5, <2>6, <2>7, <2>9, <3>3, <1>3
    <3> QED
      BY <3>2, <3>3
  <2>10. CASE Last(d) # "eos"
    <3>1. dec = [go |-> FALSE, data |-> <<>>, g |-> [inflated |-> Inflate(q), held |-> <<>>, finished |-> FALSE]]
      BY <1>1, <2>3, <2>4, <2>10 DEF Decompress
    <3> HIDE DEF dec
    <3>2. a = dec
      BY <2>8, <3>1
    <3> QED
      BY <3>1, <3>2, <2>2, <2>6, <2>7, <2>10, <1>3
  <2> QED
    BY <2>9, <2>10
<1>4. CASE ~Decompresses
  <2>1. Ready(b) /\ Ready(q) /\ Plain(b) = b /\ Plain(q) = q
    BY <1>4 DEF Ready, Plain
  <2>2. f = [inflated |-> <<>>, held |-> IF Rewrites THEN b ELSE <<>>, finished |-> FALSE]
        /\ Sent = IF Rewrites THEN <<>> ELSE b
    BY <1>2, <1>4, <2>1
  <2>3. a = IF Rewrites THEN Collect(f, d, FALSE) ELSE [go |-> TRUE, data |-> d, g |-> f]
    BY <1>4 DEF FilterRequest, FilterResponse, Rewrites
  <2> HIDE DEF b, d, q, a
  <2>4. CASE Rewrites
    <3>1. a = [go |-> FALSE, data |-> <<>>, g |-> [inflated |-> <<>>, held |-> q, finished |-> FALSE]]
      BY <2>2, <2>3, <2>4, <1>1 DEF Collect
    <3> QED
      BY <3>1, <2>1, <2>4, <1>4
  <2>5. CASE ~Rewrites
    BY <1>1, <2>1, <2>2, <2>3, <2>5, <1>4
  <2> QED
    BY <2>4, <2>5
<1> QED
  BY <1>3, <1>4

(* The end of the stream: what the filters still hold is what is missing.  *)
LEMMA FilterEnd ==
    ASSUME MessageInv, BodyInv, n = Len(m.pieces)
    PROVE  LET a == IF IsRequest THEN FilterRequest(<<>>, TRUE) ELSE FilterResponse(<<>>, TRUE)
           IN  /\ a.go <=> Ready(Body)
               /\ a.go => a.data \in Seq(Letters) /\ Sent \o a.data = Changed /\ Changed \in Seq(Letters)
<1> DEFINE a == IF IsRequest THEN FilterRequest(<<>>, TRUE) ELSE FilterResponse(<<>>, TRUE)
           b == Body
<1> SUFFICES /\ a.go <=> Ready(b)
             /\ a.go => a.data \in Seq(Letters) /\ Sent \o a.data = Changed /\ Changed \in Seq(Letters)
  OBVIOUS
<1>1. b \in Seq(Letters) /\ (m.zip => b \in Seq(Symbols)) /\ Prefix(n) = b
  BY PrefixEnds
<1>2. /\ f = [inflated |-> IF Ready(b) THEN <<>> ELSE Inflate(b),
              held |-> IF Rewrites /\ Ready(b) THEN Plain(b) ELSE <<>>,
              finished |-> Decompresses /\ Ready(b)]
      /\ Sent = IF ~Rewrites /\ Ready(b) THEN Plain(b) ELSE <<>>
  BY <1>1 DEF BodyInv, FiltersInv, SentInv
<1>3. Plain(b) \in Seq(Letters)
  <2>1. CASE Decompresses
    <3>1. b \in Seq(Symbols)
      BY <1>1, <2>1, ZipIsResponse
    <3>2. Inflate(b) \in Seq(Letters)
      BY <3>1, InflateCat
    <3> QED
      BY <2>1, <3>2 DEF Plain
  <2>2. CASE ~Decompresses
    BY <1>1, <2>2 DEF Plain
  <2> QED
    BY <2>1, <2>2
<1>4. Changed = IF Rewrites THEN Rewrite(Plain(b)) ELSE Plain(b)
  BY DEF Changed, Plain
<1>5. Rewrite(Plain(b)) \in Seq(Letters)
  BY <1>3, RewriteType
<1>6. Changed \in Seq(Letters)
  BY <1>3, <1>4, <1>5
<1>7. /\ <<>> \o Rewrite(Plain(b)) = Rewrite(Plain(b))
      /\ Plain(b) \o <<>> = Plain(b)
  BY <1>3, <1>5
<1>8. CASE Decompresses
  <2>1. ~IsRequest
    BY <1>8, ZipIsResponse
  <2>2. Rewrites = RewritesResponse
    BY <2>1 DEF Rewrites
  <2> DEFINE dec == Decompress(f, <<>>)
  <2>3. a = IF dec.go /\ RewritesResponse THEN Collect(dec.g, dec.data, TRUE) ELSE dec
    BY <1>8, <2>1 DEF FilterResponse
  <2> HIDE DEF a, b
  <2>4. CASE Ready(b)
    <3>1. dec = [go |-> TRUE, data |-> <<>>,
                 g |-> [inflated |-> <<>>, held |-> IF Rewrites THEN Plain(b) ELSE <<>>, finished |-> TRUE]]
      <4>1. f = [inflated |-> <<>>, held |-> IF Rewrites THEN Plain(b) ELSE <<>>, finished |-> TRUE]
        BY <1>2, <2>4, <1>8
      <4>2. <<>> \o Inflate(<<>>) = <<>>
        BY InflateEmpty
      <4> QED
        BY <4>1, <4>2 DEF Decompress
    <3> HIDE DEF dec
    <3>2. CASE RewritesResponse
      <4>1. a = Collect(dec.g, dec.data, TRUE) /\ dec.g.held = Plain(b) /\ dec.data = <<>>
        <5>1. dec.go = TRUE /\ dec.data = <<>>
          BY <3>1
        <5>2. dec.g.held = Plain(b)
          BY <3>1, <2>2, <3>2
        <5> QED
          BY <5>1, <5>2, <2>3, <3>2
      <4>2. a.go = TRUE /\ a.data = Rewrite(Plain(b))
        BY <4>1, <1>7 DEF Collect
      <4>3. Sent = <<>>
        BY <1>2, <2>2, <3>2
      <4> QED
        BY <4>2, <4>3, <1>4, <1>5, <1>6, <1>7, <2>2, <2>4, <3>2
    <3>3. CASE ~RewritesResponse
      <4>1. a.go = TRUE /\ a.data = <<>>
        BY <2>3, <3>1, <3>3
      <4>2. Sent = Plain(b)
        BY <1>2, <2>2, <2>4, <3>3
      <4> QED
        BY <4>1, <4>2, <1>4, <1>6, <1>7, <2>2, <2>4, <3>3
    <3> QED
      BY <3>2, <3>3
  <2>5. CASE ~Ready(b)
    <3>1. f.finished = FALSE
      BY <1>2, <2>5
    <3>2. dec.go = FALSE
      BY <3>1 DEF Decompress
    <3>3. a.go = FALSE
      BY <2>3, <3>2
    <3> QED
      BY <2>5, <3>3
  <2> QED
    BY <2>4, <2>5
<1>9. CASE ~Decompresses
  <2>1. Ready(b)
    BY <1>9 DEF Ready
  <2>2. a = IF Rewrites THEN Collect(f, <<>>, TRUE) ELSE [go |-> TRUE, data |-> <<>>, g |-> f]
    BY <1>9 DEF FilterRequest, FilterResponse, Rewrites
  <2> HIDE DEF a, b
  <2>3. CASE Rewrites
    <3>1. f.held = Plain(b) /\ Sent = <<>>
      BY <1>2, <2>1, <2>3
    <3>2. a.go = TRUE /\ a.data = Rewrite(Plain(b))
      BY <2>2, <2>3, <3>1, <1>7 DEF Collect
    <3> QED
      BY <3>1, <3>2, <1>4, <1>5, <1>6, <1>7, <2>1, <2>3
  <2>4. CASE ~Rewrites
    <3>1. a.go = TRUE /\ a.data = <<>> /\ Sent = Plain(b)
      BY <1>2, <2>1, <2>2, <2>4
    <3> QED
      BY <3>1, <1>4, <1>6, <1>7, <2>1, <2>4
  <2> QED
    BY <2>3, <2>4
<1> QED
  BY <1>8, <1>9

-----------------------------------------------------------------------------
(* The encoder.                                                            *)

(* The decision about the framing.                                         *)
LEMMA FramingParts ==
    ASSUME MessageInv, NEW end \in BOOLEAN
    PROVE  LET b == EncodeHeadersBase(Mutated, end)
           IN  /\ b.cl \in {None} \cup Nat /\ b.te \in BOOLEAN /\ b.chunk \in BOOLEAN
               /\ b = [cl |-> b.cl, te |-> b.te, chunk |-> b.chunk]
<1> DEFINE h == Mutated
<1>1. h.cl \in {None} \cup Nat /\ h.upgrade \in BOOLEAN
  BY DEF MessageInv, Mutated, MutateRequest, MutateResponse, Decoded, None
<1>2. m.http10 \in BOOLEAN
  BY DEF MessageInv
<1>3. ToHead \in BOOLEAN /\ ToConnect \in BOOLEAN /\ DisableChunks \in BOOLEAN /\ ShouldHaveNoBody \in BOOLEAN
  BY DEF ToHead, ToConnect, DisableChunks, ShouldHaveNoBody
<1> HIDE DEF h
<1> SUFFICES LET b == EncodeHeadersBase(h, end)
             IN  /\ b.cl \in {None} \cup Nat /\ b.te \in BOOLEAN /\ b.chunk \in BOOLEAN
                 /\ b = [cl |-> b.cl, te |-> b.te, chunk |-> b.chunk]
  BY DEF h
<1> DEFINE u == [cl |-> h.cl, te |-> FALSE, chunk |-> FALSE]
           b == EncodeHeadersBase(h, end)
<1> DEFINE Ok(x) == /\ x.cl \in {None} \cup Nat /\ x.te \in BOOLEAN /\ x.chunk \in BOOLEAN
                    /\ x = [cl |-> x.cl, te |-> x.te, chunk |-> x.chunk]
<1>4. \A y \in {None} \cup Nat, s, t \in BOOLEAN : Ok([cl |-> y, te |-> s, chunk |-> t])
  OBVIOUS
<1>5. Ok(b)
  <2>1. CASE h.cl # None \/ DisableChunks \/ Interim \/ m.status \in {204, 304}
    <3>1. b = u
      BY <2>1 DEF EncodeHeadersBase
    <3> HIDE DEF b, Ok
    <3> QED
      BY <3>1, <1>1, <1>4
  <2>2. CASE ~(h.cl # None \/ DisableChunks \/ Interim \/ m.status \in {204, 304}) /\ end /\ ~ToHead
    <3> DEFINE y == IF IsRequest /\ ShouldHaveNoBody THEN None ELSE 0
    <3>1. b = [u EXCEPT !.cl = y]
      BY <2>2 DEF EncodeHeadersBase
    <3>2. y \in {None} \cup Nat
      OBVIOUS
    <3> HIDE DEF y
    <3>3. [u EXCEPT !.cl = y] = [cl |-> y, te |-> FALSE, chunk |-> FALSE]
      BY NowLength, Zenon
    <3> HIDE DEF b, Ok
    <3> QED
      BY <3>1, <3>2, <3>3, <1>4
  <2>3. CASE ~(h.cl # None \/ DisableChunks \/ Interim \/ m.status \in {204, 304}) /\ ~(end /\ ~ToHead) /\ m.http10
    <3>1. b = u
      BY <2>3 DEF EncodeHeadersBase
    <3> HIDE DEF b, Ok
    <3> QED
      BY <3>1, <1>1, <1>4
  <2>4. CASE ~(h.cl # None \/ DisableChunks \/ Interim \/ m.status \in {204, 304}) /\ ~(end /\ ~ToHead) /\ ~m.http10
    <3> DEFINE s == ~ToConnect
               t == ~h.upgrade /\ ~ToHead /\ ~ToConnect
    <3>1. b = [cl |-> None, te |-> s, chunk |-> t]
      BY <2>4 DEF EncodeHeadersBase
    <3>2. s \in BOOLEAN /\ t \in BOOLEAN /\ None \in {None} \cup Nat
      OBVIOUS
    <3> HIDE DEF b, Ok, s, t
    <3> QED
      BY <3>1, <3>2, <1>4
  <2> QED
    BY <2>1, <2>2, <2>3, <2>4
<1> QED
  BY <1>5

(* A piece of the body is written, unless it is empty.                     *)
LEMMA WritesData ==
    ASSUME NEW c \in BOOLEAN, NEW data \in Seq(Letters), w \in Written, e = [chunk |-> c],
           w.body \in Seq([chunk: {c}, data: Seq(Letters) \ {<<>>}])
    PROVE  LET v == EncodeData(data, FALSE)
           IN  /\ v \in Written /\ v.cl = w.cl /\ v.te = w.te /\ v.ended = w.ended
               /\ v.connection = w.connection /\ v.closes = w.closes
               /\ v.body \in Seq([chunk: {c}, data: Seq(Letters) \ {<<>>}])
               /\ Data(v.body) = Sent \o data
<1> DEFINE R == [chunk: {c}, data: Seq(Letters) \ {<<>>}]
           Q == [chunk: BOOLEAN, data: Seq(Letters)]
           r == [chunk |-> c, data |-> data]
           v == EncodeData(data, FALSE)
           nb == IF data = <<>> THEN w.body ELSE Append(w.body, r)
<1>1. v = [w EXCEPT !.body = nb]
  BY DEF EncodeData
<1>2. r \in Q /\ r.data = data /\ (data # <<>> => r \in R)
  OBVIOUS
<1>3. w.body \in Seq(Q) /\ w.body \in Seq(R)
  BY DEF Written
<1>4. Sent = Data(w.body)
  BY DEF Sent, Data
<1>5. nb \in Seq(R)
  <2> HIDE DEF R, r
  <2> QED
    BY <1>2, <1>3
<1>6. nb \in Seq(Q)
  <2> HIDE DEF Q, r
  <2> QED
    BY <1>2, <1>3
<1>7. Data(nb) = Sent \o data
  <2>1. CASE data = <<>>
    <3>1. Data(w.body) \in Seq(Letters)
      BY <1>2, <1>3, DataWritten
    <3> QED
      BY <2>1, <3>1, <1>4
  <2>2. CASE data # <<>>
    <3>1. Data(Append(w.body, r)) = Data(w.body) \o r.data
      BY <1>2, <1>3, DataWritten
    <3> QED
      BY <2>2, <3>1, <1>2, <1>4
  <2> QED
    BY <2>1, <2>2
<1> HIDE DEF nb
<1>8. /\ v \in Written /\ v.cl = w.cl /\ v.te = w.te /\ v.ended = w.ended
      /\ v.connection = w.connection /\ v.closes = w.closes /\ v.body = nb
  BY <1>1, <1>6 DEF Written
<1> QED
  BY <1>5, <1>7, <1>8

(* How the pieces of a message that has ended look.                        *)
Shaped(b, c) ==
    IF c THEN /\ b # <<>>
              /\ \A i \in DOMAIN b : b[i].chunk /\ (b[i].data = <<>> <=> i = Len(b))
    ELSE \A i \in DOMAIN b : ~b[i].chunk /\ b[i].data # <<>>

(* The end: the empty chunk is the last one, and the only empty one.       *)
LEMMA Ends ==
    ASSUME NEW c \in BOOLEAN, NEW v \in Written,
           v.body \in Seq([chunk: {c}, data: Seq(Letters) \ {<<>>}])
    PROVE  LET u == EndEncode(v, c)
           IN  /\ u \in Written /\ u.cl = v.cl /\ u.te = v.te /\ u.ended
               /\ u.connection = v.connection /\ u.closes = v.closes
               /\ Data(u.body) = Data(v.body) /\ Shaped(u.body, c)
               /\ ~c => u.body = v.body
<1> DEFINE R == [chunk: {c}, data: Seq(Letters) \ {<<>>}]
           Q == [chunk: BOOLEAN, data: Seq(Letters)]
           r == [chunk |-> TRUE, data |-> <<>>]
           u == EndEncode(v, c)
           b == v.body
           nb == IF c THEN Append(b, r) ELSE b
<1>1. u = [v EXCEPT !.ended = TRUE, !.body = nb]
  BY DEF EndEncode
<1>2. r \in Q /\ r.data = <<>> /\ r.chunk = TRUE
  OBVIOUS
<1>3. b \in Seq(Q) /\ b \in Seq(R)
  BY DEF Written
<1>4. \A y \in R : y.chunk = c /\ y.data # <<>>
  OBVIOUS
<1>5. nb \in Seq(Q)
  <2> HIDE DEF Q, r, b
  <2> QED
    BY <1>2, <1>3
<1>6. Data(nb) = Data(b)
  <2>1. Data(b) \in Seq(Letters) /\ Data(Append(b, r)) = Data(b) \o r.data
    BY <1>2, <1>3, DataWritten
  <2>2. Data(b) \o <<>> = Data(b)
    BY <2>1
  <2> QED
    BY <2>1, <2>2, <1>2
<1>7. Shaped(nb, c)
  <2> HIDE DEF R, Q, r, b
  <2>1. \A i \in 1 .. Len(b) : b[i].chunk = c /\ b[i].data # <<>>
    BY <1>3, <1>4
  <2>2. Len(b) \in Nat /\ DOMAIN b = 1 .. Len(b)
    BY <1>3
  <2>3. CASE c
    <3> DEFINE x == Append(b, r)
    <3>1. /\ DOMAIN x = 1 .. Len(b) + 1 /\ Len(x) = Len(b) + 1 /\ x # <<>>
          /\ \A i \in 1 .. Len(b) : x[i] = b[i]
          /\ x[Len(b) + 1] = r
      BY <1>2, <1>3, <2>2
    <3> HIDE DEF x
    <3>2. ASSUME NEW i \in DOMAIN x PROVE x[i].chunk /\ (x[i].data = <<>> <=> i = Len(x))
      <4>1. CASE i = Len(b) + 1
        BY <4>1, <3>1, <1>2
      <4>2. CASE i # Len(b) + 1
        <5>1. i \in 1 .. Len(b) /\ i # Len(x)
          BY <4>2, <3>1, <2>2
        <5> QED
          BY <5>1, <3>1, <2>1, <2>3
      <4> QED
        BY <4>1, <4>2
    <3> QED
      BY <2>3, <3>1, <3>2 DEF Shaped, x
  <2>4. CASE ~c
    BY <2>1, <2>2, <2>4 DEF Shaped
  <2> QED
    BY <2>3, <2>4
<1>8. /\ u \in Written /\ u.cl = v.cl /\ u.te = v.te /\ u.ended
      /\ u.connection = v.connection /\ u.closes = v.closes /\ u.body = nb
  <2> HIDE DEF nb
  <2> QED
    BY <1>1, <1>5 DEF Written
<1> QED
  BY <1>6, <1>7, <1>8

-----------------------------------------------------------------------------
(* The end of a message.                                                   *)

(* A message whose body was streamed, one that ended with its headers, one *)
(* the decompressor waits for, and a tunnel.                               *)
StreamEnd ==
    /\ FrameInv /\ ~Tunnel /\ Ready(Body)
    /\ w.ended /\ Sent = Changed /\ Shaped(w.body, Framing.chunk)
HeadersEnd ==
    /\ ~Refused /\ Deferred /\ ~AwaitsBody /\ w.ended /\ w.body = <<>>
    /\ w.cl = NoBodyFraming.cl /\ w.te = NoBodyFraming.te
HeldEnd == ~Refused /\ ~Deferred /\ ~Tunnel /\ ~Ready(Body) /\ ~w.ended /\ Sent = <<>>
TunnelEnd == ~Refused /\ ~Deferred /\ Tunnel /\ ~w.ended /\ Sent = Body

(* The length and the upgrade that the encoder sees.                       *)
LEMMA MutatedParts ==
    /\ ~Interim /\ m.status # 204 /\ ~(IsRequest /\ m.method = "CONNECT") => Mutated.cl = m.cl
    /\ Mutated.upgrade = IF IsRequest THEN m.upgrade ELSE m.upgrade /\ m.peerUpgrade
  BY DEF Mutated, MutateRequest, MutateResponse, Decoded

(* An empty body stays empty, and the rewriting filter empties none.       *)
LEMMA ChangedEmpty ==
    ASSUME MessageInv
    PROVE  /\ Body = <<>> => Changed = <<>>
           /\ ~Decompresses => (Changed = <<>> <=> Body = <<>>)
<1>1. Body \in Seq(Letters)
  BY PrefixEnds
<1>2. <<>> \in Seq(Letters) /\ Rewrite(<<>>) = <<>>
  <2>1. <<>> \in Seq(Letters)
    OBVIOUS
  <2> QED
    BY <2>1, RewriteType
<1>3. Rewrite(Body) = <<>> <=> Body = <<>>
  BY <1>1, RewriteType
<1>4. Inflate(<<>>) = <<>>
  BY InflateEmpty
<1> QED
  BY <1>2, <1>3, <1>4 DEF Changed

(* Pieces that hold data are none if they hold none together.              *)
LEMMA NothingWritten ==
    ASSUME NEW b \in Seq([chunk: BOOLEAN, data: Seq(Letters)]), Data(b) = <<>>,
           \A i \in DOMAIN b : b[i].data # <<>>
    PROVE  b = <<>>
<1> SUFFICES ASSUME b # <<>> PROVE FALSE
  OBVIOUS
<1> DEFINE Q == [chunk: BOOLEAN, data: Seq(Letters)]
           k == Len(b)
           a == SubSeq(b, 1, k - 1)
           r == b[k]
<1>1. \A y \in Q : y.data \in Seq(Letters)
  OBVIOUS
<1>2. b \in Seq(Q)
  OBVIOUS
<1> HIDE DEF Q
<1>3. k \in Nat \ {0} /\ k \in DOMAIN b /\ r \in Q
  BY <1>2
<1>4. a \in Seq(Q) /\ b = Append(a, r)
  BY <1>2, <1>3
<1> HIDE DEF a, r
<1>5. Data(a) \in Seq(Letters) /\ Data(Append(a, r)) = Data(a) \o r.data
  BY <1>3, <1>4, DataWritten DEF Q
<1>6. r.data \in Seq(Letters) /\ r.data # <<>>
  BY <1>1, <1>3 DEF r
<1>7. Data(a) \o r.data # <<>>
  BY <1>5, <1>6
<1> QED
  BY <1>4, <1>5, <1>7

(* An interim response is not framed and nothing follows its headers.      *)
LEMMA InterimAgrees ==
    ASSUME MessageInv, w \in Written, StreamEnd, InterimResponse
    PROVE  FramingAgrees
<1> DEFINE B == w.body
<1>1. ~Tunnel /\ ~Refused /\ ~Deferred /\ Sent = Changed /\ Shaped(B, Framing.chunk)
  BY DEF StreamEnd, FrameInv
<1>2. Interim /\ ~IsRequest /\ PeerExpectsNone
  BY DEF InterimResponse, Interim, IsRequest, PeerExpectsNone
<1>3. ~m.te
  BY <1>1, StreamKinds
<1>4. Framing.chunk = FALSE
  BY <1>2 DEF Framing, EncodeHeadersBase
<1>5. Changed = <<>>
  <2>1. Body = <<>>
    BY FlattenSmall, OneElement DEF InterimResponse, Body
  <2> QED
    BY <2>1, ChangedEmpty
<1>6. B = <<>>
  <2>1. B \in Seq([chunk: BOOLEAN, data: Seq(Letters)])
    BY DEF Written
  <2>2. Data(B) = <<>>
    BY <1>1, <1>5 DEF Sent, Data
  <2>3. \A i \in DOMAIN B : B[i].data # <<>>
    BY <1>1, <1>4 DEF Shaped
  <2> HIDE DEF B
  <2> QED
    BY <2>1, <2>2, <2>3, NothingWritten
<1>7. PeerReads
  BY <1>2, <1>6 DEF PeerReads
<1> QED
  BY <1>2, <1>3, <1>7 DEF FramingAgrees, RequestUnframed, UpgradeUnframed

(* A streamed message: the framing that was announced is the one that was  *)
(* written.                                                                *)
LEMMA StreamAgrees ==
    MessageInv /\ w \in Written /\ StreamEnd => FramingAgrees
<1> SUFFICES ASSUME MessageInv, w \in Written, StreamEnd, ~InterimResponse PROVE FramingAgrees
  BY InterimAgrees
<1> DEFINE h == Mutated
           B == w.body
<1>1. /\ ~Tunnel /\ ~Refused /\ ~Deferred /\ w.ended /\ Sent = Changed
      /\ Shaped(B, Framing.chunk) /\ w.cl = Framing.cl /\ w.te = Framing.te
      /\ ~IsRequest => w.connection = ConnectionHeader(h) /\ w.closes = Drains(h)
  BY DEF StreamEnd, FrameInv, Connection, Draining
<1>2. /\ ~PeerExpectsNone /\ ~Interim /\ m.status \notin {204, 304} /\ ~(IsRequest /\ m.method = "CONNECT")
      /\ \/ m.cl # None /\ ~m.te
         \/ m.cl = None /\ m.te /\ IsRequest /\ m.method = "POST"
         \/ m.cl = None /\ m.te /\ ~IsRequest /\ m.method = "GET" /\ m.status = 200
  BY <1>1, StreamKinds
<1>3. h.cl = m.cl /\ h.upgrade = IF IsRequest THEN m.upgrade ELSE m.upgrade /\ m.peerUpgrade
  BY <1>2, MutatedParts
<1>4. PeerReads <=>
         IF w.te
         THEN /\ \A i \in DOMAIN B : B[i].chunk /\ (B[i].data = <<>> <=> i = Len(B))
              /\ B # <<>>
         ELSE /\ \A i \in DOMAIN B : ~B[i].chunk
              /\ IF w.cl # None THEN Len(Sent) = w.cl
                 ELSE IF IsRequest THEN Sent = <<>>
                 ELSE w.closes /\ w.connection # "keep-alive"
  BY <1>1, <1>2 DEF PeerReads
<1>5. m.http10 \in BOOLEAN /\ m.upgrade \in BOOLEAN /\ m.peerUpgrade \in BOOLEAN /\ m.te \in BOOLEAN
  BY DEF MessageInv
<1> HIDE DEF h, B
<1>6. Framing = EncodeHeadersBase(h, FALSE)
  BY DEF Framing, h
<1>7. CASE m.cl # None /\ ~m.te
  <2>1. Framing = [cl |-> m.cl, te |-> FALSE, chunk |-> FALSE]
    BY <1>3, <1>6, <1>7 DEF EncodeHeadersBase
  <2>2. Framing.cl = m.cl /\ Framing.te = FALSE /\ Framing.chunk = FALSE
    BY <2>1
  <2>3. \A i \in DOMAIN B : ~B[i].chunk
    BY <1>1, <2>2 DEF Shaped
  <2>4. PeerReads <=> Len(Changed) = m.cl
    BY <1>1, <1>4, <1>7, <2>2, <2>3
  <2> QED
    BY <1>2, <1>7, <2>4 DEF FramingAgrees, LengthStale, RequestUnframed, UpgradeUnframed
<1>8. CASE m.cl = None /\ m.te /\ IsRequest /\ m.method = "POST"
  <2>1. ~LengthStale /\ ~UpgradeUnframed /\ (RequestUnframed <=> Body # <<>> /\ (m.upgrade \/ m.http10))
    BY <1>8 DEF LengthStale, UpgradeUnframed, RequestUnframed
  <2>2. ~Decompresses
    BY <1>8, ZipIsResponse
  <2>3. CASE m.upgrade \/ m.http10
    <3>1. Framing = [cl |-> None, te |-> FALSE, chunk |-> FALSE]
      BY <1>3, <1>6, <1>8, <2>3 DEF EncodeHeadersBase, DisableChunks
    <3>2. Framing.cl = None /\ Framing.te = FALSE /\ Framing.chunk = FALSE
      BY <3>1
    <3>3. \A i \in DOMAIN B : ~B[i].chunk
      BY <1>1, <3>2 DEF Shaped
    <3>4. PeerReads <=> Changed = <<>>
      BY <1>1, <1>4, <1>8, <3>2, <3>3
    <3> QED
      BY <1>2, <2>1, <2>2, <2>3, <3>4, ChangedEmpty DEF FramingAgrees
  <2>4. CASE ~m.upgrade /\ ~m.http10
    <3>1. ~DisableChunks /\ ~ToHead /\ ~ToConnect
      BY <1>8, <2>4 DEF DisableChunks, ToHead, ToConnect
    <3>2. Framing = [cl |-> None, te |-> TRUE, chunk |-> TRUE]
      BY <1>2, <1>3, <1>6, <1>8, <2>4, <3>1 DEF EncodeHeadersBase
    <3>3. Framing.cl = None /\ Framing.te = TRUE /\ Framing.chunk = TRUE
      BY <3>2
    <3>4. PeerReads
      BY <1>1, <1>4, <3>3 DEF Shaped
    <3> QED
      BY <1>2, <2>1, <2>4, <3>4 DEF FramingAgrees
  <2> QED
    BY <2>3, <2>4
<1>9. CASE m.cl = None /\ m.te /\ ~IsRequest /\ m.method = "GET" /\ m.status = 200
  <2>1. ~LengthStale /\ ~RequestUnframed /\ (UpgradeUnframed <=> m.upgrade /\ m.peerUpgrade /\ ~m.http10)
    BY <1>9 DEF LengthStale, UpgradeUnframed, RequestUnframed
  <2>2. ~DisableChunks /\ ~ToHead /\ ~ToConnect
    BY <1>9 DEF DisableChunks, ToHead, ToConnect
  <2>3. CASE m.http10
    <3>1. Framing = [cl |-> None, te |-> FALSE, chunk |-> FALSE]
      BY <1>2, <1>3, <1>6, <1>9, <2>2, <2>3 DEF EncodeHeadersBase
    <3>2. Framing.cl = None /\ Framing.te = FALSE /\ Framing.chunk = FALSE
      BY <3>1
    <3>3. \A i \in DOMAIN B : ~B[i].chunk
      BY <1>1, <3>2 DEF Shaped
    <3>4. w.closes /\ w.connection # "keep-alive"
      BY <1>1, <1>3, <1>9, <2>3 DEF ConnectionHeader, Drains, h
    <3>5. PeerReads
      BY <1>1, <1>4, <1>9, <3>2, <3>3, <3>4
    <3> QED
      BY <1>2, <2>1, <2>3, <3>5 DEF FramingAgrees
  <2>4. CASE ~m.http10
    <3>1. Framing = [cl |-> None, te |-> TRUE, chunk |-> ~(m.upgrade /\ m.peerUpgrade)]
      BY <1>2, <1>3, <1>5, <1>6, <1>9, <2>2, <2>4 DEF EncodeHeadersBase
    <3>2. Framing.cl = None /\ Framing.te = TRUE /\ Framing.chunk = ~(m.upgrade /\ m.peerUpgrade)
      BY <3>1
    <3>3. CASE m.upgrade /\ m.peerUpgrade
      <4>1. \A i \in DOMAIN B : ~B[i].chunk
        BY <1>1, <3>2, <3>3 DEF Shaped
      <4>2. B # <<>> => 1 \in DOMAIN B
        <5>1. B \in Seq([chunk: BOOLEAN, data: Seq(Letters)])
          BY DEF B, Written
        <5> QED
          BY <5>1
      <4>3. ~PeerReads
        BY <1>1, <1>4, <3>2, <4>1, <4>2
      <4> QED
        BY <1>2, <2>1, <2>4, <3>3, <4>3 DEF FramingAgrees
    <3>4. CASE ~(m.upgrade /\ m.peerUpgrade)
      <4>1. PeerReads
        BY <1>1, <1>4, <3>2, <3>4 DEF Shaped
      <4> QED
        BY <1>2, <2>1, <3>4, <4>1 DEF FramingAgrees
    <3> QED
      BY <3>3, <3>4
  <2> QED
    BY <2>3, <2>4
<1> QED
  BY <1>2, <1>7, <1>8, <1>9

(* A message without a body: its headers say so, or the peer knows.        *)
LEMMA HeadersAgree ==
    MessageInv /\ HeadersEnd => FramingAgrees
<1> SUFFICES ASSUME MessageInv, HeadersEnd PROVE FramingAgrees
  OBVIOUS
<1> DEFINE h == Mutated
           b == EncodeHeadersBase(h, TRUE)
<1>1. ~Refused /\ Deferred /\ w.ended /\ w.body = <<>> /\ w.cl = b.cl /\ w.te = b.te
  BY DEF HeadersEnd, NoBodyFraming
<1>2. /\ ~Tunnel /\ ~Interim
      /\ IsRequest => /\ Body = <<>> /\ ~m.te /\ m.cl \in {None, 0} /\ ~m.zip
                      /\ m.method \in {"GET", "HEAD", "POST"}
      /\ ~IsRequest /\ ~PeerExpectsNone =>
            /\ m.method = "GET" /\ m.status = 200 /\ ~m.te
            /\ m.cl = None \/ (m.cl = 0 /\ Body = <<>>)
  BY <1>1, DeferredKinds
<1>3. Sent = <<>>
  <2>1. Sent = Data(<<>>)
    BY <1>1 DEF Sent, Data
  <2>2. [chunk |-> TRUE, data |-> <<>>] \in [chunk: BOOLEAN, data: Seq(Letters)]
    OBVIOUS
  <2>3. <<>> \in Seq([chunk: BOOLEAN, data: Seq(Letters)])
    OBVIOUS
  <2> QED
    BY <2>1, <2>2, <2>3, DataWritten
<1>4. DOMAIN w.body = {}
  BY <1>1
<1>5. CASE PeerExpectsNone
  <2>1. PeerReads
    BY <1>1, <1>5 DEF PeerReads
  <2>2. ~IsRequest /\ (m.method = "HEAD" \/ m.status \in {204, 304})
    BY <1>2, <1>5 DEF PeerExpectsNone
  <2>3. EmptyResponse \/ HeadResponse
    BY <2>2 DEF MessageInv, GetResponse, ConnectResponse, EmptyResponse, HeadResponse, InterimResponse, IsRequest
  <2>4. ~m.upgrade
    BY <2>3 DEF EmptyResponse, HeadResponse
  <2> QED
    BY <1>5, <2>1, <2>2, <2>4 DEF FramingAgrees, RequestUnframed, UpgradeUnframed
<1>6. CASE ~PeerExpectsNone
  <2>1. ~m.te /\ m.cl \in {None, 0} /\ (m.cl = 0 => Body = <<>>)
    BY <1>2, <1>6 DEF None
  <2>2. ~LengthStale
    <3>1. Body = <<>> => Changed = <<>>
      BY ChangedEmpty
    <3>2. Len(<<>>) = 0
      OBVIOUS
    <3> QED
      BY <2>1, <3>1, <3>2 DEF LengthStale
  <2>3. PeerReads <=>
           IF w.te THEN FALSE
           ELSE IF w.cl # None THEN Len(Sent) = w.cl
           ELSE IF IsRequest THEN Sent = <<>> ELSE w.closes /\ w.connection # "keep-alive"
    BY <1>1, <1>2, <1>4, <1>6 DEF PeerReads
  <2>4. Len(Sent) = 0
    BY <1>3
  <2>5. h.cl = m.cl
    <3>1. ~Interim /\ m.status # 204 /\ ~(IsRequest /\ m.method = "CONNECT")
      BY <1>2, <1>6 DEF IsRequest
    <3> QED
      BY <3>1, MutatedParts
  <2>6. ~ToHead /\ ~Interim /\ m.status \notin {204, 304}
    BY <1>2, <1>6 DEF ToHead, PeerExpectsNone, IsRequest
  <2> HIDE DEF h
  <2>7. w.te = FALSE /\ w.cl \in {None, 0} /\ (~IsRequest => w.cl = 0)
    <3>1. CASE m.cl = None /\ ~DisableChunks
      <4> DEFINE y == IF IsRequest /\ ShouldHaveNoBody THEN None ELSE 0
      <4>1. b = [[cl |-> h.cl, te |-> FALSE, chunk |-> FALSE] EXCEPT !.cl = y]
        BY <2>5, <2>6, <3>1 DEF EncodeHeadersBase
      <4>2. y \in {None, 0} /\ (~IsRequest => y = 0)
        OBVIOUS
      <4> HIDE DEF y, b
      <4>3. b = [cl |-> y, te |-> FALSE, chunk |-> FALSE]
        BY <4>1, NowLength, Zenon
      <4> QED
        BY <1>1, <4>2, <4>3
    <3>2. CASE m.cl # None \/ DisableChunks
      <4>1. b = [cl |-> m.cl, te |-> FALSE, chunk |-> FALSE]
        BY <2>5, <3>2 DEF EncodeHeadersBase
      <4>2. ~IsRequest => m.cl = 0
        BY <2>1, <3>2 DEF DisableChunks
      <4> HIDE DEF b
      <4> QED
        BY <1>1, <2>1, <4>1, <4>2
    <3> QED
      BY <3>1, <3>2
  <2>8. PeerReads
    BY <1>3, <2>3, <2>4, <2>7 DEF None
  <2> QED
    BY <2>1, <2>2, <2>8 DEF FramingAgrees, RequestUnframed, UpgradeUnframed
<1> QED
  BY <1>5, <1>6

(* Every end is a good one.                                                *)
LEMMA EndsWell ==
    MessageInv /\ w \in Written /\ (StreamEnd \/ HeadersEnd \/ HeldEnd \/ TunnelEnd) => FramingAgrees /\ BodyDelivered
<1> SUFFICES ASSUME MessageInv, w \in Written, StreamEnd \/ HeadersEnd \/ HeldEnd \/ TunnelEnd
             PROVE  FramingAgrees /\ BodyDelivered
  OBVIOUS
<1>1. Unfinished <=> ~Ready(Body)
  BY DEF Unfinished, Ready
<1>2. CASE StreamEnd
  <2>1. FramingAgrees
    BY <1>2, StreamAgrees
  <2>2. ~BodyIgnored /\ ~Withheld
    BY <1>2, StreamKinds, WithheldKinds DEF StreamEnd, FrameInv
  <2> QED
    BY <1>1, <1>2, <2>1, <2>2 DEF StreamEnd, BodyDelivered
<1>3. CASE HeadersEnd
  <2>1. FramingAgrees
    BY <1>3, HeadersAgree
  <2>2. Sent = <<>>
    <3>1. Sent = Data(<<>>)
      BY <1>3 DEF Sent, Data, HeadersEnd
    <3>2. [chunk |-> TRUE, data |-> <<>>] \in [chunk: BOOLEAN, data: Seq(Letters)]
      OBVIOUS
    <3>3. <<>> \in Seq([chunk: BOOLEAN, data: Seq(Letters)])
      OBVIOUS
    <3> QED
      BY <3>1, <3>2, <3>3, DataWritten
  <2>3. (BodyIgnored <=> ~IsRequest) /\ (IsRequest => Body = <<>> /\ ~m.zip)
    BY <1>3, DeferredKinds DEF HeadersEnd
  <2>4. IsRequest => Changed = <<>> /\ ~Unfinished
    BY <2>3, ChangedEmpty DEF Unfinished, Decompresses
  <2>5. ~Withheld
    BY <1>3 DEF HeadersEnd, Withheld
  <2> QED
    BY <1>3, <2>1, <2>2, <2>3, <2>4, <2>5 DEF BodyDelivered, HeadersEnd
<1>4. CASE HeldEnd
  <2>1. ~BodyIgnored /\ ~Withheld
    BY <1>4, StreamKinds, WithheldKinds DEF HeldEnd
  <2> QED
    BY <1>1, <1>4, <2>1 DEF HeldEnd, BodyDelivered, FramingAgrees
<1>5. CASE TunnelEnd
  <2>1. ~Rewrites /\ ~Decompresses
    BY <1>5, StreamKinds DEF TunnelEnd
  <2>2. ~BodyIgnored /\ ~Unfinished /\ Changed = Body /\ ~Withheld
    BY <1>5, <2>1, WithheldKinds DEF TunnelEnd, BodyIgnored, Unfinished, Changed
  <2> QED
    BY <1>5, <2>2 DEF TunnelEnd, BodyDelivered, FramingAgrees
<1> QED
  BY <1>2, <1>3, <1>4, <1>5

-----------------------------------------------------------------------------
(* The steps.                                                              *)

(* What depends on the message alone stays as it is.                       *)
LEMMA SameMessage ==
    ASSUME m' = m
    PROVE  /\ IsRequest' = IsRequest /\ Body' = Body /\ Tunnel' = Tunnel
           /\ Refused' = Refused /\ Deferred' = Deferred
           /\ Decompresses' = Decompresses /\ Rewrites' = Rewrites
           /\ Connection' = Connection /\ Draining' = Draining
           /\ Framing' = Framing /\ NoBodyFraming' = NoBodyFraming
           /\ PeerExpectsNone' = PeerExpectsNone /\ AwaitsBody' = AwaitsBody
           /\ BodyIgnored' = BodyIgnored /\ Withheld' = Withheld
<1>1. IsRequest' = IsRequest /\ Interim' = Interim /\ AwaitsBody' = AwaitsBody
  BY DEF IsRequest, Interim, AwaitsBody
<1>2. Body' = Body
  BY DEF Body
<1>3. Tunnel' = Tunnel
  BY <1>1 DEF Tunnel
<1>4. Malformed' = Malformed
  BY <1>1 DEF Malformed, ConnectWithBody
<1>5. Refused' = Refused
  BY <1>1, <1>4 DEF Refused, ResponseRefused
<1>6. CannotHaveBody' = CannotHaveBody
  BY DEF CannotHaveBody
<1>7. Deferred' = Deferred
  BY <1>1, <1>3, <1>6 DEF Deferred, RequestDeferred, ResponseDeferred
<1>8. RewriteUrls' = RewriteUrls /\ Passthrough' = Passthrough
  BY DEF RewriteUrls, Passthrough
<1>9. Decompresses' = Decompresses
  BY <1>8 DEF Decompresses
<1>10. Rewrites' = Rewrites
  BY <1>1, <1>8 DEF Rewrites, RewritesRequest, RewritesResponse
<1>11. Decoded' = Decoded
  BY <1>1 DEF Decoded
<1>12. Mutated' = Mutated
  BY <1>1, <1>11 DEF Mutated, MutateRequest, MutateResponse
<1>13. Draining' = Draining
  BY <1>12 DEF Draining, Drains
<1>14. Connection' = Connection
  BY <1>12 DEF Connection, ConnectionHeader, Drains, IsTunneling
<1>15. DisableChunks' = DisableChunks /\ ToHead' = ToHead /\ ToConnect' = ToConnect
       /\ ShouldHaveNoBody' = ShouldHaveNoBody
  BY <1>1 DEF DisableChunks, ToHead, ToConnect, ShouldHaveNoBody
<1>16. Framing' = Framing /\ NoBodyFraming' = NoBodyFraming
  BY <1>1, <1>12, <1>15 DEF Framing, NoBodyFraming, EncodeHeadersBase
<1>17. PeerExpectsNone' = PeerExpectsNone
  BY <1>1 DEF PeerExpectsNone
<1>18. BodyIgnored' = BodyIgnored /\ Withheld' = Withheld
  BY <1>1, <1>3, <1>6 DEF BodyIgnored, Withheld
<1> QED
  BY <1>1, <1>2, <1>3, <1>5, <1>7, <1>9, <1>10, <1>13, <1>14, <1>16, <1>17, <1>18

(* The kinds of message do not change.                                     *)
LEMMA SameKind ==
    ASSUME m' = m, MessageInv
    PROVE  MessageInv'
<1>1. IsRequest' = IsRequest /\ Body' = Body
  BY SameMessage
<1>2. Malformed' = Malformed
  BY <1>1 DEF Malformed, ConnectWithBody
<1> QED
  BY <1>1, <1>2 DEF MessageInv, PlainRequest, BodyRequest, ConnectRequest, EmptyResponse, HeadResponse, InterimResponse, GetResponse,
                    ConnectResponse

(* encode_headers writes the headers and nothing else.                     *)
LEMMA HeadersWritten ==
    ASSUME MessageInv, w \in Written, NEW end \in BOOLEAN
    PROVE  LET b == EncodeHeadersBase(Mutated, end)
               a == IF IsRequest THEN EncodeRequest(MutateRequest(Decoded), end)
                    ELSE EncodeResponse(MutateResponse(Decoded), end)
           IN  /\ a.chunk = b.chunk /\ a.w \in Written
               /\ a.w.cl = b.cl /\ a.w.te = b.te /\ a.w.body = w.body /\ a.w.ended = w.ended
               /\ ~IsRequest => a.w.connection = Connection /\ a.w.closes = Draining
<1> DEFINE h == Mutated
           b == EncodeHeadersBase(h, end)
           a == IF IsRequest THEN EncodeRequest(MutateRequest(Decoded), end)
                ELSE EncodeResponse(MutateResponse(Decoded), end)
<1> SUFFICES /\ a.chunk = b.chunk /\ a.w \in Written
             /\ a.w.cl = b.cl /\ a.w.te = b.te /\ a.w.body = w.body /\ a.w.ended = w.ended
             /\ ~IsRequest => a.w.connection = Connection /\ a.w.closes = Draining
  OBVIOUS
<1>1. b.cl \in {None} \cup Nat /\ b.te \in BOOLEAN /\ b.chunk \in BOOLEAN
  BY FramingParts
<1>2. CASE IsRequest
  <2>1. h = MutateRequest(Decoded)
    BY <1>2 DEF Mutated
  <2>2. a = [chunk |-> b.chunk, w |-> [w EXCEPT !.cl = b.cl, !.te = b.te]]
    BY <1>2, <2>1 DEF EncodeRequest
  <2> HIDE DEF a, b
  <2> QED
    BY <1>1, <1>2, <2>2 DEF Written
<1>3. CASE ~IsRequest
  <2>1. h = MutateResponse(Decoded)
    BY <1>3 DEF Mutated
  <2>2. a = [chunk |-> b.chunk,
             w |-> [w EXCEPT !.cl = b.cl, !.te = b.te, !.connection = Connection, !.closes = Draining]]
    BY <1>3, <2>1 DEF EncodeResponse, Connection, Draining
  <2>3. Connection \in {"none", "close", "keep-alive"}
    <3>1. h.connection = "none"
      BY <2>1 DEF MutateResponse, Decoded
    <3> HIDE DEF h
    <3>2. Connection = ConnectionHeader(h)
      BY DEF Connection, h
    <3> QED
      BY <3>1, <3>2 DEF ConnectionHeader
  <2>4. Draining \in BOOLEAN
    BY DEF Draining, Drains, MessageInv
  <2> HIDE DEF a, b
  <2> QED
    BY <1>1, <1>3, <2>2, <2>3, <2>4 DEF Written
<1> QED
  BY <1>2, <1>3

(* A message that ends with its headers is not written in chunks.          *)
LEMMA NoChunks == NoBodyFraming.chunk = FALSE
<1> DEFINE h == Mutated
           u == [cl |-> h.cl, te |-> FALSE, chunk |-> FALSE]
           y == IF IsRequest /\ ShouldHaveNoBody THEN None ELSE 0
<1>1. NoBodyFraming = EncodeHeadersBase(h, TRUE)
  BY DEF NoBodyFraming
<1> HIDE DEF h
<1>2. \/ NoBodyFraming = u
      \/ NoBodyFraming = [u EXCEPT !.cl = y]
      \/ ToHead /\ NoBodyFraming = [cl |-> None, te |-> ~ToConnect, chunk |-> ~h.upgrade /\ ~ToHead /\ ~ToConnect]
  BY <1>1 DEF EncodeHeadersBase
<1> HIDE DEF y
<1>3. [u EXCEPT !.cl = y] = [cl |-> y, te |-> FALSE, chunk |-> FALSE]
  BY NowLength, Zenon
<1>4. CASE NoBodyFraming = u
  BY <1>4
<1>5. CASE NoBodyFraming = [u EXCEPT !.cl = y]
  BY <1>3, <1>5
<1>6. CASE ToHead /\ NoBodyFraming = [cl |-> None, te |-> ~ToConnect, chunk |-> ~h.upgrade /\ ~ToHead /\ ~ToConnect]
  <2>1. (~h.upgrade /\ ~ToHead /\ ~ToConnect) = FALSE
    BY <1>6
  <2> QED
    BY <1>6, <2>1
<1> QED
  BY <1>2, <1>4, <1>5, <1>6

(* The invariant that BodyInv asks of the next state.                      *)
LEMMA NextBody ==
    ASSUME m' = m, n' \in 0 .. Len(m.pieces),
           FrameInv', e' = [chunk |-> Framing.chunk], ~w'.ended,
           f' = [inflated |-> IF Ready(Prefix(n')) THEN <<>> ELSE Inflate(Prefix(n')),
                 held |-> IF Rewrites /\ Ready(Prefix(n')) THEN Plain(Prefix(n')) ELSE <<>>,
                 finished |-> Decompresses /\ Ready(Prefix(n'))],
           w'.body \in Seq([chunk: {Framing.chunk}, data: Seq(Letters) \ {<<>>}]),
           Data(w'.body) = IF ~Rewrites /\ Ready(Prefix(n')) THEN Plain(Prefix(n')) ELSE <<>>
    PROVE  BodyInv'
<1> DEFINE q == Prefix(n')
<1>1. Decompresses' = Decompresses /\ Rewrites' = Rewrites /\ Framing' = Framing
  BY SameMessage
<1>2. Prefix(n)' = q
  BY DEF Prefix
<1>3. Ready(Prefix(n))' = Ready(q) /\ Plain(Prefix(n))' = Plain(q)
  BY <1>1, <1>2 DEF Ready, Plain
<1>4. Sent' = Data(w'.body)
  BY DEF Sent, Data
<1>5. HeadersInv'
  BY <1>1 DEF HeadersInv
<1>6. FiltersInv(Prefix(n))'
  BY <1>1, <1>2, <1>3 DEF FiltersInv
<1>7. SentInv(Prefix(n))'
  BY <1>1, <1>3, <1>4 DEF SentInv
<1> QED
  BY <1>5, <1>6, <1>7 DEF BodyInv

(* The headers of a message whose body follows.                            *)
LEMMA HeadersStep ==
    ASSUME IInv, DecodeHeaders
    PROVE  IInv'
<1>1. MessageInv /\ w \in Written /\ StartInv /\ ~Refused /\ ~Deferred /\ m' = m /\ n' = n /\ f' = f /\ pc' = "body"
  BY DEF IInv, DecodeHeaders
<1>2. MessageInv'
  BY <1>1, SameKind
<1>3. Refused' = Refused /\ Deferred' = Deferred /\ IsRequest' = IsRequest /\ Framing' = Framing
      /\ Connection' = Connection /\ Draining' = Draining
  BY <1>1, SameMessage
<1> DEFINE a == IF IsRequest THEN EncodeRequest(MutateRequest(Decoded), FALSE)
                ELSE EncodeResponse(MutateResponse(Decoded), FALSE)
<1>4. e' = [chunk |-> a.chunk] /\ w' = a.w
  BY DEF DecodeHeaders, EncodeHeaders
<1>5. /\ a.chunk = Framing.chunk /\ a.w \in Written
      /\ a.w.cl = Framing.cl /\ a.w.te = Framing.te /\ a.w.body = w.body /\ a.w.ended = w.ended
      /\ ~IsRequest => a.w.connection = Connection /\ a.w.closes = Draining
  <2>1. FALSE \in BOOLEAN
    OBVIOUS
  <2> QED
    BY <1>1, <2>1, HeadersWritten DEF Framing
<1>6. n = 0 /\ w.body = <<>> /\ ~w.ended /\ f = [inflated |-> <<>>, held |-> <<>>, finished |-> FALSE]
  BY <1>1 DEF StartInv
<1>7. Framing.chunk \in BOOLEAN
  <2>1. FALSE \in BOOLEAN
    OBVIOUS
  <2> QED
    BY <1>1, <2>1, FramingParts DEF Framing
<1>8. \A c \in BOOLEAN : <<>> \in Seq([chunk: {c}, data: Seq(Letters) \ {<<>>}])
  OBVIOUS
<1> HIDE DEF a
<1>9. FrameInv'
  BY <1>1, <1>3, <1>4, <1>5 DEF FrameInv
<1>10. Prefix(0) = <<>> /\ Len(m.pieces) \in Nat
  BY <1>1, PrefixEnds
<1>11. Inflate(<<>>) = <<>> /\ Plain(<<>>) = <<>> /\ (Decompresses => ~Ready(<<>>)) /\ (~Decompresses => Ready(<<>>))
  BY InflateEmpty DEF Plain, Ready
<1>12. f' = [inflated |-> IF Ready(Prefix(n')) THEN <<>> ELSE Inflate(Prefix(n')),
             held |-> IF Rewrites /\ Ready(Prefix(n')) THEN Plain(Prefix(n')) ELSE <<>>,
             finished |-> Decompresses /\ Ready(Prefix(n'))]
  <2>1. (Decompresses /\ Ready(<<>>)) = FALSE
    BY <1>11
  <2> QED
    BY <1>1, <1>6, <1>10, <1>11, <2>1
<1>13. w'.body = <<>> /\ ~w'.ended
  BY <1>4, <1>5, <1>6
<1>14. Data(<<>>) = <<>>
  <2>1. [chunk |-> TRUE, data |-> <<>>] \in [chunk: BOOLEAN, data: Seq(Letters)]
    OBVIOUS
  <2>2. <<>> \in Seq([chunk: BOOLEAN, data: Seq(Letters)])
    OBVIOUS
  <2> QED
    BY <2>1, <2>2, DataWritten
<1>15. Data(w'.body) = IF ~Rewrites /\ Ready(Prefix(n')) THEN Plain(Prefix(n')) ELSE <<>>
  BY <1>1, <1>6, <1>10, <1>11, <1>13, <1>14
<1>16. w'.body \in Seq([chunk: {Framing.chunk}, data: Seq(Letters) \ {<<>>}])
  BY <1>7, <1>8, <1>13
<1>17. n' \in 0 .. Len(m.pieces) /\ e' = [chunk |-> Framing.chunk]
  BY <1>1, <1>4, <1>5, <1>6, <1>10
<1>18. BodyInv'
  BY <1>1, <1>9, <1>12, <1>13, <1>15, <1>16, <1>17, NextBody
<1> QED
  BY <1>1, <1>2, <1>4, <1>5, <1>13, <1>18 DEF IInv

(* The headers that were kept back end their message.                      *)
LEMMA DeferredStep ==
    ASSUME IInv, DeferredComplete
    PROVE  IInv'
<1>1. /\ MessageInv /\ w \in Written /\ StartInv /\ ~Refused /\ Deferred /\ ~AwaitsBody
      /\ m' = m /\ pc' = "done"
  BY DEF IInv, DeferredComplete
<1>2. MessageInv'
  BY <1>1, SameKind
<1>3. Refused' = Refused /\ Deferred' = Deferred /\ AwaitsBody' = AwaitsBody /\ NoBodyFraming' = NoBodyFraming
  BY <1>1, SameMessage
<1> DEFINE a == IF IsRequest THEN EncodeRequest(MutateRequest(Decoded), TRUE)
                ELSE EncodeResponse(MutateResponse(Decoded), TRUE)
<1>4. w' = EndEncode(a.w, a.chunk)
  BY DEF DeferredComplete, EncodeHeaders
<1>5. /\ a.chunk = NoBodyFraming.chunk /\ a.w \in Written
      /\ a.w.cl = NoBodyFraming.cl /\ a.w.te = NoBodyFraming.te /\ a.w.body = w.body
  <2>1. TRUE \in BOOLEAN
    OBVIOUS
  <2> QED
    BY <1>1, <2>1, HeadersWritten DEF NoBodyFraming
<1> DEFINE v == a.w
           c == a.chunk
           u == EndEncode(v, c)
<1>6. /\ u \in Written /\ u.cl = v.cl /\ u.te = v.te /\ u.ended /\ u.body = v.body
  <2>1. c = FALSE /\ c \in BOOLEAN /\ v \in Written
    BY <1>5, NoChunks
  <2>2. v.body = <<>>
    BY <1>1, <1>5 DEF StartInv
  <2> HIDE DEF v, c
  <2>3. v.body \in Seq([chunk: {c}, data: Seq(Letters) \ {<<>>}])
    BY <2>2
  <2>4. LET x == EndEncode(v, c)
        IN  /\ x \in Written /\ x.cl = v.cl /\ x.te = v.te /\ x.ended
            /\ x.connection = v.connection /\ x.closes = v.closes
            /\ Data(x.body) = Data(v.body) /\ Shaped(x.body, c)
            /\ ~c => x.body = v.body
    BY <2>1, <2>3, Ends
  <2> QED
    BY <2>1, <2>4
<1>7. w' = u
  BY <1>4
<1>8. v.cl = NoBodyFraming.cl /\ v.te = NoBodyFraming.te /\ v.body = <<>>
  BY <1>1, <1>5 DEF StartInv
<1> HIDE DEF u, v, c, a
<1>9. HeadersEnd'
  BY <1>1, <1>3, <1>6, <1>7, <1>8 DEF HeadersEnd
<1>10. w' \in Written
  BY <1>6, <1>7
<1>11. (MessageInv /\ w \in Written /\ (StreamEnd \/ HeadersEnd \/ HeldEnd \/ TunnelEnd)
           => FramingAgrees /\ BodyDelivered)'
  BY EndsWell, PTL
<1>12. FramingAgrees' /\ BodyDelivered'
  BY <1>2, <1>9, <1>10, <1>11
<1> QED
  BY <1>1, <1>2, <1>10, <1>12 DEF IInv

(* A piece of the body: what the filters let go of is written.             *)
LEMMA DataStep ==
    ASSUME IInv, DecodeData
    PROVE  IInv'
<1>1. /\ MessageInv /\ w \in Written /\ BodyInv /\ pc = "body" /\ n # Len(m.pieces)
      /\ m' = m /\ pc' = pc /\ e' = e /\ n' = n + 1
  <2>1. n \in 0 .. Len(m.pieces) /\ n < Len(m.pieces)
    BY DEF IInv, DecodeData, BodyInv
  <2>2. n # Len(m.pieces)
    BY <2>1
  <2> QED
    BY <2>2 DEF IInv, DecodeData
<1>2. MessageInv'
  BY <1>1, SameKind
<1>3. Refused' = Refused /\ Deferred' = Deferred /\ IsRequest' = IsRequest /\ Framing' = Framing
      /\ Connection' = Connection /\ Draining' = Draining
  BY <1>1, SameMessage
<1> DEFINE d == m.pieces[n + 1]
           q == Prefix(n + 1)
           a == IF IsRequest THEN FilterRequest(d, FALSE) ELSE FilterResponse(d, FALSE)
<1>4. f' = a.g /\ w' = IF a.go THEN EncodeData(a.data, FALSE) ELSE w
  BY DEF DecodeData, Decode
<1>5. /\ a.go <=> ~Rewrites /\ Ready(q)
      /\ a.go => a.data \in Seq(Letters) /\ Sent \o a.data = Plain(q)
      /\ a.g = [inflated |-> IF Ready(q) THEN <<>> ELSE Inflate(q),
                held |-> IF Rewrites /\ Ready(q) THEN Plain(q) ELSE <<>>,
                finished |-> Decompresses /\ Ready(q)]
  BY <1>1, FilterPiece
<1>6. /\ n \in 0 .. Len(m.pieces) /\ FrameInv /\ e = [chunk |-> Framing.chunk] /\ ~w.ended
      /\ w.body \in Seq([chunk: {Framing.chunk}, data: Seq(Letters) \ {<<>>}])
      /\ Sent = IF ~Rewrites /\ Ready(Prefix(n)) THEN Plain(Prefix(n)) ELSE <<>>
  BY <1>1 DEF BodyInv, HeadersInv, SentInv
<1>7. Framing.chunk \in BOOLEAN
  <2>1. FALSE \in BOOLEAN
    OBVIOUS
  <2> QED
    BY <1>1, <2>1, FramingParts DEF Framing
<1>8. n + 1 \in 0 .. Len(m.pieces)
  <2>1. Len(m.pieces) \in Nat
    BY <1>1, PrefixEnds
  <2> QED
    BY <1>1, <1>6, <2>1
<1>9. Sent = Data(w.body)
  BY DEF Sent, Data
<1> DEFINE c == Framing.chunk
<1> HIDE DEF a, d, c
<1>10. /\ w' \in Written /\ w'.cl = w.cl /\ w'.te = w.te /\ w'.ended = w.ended
       /\ w'.connection = w.connection /\ w'.closes = w.closes
       /\ w'.body \in Seq([chunk: {c}, data: Seq(Letters) \ {<<>>}])
       /\ Data(w'.body) = IF ~Rewrites /\ Ready(q) THEN Plain(q) ELSE <<>>
  <2>1. CASE a.go
    <3> DEFINE v == EncodeData(a.data, FALSE)
               data == a.data
    <3>1. data \in Seq(Letters) /\ Sent \o data = Plain(q)
      BY <1>5, <2>1
    <3>2. c \in BOOLEAN /\ e = [chunk |-> c]
          /\ w.body \in Seq([chunk: {c}, data: Seq(Letters) \ {<<>>}])
      BY <1>6, <1>7 DEF c
    <3> HIDE DEF data
    <3>3. /\ v \in Written /\ v.cl = w.cl /\ v.te = w.te /\ v.ended = w.ended
          /\ v.connection = w.connection /\ v.closes = w.closes
          /\ v.body \in Seq([chunk: {c}, data: Seq(Letters) \ {<<>>}])
          /\ Data(v.body) = Sent \o data
      <4>1. v = EncodeData(data, FALSE)
        BY DEF data
      <4> HIDE DEF v
      <4> QED
        BY <1>1, <3>1, <3>2, <4>1, WritesData
    <3>4. w' = v
      BY <1>4, <2>1
    <3> HIDE DEF v
    <3> QED
      BY <1>5, <2>1, <3>1, <3>3, <3>4
  <2>2. CASE ~a.go
    <3>1. w' = w
      BY <1>4, <2>2
    <3>2. ~(~Rewrites /\ Ready(q))
      BY <1>5, <2>2
    <3>3. Rewrites \/ ~Ready(Prefix(n))
      <4>1. CASE Decompresses
        BY <1>1, <1>6, <4>1, NotReady
      <4>2. CASE ~Decompresses
        BY <3>2, <4>2 DEF Ready
      <4> QED
        BY <4>1, <4>2
    <3>4. Data(w.body) = <<>>
      BY <1>6, <1>9, <3>3
    <3> QED
      BY <1>1, <1>6, <3>1, <3>2, <3>4 DEF c
  <2> QED
    BY <2>1, <2>2
<1>11. FrameInv'
  BY <1>3, <1>6, <1>10 DEF FrameInv
<1>12. BodyInv'
  <2>1. f' = [inflated |-> IF Ready(Prefix(n')) THEN <<>> ELSE Inflate(Prefix(n')),
              held |-> IF Rewrites /\ Ready(Prefix(n')) THEN Plain(Prefix(n')) ELSE <<>>,
              finished |-> Decompresses /\ Ready(Prefix(n'))]
    BY <1>1, <1>4, <1>5
  <2>2. Data(w'.body) = IF ~Rewrites /\ Ready(Prefix(n')) THEN Plain(Prefix(n')) ELSE <<>>
    BY <1>1, <1>10
  <2>3. w'.body \in Seq([chunk: {Framing.chunk}, data: Seq(Letters) \ {<<>>}])
    BY <1>10 DEF c
  <2>4. n' \in 0 .. Len(m.pieces) /\ e' = [chunk |-> Framing.chunk] /\ ~w'.ended
    BY <1>1, <1>6, <1>8, <1>10
  <2> QED
    BY <1>1, <1>11, <2>1, <2>2, <2>3, <2>4, NextBody
<1> QED
  BY <1>1, <1>2, <1>6, <1>10, <1>12 DEF IInv

(* The end of the stream.                                                  *)
LEMMA CompleteStep ==
    ASSUME IInv, MessageComplete
    PROVE  IInv'
<1>1. /\ MessageInv /\ w \in Written /\ BodyInv /\ n = Len(m.pieces) /\ m' = m /\ pc' = "done"
  BY DEF IInv, MessageComplete
<1>2. MessageInv'
  BY <1>1, SameKind
<1>3. Refused' = Refused /\ Deferred' = Deferred /\ IsRequest' = IsRequest /\ Framing' = Framing
      /\ Connection' = Connection /\ Draining' = Draining /\ Tunnel' = Tunnel /\ Body' = Body
      /\ Decompresses' = Decompresses /\ Rewrites' = Rewrites
  BY <1>1, SameMessage
<1>4. Prefix(n) = Body
  BY <1>1, PrefixEnds
<1>5. /\ FrameInv /\ e = [chunk |-> Framing.chunk] /\ ~w.ended
      /\ w.body \in Seq([chunk: {Framing.chunk}, data: Seq(Letters) \ {<<>>}])
      /\ Sent = IF ~Rewrites /\ Ready(Body) THEN Plain(Body) ELSE <<>>
  BY <1>1, <1>4 DEF BodyInv, HeadersInv, SentInv
<1>6. ~Refused /\ ~Deferred
  BY <1>5 DEF FrameInv
<1>7. Ready(Body)' = Ready(Body) /\ Changed' = Changed
  <2>1. Ready(Body)' = Ready(Body)
    BY <1>3 DEF Ready
  <2>2. Changed' = Changed
    BY <1>3 DEF Changed
  <2> QED
    BY <2>1, <2>2
<1>8. Framing.chunk \in BOOLEAN
  <2>1. FALSE \in BOOLEAN
    OBVIOUS
  <2> QED
    BY <1>1, <2>1, FramingParts DEF Framing
<1>9. Sent = Data(w.body) /\ Sent' = Data(w'.body)
  BY DEF Sent, Data
<1> DEFINE a == IF IsRequest THEN FilterRequest(<<>>, TRUE) ELSE FilterResponse(<<>>, TRUE)
           c == Framing.chunk
<1>10. w' \in Written /\ (StreamEnd' \/ HeldEnd' \/ TunnelEnd')
  <2>1. CASE Tunnel
    <3>1. w' = w
      BY <2>1 DEF MessageComplete
    <3>2. ~Rewrites /\ ~Decompresses
      BY <1>1, <1>6, <2>1, StreamKinds
    <3>3. Sent = Body
      BY <1>5, <3>2 DEF Ready, Plain
    <3>4. TunnelEnd'
      BY <1>3, <1>5, <1>6, <1>9, <2>1, <3>1, <3>3 DEF TunnelEnd
    <3> QED
      BY <1>1, <3>1, <3>4
  <2>2. CASE ~Tunnel
    <3>1. w' = IF a.go THEN EncodeData(a.data, TRUE) ELSE w
      BY <2>2 DEF MessageComplete, Decode
    <3>2. /\ a.go <=> Ready(Body)
          /\ a.go => a.data \in Seq(Letters) /\ Sent \o a.data = Changed /\ Changed \in Seq(Letters)
      BY <1>1, FilterEnd
    <3> HIDE DEF a, c
    <3>3. CASE Ready(Body)
      <4> DEFINE data == a.data
                 v == EncodeData(data, FALSE)
                 x == EndEncode(v, c)
      <4>1. data \in Seq(Letters) /\ Sent \o data = Changed /\ w' = EncodeData(data, TRUE)
        BY <3>1, <3>2, <3>3
      <4>2. c \in BOOLEAN /\ e = [chunk |-> c] /\ w.body \in Seq([chunk: {c}, data: Seq(Letters) \ {<<>>}])
        BY <1>5, <1>8 DEF c
      <4> HIDE DEF data
      <4>3. w' = x
        <5>1. e.chunk = c
          BY <4>2
        <5> QED
          BY <4>1, <5>1 DEF EncodeData
      <4> HIDE DEF x
      <4>4. /\ v \in Written /\ v.cl = w.cl /\ v.te = w.te
            /\ v.connection = w.connection /\ v.closes = w.closes
            /\ v.body \in Seq([chunk: {c}, data: Seq(Letters) \ {<<>>}])
            /\ Data(v.body) = Sent \o data
        <5> HIDE DEF v
        <5>1. v = EncodeData(data, FALSE)
          BY DEF v
        <5> QED
          BY <1>1, <4>1, <4>2, <5>1, WritesData
      <4> HIDE DEF v
      <4>5. /\ x \in Written /\ x.cl = v.cl /\ x.te = v.te /\ x.ended
            /\ x.connection = v.connection /\ x.closes = v.closes
            /\ Data(x.body) = Data(v.body) /\ Shaped(x.body, c)
        BY <4>2, <4>4, Ends DEF x
      <4>6. FrameInv'
        BY <1>3, <1>5, <4>3, <4>4, <4>5 DEF FrameInv
      <4>7. Sent' = Changed /\ w'.ended /\ Shaped(w'.body, Framing.chunk)
        BY <1>9, <4>1, <4>3, <4>4, <4>5 DEF c
      <4>8. Shaped(w.body, Framing.chunk)'
        BY <1>3, <4>7
      <4>9. StreamEnd'
        BY <1>3, <1>7, <2>2, <3>3, <4>6, <4>7, <4>8 DEF StreamEnd
      <4> QED
        BY <4>3, <4>5, <4>9
    <3>4. CASE ~Ready(Body)
      <4>1. w' = w
        BY <3>1, <3>2, <3>4
      <4>2. Sent' = <<>>
        BY <1>5, <1>9, <3>4, <4>1
      <4>3. HeldEnd'
        BY <1>3, <1>5, <1>6, <1>7, <2>2, <3>4, <4>1, <4>2 DEF HeldEnd
      <4> QED
        BY <1>1, <4>1, <4>3
    <3> QED
      BY <3>3, <3>4
  <2> QED
    BY <2>1, <2>2
<1>11. (MessageInv /\ w \in Written /\ (StreamEnd \/ HeadersEnd \/ HeldEnd \/ TunnelEnd)
           => FramingAgrees /\ BodyDelivered)'
  BY EndsWell, PTL
<1>12. FramingAgrees' /\ BodyDelivered'
  BY <1>2, <1>10, <1>11
<1> QED
  BY <1>1, <1>2, <1>10, <1>12 DEF IInv

(* Before the headers are handed on nothing is written, whether the        *)
(* message is refused, ends the process or waits for its end.              *)
LEMMA UnwrittenStep ==
    ASSUME IInv, ProtocolError \/ Decode1xxHeaders \/ DeferHeaders
    PROVE  IInv'
<1>1. /\ MessageInv /\ w \in Written /\ StartInv /\ m' = m /\ n' = n /\ f' = f /\ w' = w
      /\ pc' \in {"error", "abort", "deferred"} /\ (pc' = "deferred" => ~Refused /\ Deferred)
  BY DEF IInv, ProtocolError, Decode1xxHeaders, DeferHeaders
<1>2. MessageInv'
  BY <1>1, SameKind
<1>3. StartInv' /\ ~w'.ended
  BY <1>1 DEF StartInv
<1>4. Refused' = Refused /\ Deferred' = Deferred
  BY <1>1, SameMessage
<1> QED
  BY <1>1, <1>2, <1>3, <1>4 DEF IInv

(* No step, no change.                                                     *)
LEMMA StutterStep ==
    ASSUME IInv, UNCHANGED vars
    PROVE  IInv'
<1>1. m' = m /\ pc' = pc /\ n' = n /\ f' = f /\ e' = e /\ w' = w
  BY DEF vars
<1>2. IsRequest' = IsRequest /\ Body' = Body /\ Tunnel' = Tunnel /\ Refused' = Refused /\ Deferred' = Deferred
      /\ Decompresses' = Decompresses /\ Rewrites' = Rewrites /\ Connection' = Connection /\ Draining' = Draining
      /\ Framing' = Framing /\ PeerExpectsNone' = PeerExpectsNone
      /\ BodyIgnored' = BodyIgnored /\ Withheld' = Withheld
  BY <1>1, SameMessage
<1>3. MessageInv'
  BY <1>1, SameKind DEF IInv
<1>4. Sent' = Sent
  BY <1>1 DEF Sent
<1>5. StartInv => StartInv'
  BY <1>1 DEF StartInv
<1>6. BodyInv => BodyInv'
  <2>1. Prefix(n)' = Prefix(n)
    BY <1>1 DEF Prefix
  <2>2. Ready(Prefix(n))' = Ready(Prefix(n)) /\ Plain(Prefix(n))' = Plain(Prefix(n))
    BY <1>2, <2>1 DEF Ready, Plain
  <2>3. HeadersInv => HeadersInv'
    BY <1>1, <1>2 DEF HeadersInv, FrameInv
  <2>4. FiltersInv(Prefix(n)) => FiltersInv(Prefix(n))'
    BY <1>1, <1>2, <2>1, <2>2 DEF FiltersInv
  <2>5. SentInv(Prefix(n)) => SentInv(Prefix(n))'
    BY <1>1, <1>2, <1>4, <2>2 DEF SentInv
  <2> QED
    BY <1>1, <2>3, <2>4, <2>5 DEF BodyInv
<1>7. Changed' = Changed
  BY <1>2 DEF Changed
<1>8. FramingAgrees => FramingAgrees'
  <2>1. PeerReads' = PeerReads
    BY <1>1, <1>2, <1>4 DEF PeerReads
  <2>2. LengthStale' = LengthStale /\ RequestUnframed' = RequestUnframed /\ UpgradeUnframed' = UpgradeUnframed
    BY <1>1, <1>2, <1>7 DEF LengthStale, RequestUnframed, UpgradeUnframed
  <2> QED
    BY <1>1, <1>2, <2>1, <2>2 DEF FramingAgrees
<1>9. BodyDelivered => BodyDelivered'
  <2>1. Unfinished' = Unfinished
    BY <1>2 DEF Unfinished
  <2> QED
    BY <1>1, <1>2, <1>4, <1>7, <2>1 DEF BodyDelivered
<1> QED
  BY <1>1, <1>2, <1>3, <1>5, <1>6, <1>8, <1>9 DEF IInv

-----------------------------------------------------------------------------
(* The theorems.                                                           *)

(* The messages of Init are of the kinds above, and nothing was written.   *)
LEMMA IInvInit == Init => IInv
<1> SUFFICES ASSUME Init PROVE IInv
  OBVIOUS
<1>1. MessageInv
  BY RequestKinds, ResponseKinds DEF Init
<1>2. w \in Written
  <2>1. <<>> \in Seq([chunk: BOOLEAN, data: Seq(Letters)])
    OBVIOUS
  <2> QED
    BY <2>1 DEF Init, Written
<1>3. pc = "start" /\ StartInv /\ ~w.ended
  BY DEF Init, StartInv
<1> QED
  BY <1>1, <1>2, <1>3 DEF IInv

(* The inductive invariant holds: at every moment the filters hold what    *)
(* they must of the pieces that arrived and the rest has been written the  *)
(* way the headers announced, whatever the body and however it was cut.    *)
THEOREM Inductive == Spec => []IInv
<1>1. IInv /\ [Next]_vars => IInv'
  <2> SUFFICES ASSUME IInv, [Next]_vars PROVE IInv'
    OBVIOUS
  <2> QED
    BY UnwrittenStep, DeferredStep, HeadersStep, DataStep, CompleteStep, StutterStep DEF Next
<1> QED
  BY <1>1, IInvInit, PTL DEF Spec

(* Whatever framing a message arrived with, whatever its body, however it  *)
(* was cut and whichever filters changed it, the peer finds the end of     *)
(* what rp_stream_encoder_impl wrote, except for the three kinds of        *)
(* message FramingAgrees names.                                            *)
THEOREM FramingAlwaysAgrees == Spec => []FramingAgrees
<1>1. IInv => FramingAgrees
  BY DEF IInv, FramingAgrees
<1> QED
  BY <1>1, Inductive, PTL

(* A message that was decoded has been sent, inflated and with every URL   *)
(* rewritten, the ones that two pieces share included: the rewriting       *)
(* filters and the decompressor hold nothing back.  A response to HEAD and *)
(* a 304 that announce a body are never sent: on_message_complete_base     *)
(* waits for its end.                                                      *)
THEOREM BodyAlwaysDelivered == Spec => []BodyDelivered
<1>1. IInv => BodyDelivered
  <2> SUFFICES ASSUME IInv PROVE BodyDelivered
    OBVIOUS
  <2>1. CASE pc = "done"
    BY <2>1 DEF IInv
  <2>2. CASE pc = "body"
    <3>1. ~Withheld
      BY <2>2, WithheldKinds DEF IInv, BodyInv, HeadersInv, FrameInv
    <3> QED
      BY <2>2, <3>1 DEF BodyDelivered
  <2>3. CASE pc \notin {"body", "done"}
    <3>1. w.body = <<>> /\ ~w.ended
      BY <2>3 DEF IInv, StartInv
    <3>2. Sent = <<>>
      <4>1. Sent = Data(<<>>)
        BY <3>1 DEF Sent, Data
      <4>2. [chunk |-> TRUE, data |-> <<>>] \in [chunk: BOOLEAN, data: Seq(Letters)]
        OBVIOUS
      <4>3. <<>> \in Seq([chunk: BOOLEAN, data: Seq(Letters)])
        OBVIOUS
      <4> QED
        BY <4>1, <4>2, <4>3, DataWritten
    <3> QED
      BY <2>3, <3>1, <3>2 DEF BodyDelivered
  <2> QED
    BY <2>1, <2>2, <2>3
<1> QED
  BY <1>1, Inductive, PTL
=============================================================================
