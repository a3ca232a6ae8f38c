--------------------------- MODULE ClustersProofs ---------------------------
(***************************************************************************)
(* Machine-checked proofs about Clusters, for any number of workers,       *)
(* clusters, endpoints and requests.                                       *)
(*                                                                         *)
(* The inductive invariant follows an endpoint's query through the main    *)
(* thread's queue and the resolver (ResolveInv), a cluster through the     *)
(* manager, its init helper and the workers' copies (ManagerInv), the name *)
(* of a sub-cluster from the shared map to the manager (KnownInv) and a    *)
(* request through the table of those that wait (RequestInv).              *)
(***************************************************************************)
EXTENDS Clusters, FiniteSetTheorems, SequenceTheorems, TLAPS

(* The queue q holds a start or an answer for the endpoint t.              *)
Asked(q, t) == \E i \in DOMAIN q : q[i].what # "add" /\ q[i].target = t

(* The endpoint t waits for a query of the resolver's table f.             *)
Waiter(f, t) == \E i \in DOMAIN f[t[2]].waiters : f[t[2]].waiters[i] = t

(* The queue q holds an endpoint at most once.                             *)
OneAsk(q) ==
    \A i, j \in DOMAIN q :
        q[i].what # "add" /\ q[j].what # "add" /\ q[i].target = q[j].target => i = j

(* A query has waiters for its own name only, each once, and none when it  *)
(* is not running: starting one forgets nobody.                            *)
OneWait(f) ==
    \A d \in Names :
        /\ IsInjective(f[d].waiters)
        /\ \A i \in DOMAIN f[d].waiters : f[d].waiters[i][2] = d
        /\ f[d].family = "none" => f[d].waiters = <<>>

(* An endpoint is in one place: in the queue, among the waiters, or done.  *)
OnePlace(q, f, done) ==
    \A t \in Targets :
        /\ ~(Asked(q, t) /\ Waiter(f, t))
        /\ t \in done => ~Asked(q, t) /\ ~Waiter(f, t)

(* The endpoint t is still to be answered.                                 *)
Open(q, f, t) == Asked(q, t) \/ Waiter(f, t)

AddPosted(q, n) == \E i \in DOMAIN q : q[i].what = "add" /\ q[i].name = n

ResolveInv ==
    /\ OneAsk(mainQ) /\ OneWait(inflight)
    /\ OnePlace(mainQ, inflight, hosts \cup stranded)
    /\ \A t \in Targets :
          Open(mainQ, inflight, t) \/ t \in hosts \cup stranded => where[t[1]] # "nowhere"

ManagerInv ==
    /\ \A n \in Clusters :
          /\ where[n] = "nowhere" <=> callback[n] = "none"
          /\ where[n] = "active" /\ n \in Subs => callback[n] = "done"
          /\ where[n] = "warming" => callback[n] # "done"
    /\ helper.primary = {n \in Clusters : callback[n] = "helper"}
    /\ helper.all <=> helper.primary = {}

(* A cluster that is not initialised yet has an endpoint whose answer will *)
(* initialise it, or one that is stranded.                                 *)
PendingInv ==
    \A n \in Clusters : callback[n] \in {"helper", "manager"} =>
        \E t \in TargetsOf(n) : Open(mainQ, inflight, t) \/ t \in stranded

WorkersInv ==
    \A w \in Workers :
        /\ \A n \in Clusters : Holds(w, n) <=> callback[n] = "done"
        /\ tls[w] \cap ToSet(workerQ[w]) = {}
        /\ IsInjective(workerQ[w])

KnownInv ==
    \A n \in Subs :
        n \in known <=> \/ \E v \in Workers : posting[v] = n
                        \/ AddPosted(mainQ, n)
                        \/ where[n] # "nowhere"

RequestInv ==
    /\ \A w \in Workers, n \in Subs : \A r \in pending[w][n] :
          req[r].worker = w /\ req[r].cluster = n /\ req[r].state \in {"waiting", "gone"}
    /\ \A r \in Requests : req[r].state = "waiting" =>
          LET w == req[r].worker
              n == req[r].cluster
          IN  r \in pending[w][n] /\ n \in known /\ n \notin tls[w]
    /\ abort = "none"

IInv ==
    /\ TypeOK /\ ResolveInv /\ ManagerInv /\ PendingInv /\ WorkersInv /\ KnownInv
    /\ RequestInv

-----------------------------------------------------------------------------
(* Sequences, and the main thread's queue.                                 *)

(* What a queue holds when its head was taken.                             *)
LEMMA TailElements ==
    ASSUME NEW S, NEW q \in Seq(S), q # <<>>
    PROVE  /\ Tail(q) \in Seq(S) /\ Head(q) \in S /\ Head(q) = q[1]
           /\ 1 \in DOMAIN q
           /\ \A i \in DOMAIN Tail(q) : i + 1 \in DOMAIN q /\ Tail(q)[i] = q[i + 1]
           /\ \A i \in DOMAIN q : i # 1 => i - 1 \in DOMAIN Tail(q) /\ q[i] = Tail(q)[i - 1]
           /\ \A i \in DOMAIN Tail(q) : i \in Nat /\ i # 0
           /\ \A i \in DOMAIN q : i \in Nat /\ i # 0
OBVIOUS

(* What a queue holds when something was put at its end.                   *)
LEMMA AppendElements ==
    ASSUME NEW S, NEW q \in Seq(S), NEW m \in S
    PROVE  /\ Append(q, m) \in Seq(S)
           /\ DOMAIN q \subseteq DOMAIN Append(q, m)
           /\ \A i \in DOMAIN q : Append(q, m)[i] = q[i] /\ i # Len(q) + 1
           /\ Len(q) + 1 \in DOMAIN Append(q, m)
           /\ Append(q, m)[Len(q) + 1] = m
           /\ \A i \in DOMAIN Append(q, m) : i \in DOMAIN q \/ i = Len(q) + 1
OBVIOUS

(* What a queue holds when a sequence was put at its end.                  *)
LEMMA ConcatElements ==
    ASSUME NEW S, NEW q \in Seq(S), NEW s \in Seq(S)
    PROVE  /\ q \o s \in Seq(S)
           /\ Len(q) \in Nat
           /\ \A i \in DOMAIN q : i \in Nat /\ i <= Len(q) /\ i \in DOMAIN (q \o s) /\ (q \o s)[i] = q[i]
           /\ \A i \in DOMAIN s : i \in Nat /\ i > 0
                   /\ Len(q) + i \in DOMAIN (q \o s) /\ (q \o s)[Len(q) + i] = s[i]
           /\ \A i \in DOMAIN (q \o s) :
                 i \in DOMAIN q \/ \E j \in DOMAIN s : i = Len(q) + j
<1>1. /\ q \o s \in Seq(S)
      /\ Len(q \o s) = Len(q) + Len(s)
      /\ \A i \in 1 .. Len(q) + Len(s) : (q \o s)[i] = IF i <= Len(q) THEN q[i] ELSE s[i - Len(q)]
  BY ConcatProperties
<1>2. /\ DOMAIN q = 1 .. Len(q) /\ DOMAIN s = 1 .. Len(s) /\ DOMAIN (q \o s) = 1 .. Len(q \o s)
      /\ Len(q) \in Nat /\ Len(s) \in Nat
  BY <1>1
<1> HIDE <1>1
<1>3. ASSUME NEW i \in DOMAIN (q \o s), i \notin DOMAIN q PROVE \E j \in DOMAIN s : i = Len(q) + j
  <2>1. i - Len(q) \in DOMAIN s /\ i = Len(q) + (i - Len(q))
    BY <1>1, <1>2, <1>3
  <2> QED
    BY <2>1
<1>4. ASSUME NEW i \in DOMAIN q
      PROVE  i \in Nat /\ i <= Len(q) /\ i \in DOMAIN (q \o s) /\ (q \o s)[i] = q[i]
  BY <1>1, <1>2
<1>5. ASSUME NEW i \in DOMAIN s
      PROVE  i \in Nat /\ i > 0 /\ Len(q) + i \in DOMAIN (q \o s) /\ (q \o s)[Len(q) + i] = s[i]
  BY <1>1, <1>2
<1> QED
  BY <1>1, <1>2, <1>3, <1>4, <1>5

(* Taking the head off the queue: its endpoint is in it no more, the       *)
(* others are as they were.                                                *)
LEMMA TakeHead ==
    ASSUME NEW q \in Seq(Posts), q # <<>>
    PROVE  /\ Tail(q) \in Seq(Posts) /\ Head(q) \in Posts
           /\ OneAsk(q) => OneAsk(Tail(q))
           /\ \A t : Asked(q, t) <=> \/ Asked(Tail(q), t)
                                     \/ Head(q).what # "add" /\ Head(q).target = t
           /\ OneAsk(q) /\ Head(q).what # "add" => ~Asked(Tail(q), Head(q).target)
           /\ \A n : AddPosted(q, n) <=> \/ AddPosted(Tail(q), n)
                                         \/ Head(q).what = "add" /\ Head(q).name = n
<1> DEFINE s == Tail(q)
<1>1. /\ s \in Seq(Posts) /\ Head(q) \in Posts /\ Head(q) = q[1] /\ 1 \in DOMAIN q
      /\ \A i \in DOMAIN s : i + 1 \in DOMAIN q /\ s[i] = q[i + 1]
      /\ \A i \in DOMAIN q : i # 1 => i - 1 \in DOMAIN s /\ q[i] = s[i - 1]
      /\ \A i \in DOMAIN s : i \in Nat /\ i # 0
      /\ \A i \in DOMAIN q : i \in Nat /\ i # 0
  BY TailElements
<1> HIDE DEF s
<1>2. ASSUME OneAsk(q) PROVE OneAsk(s)
  <2> SUFFICES ASSUME NEW i \in DOMAIN s, NEW j \in DOMAIN s,
                      s[i].what # "add", s[j].what # "add", s[i].target = s[j].target
               PROVE  i = j
    BY DEF OneAsk
  <2>1. i + 1 = j + 1
    BY <1>1, <1>2 DEF OneAsk
  <2> QED
    BY <2>1, <1>1
<1>3. ASSUME NEW t
      PROVE  Asked(q, t) <=> Asked(s, t) \/ (Head(q).what # "add" /\ Head(q).target = t)
  BY <1>1 DEF Asked
<1>4. ASSUME OneAsk(q), Head(q).what # "add" PROVE ~Asked(s, Head(q).target)
  <2> SUFFICES ASSUME NEW i \in DOMAIN s, s[i].what # "add", s[i].target = Head(q).target PROVE FALSE
    BY DEF Asked
  <2>1. i + 1 = 1
    BY <1>1, <1>4 DEF OneAsk
  <2> QED
    BY <2>1, <1>1
<1>5. ASSUME NEW n
      PROVE  AddPosted(q, n) <=> AddPosted(s, n) \/ (Head(q).what = "add" /\ Head(q).name = n)
  BY <1>1 DEF AddPosted
<1> QED
  BY <1>1, <1>2, <1>3, <1>4, <1>5 DEF s

(* Posting a configuration leaves the endpoints of the queue alone.        *)
LEMMA PutAdd ==
    ASSUME NEW q \in Seq(Posts), NEW n \in Subs
    PROVE  LET s == Append(q, [what |-> "add", name |-> n])
           IN  /\ s \in Seq(Posts)
               /\ OneAsk(q) => OneAsk(s)
               /\ \A t : Asked(s, t) <=> Asked(q, t)
               /\ \A m : AddPosted(s, m) <=> AddPosted(q, m) \/ m = n
<1> DEFINE a == [what |-> "add", name |-> n]
           s == Append(q, a)
<1>1. a \in Posts /\ a.what = "add" /\ a.name = n
  BY DEF Posts
<1> HIDE DEF a
<1>2. /\ s \in Seq(Posts)
      /\ DOMAIN q \subseteq DOMAIN s
      /\ \A i \in DOMAIN q : s[i] = q[i]
      /\ Len(q) + 1 \in DOMAIN s /\ s[Len(q) + 1] = a
      /\ \A i \in DOMAIN s : i \in DOMAIN q \/ i = Len(q) + 1
  BY <1>1, AppendElements
<1> HIDE DEF s
<1>3. ASSUME NEW t PROVE Asked(s, t) <=> Asked(q, t)
  BY <1>1, <1>2 DEF Asked
<1>4. ASSUME NEW m PROVE AddPosted(s, m) <=> AddPosted(q, m) \/ m = n
  BY <1>1, <1>2 DEF AddPosted
<1>5. OneAsk(q) => OneAsk(s)
  BY <1>1, <1>2 DEF OneAsk
<1> QED
  BY <1>2, <1>3, <1>4, <1>5 DEF s, a

(* A sequence of starts and answers without repetitions.                   *)
Questions(s) == s \in Seq(Posts) /\ OneAsk(s) /\ \A i \in DOMAIN s : s[i].what # "add"

(* Posting starts or answers for endpoints that are not in the queue.      *)
LEMMA PutQuestions ==
    ASSUME NEW q \in Seq(Posts), NEW s, Questions(s)
    PROVE  /\ q \o s \in Seq(Posts)
           /\ OneAsk(q) /\ (\A t \in Targets : ~(Asked(q, t) /\ Asked(s, t))) => OneAsk(q \o s)
           /\ \A t : Asked(q \o s, t) <=> Asked(q, t) \/ Asked(s, t)
           /\ \A n : AddPosted(q \o s, n) <=> AddPosted(q, n)
<1> DEFINE c == q \o s
<1>0. s \in Seq(Posts) /\ OneAsk(s) /\ \A i \in DOMAIN s : s[i].what # "add"
  BY DEF Questions
<1>1. /\ c \in Seq(Posts) /\ Len(q) \in Nat
      /\ \A i \in DOMAIN q : i \in Nat /\ i <= Len(q) /\ i \in DOMAIN c /\ c[i] = q[i]
      /\ \A i \in DOMAIN s : i \in Nat /\ i > 0 /\ Len(q) + i \in DOMAIN c /\ c[Len(q) + i] = s[i]
      /\ \A i \in DOMAIN c : i \in DOMAIN q \/ \E j \in DOMAIN s : i = Len(q) + j
  BY <1>0, ConcatElements
<1> HIDE DEF c
<1>2. ASSUME NEW t PROVE Asked(c, t) <=> Asked(q, t) \/ Asked(s, t)
  <2>1. ASSUME Asked(c, t) PROVE Asked(q, t) \/ Asked(s, t)
    <3>1. PICK i \in DOMAIN c : c[i].what # "add" /\ c[i].target = t
      BY <2>1 DEF Asked
    <3>2. CASE i \in DOMAIN q
      BY <3>1, <3>2, <1>1 DEF Asked
    <3>3. CASE \E j \in DOMAIN s : i = Len(q) + j
      BY <3>1, <3>3, <1>1 DEF Asked
    <3> QED
      BY <3>2, <3>3, <1>1
  <2>2. ASSUME Asked(q, t) PROVE Asked(c, t)
    BY <2>2, <1>1 DEF Asked
  <2>3. ASSUME Asked(s, t) PROVE Asked(c, t)
    <3>1. PICK i \in DOMAIN s : s[i].what # "add" /\ s[i].target = t
      BY <2>3 DEF Asked
    <3>2. Len(q) + i \in DOMAIN c /\ c[Len(q) + i] = s[i]
      BY <1>1
    <3> QED
      BY <3>1, <3>2 DEF Asked
  <2> QED
    BY <2>1, <2>2, <2>3
<1>3. ASSUME NEW n PROVE AddPosted(c, n) <=> AddPosted(q, n)
  <2>1. ASSUME AddPosted(c, n) PROVE AddPosted(q, n)
    <3>1. PICK i \in DOMAIN c : c[i].what = "add" /\ c[i].name = n
      BY <2>1 DEF AddPosted
    <3>2. i \in DOMAIN q
      <4>1. ASSUME NEW j \in DOMAIN s, i = Len(q) + j PROVE FALSE
        BY <4>1, <3>1, <1>0, <1>1
      <4> QED
        BY <4>1, <1>1
    <3> QED
      BY <3>1, <3>2, <1>1 DEF AddPosted
  <2>2. ASSUME AddPosted(q, n) PROVE AddPosted(c, n)
    BY <2>2, <1>1 DEF AddPosted
  <2> QED
    BY <2>1, <2>2
<1>4. ASSUME OneAsk(q), \A t \in Targets : ~(Asked(q, t) /\ Asked(s, t)) PROVE OneAsk(c)
  <2> SUFFICES ASSUME NEW i \in DOMAIN c, NEW j \in DOMAIN c,
                      c[i].what # "add", c[j].what # "add", c[i].target = c[j].target
               PROVE  i = j
    BY DEF OneAsk
  <2>0. c[i].target \in Targets
    BY <1>1 DEF Posts
  <2>1. CASE i \in DOMAIN q /\ j \in DOMAIN q
    BY <2>1, <1>1, <1>4 DEF OneAsk
  <2>2. ASSUME i \in DOMAIN q, NEW k \in DOMAIN s, j = Len(q) + k PROVE FALSE
    <3>1. Asked(q, c[i].target)
      BY <2>2, <1>1 DEF Asked
    <3>2. Asked(s, c[i].target)
      <4>1. c[j] = s[k]
        BY <2>2, <1>1
      <4> QED
        BY <4>1 DEF Asked
    <3> QED
      BY <3>1, <3>2, <2>0, <1>4
  <2>3. ASSUME j \in DOMAIN q, NEW k \in DOMAIN s, i = Len(q) + k PROVE FALSE
    <3>1. Asked(q, c[i].target)
      BY <2>3, <1>1 DEF Asked
    <3>2. Asked(s, c[i].target)
      <4>1. c[i] = s[k]
        BY <2>3, <1>1
      <4> QED
        BY <4>1 DEF Asked
    <3> QED
      BY <3>1, <3>2, <2>0, <1>4
  <2>4. ASSUME NEW k \in DOMAIN s, NEW l \in DOMAIN s, i = Len(q) + k, j = Len(q) + l PROVE i = j
    <3>1. k = l
      BY <2>4, <1>0, <1>1 DEF OneAsk
    <3> QED
      BY <2>4, <3>1
  <2> QED
    BY <2>1, <2>2, <2>3, <2>4, <1>1
<1> QED
  BY <1>1, <1>2, <1>3, <1>4 DEF c

(* The starts that are posted for a set of endpoints: each of them once.   *)
LEMMA StartsOf ==
    ASSUME NEW T \in SUBSET Targets, NEW s \in StartPosts(T)
    PROVE  Questions(s) /\ \A t : Asked(s, t) <=> t \in T
<1>1. IsFiniteSet(T) /\ Cardinality(T) \in Nat
  BY ClustersAssumption, FS_Subset, FS_CardinalityType
<1> DEFINE D == 1 .. Cardinality(T)
           Start(t) == [what |-> "start", target |-> t, found |-> FALSE]
<1>2. PICK q \in SetToSeqs(T) : s = [i \in DOMAIN q |-> Start(q[i])]
  BY DEF StartPosts
<1>3. q \in [D -> T] /\ \A i, j \in D : i # j => q[i] # q[j]
  BY <1>2 DEF SetToSeqs
<1>4. q \in Surjection(D, T)
  <2>1. q \in Injection(D, T)
    BY <1>3, Zenon DEF Injection, IsInjective
  <2>2. IsFiniteSet(D) /\ Cardinality(D) = Cardinality(T)
    BY <1>1, FS_Interval
  <2> QED
    BY <1>1, <2>1, <2>2, FS_Injection
<1>5. \A t \in T : \E i \in D : q[i] = t
  BY <1>4 DEF Surjection
<1>6. ASSUME NEW t \in T
      PROVE  Start(t) \in Posts /\ Start(t).what = "start" /\ Start(t).target = t
  BY DEF Posts
<1> HIDE DEF Start
<1>7. DOMAIN s = D /\ \A i \in D : q[i] \in T /\ s[i] = Start(q[i])
  BY <1>2, <1>3
<1>8. s \in Seq(Posts)
  <2>1. s = [i \in D |-> Start(q[i])]
    BY <1>2, <1>3
  <2>2. s \in [D -> Posts]
    BY <2>1, <1>6, <1>7
  <2> QED
    BY <2>2, <1>1
<1> HIDE DEF D
<1>9. \A i \in DOMAIN s : s[i].what # "add" /\ s[i].target = q[i]
  BY <1>6, <1>7
<1>10. OneAsk(s)
  BY <1>3, <1>7, <1>9 DEF OneAsk
<1>11. ASSUME NEW t PROVE Asked(s, t) <=> t \in T
  BY <1>5, <1>7, <1>9 DEF Asked
<1> QED
  BY <1>8, <1>9, <1>10, <1>11 DEF Questions

-----------------------------------------------------------------------------
(* The resolver's table.                                                   *)

Queries == [family: {"none", "v4", "v6"}, up: SUBSET {"v4", "v6"}, waiters: Seq(Targets)]

(* An endpoint is its cluster and the name it resolves.                    *)
LEMMA TargetParts ==
    ASSUME NEW t \in Targets
    PROVE  t[1] \in Clusters /\ t[2] \in Names /\ t \in TargetsOf(t[1])
<1>1. PICK n \in Clusters : t \in TargetsOf(n)
  BY DEF Targets
<1>2. t[1] = n
  BY <1>1 DEF TargetsOf
<1> QED
  BY <1>1, <1>2 DEF Names

(* A cluster has an endpoint.                                              *)
LEMMA SomeTarget ==
    ASSUME NEW n \in Clusters
    PROVE  \E t : t \in TargetsOf(n)
<1>1. PICK d : d \in DnsNames[n]
  BY ClustersAssumption
<1>2. <<n, d>> \in TargetsOf(n)
  BY <1>1 DEF TargetsOf
<1> QED
  BY <1>2

(* What is posted when a query ends: an answer for each of its waiters.    *)
LEMMA AnswersOf ==
    ASSUME inflight \in [Names -> Queries], OneWait(inflight), NEW d \in Names, NEW found \in BOOLEAN
    PROVE  /\ Questions(Answers(d, found))
           /\ \A t : Asked(Answers(d, found), t) <=> t[2] = d /\ Waiter(inflight, t)
<1> DEFINE ws == inflight[d].waiters
           Answer(t) == [what |-> "resolved", target |-> t, found |-> found]
           s == Answers(d, found)
<1>1. /\ ws \in Seq(Targets) /\ IsInjective(ws)
      /\ \A i \in DOMAIN ws : ws[i] \in Targets /\ ws[i][2] = d
  BY DEF OneWait, Queries
<1>2. ASSUME NEW t \in Targets
      PROVE  Answer(t) \in Posts /\ Answer(t).what = "resolved" /\ Answer(t).target = t
  BY DEF Posts
<1>3. s = [i \in DOMAIN ws |-> Answer(ws[i])]
  BY DEF Answers
<1> HIDE DEF Answer
<1>4. DOMAIN s = DOMAIN ws /\ \A i \in DOMAIN ws : s[i] = Answer(ws[i])
  BY <1>3
<1>5. s \in Seq(Posts)
  <2>1. Len(ws) \in Nat /\ DOMAIN ws = 1 .. Len(ws)
    BY <1>1
  <2>2. s \in [1 .. Len(ws) -> Posts]
    BY <1>1, <1>2, <1>3, <2>1
  <2> QED
    BY <2>1, <2>2
<1> HIDE DEF s
<1>6. \A i \in DOMAIN s : s[i].what # "add" /\ s[i].target = ws[i]
  BY <1>1, <1>2, <1>4
<1>7. OneAsk(s)
  BY <1>1, <1>4, <1>6 DEF OneAsk, IsInjective
<1>8. ASSUME NEW t PROVE Asked(s, t) <=> t[2] = d /\ Waiter(inflight, t)
  BY <1>1, <1>4, <1>6 DEF Asked, Waiter
<1> QED
  BY <1>5, <1>6, <1>7, <1>8 DEF Questions, s

(* A query for a name is joined, or started, by an endpoint that waits for *)
(* none yet.                                                               *)
LEMMA Join ==
    ASSUME NEW f \in [Names -> Queries], OneWait(f), NEW t \in Targets, ~Waiter(f, t),
           NEW g \in [Names -> Queries],
           \A e \in Names \ {t[2]} : g[e] = f[e],
           g[t[2]].family # "none",
           g[t[2]].waiters = Append(f[t[2]].waiters, t)
    PROVE  OneWait(g) /\ \A x \in Targets : Waiter(g, x) <=> Waiter(f, x) \/ x = t
<1> DEFINE d == t[2]
           a == f[d].waiters
           b == g[d].waiters
<1>1. d \in Names
  BY TargetParts
<1>2. a \in Seq(Targets)
  BY <1>1 DEF Queries
<1>3. /\ DOMAIN a \subseteq DOMAIN b
      /\ \A i \in DOMAIN a : b[i] = a[i] /\ i # Len(a) + 1
      /\ Len(a) + 1 \in DOMAIN b /\ b[Len(a) + 1] = t
      /\ \A i \in DOMAIN b : i \in DOMAIN a \/ i = Len(a) + 1
  BY <1>2, AppendElements
<1>4. \A i \in DOMAIN a : a[i] # t /\ a[i][2] = d
  BY <1>1 DEF Waiter, OneWait
<1>5. IsInjective(a)
  BY <1>1 DEF OneWait
<1>6. IsInjective(b) /\ \A i \in DOMAIN b : b[i][2] = d
  <2> HIDE DEF a, b
  <2>1. ASSUME NEW i \in DOMAIN b, NEW j \in DOMAIN b, b[i] = b[j] PROVE i = j
    BY <2>1, <1>3, <1>4, <1>5 DEF IsInjective
  <2>2. \A i \in DOMAIN b : b[i][2] = d
    BY <1>3, <1>4
  <2> QED
    BY <2>1, <2>2 DEF IsInjective
<1>7. OneWait(g)
  <2> SUFFICES ASSUME NEW e \in Names
               PROVE  /\ IsInjective(g[e].waiters)
                      /\ \A i \in DOMAIN g[e].waiters : g[e].waiters[i][2] = e
                      /\ g[e].family = "none" => g[e].waiters = <<>>
    BY DEF OneWait
  <2>1. CASE e = d
    BY <2>1, <1>6
  <2>2. CASE e # d
    BY <2>2 DEF OneWait
  <2> QED
    BY <2>1, <2>2
<1>8. ASSUME NEW x \in Targets PROVE Waiter(g, x) <=> Waiter(f, x) \/ x = t
  <2>1. CASE x[2] = d
    BY <2>1, <1>3 DEF Waiter
  <2>2. CASE x[2] # d
    <3>1. x[2] \in Names \ {d} /\ x # t
      BY <2>2, TargetParts
    <3> QED
      BY <3>1 DEF Waiter
  <2> QED
    BY <2>1, <2>2
<1> QED
  BY <1>7, <1>8

(* A query leaves the table: its endpoints wait no more.                   *)
LEMMA Finish ==
    ASSUME NEW f \in [Names -> Queries], OneWait(f), NEW d \in Names
    PROVE  LET g == [f EXCEPT ![d] = Idle]
           IN  /\ g \in [Names -> Queries] /\ OneWait(g)
               /\ \A x \in Targets : Waiter(g, x) <=> Waiter(f, x) /\ x[2] # d
<1> DEFINE g == [f EXCEPT ![d] = Idle]
<1>1. /\ Idle \in Queries /\ Idle.waiters = <<>> /\ DOMAIN <<>> = {}
      /\ IsInjective(<<>>)
  BY DEF Idle, Queries, IsInjective
<1>2. /\ g \in [Names -> Queries] /\ g[d] = Idle
      /\ \A e \in Names \ {d} : g[e] = f[e]
  BY <1>1
<1> HIDE DEF g
<1>3. OneWait(g)
  <2> SUFFICES ASSUME NEW e \in Names
               PROVE  /\ IsInjective(g[e].waiters)
                      /\ \A i \in DOMAIN g[e].waiters : g[e].waiters[i][2] = e
                      /\ g[e].family = "none" => g[e].waiters = <<>>
    BY DEF OneWait
  <2>1. CASE e = d
    BY <2>1, <1>1, <1>2
  <2>2. CASE e # d
    BY <2>2, <1>2 DEF OneWait
  <2> QED
    BY <2>1, <2>2
<1>4. ASSUME NEW x \in Targets PROVE Waiter(g, x) <=> Waiter(f, x) /\ x[2] # d
  <2>1. x[2] \in Names
    BY TargetParts
  <2>2. CASE x[2] = d
    BY <2>2, <1>1, <1>2 DEF Waiter
  <2>3. CASE x[2] # d
    BY <2>1, <2>3, <1>2 DEF Waiter
  <2> QED
    BY <2>2, <2>3
<1> QED
  BY <1>2, <1>3, <1>4 DEF g

-----------------------------------------------------------------------------
(* What the parts of the invariant do not depend on.                       *)

(* The parts of the invariant hold on when their variables do not change.  *)
LEMMA Frames ==
    /\ ResolveInv /\ UNCHANGED <<mainQ, inflight, hosts, stranded, where>> => ResolveInv'
    /\ ManagerInv /\ UNCHANGED <<where, callback, helper>> => ManagerInv'
    /\ PendingInv /\ UNCHANGED <<callback, mainQ, inflight, stranded>> => PendingInv'
    /\ WorkersInv /\ UNCHANGED <<tls, workerQ, callback>> => WorkersInv'
    /\ KnownInv /\ UNCHANGED <<known, posting, mainQ, where>> => KnownInv'
    /\ RequestInv /\ UNCHANGED <<pending, req, known, tls, abort>> => RequestInv'
<1>1. ResolveInv /\ UNCHANGED <<mainQ, inflight, hosts, stranded, where>> => ResolveInv'
  BY DEF ResolveInv
<1>2. ManagerInv /\ UNCHANGED <<where, callback, helper>> => ManagerInv'
  BY DEF ManagerInv
<1>3. PendingInv /\ UNCHANGED <<callback, mainQ, inflight, stranded>> => PendingInv'
  BY DEF PendingInv
<1>4. WorkersInv /\ UNCHANGED <<tls, workerQ, callback>> => WorkersInv'
  BY DEF WorkersInv, Holds
<1>5. KnownInv /\ UNCHANGED <<known, posting, mainQ, where>> => KnownInv'
  BY DEF KnownInv
<1>6. RequestInv /\ UNCHANGED <<pending, req, known, tls, abort>> => RequestInv'
  BY DEF RequestInv
<1> QED
  BY <1>1, <1>2, <1>3, <1>4, <1>5, <1>6

(* The table of those that wait holds requests.                            *)
LEMMA PendingRequests ==
    ASSUME TypeOK, NEW w \in Workers, NEW n \in Subs
    PROVE  pending[w][n] \subseteq Requests
<1>1. pending[w] \in [Subs -> SUBSET Requests]
  BY Zenon DEF TypeOK
<1>2. pending[w][n] \in SUBSET Requests
  BY <1>1
<1> QED
  BY <1>2

(* A step that moves endpoints between the queue and the resolver keeps    *)
(* what is known of them, as long as each stays in one place.              *)
LEMMA Moves ==
    ASSUME TypeOK, ResolveInv, PendingInv, OneAsk(mainQ'), OneWait(inflight'),
           UNCHANGED <<hosts, stranded, where, callback>>,
           \A t \in Targets : /\ Open(mainQ', inflight', t) <=> Open(mainQ, inflight, t)
                             /\ ~(Asked(mainQ', t) /\ Waiter(inflight', t))
    PROVE  ResolveInv' /\ PendingInv'
<1>1. OnePlace(mainQ', inflight', hosts' \cup stranded')
  BY DEF ResolveInv, OnePlace, Open
<1>2. ResolveInv'
  BY <1>1 DEF ResolveInv
<1>3. PendingInv'
  <2> SUFFICES ASSUME NEW n \in Clusters, callback[n] \in {"helper", "manager"}
               PROVE  \E t \in TargetsOf(n) : Open(mainQ', inflight', t) \/ t \in stranded
    BY DEF PendingInv
  <2>1. PICK t \in TargetsOf(n) : Open(mainQ, inflight, t) \/ t \in stranded
    BY DEF PendingInv
  <2>2. t \in Targets
    BY DEF Targets
  <2> QED
    BY <2>1, <2>2
<1> QED
  BY <1>2, <1>3

(* The names of the sub-clusters are kept when their configurations stay   *)
(* in the queue.                                                           *)
LEMMA KnownFrame ==
    ASSUME KnownInv, UNCHANGED <<known, posting>>,
           \A n \in Subs : AddPosted(mainQ', n) <=> AddPosted(mainQ, n),
           \A n \in Subs : where'[n] = "nowhere" <=> where[n] = "nowhere"
    PROVE  KnownInv'
BY DEF KnownInv

-----------------------------------------------------------------------------
(* The steps of a worker.                                                  *)

(* A request's headers: it goes on, or is entered among those that wait.   *)
LEMMA DecodeHeadersStep ==
    ASSUME IInv, NEW r \in Requests, NEW w \in Workers, NEW n \in Subs, DecodeHeaders(r, w, n)
    PROVE  IInv'
<1>0. TypeOK /\ ResolveInv /\ ManagerInv /\ PendingInv /\ WorkersInv /\ KnownInv /\ RequestInv
  BY DEF IInv
<1>1. ResolveInv' /\ ManagerInv' /\ PendingInv' /\ WorkersInv'
  <2>1. UNCHANGED <<mainQ, inflight, where, callback, helper, hosts, workerQ, tls, stranded, abort>>
    BY DEF DecodeHeaders
  <2> QED
    BY <1>0, <2>1, Frames
<1>2. CASE /\ req' = [req EXCEPT ![r] = [state |-> "routed", worker |-> w, cluster |-> n]]
           /\ UNCHANGED <<known, posting, pending>>
  <2>1. UNCHANGED <<mainQ, inflight, where, callback, helper, hosts, workerQ, tls, stranded, abort>>
        /\ req[r].state = "new"
    BY DEF DecodeHeaders
  <2>2. TypeOK'
    BY <1>0, <1>2, <2>1 DEF TypeOK
  <2>3. KnownInv'
    BY <1>0, <1>2, <2>1, Frames
  <2>4. RequestInv'
    <3>1. /\ req'[r].state = "routed"
          /\ \A x \in Requests \ {r} : req'[x] = req[x]
      BY <1>0, <1>2 DEF TypeOK
    <3>2. \A v \in Workers, m \in Subs : r \notin pending[v][m] /\ pending[v][m] \subseteq Requests
      BY <1>0, <2>1, PendingRequests DEF RequestInv
    <3> QED
      BY <1>0, <1>2, <2>1, <3>1, <3>2 DEF RequestInv
  <2> QED
    BY <1>1, <2>2, <2>3, <2>4 DEF IInv
<1>3. CASE /\ ~LoadedHere(w, n)
           /\ req' = [req EXCEPT ![r] = [state |-> "waiting", worker |-> w, cluster |-> n]]
           /\ CreateSubClusterConfig(w, n)
           /\ NewHandle(r, w, n)
  <2>1. UNCHANGED <<mainQ, inflight, where, callback, helper, hosts, workerQ, tls, stranded, abort>>
        /\ req[r].state = "new" /\ posting[w] = "none"
    BY DEF DecodeHeaders
  <2>2. /\ known' = known \cup {n}
        /\ posting' = [posting EXCEPT ![w] = IF n \in known THEN "none" ELSE n]
        /\ pending' = [pending EXCEPT ![w][n] = @ \cup {r}]
    BY <1>3 DEF CreateSubClusterConfig, NewHandle
  <2>3. /\ posting' \in [Workers -> Subs \cup {"none"}]
        /\ posting'[w] = IF n \in known THEN "none" ELSE n
        /\ \A v \in Workers \ {w} : posting'[v] = posting[v]
    BY <1>0, <2>2 DEF TypeOK
  <2>4. /\ pending' \in [Workers -> [Subs -> SUBSET Requests]]
        /\ pending'[w][n] = pending[w][n] \cup {r}
        /\ \A v \in Workers, m \in Subs : v # w \/ m # n => pending'[v][m] = pending[v][m]
    BY <1>0, <2>2 DEF TypeOK
  <2>5. /\ req' \in [Requests -> [state: {"new", "waiting", "routed", "gone"},
                                  worker: Workers, cluster: Subs]]
        /\ req'[r] = [state |-> "waiting", worker |-> w, cluster |-> n]
        /\ \A x \in Requests \ {r} : req'[x] = req[x]
    BY <1>0, <1>3 DEF TypeOK
  <2>6. TypeOK'
    <3>1. known' \subseteq Subs
      BY <1>0, <2>2 DEF TypeOK
    <3> QED
      BY <1>0, <2>1, <2>3, <2>4, <2>5, <3>1, Zenon DEF TypeOK
  <2>7. KnownInv'
    <3> SUFFICES ASSUME NEW m \in Subs
                 PROVE  m \in known' <=> \/ \E v \in Workers : posting'[v] = m
                                         \/ AddPosted(mainQ, m)
                                         \/ where[m] # "nowhere"
      BY <2>1 DEF KnownInv
    <3>1. m \in known <=> \/ \E v \in Workers : posting[v] = m
                          \/ AddPosted(mainQ, m)
                          \/ where[m] # "nowhere"
      BY <1>0 DEF KnownInv
    <3>2. \A v \in Workers : posting[v] = m => v # w
      BY <2>1, ClustersAssumption
    <3>3. CASE m = n
      BY <3>1, <3>2, <3>3, <2>2, <2>3
    <3>4. CASE m # n
      BY <3>1, <3>2, <3>4, <2>2, <2>3, ClustersAssumption
    <3> QED
      BY <3>3, <3>4
  <2>8. n \notin tls[w]
    <3> SUFFICES ASSUME n \in tls[w] PROVE FALSE
      OBVIOUS
    <3>1. n \notin known
      BY <1>3 DEF LoadedHere, Touch
    <3>2. where[n] = "nowhere" /\ n \in Clusters
      BY <3>1, <1>0 DEF KnownInv, Clusters
    <3>3. callback[n] = "none" /\ Holds(w, n)
      BY <3>2, <1>0 DEF ManagerInv, Holds
    <3> QED
      BY <3>2, <3>3, <1>0 DEF WorkersInv
  <2>9. RequestInv'
    <3>1. ASSUME NEW v \in Workers, NEW m \in Subs, NEW x \in pending'[v][m]
          PROVE  req'[x].worker = v /\ req'[x].cluster = m /\ req'[x].state \in {"waiting", "gone"}
      <4>1. CASE x = r
        <5>1. v = w /\ m = n
          <6>1. r \notin pending[v][m]
            BY <1>0, <2>1 DEF RequestInv
          <6> QED
            BY <4>1, <6>1, <2>4
        <5> QED
          BY <4>1, <5>1, <2>5
      <4>2. CASE x # r
        <5>1. x \in pending[v][m] /\ x \in Requests
          BY <4>2, <2>4, <1>0, PendingRequests
        <5> QED
          BY <4>2, <5>1, <2>5, <1>0 DEF RequestInv
      <4> QED
        BY <4>1, <4>2
    <3>2. ASSUME NEW x \in Requests, req'[x].state = "waiting"
          PROVE  /\ x \in pending'[req'[x].worker][req'[x].cluster]
                 /\ req'[x].cluster \in known' /\ req'[x].cluster \notin tls[req'[x].worker]
      <4>1. CASE x = r
        BY <4>1, <2>2, <2>4, <2>5, <2>8
      <4>2. CASE x # r
        <5>1. req'[x] = req[x] /\ req[x].worker \in Workers /\ req[x].cluster \in Subs
          BY <4>2, <2>5, <1>0 DEF TypeOK
        <5>2. /\ x \in pending[req[x].worker][req[x].cluster]
              /\ req[x].cluster \in known /\ req[x].cluster \notin tls[req[x].worker]
          BY <5>1, <3>2, <1>0 DEF RequestInv
        <5>3. pending[req[x].worker][req[x].cluster] \subseteq pending'[req[x].worker][req[x].cluster]
          BY <5>1, <2>4
        <5> QED
          BY <5>1, <5>2, <5>3, <2>2
      <4> QED
        BY <4>1, <4>2
    <3>3. abort' = "none"
      BY <1>0, <2>1 DEF RequestInv
    <3> QED
      BY <3>1, <3>2, <3>3, <2>1 DEF RequestInv
  <2> QED
    BY <1>1, <2>6, <2>7, <2>9 DEF IInv
<1> QED
  BY <1>2, <1>3 DEF DecodeHeaders

(* The downstream goes while its request waits.                            *)
LEMMA DownstreamGoneStep ==
    ASSUME IInv, NEW r \in Requests, DownstreamGone(r)
    PROVE  IInv'
<1>0. TypeOK /\ ResolveInv /\ ManagerInv /\ PendingInv /\ WorkersInv /\ KnownInv /\ RequestInv
  BY DEF IInv
<1>1. /\ req' = [req EXCEPT ![r].state = "gone"] /\ req[r].state = "waiting"
      /\ UNCHANGED <<known, mainQ, inflight, where, callback, helper, hosts, workerQ,
                     tls, posting, pending, stranded, abort>>
  BY DEF DownstreamGone
<1>2. /\ req' \in [Requests -> [state: {"new", "waiting", "routed", "gone"},
                                worker: Workers, cluster: Subs]]
      /\ req'[r].state = "gone" /\ req'[r].worker = req[r].worker
      /\ req'[r].cluster = req[r].cluster
      /\ \A x \in Requests \ {r} : req'[x] = req[x]
  BY <1>0, <1>1 DEF TypeOK
<1>3. TypeOK'
  BY <1>0, <1>1, <1>2 DEF TypeOK
<1>4. ResolveInv' /\ ManagerInv' /\ PendingInv' /\ WorkersInv' /\ KnownInv'
  BY <1>0, <1>1, Frames
<1>5. RequestInv'
  <2>1. \A w \in Workers, n \in Subs : pending[w][n] \subseteq Requests
    BY <1>0, PendingRequests
  <2> QED
    BY <1>0, <1>1, <1>2, <2>1 DEF RequestInv
<1> QED
  BY <1>3, <1>4, <1>5 DEF IInv

(* A worker posts the configuration it made.                               *)
LEMMA PostAddStep ==
    ASSUME IInv, NEW w \in Workers, PostAdd(w)
    PROVE  IInv'
<1>0. TypeOK /\ ResolveInv /\ ManagerInv /\ PendingInv /\ WorkersInv /\ KnownInv /\ RequestInv
  BY DEF IInv
<1> DEFINE n == posting[w]
<1>1. /\ posting' = [posting EXCEPT ![w] = "none"] /\ n # "none"
      /\ mainQ' = Append(mainQ, [what |-> "add", name |-> n])
      /\ UNCHANGED <<known, inflight, where, callback, helper, hosts, workerQ, tls,
                     pending, req, stranded, abort>>
  BY DEF PostAdd
<1>2. n \in Subs /\ mainQ \in Seq(Posts)
  BY <1>0, <1>1 DEF TypeOK
<1>3. /\ posting' \in [Workers -> Subs \cup {"none"}]
      /\ posting'[w] = "none"
      /\ \A v \in Workers \ {w} : posting'[v] = posting[v]
  BY <1>0, <1>1 DEF TypeOK
<1> HIDE DEF n
<1>4. /\ mainQ' \in Seq(Posts)
      /\ OneAsk(mainQ) => OneAsk(mainQ')
      /\ \A t : Asked(mainQ', t) <=> Asked(mainQ, t)
      /\ \A m : AddPosted(mainQ', m) <=> AddPosted(mainQ, m) \/ m = n
  BY <1>1, <1>2, PutAdd
<1>5. TypeOK'
  BY <1>0, <1>1, <1>3, <1>4 DEF TypeOK
<1>6. ManagerInv' /\ WorkersInv' /\ RequestInv'
  BY <1>0, <1>1, Frames
<1>7. ResolveInv' /\ PendingInv'
  <2>1. \A t \in Targets : /\ Open(mainQ', inflight', t) <=> Open(mainQ, inflight, t)
                           /\ ~(Asked(mainQ', t) /\ Waiter(inflight', t))
    BY <1>0, <1>1, <1>4 DEF ResolveInv, OnePlace, Open
  <2>2. OneAsk(mainQ') /\ OneWait(inflight')
    BY <1>0, <1>1, <1>4 DEF ResolveInv
  <2> QED
    BY <1>0, <1>1, <2>1, <2>2, Moves
<1>8. KnownInv'
  <2> SUFFICES ASSUME NEW m \in Subs
               PROVE  m \in known <=> \/ \E v \in Workers : posting'[v] = m
                                      \/ AddPosted(mainQ', m)
                                      \/ where[m] # "nowhere"
    BY <1>1 DEF KnownInv
  <2>1. m \in known <=> \/ \E v \in Workers : posting[v] = m
                        \/ AddPosted(mainQ, m)
                        \/ where[m] # "nowhere"
    BY <1>0 DEF KnownInv
  <2>2. posting[w] = n
    BY DEF n
  <2>3. CASE m = n
    BY <2>1, <2>2, <2>3, <1>4
  <2>4. CASE m # n
    <3>1. \A v \in Workers : posting'[v] = m <=> posting[v] = m
      BY <2>2, <2>4, <1>3, ClustersAssumption
    <3> QED
      BY <3>1, <2>1, <2>4, <1>4
  <2> QED
    BY <2>3, <2>4
<1> QED
  BY <1>5, <1>6, <1>7, <1>8 DEF IInv

(* A worker enters a cluster: those who waited for it go on, and only      *)
(* those.                                                                  *)
LEMMA UpdateCbStep ==
    ASSUME IInv, NEW w \in Workers, UpdateCb(w)
    PROVE  IInv'
<1>0. TypeOK /\ ResolveInv /\ ManagerInv /\ PendingInv /\ WorkersInv /\ KnownInv /\ RequestInv
  BY DEF IInv
<1> DEFINE q == workerQ[w]
           n == Head(q)
<1>1. /\ q # <<>>
      /\ workerQ' = [workerQ EXCEPT ![w] = Tail(q)]
      /\ tls' = [tls EXCEPT ![w] = @ \cup {n}]
      /\ UNCHANGED <<known, mainQ, inflight, where, callback, helper, hosts, posting, stranded>>
  BY DEF UpdateCb
<1>2. q \in Seq(Clusters \cup {Dfp})
  BY <1>0 DEF TypeOK
<1>3. /\ Tail(q) \in Seq(Clusters \cup {Dfp}) /\ n \in Clusters \cup {Dfp} /\ n = q[1]
      /\ 1 \in DOMAIN q
      /\ \A i \in DOMAIN Tail(q) : i + 1 \in DOMAIN q /\ Tail(q)[i] = q[i + 1]
      /\ \A i \in DOMAIN q : i # 1 => i - 1 \in DOMAIN Tail(q) /\ q[i] = Tail(q)[i - 1]
      /\ \A i \in DOMAIN Tail(q) : i \in Nat /\ i # 0
  BY <1>1, <1>2, TailElements
<1>4. IsInjective(q) /\ tls[w] \cap ToSet(q) = {}
  BY <1>0 DEF WorkersInv
<1>5. /\ ToSet(q) = ToSet(Tail(q)) \cup {n}
      /\ n \notin ToSet(Tail(q))
      /\ IsInjective(Tail(q))
  <2>1. ASSUME NEW i \in DOMAIN Tail(q), Tail(q)[i] = n PROVE FALSE
    <3>1. i + 1 = 1
      BY <2>1, <1>3, <1>4 DEF IsInjective
    <3> QED
      BY <3>1, <1>3
  <2>2. ASSUME NEW i \in DOMAIN Tail(q), NEW j \in DOMAIN Tail(q), Tail(q)[i] = Tail(q)[j] PROVE i = j
    <3>1. i + 1 = j + 1
      BY <2>2, <1>3, <1>4 DEF IsInjective
    <3> QED
      BY <3>1, <1>3
  <2>3. ASSUME NEW i \in DOMAIN q PROVE q[i] \in ToSet(Tail(q)) \cup {n}
    BY <1>3 DEF ToSet
  <2>4. ASSUME NEW i \in DOMAIN Tail(q) PROVE Tail(q)[i] \in ToSet(q)
    BY <1>3 DEF ToSet
  <2>5. n \in ToSet(q)
    BY <1>3 DEF ToSet
  <2>6. ToSet(q) = ToSet(Tail(q)) \cup {n}
    BY <2>3, <2>4, <2>5 DEF ToSet
  <2> QED
    BY <2>1, <2>2, <2>6 DEF ToSet, IsInjective
<1> HIDE DEF n, q
<1>6. /\ workerQ' \in [Workers -> Seq(Clusters \cup {Dfp})]
      /\ tls' \in [Workers -> SUBSET (Clusters \cup {Dfp})]
      /\ workerQ'[w] = Tail(q) /\ tls'[w] = tls[w] \cup {n}
      /\ \A v \in Workers \ {w} : workerQ'[v] = workerQ[v] /\ tls'[v] = tls[v]
  BY <1>0, <1>1, <1>3 DEF TypeOK
<1>7. WorkersInv'
  <2> SUFFICES ASSUME NEW v \in Workers
               PROVE  /\ \A m \in Clusters : (m \in tls'[v] \/ m \in ToSet(workerQ'[v])) <=> callback[m] = "done"
                      /\ tls'[v] \cap ToSet(workerQ'[v]) = {}
                      /\ IsInjective(workerQ'[v])
    BY <1>1 DEF WorkersInv, Holds
  <2>1. CASE v = w
    <3>1. \A m \in Clusters : (m \in tls[w] \/ m \in ToSet(q)) <=> callback[m] = "done"
      BY <1>0 DEF WorkersInv, Holds, q
    <3> QED
      BY <2>1, <3>1, <1>4, <1>5, <1>6
  <2>2. CASE v # w
    BY <2>2, <1>0, <1>6 DEF WorkersInv, Holds
  <2> QED
    BY <2>1, <2>2
<1>8. ResolveInv' /\ ManagerInv' /\ PendingInv' /\ KnownInv'
  BY <1>0, <1>1, Frames
<1>9. CASE n \notin Subs
  <2>1. UNCHANGED <<pending, req, abort>>
    BY <1>9 DEF UpdateCb, n, q
  <2>2. TypeOK'
    BY <1>0, <1>1, <1>6, <2>1, Zenon DEF TypeOK
  <2>3. RequestInv'
    <3>1. ASSUME NEW x \in Requests, req[x].state = "waiting"
          PROVE  req[x].cluster \notin tls'[req[x].worker]
      <4>1. req[x].cluster \in Subs /\ req[x].worker \in Workers
        BY <1>0 DEF TypeOK
      <4>2. req[x].cluster \notin tls[req[x].worker]
        BY <1>0, <3>1 DEF RequestInv
      <4> QED
        BY <4>1, <4>2, <1>6, <1>9
    <3> QED
      BY <1>0, <1>1, <2>1, <3>1 DEF RequestInv
  <2> QED
    BY <1>7, <1>8, <2>2, <2>3 DEF IInv
<1>10. CASE n \in Subs
  <2>1. OnClusterAddOrUpdate(w, n)
    BY <1>10 DEF UpdateCb, n, q
  <2>2. /\ pending' = [pending EXCEPT ![w][n] = {}]
        /\ req' = [r \in Requests |->
                      IF r \in pending[w][n] /\ req[r].state = "waiting"
                      THEN [req[r] EXCEPT !.state = "routed"] ELSE req[r]]
    BY <2>1 DEF OnClusterAddOrUpdate
  <2>3. abort' = "none"
    <3>1. ~ \E r \in pending[w][n] : req[r].state \notin {"waiting", "gone"}
      BY <1>0, <1>10 DEF RequestInv
    <3>2. abort' = abort
      BY <2>1, <3>1, Zenon DEF OnClusterAddOrUpdate
    <3> QED
      BY <3>2, <1>0 DEF RequestInv
  <2>4. /\ pending' \in [Workers -> [Subs -> SUBSET Requests]]
        /\ pending'[w][n] = {}
        /\ \A v \in Workers, m \in Subs : v # w \/ m # n => pending'[v][m] = pending[v][m]
    BY <1>0, <1>10, <2>2 DEF TypeOK
  <2>5. ASSUME NEW x \in Requests
        PROVE  /\ req[x] \in [state: {"new", "waiting", "routed", "gone"}, worker: Workers, cluster: Subs]
               /\ req'[x] \in [state: {"new", "waiting", "routed", "gone"}, worker: Workers, cluster: Subs]
               /\ req'[x].worker = req[x].worker /\ req'[x].cluster = req[x].cluster
               /\ req'[x].state = IF x \in pending[w][n] /\ req[x].state = "waiting"
                                  THEN "routed" ELSE req[x].state
    BY <1>0, <2>2 DEF TypeOK
  <2>6. req' \in [Requests -> [state: {"new", "waiting", "routed", "gone"}, worker: Workers, cluster: Subs]]
    BY <2>2, <2>5
  <2>7. TypeOK'
    BY <1>0, <1>1, <1>6, <2>3, <2>4, <2>6, Zenon DEF TypeOK
  <2>8. ASSUME NEW v \in Workers, NEW m \in Subs, NEW x \in pending'[v][m]
        PROVE  req'[x].worker = v /\ req'[x].cluster = m /\ req'[x].state \in {"waiting", "gone"}
    <3>1. x \in pending[v][m] /\ (v # w \/ m # n)
      BY <2>4
    <3>2. x \in Requests
      BY <3>1, <1>0, PendingRequests
    <3>3. req[x].worker = v /\ req[x].cluster = m /\ req[x].state \in {"waiting", "gone"}
      BY <3>1, <1>0 DEF RequestInv
    <3>4. x \notin pending[w][n]
      BY <3>1, <3>3, <1>0, <1>10 DEF RequestInv
    <3> QED
      BY <2>5, <3>2, <3>3, <3>4
  <2>9. ASSUME NEW x \in Requests, req'[x].state = "waiting"
        PROVE  /\ x \in pending'[req'[x].worker][req'[x].cluster]
               /\ req'[x].cluster \in known /\ req'[x].cluster \notin tls'[req'[x].worker]
    <3>1. req[x].state = "waiting" /\ x \notin pending[w][n]
      BY <2>5, <2>9
    <3>2. /\ req'[x].worker = req[x].worker /\ req'[x].cluster = req[x].cluster
          /\ req[x].worker \in Workers /\ req[x].cluster \in Subs
      BY <2>5
    <3>3. /\ x \in pending[req[x].worker][req[x].cluster]
          /\ req[x].cluster \in known /\ req[x].cluster \notin tls[req[x].worker]
      BY <3>1, <1>0 DEF RequestInv
    <3>4. req[x].worker # w \/ req[x].cluster # n
      BY <3>1, <3>3
    <3> QED
      BY <3>2, <3>3, <3>4, <2>4, <1>6
  <2>10. RequestInv'
    BY <1>1, <2>3, <2>8, <2>9 DEF RequestInv
  <2> QED
    BY <1>7, <1>8, <2>7, <2>10 DEF IInv
<1> QED
  BY <1>9, <1>10

-----------------------------------------------------------------------------
(* The steps of the main thread.                                           *)

(* evdns answers: a query goes on with the other family, or an answer is   *)
(* posted for each of its waiters.                                         *)
LEMMA EvdnsStep ==
    ASSUME IInv, NEW d \in Names, EvdnsGetAddrInfo(d)
    PROVE  IInv'
<1>0. TypeOK /\ ResolveInv /\ ManagerInv /\ PendingInv /\ WorkersInv /\ KnownInv /\ RequestInv
  BY DEF IInv
<1>1. /\ UNCHANGED <<known, where, callback, helper, hosts, workerQ, tls, posting,
                     pending, req, stranded, abort>>
      /\ inflight[d].family # "none"
  BY DEF EvdnsGetAddrInfo
<1>2. inflight \in [Names -> Queries] /\ mainQ \in Seq(Posts)
  BY <1>0 DEF TypeOK, Queries
<1>3. ManagerInv' /\ WorkersInv' /\ RequestInv'
  BY <1>0, <1>1, Frames
<1>4. OneAsk(mainQ) /\ OneWait(inflight) /\ OnePlace(mainQ, inflight, hosts \cup stranded)
  BY <1>0 DEF ResolveInv
<1>5. ASSUME NEW found \in BOOLEAN, FinishResolve(d, found) PROVE IInv'
  <2> DEFINE s == Answers(d, found)
  <2>1. mainQ' = mainQ \o s /\ inflight' = [inflight EXCEPT ![d] = Idle]
    BY <1>5 DEF FinishResolve
  <2>2. Questions(s) /\ \A t : Asked(s, t) <=> t[2] = d /\ Waiter(inflight, t)
    BY <1>2, <1>4, AnswersOf
  <2> HIDE DEF s
  <2>3. /\ inflight' \in [Names -> Queries] /\ OneWait(inflight')
        /\ \A x \in Targets : Waiter(inflight', x) <=> Waiter(inflight, x) /\ x[2] # d
    BY <1>2, <1>4, <2>1, Finish
  <2>4. \A t \in Targets : ~(Asked(mainQ, t) /\ Asked(s, t))
    BY <1>4, <2>2 DEF OnePlace
  <2>5. /\ mainQ' \in Seq(Posts) /\ OneAsk(mainQ')
        /\ \A t : Asked(mainQ', t) <=> Asked(mainQ, t) \/ Asked(s, t)
        /\ \A n : AddPosted(mainQ', n) <=> AddPosted(mainQ, n)
    BY <1>2, <1>4, <2>1, <2>2, <2>4, PutQuestions
  <2>6. \A t \in Targets : /\ Open(mainQ', inflight', t) <=> Open(mainQ, inflight, t)
                           /\ ~(Asked(mainQ', t) /\ Waiter(inflight', t))
    BY <1>4, <2>2, <2>3, <2>5 DEF OnePlace, Open
  <2>7. ResolveInv' /\ PendingInv'
    BY <1>0, <1>1, <2>3, <2>5, <2>6, Moves
  <2>8. KnownInv'
    BY <1>0, <1>1, <2>5, KnownFrame
  <2>9. TypeOK'
    BY <1>0, <1>1, <2>3, <2>5, Zenon DEF TypeOK, Queries
  <2> QED
    BY <1>3, <2>7, <2>8, <2>9 DEF IInv
<1>6. ASSUME inflight' = [inflight EXCEPT ![d].family = "v6"], mainQ' = mainQ PROVE IInv'
  <2>1. /\ inflight' \in [Names -> Queries]
        /\ \A e \in Names : inflight'[e].waiters = inflight[e].waiters
        /\ \A e \in Names : inflight'[e].family = "none" => inflight[e].family = "none"
    BY <1>1, <1>2, <1>6 DEF Queries
  <2>2. OneWait(inflight')
    BY <1>4, <2>1 DEF OneWait
  <2>3. \A t \in Targets : Waiter(inflight', t) <=> Waiter(inflight, t)
    BY <2>1, TargetParts DEF Waiter
  <2>4. \A t \in Targets : /\ Open(mainQ', inflight', t) <=> Open(mainQ, inflight, t)
                           /\ ~(Asked(mainQ', t) /\ Waiter(inflight', t))
    BY <1>4, <1>6, <2>3 DEF OnePlace, Open
  <2>5. ResolveInv' /\ PendingInv'
    BY <1>0, <1>1, <1>4, <1>6, <2>2, <2>4, Moves
  <2>6. KnownInv'
    BY <1>0, <1>1, <1>6, Frames
  <2>7. TypeOK'
    BY <1>0, <1>1, <1>6, <2>1, Zenon DEF TypeOK, Queries
  <2> QED
    BY <1>3, <2>5, <2>6, <2>7 DEF IInv
<1> QED
  BY <1>5, <1>6 DEF EvdnsGetAddrInfo

(* The main thread takes a start off its queue: the endpoint joins a query *)
(* for its name, starts one, or is stranded when there is no interface.    *)
LEMMA StartResolutionStep ==
    ASSUME IInv, StartResolution
    PROVE  IInv'
<1>0. TypeOK /\ ResolveInv /\ ManagerInv /\ PendingInv /\ WorkersInv /\ KnownInv /\ RequestInv
  BY DEF IInv
<1> DEFINE t == Head(mainQ).target
           d == t[2]
<1>1. /\ UNCHANGED <<known, where, callback, helper, hosts, workerQ, tls, posting,
                     pending, req, abort>>
      /\ mainQ # <<>> /\ Head(mainQ).what = "start" /\ mainQ' = Tail(mainQ)
  BY DEF StartResolution, Runs, Next1
<1>2. inflight \in [Names -> Queries] /\ mainQ \in Seq(Posts)
  BY <1>0 DEF TypeOK, Queries
<1>3. OneAsk(mainQ) /\ OneWait(inflight) /\ OnePlace(mainQ, inflight, hosts \cup stranded)
  BY <1>0 DEF ResolveInv
<1>4. /\ mainQ' \in Seq(Posts) /\ Head(mainQ) \in Posts /\ OneAsk(mainQ')
      /\ \A x : Asked(mainQ, x) <=> Asked(mainQ', x) \/ x = t
      /\ ~Asked(mainQ', t)
      /\ \A n : AddPosted(mainQ', n) <=> AddPosted(mainQ, n)
  BY <1>1, <1>2, <1>3, TakeHead
<1>5. t \in Targets
  BY <1>1, <1>4 DEF Posts
<1>6. d \in Names
  BY <1>5, TargetParts
<1>7. ~Waiter(inflight, t)
  BY <1>3, <1>4, <1>5 DEF OnePlace
<1>8. ManagerInv' /\ WorkersInv' /\ RequestInv'
  BY <1>0, <1>1, Frames
<1>9. KnownInv'
  BY <1>0, <1>1, <1>4, KnownFrame
<1> HIDE DEF t
<1>10. ASSUME inflight' \in [Names -> Queries],
              \A e \in Names \ {d} : inflight'[e] = inflight[e],
              inflight'[d].family # "none",
              inflight'[d].waiters = Append(inflight[d].waiters, t),
              stranded' = stranded
       PROVE  IInv'
  <2>1. OneWait(inflight') /\ \A x \in Targets : Waiter(inflight', x) <=> Waiter(inflight, x) \/ x = t
    BY <1>2, <1>3, <1>5, <1>7, <1>10, Join
  <2>2. \A x \in Targets : /\ Open(mainQ', inflight', x) <=> Open(mainQ, inflight, x)
                           /\ ~(Asked(mainQ', x) /\ Waiter(inflight', x))
    BY <1>3, <1>4, <2>1 DEF OnePlace, Open
  <2>3. ResolveInv' /\ PendingInv'
    BY <1>0, <1>1, <1>4, <1>10, <2>1, <2>2, Moves
  <2>4. TypeOK'
    BY <1>0, <1>1, <1>4, <1>10, Zenon DEF TypeOK, Queries
  <2> QED
    BY <1>8, <1>9, <2>3, <2>4 DEF IInv
<1>11. CASE /\ inflight[d].family # "none"
            /\ inflight' = [inflight EXCEPT ![d].waiters = Append(@, t)]
            /\ UNCHANGED stranded
  <2>1. inflight[d] \in Queries
    BY <1>2, <1>6
  <2>2. Append(inflight[d].waiters, t) \in Seq(Targets)
    BY <2>1, <1>5 DEF Queries
  <2>3. /\ inflight' \in [Names -> Queries]
        /\ \A e \in Names \ {d} : inflight'[e] = inflight[e]
        /\ inflight'[d].family # "none"
        /\ inflight'[d].waiters = Append(inflight[d].waiters, t)
    BY <1>2, <1>6, <1>11, <2>2 DEF Queries
  <2> QED
    BY <1>10, <1>11, <2>3
<1>12. ASSUME inflight[d].family = "none", NEW up \in Interfaces, up # {},
              inflight' = [inflight EXCEPT ![d] =
                             [family |-> FirstFamily(up), up |-> up, waiters |-> <<t>>]],
              UNCHANGED stranded
       PROVE  IInv'
  <2>1. inflight[d].waiters = <<>>
    BY <1>3, <1>6, <1>12 DEF OneWait
  <2>2. /\ up \in SUBSET {"v4", "v6"}
        /\ FirstFamily(up) \in {"v4", "v6"} /\ FirstFamily(up) # "none"
        /\ <<t>> \in Seq(Targets) /\ <<t>> = Append(<<>>, t)
    BY <1>5, InterfacesAssumption DEF FirstFamily
  <2>3. /\ inflight' \in [Names -> Queries]
        /\ \A e \in Names \ {d} : inflight'[e] = inflight[e]
        /\ inflight'[d].family # "none"
        /\ inflight'[d].waiters = <<t>>
    BY <1>2, <1>6, <1>12, <2>2 DEF Queries
  <2> QED
    BY <1>10, <1>12, <2>1, <2>2, <2>3
<1>13. ASSUME stranded' = stranded \cup {t}, UNCHANGED inflight
       PROVE  IInv'
  <2>1. TypeOK'
    <3>1. stranded' \subseteq Targets
      BY <1>0, <1>5, <1>13 DEF TypeOK
    <3> QED
      BY <1>0, <1>1, <1>4, <1>13, <3>1, Zenon DEF TypeOK
  <2>2. OnePlace(mainQ', inflight', hosts' \cup stranded')
    BY <1>1, <1>3, <1>4, <1>7, <1>13 DEF OnePlace
  <2>3. ASSUME NEW x \in Targets, Open(mainQ', inflight', x) \/ x \in hosts' \cup stranded'
        PROVE  where'[x[1]] # "nowhere"
    <3>1. Open(mainQ, inflight, x) \/ x \in hosts \cup stranded
      BY <2>3, <1>1, <1>4, <1>13 DEF Open
    <3> QED
      BY <3>1, <1>0, <1>1 DEF ResolveInv
  <2>4. ResolveInv'
    BY <1>3, <1>4, <1>13, <2>2, <2>3 DEF ResolveInv
  <2>5. PendingInv'
    <3> SUFFICES ASSUME NEW n \in Clusters, callback[n] \in {"helper", "manager"}
                 PROVE  \E x \in TargetsOf(n) : Open(mainQ', inflight, x) \/ x \in stranded'
      BY <1>1, <1>13 DEF PendingInv
    <3>1. PICK x \in TargetsOf(n) : Open(mainQ, inflight, x) \/ x \in stranded
      BY <1>0 DEF PendingInv
    <3>2. Open(mainQ', inflight, x) \/ x \in stranded'
      BY <3>1, <1>4, <1>13 DEF Open
    <3> QED
      BY <3>2
  <2> QED
    BY <1>8, <1>9, <2>1, <2>4, <2>5 DEF IInv
<1> QED
  BY <1>11, <1>12, <1>13 DEF StartResolution, Next1, t

(* An answer is handled: the first one of a cluster initialises it and     *)
(* posts it to every worker.                                               *)
LEMMA NetworkDnsResolveStep ==
    ASSUME IInv, NetworkDnsResolve
    PROVE  IInv'
<1>0. TypeOK /\ ResolveInv /\ ManagerInv /\ PendingInv /\ WorkersInv /\ KnownInv /\ RequestInv
  BY DEF IInv
<1> DEFINE t == Head(mainQ).target
           n == t[1]
<1>1. /\ UNCHANGED <<known, inflight, tls, posting, pending, req, stranded>>
      /\ mainQ # <<>> /\ Head(mainQ).what = "resolved" /\ mainQ' = Tail(mainQ)
      /\ UpdateAllHosts(t, Head(mainQ).found) /\ OnPreInitComplete(n)
  BY DEF NetworkDnsResolve, Runs, Next1
<1>2. mainQ \in Seq(Posts)
  BY <1>0 DEF TypeOK
<1>3. OneAsk(mainQ) /\ OneWait(inflight) /\ OnePlace(mainQ, inflight, hosts \cup stranded)
  BY <1>0 DEF ResolveInv
<1>4. /\ mainQ' \in Seq(Posts) /\ Head(mainQ) \in Posts /\ OneAsk(mainQ')
      /\ \A x : Asked(mainQ, x) <=> Asked(mainQ', x) \/ x = t
      /\ ~Asked(mainQ', t)
      /\ \A m : AddPosted(mainQ', m) <=> AddPosted(mainQ, m)
  BY <1>1, <1>2, <1>3, TakeHead
<1>5. t \in Targets
  BY <1>1, <1>4 DEF Posts
<1>6. n \in Clusters
  BY <1>5, TargetParts
<1>7. hosts' \subseteq hosts \cup {t}
  BY <1>1 DEF UpdateAllHosts
<1>8. ~Waiter(inflight, t)
  BY <1>3, <1>4, <1>5 DEF OnePlace
<1>9. where[n] # "nowhere" /\ callback[n] # "none"
  BY <1>0, <1>4, <1>5, <1>6 DEF ResolveInv, ManagerInv, Open
<1> HIDE DEF t
<1>10. ASSUME \A m \in Clusters : where'[m] = "nowhere" <=> where[m] = "nowhere"
       PROVE  ResolveInv' /\ KnownInv'
  <2>1. OnePlace(mainQ', inflight', hosts' \cup stranded')
    BY <1>1, <1>3, <1>4, <1>7, <1>8 DEF OnePlace
  <2>2. ASSUME NEW x \in Targets, Open(mainQ', inflight', x) \/ x \in hosts' \cup stranded'
        PROVE  where'[x[1]] # "nowhere"
    <3>1. Open(mainQ, inflight, x) \/ x \in hosts \cup stranded
      BY <2>2, <1>1, <1>4, <1>7 DEF Open
    <3>2. where[x[1]] # "nowhere"
      BY <3>1, <1>0 DEF ResolveInv
    <3> QED
      BY <3>2, <1>10, TargetParts
  <2>3. ResolveInv'
    BY <1>1, <1>3, <1>4, <2>1, <2>2 DEF ResolveInv
  <2>4. \A m \in Subs : where'[m] = "nowhere" <=> where[m] = "nowhere"
    BY <1>10 DEF Clusters
  <2>5. KnownInv'
    BY <1>0, <1>1, <1>4, <2>4, KnownFrame
  <2> QED
    BY <2>3, <2>5
<1>11. hosts' \subseteq Targets
  BY <1>0, <1>5, <1>7 DEF TypeOK
<1>12. ASSUME \A m \in Clusters : callback'[m] \in {"helper", "manager"} => callback'[m] = callback[m] /\ m # n
       PROVE  PendingInv'
  <2> SUFFICES ASSUME NEW m \in Clusters, callback'[m] \in {"helper", "manager"}
               PROVE  \E x \in TargetsOf(m) : Open(mainQ', inflight, x) \/ x \in stranded
    BY <1>1 DEF PendingInv
  <2>1. callback[m] \in {"helper", "manager"} /\ m # n
    BY <1>12
  <2>2. PICK x \in TargetsOf(m) : Open(mainQ, inflight, x) \/ x \in stranded
    BY <2>1, <1>0 DEF PendingInv
  <2>3. x # t
    BY <2>1, <2>2 DEF TargetsOf
  <2>4. Open(mainQ', inflight, x) \/ x \in stranded
    BY <2>2, <2>3, <1>4 DEF Open
  <2> QED
    BY <2>4
<1>13. CASE callback[n] = "done" /\ UNCHANGED <<where, callback, helper, workerQ, abort>>
  <2>1. TypeOK'
    BY <1>0, <1>1, <1>4, <1>11, <1>13, Zenon DEF TypeOK
  <2>2. ManagerInv' /\ WorkersInv' /\ RequestInv'
    BY <1>0, <1>1, <1>13, Frames
  <2>3. ResolveInv' /\ KnownInv'
    BY <1>10, <1>13
  <2>4. PendingInv'
    BY <1>12, <1>13
  <2> QED
    BY <2>1, <2>2, <2>3, <2>4 DEF IInv
<1>14. CASE /\ callback[n] # "done"
            /\ abort' = IF callback[n] = "none" THEN "no callback:69"
                        ELSE IF callback[n] = "helper" /\ helper.all
                        THEN "all clusters initialized:184" ELSE abort
            /\ OnClusterInit(n)
            /\ IF callback[n] = "helper" THEN RemoveCluster(n) ELSE UNCHANGED helper
  <2>1. /\ where' = [where EXCEPT ![n] = "active"]
        /\ workerQ' = [w \in Workers |-> Append(workerQ[w], n)]
        /\ callback' = [callback EXCEPT ![n] = "done"]
    BY <1>14 DEF OnClusterInit, ClusterWarmingToActive, PostThreadLocalClusterUpdate
  <2>2. /\ where' \in [Clusters -> {"nowhere", "warming", "active"}]
        /\ where'[n] = "active" /\ \A m \in Clusters \ {n} : where'[m] = where[m]
    BY <1>0, <1>6, <2>1 DEF TypeOK
  <2>3. /\ callback' \in [Clusters -> {"none", "helper", "manager", "done"}]
        /\ callback'[n] = "done" /\ \A m \in Clusters \ {n} : callback'[m] = callback[m]
        /\ callback[n] \in {"helper", "manager"}
    BY <1>0, <1>6, <1>9, <1>14, <2>1 DEF TypeOK
  <2>4. /\ helper.primary = {m \in Clusters : callback[m] = "helper"}
        /\ helper.all <=> helper.primary = {}
    BY <1>0 DEF ManagerInv
  <2>5. abort' = "none"
    <3>1. callback[n] = "helper" => ~helper.all
      BY <1>6, <2>4
    <3>2. abort' = abort
      BY <1>9, <1>14, <3>1
    <3> QED
      BY <3>2, <1>0 DEF RequestInv
  <2>6. /\ helper' \in [all: BOOLEAN, primary: SUBSET Clusters]
        /\ helper'.primary = helper.primary \ {n}
        /\ helper'.all <=> helper'.primary = {}
    <3>1. CASE callback[n] = "helper"
      <4>1. helper' = [primary |-> helper.primary \ {n}, all |-> helper.primary \subseteq {n}]
        BY <3>1, <1>14 DEF RemoveCluster
      <4>2. helper.primary \ {n} \subseteq Clusters
        BY <2>4
      <4>3. (helper.primary \subseteq {n}) \in BOOLEAN
        OBVIOUS
      <4> QED
        BY <4>1, <4>2, <4>3
    <3>2. CASE callback[n] # "helper"
      <4>1. helper' = helper /\ n \notin helper.primary
        BY <3>2, <1>14, <2>4
      <4>2. helper' \in [all: BOOLEAN, primary: SUBSET Clusters]
        BY <4>1, <1>0, Zenon DEF TypeOK
      <4>3. helper'.primary = helper.primary \ {n}
        BY <4>1
      <4> QED
        BY <4>1, <4>2, <4>3, <2>4
    <3> QED
      BY <3>1, <3>2
  <2>7. ManagerInv'
    <3>1. helper'.primary = {m \in Clusters : callback'[m] = "helper"}
      BY <2>3, <2>4, <2>6
    <3>2. ASSUME NEW m \in Clusters
          PROVE  /\ where'[m] = "nowhere" <=> callback'[m] = "none"
                 /\ where'[m] = "active" /\ m \in Subs => callback'[m] = "done"
                 /\ where'[m] = "warming" => callback'[m] # "done"
      BY <2>2, <2>3, <1>0 DEF ManagerInv
    <3> QED
      BY <3>1, <3>2, <2>6 DEF ManagerInv
  <2>8. ASSUME NEW w \in Workers
        PROVE  /\ workerQ'[w] \in Seq(Clusters \cup {Dfp})
               /\ ToSet(workerQ'[w]) = ToSet(workerQ[w]) \cup {n}
               /\ n \notin ToSet(workerQ[w]) /\ n \notin tls[w]
               /\ IsInjective(workerQ'[w])
    <3> DEFINE q == workerQ[w]
               p == workerQ'[w]
    <3>1. q \in Seq(Clusters \cup {Dfp}) /\ p = Append(q, n)
      BY <1>0, <2>1 DEF TypeOK
    <3>2. n \notin ToSet(q) /\ n \notin tls[w] /\ IsInjective(q)
      BY <1>0, <1>6, <1>14 DEF WorkersInv, Holds
    <3>3. /\ p \in Seq(Clusters \cup {Dfp})
          /\ DOMAIN q \subseteq DOMAIN p
          /\ \A i \in DOMAIN q : p[i] = q[i]
          /\ Len(q) + 1 \in DOMAIN p /\ p[Len(q) + 1] = n
          /\ \A i \in DOMAIN p : i \in DOMAIN q \/ i = Len(q) + 1
      BY <1>6, <3>1, AppendElements
    <3> HIDE DEF p, q
    <3>4. ASSUME NEW i \in DOMAIN p PROVE p[i] \in ToSet(q) \cup {n}
      BY <3>3 DEF ToSet
    <3>5. ASSUME NEW x \in ToSet(q) \cup {n} PROVE x \in ToSet(p)
      BY <3>3 DEF ToSet
    <3>6. ToSet(p) = ToSet(q) \cup {n}
      BY <3>4, <3>5 DEF ToSet
    <3>7. IsInjective(p)
      BY <3>2, <3>3 DEF IsInjective, ToSet
    <3> QED
      BY <3>2, <3>3, <3>6, <3>7 DEF p, q
  <2>9. workerQ' \in [Workers -> Seq(Clusters \cup {Dfp})]
    BY <2>1, <2>8
  <2>10. WorkersInv'
    <3> SUFFICES ASSUME NEW w \in Workers
                 PROVE  /\ \A m \in Clusters : (m \in tls[w] \/ m \in ToSet(workerQ'[w])) <=> callback'[m] = "done"
                        /\ tls[w] \cap ToSet(workerQ'[w]) = {}
                        /\ IsInjective(workerQ'[w])
      BY <1>1 DEF WorkersInv, Holds
    <3>1. /\ \A m \in Clusters : (m \in tls[w] \/ m \in ToSet(workerQ[w])) <=> callback[m] = "done"
          /\ tls[w] \cap ToSet(workerQ[w]) = {}
      BY <1>0 DEF WorkersInv, Holds
    <3>2. ASSUME NEW m \in Clusters
          PROVE  (m \in tls[w] \/ m \in ToSet(workerQ'[w])) <=> callback'[m] = "done"
      <4>1. CASE m = n
        BY <4>1, <2>3, <2>8
      <4>2. CASE m # n
        BY <4>2, <3>1, <2>3, <2>8
      <4> QED
        BY <4>1, <4>2
    <3>3. tls[w] \cap ToSet(workerQ'[w]) = {}
      BY <3>1, <2>8
    <3> QED
      BY <3>2, <3>3, <2>8
  <2>11. TypeOK'
    BY <1>0, <1>1, <1>4, <1>11, <2>2, <2>3, <2>5, <2>6, <2>9, Zenon DEF TypeOK
  <2>12. ResolveInv' /\ KnownInv'
    BY <1>9, <1>10, <2>2
  <2>13. PendingInv'
    BY <1>12, <2>3
  <2>14. RequestInv'
    BY <1>0, <1>1, <2>5 DEF RequestInv
  <2> QED
    BY <2>7, <2>10, <2>11, <2>12, <2>13, <2>14 DEF IInv
<1> QED
  BY <1>1, <1>13, <1>14 DEF OnPreInitComplete

(* A configuration is taken off the queue: a cluster that is there already *)
(* is refused, another one warms and its endpoints are asked for.          *)
LEMMA AddOrUpdateClusterStep ==
    ASSUME IInv, AddOrUpdateCluster
    PROVE  IInv'
<1>0. TypeOK /\ ResolveInv /\ ManagerInv /\ PendingInv /\ WorkersInv /\ KnownInv /\ RequestInv
  BY DEF IInv
<1> DEFINE n == Head(mainQ).name
           q == Tail(mainQ)
<1>1. /\ UNCHANGED <<known, inflight, hosts, workerQ, tls, posting, pending, req, stranded, abort>>
      /\ mainQ # <<>> /\ Head(mainQ).what = "add"
      /\ IF where[n] # "nowhere"
         THEN mainQ' = q /\ UNCHANGED <<where, callback, helper>>
         ELSE /\ where' = [where EXCEPT ![n] = "warming"]
              /\ AddCluster(n)
              /\ \E starts \in StartPosts(TargetsOf(n)) : mainQ' = q \o starts
  BY DEF AddOrUpdateCluster, Runs, Next1
<1>2. mainQ \in Seq(Posts)
  BY <1>0 DEF TypeOK
<1>3. OneAsk(mainQ) /\ OneWait(inflight) /\ OnePlace(mainQ, inflight, hosts \cup stranded)
  BY <1>0 DEF ResolveInv
<1>4. /\ q \in Seq(Posts) /\ Head(mainQ) \in Posts /\ OneAsk(q)
      /\ \A x : Asked(mainQ, x) <=> Asked(q, x)
      /\ \A m : AddPosted(mainQ, m) <=> AddPosted(q, m) \/ m = n
  BY <1>1, <1>2, <1>3, TakeHead
<1>5. n \in Subs /\ n \in Clusters
  BY <1>1, <1>4 DEF Posts, Clusters
<1> HIDE DEF n, q
<1>6. RequestInv'
  BY <1>0, <1>1, Frames
<1>7. CASE where[n] # "nowhere"
  <2>1. mainQ' = q /\ UNCHANGED <<where, callback, helper>>
    BY <1>1, <1>7
  <2>2. TypeOK'
    BY <1>0, <1>1, <1>4, <2>1, Zenon DEF TypeOK
  <2>3. ManagerInv' /\ WorkersInv'
    BY <1>0, <1>1, <2>1, Frames
  <2>4. \A t \in Targets : /\ Open(mainQ', inflight', t) <=> Open(mainQ, inflight, t)
                           /\ ~(Asked(mainQ', t) /\ Waiter(inflight', t))
    BY <1>1, <1>3, <1>4, <2>1 DEF OnePlace, Open
  <2>5. ResolveInv' /\ PendingInv'
    BY <1>0, <1>1, <1>3, <1>4, <2>1, <2>4, Moves
  <2>6. KnownInv'
    BY <1>0, <1>1, <1>4, <1>7, <2>1 DEF KnownInv
  <2> QED
    BY <1>6, <2>2, <2>3, <2>5, <2>6 DEF IInv
<1>8. CASE where[n] = "nowhere"
  <2>1. where' = [where EXCEPT ![n] = "warming"] /\ AddCluster(n)
    BY <1>1, <1>8
  <2>2. PICK s \in StartPosts(TargetsOf(n)) : mainQ' = q \o s
    BY <1>1, <1>8
  <2>3. TargetsOf(n) \in SUBSET Targets
    BY <1>5 DEF Targets
  <2>4. Questions(s) /\ \A t : Asked(s, t) <=> t \in TargetsOf(n)
    BY <2>3, StartsOf
  <2>5. ASSUME NEW t \in TargetsOf(n)
        PROVE  t \in Targets /\ t[1] = n /\ ~Open(mainQ, inflight, t) /\ t \notin hosts \cup stranded
    <3>1. t \in Targets /\ t[1] = n
      BY <2>3 DEF TargetsOf
    <3> QED
      BY <3>1, <1>0, <1>8 DEF ResolveInv
  <2>6. \A t \in Targets : ~(Asked(q, t) /\ Asked(s, t))
    BY <2>4, <2>5, <1>4 DEF Open
  <2>7. /\ mainQ' \in Seq(Posts) /\ OneAsk(mainQ')
        /\ \A t : Asked(mainQ', t) <=> Asked(q, t) \/ Asked(s, t)
        /\ \A m : AddPosted(mainQ', m) <=> AddPosted(q, m)
    BY <1>4, <2>2, <2>4, <2>6, PutQuestions
  <2>8. /\ where' \in [Clusters -> {"nowhere", "warming", "active"}]
        /\ where'[n] = "warming" /\ \A m \in Clusters \ {n} : where'[m] = where[m]
    BY <1>0, <1>5, <2>1 DEF TypeOK
  <2>9. callback[n] = "none"
    BY <1>0, <1>5, <1>8 DEF ManagerInv
  <2>10. /\ helper' = IF helper.all THEN helper ELSE [helper EXCEPT !.primary = @ \cup {n}]
         /\ callback' = [callback EXCEPT ![n] = IF helper.all THEN "manager" ELSE "helper"]
    BY <2>1 DEF AddCluster
  <2>11. /\ callback' \in [Clusters -> {"none", "helper", "manager", "done"}]
         /\ callback'[n] = IF helper.all THEN "manager" ELSE "helper"
         /\ \A m \in Clusters \ {n} : callback'[m] = callback[m]
    BY <1>0, <1>5, <2>10 DEF TypeOK
  <2>12. /\ helper.primary = {m \in Clusters : callback[m] = "helper"}
         /\ helper.all <=> helper.primary = {}
         /\ helper \in [all: BOOLEAN, primary: SUBSET Clusters]
    BY <1>0 DEF ManagerInv, TypeOK
  <2>13. /\ helper' \in [all: BOOLEAN, primary: SUBSET Clusters]
         /\ helper'.primary = {m \in Clusters : callback'[m] = "helper"}
         /\ helper'.all <=> helper'.primary = {}
    <3>1. CASE helper.all
      <4>1. helper' = helper /\ callback'[n] = "manager"
        BY <3>1, <2>10, <2>11
      <4>2. {m \in Clusters : callback'[m] = "helper"} = {m \in Clusters : callback[m] = "helper"}
        BY <4>1, <2>9, <2>11
      <4> QED
        BY <4>1, <4>2, <2>12, Zenon
    <3>2. CASE ~helper.all
      <4>1. helper' = [helper EXCEPT !.primary = @ \cup {n}] /\ callback'[n] = "helper"
        BY <3>2, <2>10, <2>11
      <4>2. helper'.primary = helper.primary \cup {n} /\ helper'.all = helper.all
        BY <4>1, <2>12
      <4>3. helper' \in [all: BOOLEAN, primary: SUBSET Clusters]
        BY <4>1, <2>12, <1>5
      <4>4. {m \in Clusters : callback'[m] = "helper"} = {m \in Clusters : callback[m] = "helper"} \cup {n}
        BY <4>1, <2>9, <2>11, <1>5
      <4>5. helper'.primary # {} /\ ~helper'.all
        BY <4>2, <3>2
      <4> QED
        BY <4>2, <4>3, <4>4, <4>5, <2>12, Zenon
    <3> QED
      BY <3>1, <3>2
  <2>14. ManagerInv'
    <3>1. ASSUME NEW m \in Clusters
          PROVE  /\ where'[m] = "nowhere" <=> callback'[m] = "none"
                 /\ where'[m] = "active" /\ m \in Subs => callback'[m] = "done"
                 /\ where'[m] = "warming" => callback'[m] # "done"
      BY <2>8, <2>11, <1>0 DEF ManagerInv
    <3> QED
      BY <3>1, <2>13 DEF ManagerInv
  <2>15. WorkersInv'
    <3>1. \A m \in Clusters : callback'[m] = "done" <=> callback[m] = "done"
      BY <2>9, <2>11
    <3> QED
      BY <3>1, <1>0, <1>1 DEF WorkersInv, Holds
  <2>16. TypeOK'
    BY <1>0, <1>1, <2>7, <2>8, <2>11, <2>13, Zenon DEF TypeOK
  <2>17. OnePlace(mainQ', inflight', hosts' \cup stranded')
    BY <1>1, <1>3, <1>4, <2>4, <2>5, <2>7 DEF OnePlace, Open
  <2>18. ASSUME NEW x \in Targets, Open(mainQ', inflight', x) \/ x \in hosts' \cup stranded'
         PROVE  where'[x[1]] # "nowhere"
    <3>1. CASE x \in TargetsOf(n)
      BY <3>1, <2>5, <2>8
    <3>2. CASE x \notin TargetsOf(n)
      <4>1. Open(mainQ, inflight, x) \/ x \in hosts \cup stranded
        BY <3>2, <2>18, <1>1, <1>4, <2>4, <2>7 DEF Open
      <4>2. where[x[1]] # "nowhere"
        BY <4>1, <1>0 DEF ResolveInv
      <4> QED
        BY <4>2, <2>8, TargetParts
    <3> QED
      BY <3>1, <3>2
  <2>19. ResolveInv'
    BY <1>1, <1>3, <2>7, <2>17, <2>18 DEF ResolveInv
  <2>20. PendingInv'
    <3> SUFFICES ASSUME NEW m \in Clusters, callback'[m] \in {"helper", "manager"}
                 PROVE  \E x \in TargetsOf(m) : Open(mainQ', inflight, x) \/ x \in stranded
      BY <1>1 DEF PendingInv
    <3>1. CASE m = n
      <4>1. PICK x : x \in TargetsOf(n)
        BY <1>5, SomeTarget
      <4> QED
        BY <3>1, <4>1, <2>4, <2>7 DEF Open
    <3>2. CASE m # n
      <4>1. callback[m] \in {"helper", "manager"}
        BY <3>2, <2>11
      <4>2. PICK x \in TargetsOf(m) : Open(mainQ, inflight, x) \/ x \in stranded
        BY <4>1, <1>0 DEF PendingInv
      <4> QED
        BY <4>2, <1>4, <2>7 DEF Open
    <3> QED
      BY <3>1, <3>2
  <2>21. KnownInv'
    <3> SUFFICES ASSUME NEW m \in Subs
                 PROVE  m \in known <=> \/ \E v \in Workers : posting[v] = m
                                        \/ AddPosted(mainQ', m)
                                        \/ where'[m] # "nowhere"
      BY <1>1 DEF KnownInv
    <3>1. m \in known <=> \/ \E v \in Workers : posting[v] = m
                          \/ AddPosted(mainQ, m)
                          \/ where[m] # "nowhere"
      BY <1>0 DEF KnownInv
    <3>2. m \in Clusters
      BY DEF Clusters
    <3>3. CASE m = n
      BY <3>1, <3>3, <2>8, <1>4
    <3>4. CASE m # n
      BY <3>1, <3>2, <3>4, <2>7, <2>8, <1>4
    <3> QED
      BY <3>3, <3>4
  <2> QED
    BY <1>6, <2>14, <2>15, <2>16, <2>19, <2>20, <2>21 DEF IInv
<1> QED
  BY <1>7, <1>8

-----------------------------------------------------------------------------
(* The theorems.                                                           *)

(* The configured clusters are active, wait for their first answer, and    *)
(* each of their endpoints is asked for once.                              *)
LEMMA IInvInit == Init => IInv
<1> SUFFICES ASSUME Init PROVE IInv
  OBVIOUS
<1> DEFINE T == UNION {TargetsOf(n) : n \in Boot}
<1>1. T \in SUBSET Targets
  BY DEF Targets, Clusters
<1>2. mainQ \in StartPosts(T)
  BY DEF Init
<1>3. Questions(mainQ) /\ \A t : Asked(mainQ, t) <=> t \in T
  BY <1>1, <1>2, StartsOf
<1>4. \A t \in T : t[1] \in Boot
  BY DEF TargetsOf
<1>5. /\ mainQ \in Seq(Posts) /\ OneAsk(mainQ) /\ \A n : ~AddPosted(mainQ, n)
  BY <1>3 DEF Questions, AddPosted
<1> HIDE DEF T
<1>6. /\ inflight \in [Names -> Queries]
      /\ \A d \in Names : inflight[d].waiters = <<>> /\ DOMAIN inflight[d].waiters = {}
  BY DEF Init, Idle, Queries
<1>7. OneWait(inflight) /\ \A t \in Targets : ~Waiter(inflight, t)
  <2>1. OneWait(inflight)
    BY <1>6 DEF OneWait, IsInjective
  <2>2. \A t \in Targets : ~Waiter(inflight, t)
    BY <1>6, TargetParts DEF Waiter
  <2> QED
    BY <2>1, <2>2
<1>8. TypeOK
  <2>1. (CHOOSE w \in Workers : TRUE) \in Workers /\ (CHOOSE n \in Subs : TRUE) \in Subs
    BY WorkersAssumption
  <2>2. req \in [Requests -> [state: {"new", "waiting", "routed", "gone"},
                             worker: Workers, cluster: Subs]]
    BY <2>1 DEF Init
  <2>3. <<Dfp>> \in Seq(Clusters \cup {Dfp})
    OBVIOUS
  <2>4. workerQ \in [Workers -> Seq(Clusters \cup {Dfp})]
    BY <2>3 DEF Init
  <2>5. /\ where \in [Clusters -> {"nowhere", "warming", "active"}]
        /\ callback \in [Clusters -> {"none", "helper", "manager", "done"}]
    BY DEF Init
  <2>6. helper \in [all: BOOLEAN, primary: SUBSET Clusters]
    <3>1. Boot \in SUBSET Clusters /\ (Boot = {}) \in BOOLEAN
      BY DEF Clusters
    <3> QED
      BY <3>1 DEF Init
  <2>7. /\ tls \in [Workers -> SUBSET (Clusters \cup {Dfp})]
        /\ posting \in [Workers -> Subs \cup {"none"}]
        /\ pending \in [Workers -> [Subs -> SUBSET Requests]]
    BY DEF Init
  <2>8. known \subseteq Subs /\ hosts \subseteq Targets /\ stranded \subseteq Targets /\ abort = "none"
    BY DEF Init
  <2> QED
    BY <1>5, <1>6, <2>2, <2>4, <2>5, <2>6, <2>7, <2>8 DEF TypeOK, Queries
<1>9. ResolveInv
  <2>1. hosts = {} /\ stranded = {} /\ \A n \in Clusters : n \in Boot => where[n] = "active"
    BY DEF Init
  <2>2. OnePlace(mainQ, inflight, hosts \cup stranded)
    BY <1>7, <2>1 DEF OnePlace
  <2>3. ASSUME NEW t \in Targets, Open(mainQ, inflight, t) \/ t \in hosts \cup stranded
        PROVE  where[t[1]] # "nowhere"
    <3>1. t[1] \in Boot /\ t[1] \in Clusters
      BY <2>1, <2>3, <1>3, <1>4, <1>7, TargetParts DEF Open
    <3> QED
      BY <3>1, <2>1
  <2> QED
    BY <1>5, <1>7, <2>2, <2>3 DEF ResolveInv
<1>10. ManagerInv
  <2>1. /\ \A n \in Clusters : /\ where[n] = IF n \in Boot THEN "active" ELSE "nowhere"
                               /\ callback[n] = IF n \in Boot THEN "helper" ELSE "none"
        /\ helper.primary = Boot /\ helper.all = (Boot = {})
    BY DEF Init
  <2>2. Boot = {n \in Clusters : callback[n] = "helper"}
    BY <2>1 DEF Clusters
  <2> QED
    BY <2>1, <2>2, ClustersAssumption DEF ManagerInv
<1>11. PendingInv
  <2> SUFFICES ASSUME NEW n \in Clusters, callback[n] \in {"helper", "manager"}
               PROVE  \E t \in TargetsOf(n) : Open(mainQ, inflight, t)
    BY DEF PendingInv
  <2>1. n \in Boot
    BY DEF Init
  <2>2. PICK t : t \in TargetsOf(n)
    BY SomeTarget
  <2>3. t \in T
    BY <2>1, <2>2 DEF T
  <2> QED
    BY <2>2, <2>3, <1>3 DEF Open
<1>12. WorkersInv
  <2> SUFFICES ASSUME NEW w \in Workers
               PROVE  /\ \A n \in Clusters : Holds(w, n) <=> callback[n] = "done"
                      /\ tls[w] \cap ToSet(workerQ[w]) = {}
                      /\ IsInjective(workerQ[w])
    BY DEF WorkersInv
  <2>1. tls[w] = {} /\ workerQ[w] = <<Dfp>> /\ \A n \in Clusters : callback[n] # "done"
    BY DEF Init
  <2>2. ToSet(<<Dfp>>) = {Dfp} /\ IsInjective(<<Dfp>>)
    BY DEF ToSet, IsInjective
  <2> QED
    BY <2>1, <2>2, ClustersAssumption DEF Holds
<1>13. KnownInv
  <2>1. known = {} /\ \A v \in Workers : posting[v] = "none"
    BY DEF Init
  <2>2. \A n \in Subs : where[n] = "nowhere"
    BY ClustersAssumption DEF Init, Clusters
  <2> QED
    BY <1>5, <2>1, <2>2, ClustersAssumption DEF KnownInv
<1>14. RequestInv
  <2>1. \A w \in Workers, n \in Subs : pending[w][n] = {}
    BY DEF Init
  <2>2. abort = "none" /\ \A r \in Requests : req[r].state = "new"
    BY DEF Init
  <2> QED
    BY <2>1, <2>2 DEF RequestInv
<1> QED
  BY <1>8, <1>9, <1>10, <1>11, <1>12, <1>13, <1>14 DEF IInv

(* Every step of a worker, of the main thread and of evdns keeps the       *)
(* inductive invariant.                                                    *)
LEMMA IInvStep == IInv /\ [Next]_vars => IInv'
<1> SUFFICES ASSUME IInv, [Next]_vars PROVE IInv'
  OBVIOUS
<1>1. CASE UNCHANGED vars
  <2>1. TypeOK'
    BY <1>1 DEF IInv, TypeOK, vars
  <2>2. UNCHANGED <<mainQ, inflight, hosts, stranded, where, callback, helper, tls, workerQ,
                    known, posting, pending, req, abort>>
    BY <1>1 DEF vars
  <2> QED
    BY <2>1, <2>2, Frames DEF IInv
<1> QED
  BY <1>1, DecodeHeadersStep, DownstreamGoneStep, PostAddStep, UpdateCbStep, EvdnsStep,
     StartResolutionStep, NetworkDnsResolveStep, AddOrUpdateClusterStep DEF Next, MainStep

(* The inductive invariant holds in every reachable state, for any number  *)
(* of workers, clusters, endpoints and requests.                           *)
THEOREM Inductive == Spec => []IInv
BY IInvInit, IInvStep, PTL DEF Spec

(* The counts of the properties: an endpoint that is open is outstanding   *)
(* once, another one not at all.                                           *)
LEMMA OutstandingCount ==
    ASSUME IInv, NEW t \in Targets
    PROVE  Outstanding(t) = IF Open(mainQ, inflight, t) THEN 1 ELSE 0
<1>0. /\ mainQ \in Seq(Posts) /\ OneAsk(mainQ) /\ OneWait(inflight)
      /\ ~(Asked(mainQ, t) /\ Waiter(inflight, t))
  BY DEF IInv, TypeOK, ResolveInv, OnePlace
<1>1. Cardinality({}) = 0 /\ \A x : Cardinality({x}) = 1
  BY FS_EmptySet, FS_Singleton
<1>2. \A i \in DOMAIN mainQ : mainQ[i].what \in {"add", "start", "resolved"}
  BY <1>0 DEF Posts
<1>3. ASSUME ~Asked(mainQ, t) PROVE Posted("start", t) = {} /\ Posted("resolved", t) = {}
  BY <1>3 DEF Asked, Posted
<1>4. ASSUME ~Waiter(inflight, t) PROVE Waits(t) = {}
  BY <1>4 DEF Waiter, Waits
<1>5. ASSUME Asked(mainQ, t)
      PROVE  Cardinality(Posted("start", t)) + Cardinality(Posted("resolved", t)) = 1
  <2>1. PICK i \in DOMAIN mainQ : mainQ[i].what # "add" /\ mainQ[i].target = t
    BY <1>5 DEF Asked
  <2>2. \A j \in DOMAIN mainQ : mainQ[j].what # "add" /\ mainQ[j].target = t => j = i
    BY <2>1, <1>0 DEF OneAsk
  <2>3. CASE mainQ[i].what = "start"
    <3>1. Posted("start", t) = {i} /\ Posted("resolved", t) = {}
      BY <2>1, <2>2, <2>3 DEF Posted
    <3>2. Cardinality(Posted("start", t)) = 1 /\ Cardinality(Posted("resolved", t)) = 0
      BY <3>1, <1>1, Zenon
    <3> QED
      BY <3>2
  <2>4. CASE mainQ[i].what = "resolved"
    <3>1. Posted("resolved", t) = {i} /\ Posted("start", t) = {}
      BY <2>1, <2>2, <2>4 DEF Posted
    <3>2. Cardinality(Posted("start", t)) = 0 /\ Cardinality(Posted("resolved", t)) = 1
      BY <3>1, <1>1, Zenon
    <3> QED
      BY <3>2
  <2> QED
    BY <2>1, <2>3, <2>4, <1>2
<1>6. ASSUME Waiter(inflight, t) PROVE Cardinality(Waits(t)) = 1
  <2>1. PICK i \in DOMAIN inflight[t[2]].waiters : inflight[t[2]].waiters[i] = t
    BY <1>6 DEF Waiter
  <2>2. IsInjective(inflight[t[2]].waiters)
    BY <1>0, TargetParts DEF OneWait
  <2>3. Waits(t) = {i}
    BY <2>1, <2>2 DEF Waits, IsInjective
  <2> QED
    BY <2>3, <1>1
<1> DEFINE a == Cardinality(Posted("start", t))
           b == Cardinality(Posted("resolved", t))
           c == Cardinality(Waits(t))
<1>7. ~Asked(mainQ, t) => a = 0 /\ b = 0
  BY <1>1, <1>3, Zenon
<1>8. ~Waiter(inflight, t) => c = 0
  BY <1>1, <1>4, Zenon
<1>9. Outstanding(t) = a + b + c
  BY DEF Outstanding
<1> HIDE DEF a, b, c
<1>10. Asked(mainQ, t) => a + b = 1
  BY <1>5 DEF a, b
<1>11. Waiter(inflight, t) => c = 1
  BY <1>6 DEF c
<1> QED
  BY <1>0, <1>7, <1>8, <1>9, <1>10, <1>11 DEF Open

(* The main thread and the workers agree, whatever the order of requests,  *)
(* posts, DNS answers and updates: no assertion of the cluster manager or  *)
(* its init helper fails, no callback reaches a request that has gone on,  *)
(* and every endpoint is resolved at most once.                            *)
THEOREM ViewsAlwaysAgree == Spec => []ViewsAgree
<1>1. ASSUME IInv PROVE ViewsAgree
  <2>0. TypeOK /\ ResolveInv /\ ManagerInv /\ WorkersInv /\ RequestInv
    BY <1>1 DEF IInv
  <2>1. ASSUME NEW n \in Clusters
        PROVE  /\ where[n] = "active" /\ n \in Subs => callback[n] = "done"
               /\ where[n] = "warming" => callback[n] \in {"helper", "manager"}
    BY <2>0 DEF ManagerInv, TypeOK
  <2>2. ASSUME NEW t \in Targets
        PROVE  Outstanding(t) <= IF t \in hosts \cup stranded THEN 0 ELSE 1
    BY <1>1, <2>0, OutstandingCount DEF ResolveInv, OnePlace, Open
  <2>3. abort = "none"
    BY <2>0 DEF RequestInv
  <2> QED
    BY <2>0, <2>1, <2>2, <2>3 DEF ViewsAgree, ManagerInv, WorkersInv
<1> QED
  BY <1>1, Inductive, PTL

(* A request that waits for its sub-cluster is entered with its worker,    *)
(* and what will wake it is on its way.  The lookup in thread local        *)
(* storage, the map shared by the workers, the post to the main thread,    *)
(* the joined DNS queries and the posts back leave no gap.                 *)
THEOREM WakeUpAlwaysOnItsWay == Spec => []WakeUpOnItsWay
<1>1. ASSUME IInv PROVE WakeUpOnItsWay
  <2>0. TypeOK /\ ResolveInv /\ ManagerInv /\ PendingInv /\ WorkersInv /\ KnownInv /\ RequestInv
    BY <1>1 DEF IInv
  <2> SUFFICES ASSUME NEW r \in Requests, req[r].state = "waiting"
               PROVE  LET w == req[r].worker
                          n == req[r].cluster
                      IN  /\ r \in pending[w][n]
                          /\ \/ \E v \in Workers : posting[v] = n
                             \/ \E i \in DOMAIN mainQ : mainQ[i].what = "add" /\ mainQ[i].name = n
                             \/ /\ where[n] = "warming"
                                /\ \E t \in TargetsOf(n) : Outstanding(t) = 1 \/ t \in stranded
                             \/ n \in ToSet(workerQ[w])
    BY DEF WakeUpOnItsWay
  <2> DEFINE w == req[r].worker
             n == req[r].cluster
  <2>1. w \in Workers /\ n \in Subs /\ n \in Clusters
    BY <2>0 DEF TypeOK, Clusters
  <2>2. r \in pending[w][n] /\ n \in known /\ n \notin tls[w]
    BY <2>0 DEF RequestInv
  <2> HIDE DEF w, n
  <2>3. \/ \E v \in Workers : posting[v] = n
        \/ \E i \in DOMAIN mainQ : mainQ[i].what = "add" /\ mainQ[i].name = n
        \/ where[n] # "nowhere"
    BY <2>0, <2>1, <2>2 DEF KnownInv, AddPosted
  <2>4. ASSUME where[n] = "warming"
        PROVE  \E t \in TargetsOf(n) : Outstanding(t) = 1 \/ t \in stranded
    <3>1. callback[n] \in {"helper", "manager"}
      BY <2>0, <2>1, <2>4 DEF ManagerInv, TypeOK
    <3>2. PICK t \in TargetsOf(n) : Open(mainQ, inflight, t) \/ t \in stranded
      BY <3>1, <2>0, <2>1 DEF PendingInv
    <3>3. t \in Targets
      BY <2>1 DEF Targets
    <3> QED
      BY <3>2, <3>3, <1>1, OutstandingCount
  <2>5. ASSUME where[n] = "active" PROVE n \in ToSet(workerQ[w])
    <3>1. callback[n] = "done"
      BY <2>0, <2>1, <2>5 DEF ManagerInv
    <3> QED
      BY <3>1, <2>0, <2>1, <2>2 DEF WorkersInv, Holds
  <2>6. where[n] \in {"nowhere", "warming", "active"}
    BY <2>0, <2>1 DEF TypeOK
  <2> QED
    BY <2>2, <2>3, <2>4, <2>5, <2>6 DEF w, n
<1> QED
  BY <1>1, Inductive, PTL
=============================================================================
