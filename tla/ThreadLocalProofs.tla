------------------------- MODULE ThreadLocalProofs -------------------------
(***************************************************************************)
(* Machine-checked proofs about ThreadLocal, for any finite set of workers *)
(* and any set of updates.                                                 *)
(***************************************************************************)
EXTENDS ThreadLocal, FiniteSetTheorems, SequenceTheorems, TLAPS

Active == {w \in Workers : thread[w] \in {"waiting", "running", "ready"}}
InGuard == main \in {"guard_init", "guard_run"}

(* The list of registered threads holds every worker that has registered,  *)
(* once; the count of the ready workers is that of the active ones; the    *)
(* barrier is behind the main thread when it is behind a worker.           *)
StartInv ==
    /\ \A i, j \in DOMAIN m_registered_threads :
          m_registered_threads[i] = m_registered_threads[j] => i = j
    /\ \A w \in Workers :
          thread[w] # "starting" <=> \E i \in DOMAIN m_registered_threads : m_registered_threads[i] = w
    /\ ready_workers = Cardinality(Active)
    /\ go_ahead => main \in {"run", "guard_run", "down", "exit", "crashed"}
    /\ \A w \in Workers :
          /\ thread[w] \in {"running", "ready", "stopped"} => go_ahead
          /\ thread[w] = "stopped" => main \in {"down", "exit", "crashed"}
    /\ main = "set" \/ InGuard => walk <= Len(m_registered_threads)

(* A worker that is not late got the set message before any other, and has *)
(* the object or still has that message in front of it.                    *)
SetInv ==
    /\ main = "set" =>
          /\ late = {}
          /\ applied[Main] = <<>>
          /\ \A i \in DOMAIN m_registered_threads :
                queue[m_registered_threads[i]] = IF i <= walk THEN <<"set">> ELSE <<>>
    /\ \A w \in Workers : thread[w] = "starting" => queue[w] = <<>> /\ applied[w] = <<>> /\ w \notin late
    /\ \A w \in Active \ late :
          main # "set" => m_data[w] \/ (queue[w] # <<>> /\ queue[w][1] = "set")
    /\ ReadyHasData

(* The updates in queue q of worker w are guarded by g, and differ.        *)
QueueInv(q, w, g) == \A i \in DOMAIN q : q[i] \in Updates =>
    w \in g[q[i]] /\ \A j \in DOMAIN q : q[i] = q[j] => i = j

(* The main thread applies an update once, before its guard is posted; the *)
(* guard is sent to the threads the walk has passed, once to each.         *)
GuardInv ==
    /\ \A i, j \in DOMAIN applied[Main] : applied[Main][i] = applied[Main][j] => i = j
    /\ \A u \in Updates : u \notin Range(applied[Main]) => guarded[u] = {} /\ refs[u] = 0
    /\ InGuard =>
          /\ applied[Main] # <<>>
          /\ update = applied[Main][Len(applied[Main])]
          /\ \A w \in Workers :
                w \in guarded[update] <=> \E i \in 1 .. walk : m_registered_threads[i] = w
    /\ \A w \in Workers : holding[w] # Main => holding[w] \in Range(applied[w])
    /\ \A w \in Workers : QueueInv(queue[w], w, guarded)

(* A completion that was posted or run is that of an update without        *)
(* references, and there is only one of it.                                *)
Completions == completed \o queue[Main]
OnceInv ==
    /\ \A i, j \in DOMAIN Completions : Completions[i] = Completions[j] => i = j
    /\ \A i \in DOMAIN Completions :
          /\ Completions[i] \in Updates
          /\ refs[Completions[i]] = 0
          /\ Completions[i] \in Range(applied[Main])

Done(u) == {w \in guarded[u] : u \in Range(applied[w]) /\ holding[w] # u}

(* The references that are left are those of the threads the callback has  *)
(* not returned on.                                                        *)
RefsInv == ~Raced =>
    /\ \A u \in Updates : refs[u] + Cardinality(Done(u)) = counted[u]
    /\ \A w \in Workers : \A u \in Range(applied[w]) : w \in guarded[u]
    /\ \A w \in Workers : \A i \in DOMAIN queue[w] : queue[w][i] \notin Range(applied[w])

(* A registered worker that is not late has been sent every update, but    *)
(* for the one whose guard is being posted.                                *)
SentInv == \A w \in Workers \ late : thread[w] # "starting" =>
    \A u \in Range(applied[Main]) :
        w \in guarded[u] \/ (InGuard /\ u = update) \/ main = "crashed"

(* What worker w has applied is a prefix of the main thread's updates; the *)
(* rest, as far as it was sent, is in its queue, in that order.            *)
FollowsMain(w) ==
    /\ Len(applied[w]) <= Len(applied[Main])
    /\ \A k \in DOMAIN applied[w] : applied[w][k] = applied[Main][k]
    /\ \A k \in DOMAIN applied[Main] :
          k > Len(applied[w]) /\ w \in guarded[applied[Main][k]] /\ thread[w] # "stopped" =>
             \E i \in DOMAIN queue[w] : queue[w][i] = applied[Main][k]
    /\ \A i, j \in DOMAIN queue[w], k, l \in DOMAIN applied[Main] :
          queue[w][i] = applied[Main][k] /\ queue[w][j] = applied[Main][l] /\ i < j => k < l

OrderInv == ~Raced => \A w \in Workers \ late : FollowsMain(w)

IInv == TypeOK /\ StartInv /\ SetInv /\ GuardInv /\ OnceInv /\ RefsInv /\ SentInv /\ OrderInv

-----------------------------------------------------------------------------
(* Main is no worker and no update, and messages differ from updates.      *)
LEMMA Distinct ==
    /\ Main \in Threads /\ Workers \subseteq Threads /\ Main \notin Workers
    /\ Main \notin Updates /\ "set" \notin Updates /\ "continue" \notin Updates
    /\ Updates \subseteq Messages /\ "set" \in Messages /\ "continue" \in Messages
BY WorkersAssumption, UpdatesAssumption DEF Threads, Messages

(* Sets of workers are finite, their cardinality is a natural number that  *)
(* does not exceed the number of workers.                                  *)
LEMMA WorkerSets ==
    ASSUME NEW S \in SUBSET Workers
    PROVE  /\ IsFiniteSet(S) /\ Cardinality(S) \in Nat
           /\ Cardinality(Workers) \in Nat /\ Cardinality(S) <= Cardinality(Workers)
           /\ Cardinality(S) = Cardinality(Workers) => S = Workers
BY WorkersAssumption, FS_Subset, FS_CardinalityType

(* A worker is counted once.                                               *)
LEMMA CountChange ==
    ASSUME NEW S \in SUBSET Workers, NEW w \in Workers
    PROVE  /\ w \notin S => Cardinality(S \cup {w}) = Cardinality(S) + 1
           /\ w \in S => Cardinality(S \ {w}) = Cardinality(S) - 1
BY WorkerSets, FS_AddElement, FS_RemoveElement

(* A thread that registers, stops or goes on changes the count of the      *)
(* active ones accordingly.                                                *)
LEMMA ActiveStep ==
    ASSUME TypeOK, NEW w \in Workers, NEW p \in ThreadPc, thread' = [thread EXCEPT ![w] = p]
    PROVE  /\ p = "waiting" /\ thread[w] = "starting" =>
                 Cardinality(Active') = Cardinality(Active) + 1
           /\ p = "stopped" /\ w \in Active => Cardinality(Active') = Cardinality(Active) - 1
           /\ p \in {"running", "ready"} /\ w \in Active => Active' = Active
<1>1. p = "waiting" => Active' = Active \cup {w}
  BY DEF Active, TypeOK
<1>2. p = "stopped" => Active' = Active \ {w}
  BY DEF Active, TypeOK
<1>3. thread[w] = "starting" => w \notin Active
  BY DEF Active
<1>4. Active \in SUBSET Workers
  BY DEF Active
<1>5. p \in {"running", "ready"} /\ w \in Active => Active' = Active
  BY DEF Active, TypeOK
<1> QED
  BY <1>1, <1>2, <1>3, <1>4, <1>5, CountChange

(* The first message of a queue stays first when another one is appended.  *)
LEMMA AppendKeepsFirst ==
    ASSUME NEW S, NEW q \in Seq(S), NEW m \in S, q # <<>>
    PROVE  Append(q, m) # <<>> /\ Append(q, m)[1] = q[1]
OBVIOUS

(* The elements of a sequence after an append, and of its tail.            *)
LEMMA AppendElements ==
    ASSUME NEW S, NEW q \in Seq(S), NEW m \in S
    PROVE  /\ DOMAIN q = 1 .. Len(q) /\ Len(q) \in Nat
           /\ DOMAIN Append(q, m) = 1 .. Len(q) + 1
           /\ \A i \in DOMAIN q : i \in DOMAIN Append(q, m) /\ Append(q, m)[i] = q[i]
           /\ Append(q, m)[Len(q) + 1] = m
           /\ \A i \in DOMAIN Append(q, m) : i \in DOMAIN q \/ i = Len(q) + 1
OBVIOUS

(* What the tail of a queue holds, and at which index.                     *)
LEMMA TailElements ==
    ASSUME NEW S, NEW q \in Seq(S), q # <<>>
    PROVE  /\ DOMAIN q = 1 .. Len(q) /\ Len(q) \in Nat /\ 1 \in DOMAIN q
           /\ DOMAIN Tail(q) = 1 .. Len(q) - 1
           /\ \A i \in DOMAIN Tail(q) : i + 1 \in DOMAIN q /\ Tail(q)[i] = q[i + 1]
           /\ \A i \in DOMAIN q : i # 1 => i - 1 \in DOMAIN Tail(q) /\ q[i] = Tail(q)[i - 1]
OBVIOUS

(* A post adds its message to the contents of a queue.                     *)
LEMMA RangeAppend ==
    ASSUME NEW S, NEW q \in Seq(S), NEW m \in S
    PROVE  Range(Append(q, m)) = Range(q) \cup {m}
<1>1. ASSUME NEW x \in Range(Append(q, m)) PROVE x \in Range(q) \cup {m}
  BY AppendElements DEF Range
<1>2. ASSUME NEW x \in Range(q) PROVE x \in Range(Append(q, m))
  BY AppendElements DEF Range
<1>3. m \in Range(Append(q, m))
  <2>1. Len(q) + 1 \in DOMAIN Append(q, m) /\ Append(q, m)[Len(q) + 1] = m
    BY AppendElements
  <2> QED
    BY <2>1 DEF Range
<1> QED
  BY <1>1, <1>2, <1>3

(* An empty queue holds nothing.                                           *)
LEMMA RangeEmpty == Range(<<>>) = {}
BY DEF Range

(* Moving an element from one sequence to the one before it leaves their   *)
(* concatenation alone.                                                    *)
LEMMA ConcatMove ==
    ASSUME NEW S, NEW c \in Seq(S), NEW q \in Seq(S)
    PROVE  /\ c \o q \in Seq(S)
           /\ \A m \in S : c \o Append(q, m) = Append(c \o q, m)
           /\ q # <<>> => Append(c, Head(q)) \o Tail(q) = c \o q
<1>1. c \o q \in Seq(S)
  OBVIOUS
<1>2. \A m \in S : c \o Append(q, m) = Append(c \o q, m)
  OBVIOUS
<1>3. q # <<>> => Append(c, Head(q)) \o Tail(q) = c \o q
  OBVIOUS
<1> QED
  BY <1>1, <1>2, <1>3

(* A post appends a message to one queue; a worker's receive takes the     *)
(* first one of its own.                                                   *)
LEMMA PostEffect ==
    ASSUME TypeOK, NEW t \in Threads, NEW m \in Messages, Post(t, m)
    PROVE  /\ queue' \in [Threads -> Seq(Messages)]
           /\ queue'[t] = Append(queue[t], m)
           /\ \A x \in Threads \ {t} : queue'[x] = queue[x]
BY DEF Post, TypeOK

(* What receiving a message does: the worker is in its loop, outside every *)
(* callback, and loses the head of its own queue only.                     *)
LEMMA ReceiveEffect ==
    ASSUME TypeOK, NEW w \in Workers, NEW m, Receive(w, m)
    PROVE  /\ queue' \in [Threads -> Seq(Messages)]
           /\ queue[w] # <<>> /\ queue[w][1] = m
           /\ queue'[w] = Tail(queue[w])
           /\ \A x \in Threads \ {w} : queue'[x] = queue[x]
           /\ w \in Active /\ main # "crashed" /\ holding[w] = Main
BY Distinct DEF Receive, TypeOK, Looping, Alive, Active

(* A worker in its event loop has passed the barrier, and so has the main  *)
(* thread.                                                                 *)
LEMMA LoopingAfterBarrier ==
    ASSUME StartInv, NEW w \in Workers, thread[w] \in {"running", "ready"} \/ go_ahead
    PROVE  main \notin {"set", "init", "barrier", "guard_init"}
BY DEF StartInv

(* The update whose guard is being posted is the last one that the main    *)
(* thread has applied.                                                     *)
LEMMA GuardUpdate ==
    ASSUME TypeOK, GuardInv, InGuard
    PROVE  /\ update \in Updates
           /\ Len(applied[Main]) \in DOMAIN applied[Main]
           /\ update = applied[Main][Len(applied[Main])]
           /\ update \in Range(applied[Main])
<1>1. applied[Main] \in Seq(Updates)
  BY Distinct DEF TypeOK
<1>2. applied[Main] # <<>> /\ update = applied[Main][Len(applied[Main])]
  BY DEF GuardInv
<1>3. Len(applied[Main]) \in DOMAIN applied[Main] /\ update \in Updates
  BY <1>1, <1>2
<1> QED
  BY <1>2, <1>3 DEF Range

(* The thread that the walk has come to was not sent the guard.            *)
LEMMA NotSentYet ==
    ASSUME TypeOK, StartInv, GuardInv, InGuard, InWalk
    PROVE  /\ m_registered_threads[walk + 1] \in Workers
           /\ walk + 1 \in DOMAIN m_registered_threads
           /\ m_registered_threads[walk + 1] \notin guarded[update]
<1>1. m_registered_threads \in Seq(Workers) /\ walk \in Nat /\ walk < Len(m_registered_threads)
  BY DEF TypeOK, InWalk
<1>2. walk + 1 \in DOMAIN m_registered_threads /\ m_registered_threads[walk + 1] \in Workers
  BY <1>1
<1>3. ASSUME NEW i \in 1 .. walk PROVE m_registered_threads[i] # m_registered_threads[walk + 1]
  <2>1. i \in DOMAIN m_registered_threads /\ i # walk + 1
    BY <1>1
  <2> QED
    BY <1>2, <2>1 DEF StartInv
<1> QED
  BY <1>2, <1>3 DEF GuardInv

(* Every step keeps the state well typed.                                  *)
LEMMA TypeStep == TypeOK /\ StartInv /\ GuardInv /\ OnceInv /\ [Next]_vars => TypeOK'
<1> SUFFICES ASSUME TypeOK, StartInv, GuardInv, OnceInv, [Next]_vars PROVE TypeOK'
  OBVIOUS
<1> USE Distinct DEF startVars, mainVars, dataVars, guardVars
<1>0. Active \in SUBSET Workers /\ ready_workers = Cardinality(Active)
  BY DEF Active, StartInv
<1>1. ASSUME NEW w \in Workers, RegisterThread(w) PROVE TypeOK'
  <2>1. w \notin Active /\ ready_workers + 1 \in 0 .. Cardinality(Workers)
    <3>1. w \notin Active /\ Active \cup {w} \in SUBSET Workers
      BY <1>1, <1>0 DEF RegisterThread, Active
    <3>2. Cardinality(Active \cup {w}) <= Cardinality(Workers) /\ Cardinality(Workers) \in Nat
      BY <3>1, WorkerSets
    <3>3. Cardinality(Active \cup {w}) = Cardinality(Active) + 1
      BY <1>0, <3>1, CountChange
    <3> QED
      BY <1>0, <3>1, <3>2, <3>3 DEF TypeOK
  <2> QED
    BY <1>1, <2>1 DEF RegisterThread, TypeOK, ThreadPc
<1>2. ASSUME NEW w \in Workers, PassBarrier(w) PROVE TypeOK'
  BY <1>2 DEF PassBarrier, Post, TypeOK, ThreadPc
<1>3. CASE SetPost
  <2>1. m_registered_threads[walk + 1] \in Workers
    BY <1>3 DEF SetPost, InWalk, TypeOK
  <2>2. queue' \in [Threads -> Seq(Messages)]
    BY <1>3, <2>1, PostEffect DEF SetPost
  <2> QED
    <3>1. walk' \in Nat
      BY <1>3 DEF SetPost, TypeOK
    <3> QED
      BY <1>3, <2>2, <3>1, Zenon DEF SetPost, TypeOK
<1>4. CASE SetMain
  BY <1>4 DEF SetMain, TypeOK, MainPc
<1>5. ASSUME NEW u \in Updates, RunOnAllThreadsCompleted(u) PROVE TypeOK'
  <2>2. queue' \in [Threads -> Seq(Messages)]
    <3>1. CASE UNCHANGED queue
      BY <3>1 DEF TypeOK
    <3>2. CASE Post(Main, u)
      BY <3>2, PostEffect
    <3> QED
      BY <1>5, <3>1, <3>2 DEF RunOnAllThreadsCompleted, CbGuardNew
  <2>3. applied' \in [Threads -> Seq(Updates)]
    BY <1>5 DEF RunOnAllThreadsCompleted, TypeOK
  <2>4. refs' \in [Updates -> Nat] /\ counted' \in [Updates -> Nat]
    BY <1>5 DEF RunOnAllThreadsCompleted, CbGuardNew, TypeOK
  <2> QED
    BY <1>5, <2>2, <2>3, <2>4 DEF RunOnAllThreadsCompleted, TypeOK, MainPc
<1>6. CASE GuardPost
  <2>1. update \in Updates
    BY <1>6, GuardUpdate DEF GuardPost, InGuard
  <2> DEFINE w == m_registered_threads[walk + 1]
  <2>2. w \in Workers
    BY <1>6 DEF GuardPost, InWalk, TypeOK
  <2>3. queue' = [queue EXCEPT ![w] = Append(@, update)]
        /\ guarded' = [guarded EXCEPT ![update] = @ \cup {w}]
    BY <1>6 DEF GuardPost, Post
  <2> HIDE DEF w
  <2>4. queue' \in [Threads -> Seq(Messages)] /\ guarded' \in [Updates -> SUBSET Workers]
    BY <2>1, <2>2, <2>3 DEF TypeOK
  <2> QED
    <3>1. walk' \in Nat
      BY <1>6 DEF GuardPost, TypeOK
    <3> QED
      BY <1>6, <2>4, <3>1, Zenon DEF GuardPost, TypeOK
<1>7. CASE GuardPosted
  BY <1>7 DEF GuardPosted, TypeOK, MainPc
<1>8. CASE Initialized
  BY <1>8 DEF Initialized, TypeOK, MainPc
<1>9. CASE OpenBarrier
  BY <1>9 DEF OpenBarrier, TypeOK, MainPc
<1>10. CASE Complete
  <2>1. Head(queue[Main]) \in Updates
    <3>1. /\ queue[Main] \in Seq(Messages) /\ completed \in Seq(Messages) /\ queue[Main] # <<>>
      BY <1>10, SeqMonotonic DEF Complete, TypeOK
    <3>2. Len(completed) + 1 \in DOMAIN Completions
          /\ Completions[Len(completed) + 1] = Head(queue[Main])
      BY <3>1 DEF Completions
    <3> QED
      BY <3>2 DEF OnceInv
  <2> QED
    BY <1>10, <2>1 DEF Complete, TypeOK
<1>11. CASE Terminate
  BY <1>11 DEF Terminate, TypeOK, MainPc
<1>12. CASE Exit
  BY <1>12 DEF Exit, TypeOK, MainPc
<1>13. ASSUME NEW w \in Workers, SetCb(w) PROVE TypeOK'
  <2>1. queue' \in [Threads -> Seq(Messages)]
    BY <1>13, ReceiveEffect DEF SetCb
  <2> QED
    BY <1>13, <2>1 DEF SetCb, TypeOK
<1>14. ASSUME NEW w \in Workers, ContinueThreadInitCb(w) PROVE TypeOK'
  <2>1. queue' \in [Threads -> Seq(Messages)]
    BY <1>14, ReceiveEffect DEF ContinueThreadInitCb
  <2> QED
    BY <1>14, <2>1 DEF ContinueThreadInitCb, TypeOK, ThreadPc
<1>15. ASSUME NEW w \in Workers, NEW u \in Updates, GuardCb(w, u) PROVE TypeOK'
  <2>1. queue' \in [Threads -> Seq(Messages)]
    BY <1>15, ReceiveEffect DEF GuardCb
  <2> QED
    <3>1. applied' \in [Threads -> Seq(Updates)]
      BY <1>15, SMT DEF GuardCb, TypeOK
    <3>2. holding' \in [Workers -> Updates \cup {Main}]
      BY <1>15, SMT DEF GuardCb, TypeOK
    <3> QED
      BY <1>15, <2>1, <3>1, <3>2, Zenon DEF GuardCb, TypeOK
<1>16. ASSUME NEW w \in Workers, NEW u \in Updates, GuardCbUndefined(w, u) PROVE TypeOK'
  <2>1. queue' \in [Threads -> Seq(Messages)]
    BY <1>16, ReceiveEffect DEF GuardCbUndefined
  <2>2. applied' \in [Threads -> Seq(Updates)]
    <3>1. applied' = applied \/ \E v \in Updates : applied' = [applied EXCEPT ![w] = Append(@, v)]
      BY <1>16 DEF GuardCbUndefined
    <3>2. ASSUME NEW v \in Updates, applied' = [applied EXCEPT ![w] = Append(@, v)]
          PROVE  applied' \in [Threads -> Seq(Updates)]
      BY <3>2 DEF TypeOK
    <3> QED
      BY <3>1, <3>2 DEF TypeOK
  <2>4. holding' \in [Workers -> Updates \cup {Main}]
    BY <1>16 DEF GuardCbUndefined, TypeOK
  <2>3. main' \in MainPc
    BY <1>16 DEF GuardCbUndefined, TypeOK, MainPc
  <2> QED
    BY <1>16, <2>1, <2>2, <2>3, <2>4 DEF GuardCbUndefined, TypeOK
<1>17. ASSUME NEW w \in Workers, GuardUnref(w) PROVE TypeOK'
  <2>1. holding[w] \in Updates
    BY <1>17 DEF GuardUnref, TypeOK
  <2>2. queue' \in [Threads -> Seq(Messages)]
    <3>1. CASE UNCHANGED queue
      BY <3>1 DEF TypeOK
    <3>2. CASE Post(Main, holding[w])
      BY <2>1, <3>2, PostEffect
    <3> QED
      BY <1>17, <3>1, <3>2 DEF GuardUnref
  <2>3. refs' \in [Updates -> Nat]
    BY <1>17, <2>1 DEF GuardUnref, TypeOK
  <2> QED
    BY <1>17, <2>2, <2>3 DEF GuardUnref, TypeOK
<1>18. ASSUME NEW w \in Workers, ThreadExit(w) PROVE TypeOK'
  <2>1. w \in Active
    BY <1>18 DEF ThreadExit, Looping, Active
  <2>2. ready_workers - 1 \in 0 .. Cardinality(Workers)
    <3>1. Active \ {w} \in SUBSET Workers
      BY <1>0
    <3>2. Cardinality(Active \ {w}) \in Nat /\ Cardinality(Workers) \in Nat
      BY <3>1, WorkerSets
    <3>3. Cardinality(Active \ {w}) = Cardinality(Active) - 1
      BY <1>0, <2>1, CountChange
    <3> QED
      BY <1>0, <3>2, <3>3 DEF TypeOK
  <2> QED
    BY <1>18, <2>2 DEF ThreadExit, TypeOK, ThreadPc
<1>19. CASE UNCHANGED vars
  BY <1>19 DEF vars, TypeOK
<1> QED
  BY <1>1, <1>2, <1>3, <1>4, <1>5, <1>6, <1>7, <1>8, <1>9, <1>10, <1>11, <1>12, <1>13, <1>14,
     <1>15, <1>16, <1>17, <1>18, <1>19 DEF Next, MainStep, StartStep, LoopStep

(* The registrations and the count agree with what the workers are doing.  *)
LEMMA StartInvStep == TypeOK /\ StartInv /\ [Next]_vars => StartInv'
<1> SUFFICES ASSUME TypeOK, StartInv, [Next]_vars PROVE StartInv'
  OBVIOUS
<1> USE DEF startVars, mainVars, dataVars, guardVars
<1> DEFINE reg == m_registered_threads
<1>1. ASSUME NEW w \in Workers, RegisterThread(w) PROVE StartInv'
  <2>1. /\ reg' = Append(reg, w) /\ thread' = [thread EXCEPT ![w] = "waiting"]
        /\ ready_workers' = ready_workers + 1 /\ thread[w] = "starting"
        /\ UNCHANGED <<go_ahead, main, walk>>
    BY <1>1 DEF RegisterThread
  <2>2. /\ reg \in Seq(Workers) /\ Len(reg') = Len(reg) + 1
        /\ DOMAIN reg = 1 .. Len(reg) /\ DOMAIN reg' = 1 .. Len(reg) + 1
        /\ \A i \in 1 .. Len(reg) : reg'[i] = reg[i]
        /\ reg'[Len(reg) + 1] = w
    BY <2>1 DEF TypeOK
  <2>3. \A i \in DOMAIN reg : reg[i] # w
    BY <2>1 DEF StartInv
  <2>4. \A i, j \in DOMAIN reg' : reg'[i] = reg'[j] => i = j
    BY <2>2, <2>3 DEF StartInv
  <2>5. \A x \in Workers : thread'[x] # "starting" <=> \E i \in DOMAIN reg' : reg'[i] = x
    <3> SUFFICES ASSUME NEW x \in Workers
                 PROVE  thread'[x] # "starting" <=> \E i \in DOMAIN reg' : reg'[i] = x
      OBVIOUS
    <3>1. CASE x = w
      BY <2>1, <2>2, <3>1 DEF TypeOK
    <3>2. CASE x # w
      <4>1. thread'[x] = thread[x]
        BY <2>1, <3>2 DEF TypeOK
      <4>2. (\E i \in DOMAIN reg' : reg'[i] = x) <=> (\E i \in DOMAIN reg : reg[i] = x)
        <5>1. ASSUME NEW i \in DOMAIN reg', reg'[i] = x PROVE i \in DOMAIN reg /\ reg[i] = x
          BY <2>2, <3>2, <5>1 DEF TypeOK
        <5>2. ASSUME NEW i \in DOMAIN reg, reg[i] = x PROVE i \in DOMAIN reg' /\ reg'[i] = x
          BY <2>2, <5>2 DEF TypeOK
        <5> QED
          BY <5>1, <5>2
      <4> QED
        BY <4>1, <4>2 DEF StartInv
    <3> QED
      BY <3>1, <3>2
  <2>6. ready_workers' = Cardinality(Active')
    BY <2>1, ActiveStep DEF StartInv, ThreadPc
  <2>7. \A x \in Workers :
           /\ thread'[x] \in {"running", "ready", "stopped"} => go_ahead'
           /\ thread'[x] = "stopped" => main' \in {"down", "exit", "crashed"}
    BY <2>1 DEF StartInv, TypeOK
  <2>8. main' = "set" \/ InGuard' => walk' <= Len(reg')
    BY <2>1, <2>2 DEF StartInv, TypeOK, InGuard
  <2> QED
    BY <2>1, <2>4, <2>5, <2>6, <2>7, <2>8 DEF StartInv
<1>2. ASSUME NEW w \in Workers, NEW p \in {"running", "ready", "stopped"},
             thread' = [thread EXCEPT ![w] = p], w \in Active, go_ahead,
             ready_workers' = (IF p = "stopped" THEN ready_workers - 1 ELSE ready_workers),
             p = "stopped" => main = "down",
             UNCHANGED <<reg, go_ahead, main, walk>>
      PROVE  StartInv'
  <2>1. ready_workers' = Cardinality(Active')
    BY <1>2, ActiveStep DEF StartInv, ThreadPc
  <2>2. \A x \in Workers : thread'[x] # "starting" <=> thread[x] # "starting"
    BY <1>2 DEF TypeOK, Active
  <2>3. \A x \in Workers :
           /\ thread'[x] \in {"running", "ready", "stopped"} => go_ahead'
           /\ thread'[x] = "stopped" => main' \in {"down", "exit", "crashed"}
    BY <1>2 DEF StartInv, TypeOK
  <2> QED
    BY <1>2, <2>1, <2>2, <2>3 DEF StartInv, InGuard
<1>3. ASSUME NEW w \in Workers, PassBarrier(w) PROVE StartInv'
  <2>1. w \in Active
    BY <1>3 DEF PassBarrier, Active
  <2> QED
    BY <1>2, <1>3, <2>1 DEF PassBarrier
<1>4. ASSUME NEW w \in Workers, ContinueThreadInitCb(w) PROVE StartInv'
  <2>1. w \in Active /\ go_ahead
    BY <1>4 DEF ContinueThreadInitCb, Receive, Looping, Active, StartInv
  <2> QED
    BY <1>2, <1>4, <2>1 DEF ContinueThreadInitCb
<1>5. ASSUME NEW w \in Workers, ThreadExit(w) PROVE StartInv'
  <2>1. w \in Active /\ go_ahead
    BY <1>5 DEF ThreadExit, Looping, Active, StartInv
  <2> QED
    BY <1>2, <1>5, <2>1 DEF ThreadExit
<1>6. ASSUME UNCHANGED <<reg, thread, ready_workers, go_ahead>>,
             main' \in {"run", "guard_run", "down", "exit", "crashed"} \/ ~go_ahead,
             main \in {"down", "exit", "crashed"} => main' \in {"down", "exit", "crashed"},
             main' = "set" \/ InGuard' => walk' <= Len(reg)
      PROVE  StartInv'
  <2>1. Active' = Active
    BY <1>6 DEF Active
  <2> QED
    BY <1>6, <2>1 DEF StartInv, InGuard
<1>7. CASE SetPost
  <2>1. walk' <= Len(reg)
    BY <1>7 DEF SetPost, InWalk, TypeOK
  <2> QED
    BY <1>6, <1>7, <2>1 DEF SetPost, StartInv
<1>8. CASE SetMain
  BY <1>6, <1>8 DEF SetMain, StartInv, InGuard
<1>9. ASSUME NEW u \in Updates, RunOnAllThreadsCompleted(u) PROVE StartInv'
  <2>1. walk' <= Len(reg)
    BY <1>9 DEF RunOnAllThreadsCompleted, TypeOK
  <2> QED
    BY <1>6, <1>9, <2>1 DEF RunOnAllThreadsCompleted, StartInv
<1>10. CASE GuardPost
  <2>1. walk' <= Len(reg)
    BY <1>10 DEF GuardPost, InWalk, TypeOK
  <2> QED
    BY <1>6, <1>10, <2>1 DEF GuardPost, StartInv
<1>11. CASE GuardPosted
  BY <1>6, <1>11 DEF GuardPosted, StartInv, InGuard
<1>12. CASE Initialized
  BY <1>6, <1>12 DEF Initialized, StartInv, InGuard
<1>13. CASE OpenBarrier
  BY <1>13 DEF OpenBarrier, StartInv, InGuard, Active
<1>14. CASE Terminate
  BY <1>6, <1>14 DEF Terminate, StartInv, InGuard
<1>15. CASE Exit
  BY <1>6, <1>15 DEF Exit, StartInv, InGuard
<1>16. ASSUME NEW w \in Workers, NEW u \in Updates, GuardCbUndefined(w, u) PROVE StartInv'
  BY <1>6, <1>16 DEF GuardCbUndefined, StartInv, InGuard
<1>17. ASSUME UNCHANGED <<reg, thread, ready_workers, go_ahead, main, walk>> PROVE StartInv'
  BY <1>6, <1>17 DEF StartInv, InGuard
<1>18. ASSUME NEW w \in Workers,
              SetCb(w) \/ (\E u \in Updates : GuardCb(w, u)) \/ GuardUnref(w)
       PROVE  StartInv'
  BY <1>17, <1>18 DEF SetCb, GuardCb, GuardUnref
<1>19. CASE Complete
  BY <1>17, <1>19 DEF Complete
<1>20. CASE UNCHANGED vars
  BY <1>17, <1>20 DEF vars
<1> QED
  BY <1>1, <1>3, <1>4, <1>5, <1>7, <1>8, <1>9, <1>10, <1>11, <1>12, <1>13, <1>14,
     <1>15, <1>16, <1>18, <1>19, <1>20 DEF Next, MainStep, StartStep, LoopStep

(* A worker that is not late has the set message in front of every other.  *)
LEMMA SetInvStep == TypeOK /\ StartInv /\ SetInv /\ GuardInv /\ [Next]_vars => SetInv'
<1> SUFFICES ASSUME TypeOK, StartInv, SetInv, GuardInv, [Next]_vars PROVE SetInv'
  OBVIOUS
<1> USE Distinct DEF startVars, mainVars, dataVars, guardVars
<1> DEFINE reg == m_registered_threads
<1>1. ASSUME NEW w \in Workers, RegisterThread(w) PROVE SetInv'
  <2>1. /\ reg' = Append(reg, w) /\ thread' = [thread EXCEPT ![w] = "waiting"]
        /\ late' = (IF main = "set" THEN late ELSE late \cup {w})
        /\ thread[w] = "starting" /\ w \notin late /\ queue[w] = <<>>
        /\ UNCHANGED <<main, walk, queue, applied, m_data>>
    BY <1>1 DEF RegisterThread, SetInv
  <2>2. main' = "set" =>
           /\ late' = {} /\ applied'[Main] = <<>>
           /\ \A i \in DOMAIN reg' : queue'[reg'[i]] = IF i <= walk' THEN <<"set">> ELSE <<>>
    <3> SUFFICES ASSUME main = "set", NEW i \in DOMAIN reg'
                 PROVE  queue[reg'[i]] = IF i <= walk THEN <<"set">> ELSE <<>>
      BY <2>1 DEF SetInv
    <3>1. CASE i = Len(reg) + 1
      <4>1. reg'[i] = w /\ ~(i <= walk)
        BY <2>1, <3>1 DEF TypeOK, StartInv
      <4> QED
        BY <2>1, <4>1
    <3>2. CASE i # Len(reg) + 1
      <4>1. i \in DOMAIN reg /\ reg'[i] = reg[i]
        <5>1. reg \in Seq(Workers)
          BY DEF TypeOK
        <5> QED
          BY <2>1, <3>2, <5>1
      <4> QED
        BY <4>1 DEF SetInv
    <3> QED
      BY <3>1, <3>2
  <2>3. \A x \in Workers : thread'[x] = "starting" =>
           queue'[x] = <<>> /\ applied'[x] = <<>> /\ x \notin late'
    BY <2>1 DEF SetInv, TypeOK
  <2>4. \A x \in Active' \ late' :
           main' # "set" => m_data'[x] \/ (queue'[x] # <<>> /\ queue'[x][1] = "set")
    BY <2>1 DEF SetInv, TypeOK, Active
  <2>5. ReadyHasData'
    BY <2>1 DEF SetInv, TypeOK, ReadyHasData
  <2> QED
    BY <2>2, <2>3, <2>4, <2>5 DEF SetInv
\* A step that leaves the workers alone.
<1>2. ASSUME \/ main # "set" /\ main' # "set"
             \/ UNCHANGED <<main, walk, reg, applied>>,
             UNCHANGED <<thread, late>>,
             \A x \in Workers : m_data'[x] = m_data[x] /\ applied'[x] = applied[x],
             \A x \in Workers : queue'[x] = queue[x]
      PROVE  SetInv'
  <2>1. CASE main # "set" /\ main' # "set"
    BY <1>2, <2>1 DEF SetInv, Active, ReadyHasData
  <2>2. CASE UNCHANGED <<main, walk, reg, applied>>
    <3>1. \A i \in DOMAIN reg : reg[i] \in Workers
      BY DEF TypeOK
    <3> QED
      BY <1>2, <2>2, <3>1 DEF SetInv, Active, ReadyHasData
  <2> QED
    BY <1>2, <2>1, <2>2
<1>3. CASE SetPost
  <2> DEFINE w == reg[walk + 1]
  <2>1. w \in Workers /\ walk + 1 \in DOMAIN reg
    BY <1>3 DEF SetPost, InWalk, TypeOK
  <2>2. queue'[w] = Append(queue[w], "set") /\ \A x \in Threads \ {w} : queue'[x] = queue[x]
    BY <1>3, <2>1, PostEffect DEF SetPost
  <2>3. UNCHANGED <<reg, main, thread, late, applied, m_data>> /\ main = "set" /\ walk' = walk + 1
    BY <1>3 DEF SetPost
  <2>4. queue[w] = <<>>
    BY <2>1, <2>3 DEF SetInv, TypeOK
  <2>5. \A i \in DOMAIN reg' : queue'[reg'[i]] = IF i <= walk' THEN <<"set">> ELSE <<>>
    <3> SUFFICES ASSUME NEW i \in DOMAIN reg
                 PROVE  queue'[reg[i]] = IF i <= walk + 1 THEN <<"set">> ELSE <<>>
      BY <2>3
    <3>1. CASE i = walk + 1
      BY <2>2, <2>4, <3>1 DEF TypeOK
    <3>2. CASE i # walk + 1
      <4>1. reg[i] # w /\ reg[i] \in Workers
        BY <2>1, <3>2 DEF StartInv, TypeOK
      <4>2. i <= walk + 1 <=> i <= walk
        <5>1. i \in Nat /\ walk \in Nat
          BY DEF TypeOK
        <5> QED
          BY <3>2, <5>1
      <4> QED
        BY <2>2, <2>3, <4>1, <4>2 DEF SetInv
    <3> QED
      BY <3>1, <3>2
  <2>6. thread[w] # "starting"
    BY <2>1 DEF StartInv
  <2> HIDE DEF w
  <2>7. \A x \in Workers : thread'[x] = "starting" =>
           queue'[x] = <<>> /\ applied'[x] = <<>> /\ x \notin late'
    BY <2>2, <2>3, <2>6 DEF SetInv
  <2> QED
    BY <2>3, <2>5, <2>7 DEF SetInv, ReadyHasData
<1>4. CASE SetMain
  <2>1. main = "set" /\ main' = "init" /\ UNCHANGED <<reg, thread, late, queue, applied>>
    BY <1>4 DEF SetMain
  <2>3. walk >= Len(reg)
    BY <1>4 DEF SetMain, InWalk, TypeOK
  <2>4. \A x \in Workers : m_data'[x] = m_data[x]
    BY <1>4 DEF SetMain, TypeOK
  <2>2. \A x \in Active' \ late' : queue'[x] # <<>> /\ queue'[x][1] = "set"
    <3> SUFFICES ASSUME NEW x \in Active PROVE queue[x] = <<"set">>
      BY <2>1 DEF Active
    <3>1. PICK i \in DOMAIN reg : reg[i] = x
      BY DEF Active, StartInv
    <3>2. i <= walk
      BY <2>3 DEF TypeOK
    <3> QED
      BY <2>1, <3>1, <3>2 DEF SetInv
  <2> QED
    BY <2>1, <2>2, <2>4 DEF SetInv, ReadyHasData
\* A worker's step that adds to its queue or takes a message off it.
<1>5. ASSUME NEW w \in Workers, main # "set", main' # "set", late' = late,
             \A x \in Workers \ {w} : /\ thread'[x] = thread[x] /\ m_data'[x] = m_data[x]
                                      /\ queue'[x] = queue[x] /\ applied'[x] = applied[x],
             thread'[w] # "starting",
             w \notin late /\ w \in Active' => m_data'[w] \/ (queue'[w] # <<>> /\ queue'[w][1] = "set"),
             w \notin late /\ thread'[w] = "ready" => m_data'[w]
      PROVE  SetInv'
  <2>1. \A x \in Workers \ {w} : x \in Active' <=> x \in Active
    BY <1>5 DEF Active
  <2>2. \A x \in Active' \ late' :
           main' # "set" => m_data'[x] \/ (queue'[x] # <<>> /\ queue'[x][1] = "set")
    <3> SUFFICES ASSUME NEW x \in Active', x \notin late, x # w
                 PROVE  m_data'[x] \/ (queue'[x] # <<>> /\ queue'[x][1] = "set")
      BY <1>5 DEF Active
    <3> QED
      BY <1>5, <2>1 DEF SetInv, Active
  <2>3. \A x \in Workers : thread'[x] = "starting" =>
           queue'[x] = <<>> /\ applied'[x] = <<>> /\ x \notin late'
    BY <1>5 DEF SetInv
  <2>4. ReadyHasData'
    BY <1>5 DEF SetInv, ReadyHasData
  <2> QED
    BY <1>5, <2>2, <2>3, <2>4 DEF SetInv
<1>6. ASSUME NEW w \in Workers, PassBarrier(w) PROVE SetInv'
  <2>1. queue'[w] = Append(queue[w], "continue") /\ \A x \in Workers \ {w} : queue'[x] = queue[x]
    BY <1>6, PostEffect DEF PassBarrier
  <2>2. main # "set" /\ w \in Active
    BY <1>6, LoopingAfterBarrier DEF PassBarrier, Active
  <2>3. thread' = [thread EXCEPT ![w] = "running"] /\ UNCHANGED <<late, main, applied, m_data>>
    BY <1>6 DEF PassBarrier
  <2>4. w \notin late => m_data'[w] \/ (queue'[w] # <<>> /\ queue'[w][1] = "set")
    <3>1. w \notin late => m_data[w] \/ (queue[w] # <<>> /\ queue[w][1] = "set")
      BY <2>2 DEF SetInv
    <3>2. queue[w] \in Seq(Messages)
      BY DEF TypeOK
    <3> QED
      BY <2>1, <2>3, <3>1, <3>2, AppendKeepsFirst
  <2> QED
    BY <1>5, <2>1, <2>2, <2>3, <2>4 DEF TypeOK
\* A worker that is not late and receives another message has the object.
<1>7. ASSUME NEW w \in Workers, NEW m, Receive(w, m)
      PROVE  /\ main # "set" /\ thread[w] \in {"running", "ready"}
             /\ m # "set" /\ w \notin late => m_data[w]
             /\ \A x \in Workers \ {w} : queue'[x] = queue[x]
  <2>1. main # "set" /\ thread[w] \in {"running", "ready"}
    BY <1>7, LoopingAfterBarrier DEF Receive, Looping
  <2>2. w \in Active /\ queue[w] # <<>> /\ queue[w][1] = m
        /\ \A x \in Workers \ {w} : queue'[x] = queue[x]
    BY <1>7, ReceiveEffect
  <2> QED
    BY <2>1, <2>2 DEF SetInv
<1>8. ASSUME NEW w \in Workers, SetCb(w) PROVE SetInv'
  <2>1. m_data' = [m_data EXCEPT ![w] = TRUE] /\ UNCHANGED <<thread, late, main, applied>>
    BY <1>8 DEF SetCb
  <2>2. Receive(w, "set")
    BY <1>8 DEF SetCb
  <2>3. m_data'[w] /\ \A x \in Workers \ {w} : m_data'[x] = m_data[x]
    BY <2>1 DEF TypeOK
  <2> QED
    BY <1>5, <1>7, <2>1, <2>2, <2>3
<1>9. ASSUME NEW w \in Workers, ContinueThreadInitCb(w) PROVE SetInv'
  <2>1. thread' = [thread EXCEPT ![w] = "ready"] /\ UNCHANGED <<m_data, late, main, applied>>
    BY <1>9 DEF ContinueThreadInitCb
  <2>2. Receive(w, "continue")
    BY <1>9 DEF ContinueThreadInitCb
  <2>3. thread'[w] = "ready" /\ \A x \in Workers \ {w} : thread'[x] = thread[x]
    BY <2>1 DEF TypeOK
  <2> QED
    BY <1>5, <1>7, <2>1, <2>2, <2>3
<1>10. ASSUME NEW w \in Workers, NEW u \in Updates, GuardCb(w, u) \/ GuardCbUndefined(w, u)
       PROVE  SetInv'
  <2>1. Receive(w, u) /\ UNCHANGED <<thread, m_data, late>>
    BY <1>10 DEF GuardCb, GuardCbUndefined
  <2>2. main' = main \/ main' = "crashed"
    BY <1>10 DEF GuardCb, GuardCbUndefined
  <2>3. \A x \in Workers \ {w} : applied'[x] = applied[x]
    BY <1>10 DEF GuardCb, GuardCbUndefined, TypeOK
  <2> QED
    BY <1>5, <1>7, <2>1, <2>2, <2>3
<1>11. ASSUME NEW w \in Workers, GuardUnref(w) PROVE SetInv'
  <2>1. holding[w] \in Updates
    BY <1>11 DEF GuardUnref, TypeOK
  <2>2. \A x \in Workers : queue'[x] = queue[x]
    BY <1>11, <2>1, PostEffect DEF GuardUnref
  <2> QED
    BY <1>2, <1>11, <2>2 DEF GuardUnref
<1>12. ASSUME NEW w \in Workers, ThreadExit(w) PROVE SetInv'
  <2>1. thread'[w] = "stopped" /\ \A x \in Workers \ {w} :
           thread'[x] = thread[x] /\ m_data'[x] = m_data[x] /\ queue'[x] = queue[x]
    BY <1>12 DEF ThreadExit, TypeOK
  <2>2. main = "down" /\ UNCHANGED <<main, late, applied>>
    BY <1>12 DEF ThreadExit
  <2> QED
    BY <1>5, <2>1, <2>2 DEF Active
<1>13. ASSUME NEW u \in Updates, RunOnAllThreadsCompleted(u) PROVE SetInv'
  <2>1. \A x \in Workers : queue'[x] = queue[x]
    BY <1>13, PostEffect DEF RunOnAllThreadsCompleted, CbGuardNew
  <2>2. main # "set" /\ main' # "set"
    BY <1>13 DEF RunOnAllThreadsCompleted
  <2>3. \A x \in Workers : applied'[x] = applied[x]
    BY <1>13 DEF RunOnAllThreadsCompleted, TypeOK
  <2> QED
    BY <1>2, <1>13, <2>1, <2>2, <2>3 DEF RunOnAllThreadsCompleted
<1>14. CASE GuardPost
  <2> DEFINE w == reg[walk + 1]
  <2>1. w \in Workers /\ walk + 1 \in DOMAIN reg /\ InGuard
    BY <1>14 DEF GuardPost, InWalk, TypeOK, InGuard
  <2>2. thread[w] # "starting" /\ thread[w] # "stopped"
    BY <2>1 DEF StartInv, InGuard
  <2>3. update \in Updates
    BY <2>1, GuardUpdate
  <2>4. queue'[w] = Append(queue[w], update) /\ \A x \in Workers \ {w} : queue'[x] = queue[x]
    BY <1>14, <2>1, <2>3, PostEffect DEF GuardPost
  <2>5. UNCHANGED <<main, thread, late, m_data, applied>> /\ main # "set"
    BY <1>14 DEF GuardPost
  <2> HIDE DEF w
  <2>6. w \in Active
    BY <2>1, <2>2 DEF Active, TypeOK, ThreadPc
  <2>7. w \notin late => m_data'[w] \/ (queue'[w] # <<>> /\ queue'[w][1] = "set")
    <3>1. w \notin late => m_data[w] \/ (queue[w] # <<>> /\ queue[w][1] = "set")
      BY <2>5, <2>6 DEF SetInv
    <3>2. queue[w] \in Seq(Messages)
      BY <2>1 DEF TypeOK
    <3> QED
      BY <2>3, <2>4, <2>5, <3>1, <3>2, AppendKeepsFirst
  <2> QED
    BY <1>5, <2>1, <2>2, <2>4, <2>5, <2>7 DEF SetInv, ReadyHasData
<1>15. CASE GuardPosted \/ Initialized \/ OpenBarrier \/ Exit
  BY <1>2, <1>15 DEF GuardPosted, Initialized, OpenBarrier, Exit
<1>16. CASE Terminate
  <2>1. \A x \in Workers : m_data'[x] = m_data[x]
    BY <1>16 DEF Terminate, TypeOK
  <2> QED
    BY <1>2, <1>16, <2>1 DEF Terminate
<1>17. CASE Complete
  <2>1. \A x \in Workers : queue'[x] = queue[x]
    BY <1>17 DEF Complete, TypeOK
  <2> QED
    BY <1>2, <1>17, <2>1 DEF Complete
<1>18. CASE UNCHANGED vars
  BY <1>2, <1>18 DEF vars
<1> QED
  BY <1>1, <1>3, <1>4, <1>6, <1>8, <1>9, <1>10, <1>11, <1>12, <1>13, <1>14,
     <1>15, <1>16, <1>17, <1>18 DEF Next, MainStep, StartStep, LoopStep

(* The updates in a queue after a message was taken off or appended.       *)
LEMMA QueueInvGrows ==
    ASSUME NEW q, NEW w, NEW g, NEW h, QueueInv(q, w, g), \A u \in Updates : g[u] \subseteq h[u]
    PROVE  QueueInv(q, w, h)
BY DEF QueueInv

(* Taking a message off a queue keeps its updates guarded and distinct.    *)
LEMMA QueueInvTail ==
    ASSUME NEW q \in Seq(Messages), NEW w, NEW g, QueueInv(q, w, g), q # <<>>
    PROVE  QueueInv(Tail(q), w, g)
<1>1. DOMAIN q = 1 .. Len(q) /\ Len(q) \in Nat /\ DOMAIN Tail(q) = 1 .. Len(q) - 1
      /\ \A i \in DOMAIN Tail(q) : i + 1 \in DOMAIN q /\ Tail(q)[i] = q[i + 1]
  BY TailElements
<1> SUFFICES ASSUME NEW i \in DOMAIN Tail(q), Tail(q)[i] \in Updates
             PROVE  w \in g[Tail(q)[i]] /\ \A j \in DOMAIN Tail(q) : Tail(q)[i] = Tail(q)[j] => i = j
  BY DEF QueueInv
<1>2. w \in g[q[i + 1]] /\ \A j \in DOMAIN q : q[i + 1] = q[j] => i + 1 = j
  BY <1>1 DEF QueueInv
<1> QED
  BY <1>1, <1>2

(* Posting a message keeps them so when an update that is posted is        *)
(* guarded for this worker and not in the queue yet.                       *)
LEMMA QueueInvAppend ==
    ASSUME NEW q \in Seq(Messages), NEW w, NEW g, QueueInv(q, w, g), NEW m \in Messages,
           m \in Updates => w \in g[m] /\ \A i \in DOMAIN q : q[i] # m
    PROVE  QueueInv(Append(q, m), w, g)
<1> DEFINE a == Append(q, m)
<1>1. /\ DOMAIN q = 1 .. Len(q) /\ Len(q) \in Nat
      /\ \A i \in DOMAIN q : a[i] = q[i]
      /\ a[Len(q) + 1] = m
      /\ \A i \in DOMAIN a : i \in DOMAIN q \/ i = Len(q) + 1
  BY AppendElements
<1> HIDE DEF a
<1>2. \A i \in DOMAIN q : q[i] \in Updates => q[i] # m
  BY DEF QueueInv
<1> SUFFICES ASSUME NEW i \in DOMAIN a, a[i] \in Updates
             PROVE  w \in g[a[i]] /\ \A j \in DOMAIN a : a[i] = a[j] => i = j
  BY DEF QueueInv, a
<1>3. CASE i \in DOMAIN q
  BY <1>1, <1>2, <1>3 DEF QueueInv
<1>4. CASE i = Len(q) + 1
  BY <1>1, <1>2, <1>4
<1> QED
  BY <1>1, <1>3, <1>4

(* Guards are sent once, and only to the threads the walk has passed.      *)
LEMMA GuardInvStep == TypeOK /\ StartInv /\ GuardInv /\ [Next]_vars => GuardInv'
<1> SUFFICES ASSUME TypeOK, StartInv, GuardInv, [Next]_vars PROVE GuardInv'
  OBVIOUS
<1> USE Distinct DEF startVars, mainVars, dataVars, guardVars
<1> DEFINE reg == m_registered_threads
<1>0. /\ \A w \in Workers : queue[w] \in Seq(Messages) /\ applied[w] \in Seq(Updates)
      /\ applied[Main] \in Seq(Updates)
  BY DEF TypeOK
\* A step that changes no guard and no history.
<1>1. ASSUME UNCHANGED <<applied, guarded, holding>>,
             \A u \in Updates : refs[u] = 0 => refs'[u] = 0,
             InGuard' => InGuard /\ UNCHANGED <<update, walk>>
                         /\ \A i \in 1 .. walk : reg'[i] = reg[i],
             \A w \in Workers : QueueInv(queue'[w], w, guarded)
      PROVE  GuardInv'
  BY <1>1 DEF GuardInv
<1>2. ASSUME NEW w \in Workers, RegisterThread(w) PROVE GuardInv'
  <2>1. InGuard => \A i \in 1 .. walk : reg'[i] = reg[i]
    BY <1>2 DEF RegisterThread, TypeOK, StartInv
  <2>2. UNCHANGED <<main, queue, applied, guarded, holding, refs, update, walk>>
    BY <1>2 DEF RegisterThread
  <2>3. \A x \in Workers : QueueInv(queue'[x], x, guarded)
    BY <2>2 DEF GuardInv
  <2> QED
    BY <1>1, <2>1, <2>2, <2>3 DEF InGuard
\* A queue that is as before, shorter, or longer by a message without a guard.
<1>3. ASSUME NEW x \in Workers,
             \/ queue'[x] = queue[x] \/ queue'[x] = <<>>
             \/ queue[x] # <<>> /\ queue'[x] = Tail(queue[x])
             \/ queue'[x] = Append(queue[x], "set")
             \/ queue'[x] = Append(queue[x], "continue")
      PROVE  QueueInv(queue'[x], x, guarded)
  <2>1. QueueInv(queue[x], x, guarded) /\ queue[x] \in Seq(Messages)
    BY <1>0 DEF GuardInv
  <2>2. QueueInv(<<>>, x, guarded)
    BY DEF QueueInv
  <2>3. queue[x] # <<>> => QueueInv(Tail(queue[x]), x, guarded)
    BY <2>1, QueueInvTail
  <2>4. QueueInv(Append(queue[x], "set"), x, guarded) /\ QueueInv(Append(queue[x], "continue"), x, guarded)
    BY <2>1, QueueInvAppend
  <2> QED
    BY <1>3, <2>1, <2>2, <2>3, <2>4
<1>4. ASSUME NEW w \in Workers, PassBarrier(w) PROVE GuardInv'
  <2>1. queue'[w] = Append(queue[w], "continue") /\ \A x \in Workers \ {w} : queue'[x] = queue[x]
    BY <1>4, PostEffect DEF PassBarrier
  <2>2. \A x \in Workers : QueueInv(queue'[x], x, guarded)
    BY <1>3, <2>1
  <2> QED
    BY <1>1, <1>4, <2>2 DEF PassBarrier, InGuard
<1>5. CASE SetPost
  <2> DEFINE w == reg[walk + 1]
  <2>1. w \in Workers
    BY <1>5 DEF SetPost, InWalk, TypeOK
  <2>2. queue'[w] = Append(queue[w], "set") /\ \A x \in Workers \ {w} : queue'[x] = queue[x]
    BY <1>5, <2>1, PostEffect DEF SetPost
  <2>3. ~InGuard'
    BY <1>5 DEF SetPost, InGuard
  <2> HIDE DEF w
  <2>4. \A x \in Workers : QueueInv(queue'[x], x, guarded)
    BY <1>3, <2>1, <2>2
  <2> QED
    BY <1>1, <1>5, <2>3, <2>4 DEF SetPost
<1>6. CASE SetMain \/ GuardPosted \/ Initialized \/ OpenBarrier \/ Terminate \/ Exit
  <2>1. \A x \in Workers : QueueInv(queue'[x], x, guarded)
    BY <1>3, <1>6 DEF SetMain, GuardPosted, Initialized, OpenBarrier, Terminate, Exit
  <2>2. ~InGuard'
    BY <1>6 DEF SetMain, GuardPosted, Initialized, OpenBarrier, Terminate, Exit, InGuard
  <2> QED
    BY <1>1, <1>6, <2>1, <2>2 DEF SetMain, GuardPosted, Initialized, OpenBarrier, Terminate, Exit
<1>7. CASE Complete
  <2>1. \A x \in Workers : queue'[x] = queue[x]
    BY <1>7 DEF Complete, TypeOK
  <2> QED
    BY <1>1, <1>3, <1>7, <2>1 DEF Complete, InGuard
<1>8. ASSUME NEW w \in Workers, SetCb(w) \/ ContinueThreadInitCb(w) PROVE GuardInv'
  <2>1. \E m \in Messages : Receive(w, m)
    BY <1>8 DEF SetCb, ContinueThreadInitCb
  <2>2. queue[w] # <<>> /\ queue'[w] = Tail(queue[w]) /\ \A x \in Workers \ {w} : queue'[x] = queue[x]
    BY <2>1, ReceiveEffect
  <2>3. \A x \in Workers : QueueInv(queue'[x], x, guarded)
    BY <1>3, <2>2
  <2> QED
    BY <1>1, <1>8, <2>3 DEF SetCb, ContinueThreadInitCb, InGuard
<1>9. ASSUME NEW w \in Workers, ThreadExit(w) PROVE GuardInv'
  <2>1. queue'[w] = <<>> /\ \A x \in Workers \ {w} : queue'[x] = queue[x]
    BY <1>9 DEF ThreadExit, TypeOK
  <2>2. \A x \in Workers : QueueInv(queue'[x], x, guarded)
    BY <1>3, <2>1
  <2> QED
    BY <1>1, <1>9, <2>2 DEF ThreadExit, InGuard
<1>10. ASSUME NEW w \in Workers, NEW u \in Updates, GuardCb(w, u) \/ GuardCbUndefined(w, u)
       PROVE  GuardInv'
  <2>1. queue[w] # <<>> /\ queue'[w] = Tail(queue[w]) /\ \A x \in Workers \ {w} : queue'[x] = queue[x]
    BY <1>10, ReceiveEffect DEF GuardCb, GuardCbUndefined
  <2>2. \A x \in Workers : QueueInv(queue'[x], x, guarded)
    BY <1>3, <2>1
  <2>3. UNCHANGED <<guarded, refs, update, walk, reg>> /\ (InGuard' => InGuard)
    BY <1>10 DEF GuardCb, GuardCbUndefined, InGuard
  <2>4. \/ UNCHANGED <<applied, holding>>
        \/ \E v \in Updates, h \in Updates \cup {Main} :
              /\ applied' = [applied EXCEPT ![w] = Append(@, v)]
              /\ holding' = [holding EXCEPT ![w] = h]
              /\ h \in {v, Main}
              /\ holding[w] = Main
    BY <1>10 DEF GuardCb, GuardCbUndefined, Receive, Looping
  <2>5. applied'[Main] = applied[Main]
    BY <2>4 DEF TypeOK
  <2>6. \A x \in Workers : holding'[x] # Main => holding'[x] \in Range(applied'[x])
    <3>1. CASE UNCHANGED <<applied, holding>>
      BY <3>1 DEF GuardInv
    <3>2. ASSUME NEW v \in Updates, NEW h \in {v, Main},
                 applied' = [applied EXCEPT ![w] = Append(@, v)],
                 holding' = [holding EXCEPT ![w] = h]
          PROVE  \A x \in Workers : holding'[x] # Main => holding'[x] \in Range(applied'[x])
      <4>1. applied'[w] = Append(applied[w], v) /\ holding'[w] \in {v, Main}
        BY <3>2 DEF TypeOK
      <4>2. v \in Range(applied'[w])
        BY <1>0, <4>1, RangeAppend
      <4>3. \A x \in Workers \ {w} : applied'[x] = applied[x] /\ holding'[x] = holding[x]
        BY <3>2 DEF TypeOK
      <4> QED
        BY <4>1, <4>2, <4>3 DEF GuardInv
    <3> QED
      BY <2>4, <3>1, <3>2
  <2> QED
    BY <2>2, <2>3, <2>5, <2>6 DEF GuardInv
<1>11. ASSUME NEW w \in Workers, GuardUnref(w) PROVE GuardInv'
  <2>1. holding[w] \in Updates
    BY <1>11 DEF GuardUnref, TypeOK
  <2>2. \A x \in Workers : queue'[x] = queue[x]
    BY <1>11, <2>1, PostEffect DEF GuardUnref
  <2>3. \A x \in Workers : QueueInv(queue'[x], x, guarded)
    BY <1>3, <2>2
  <2>4. \A u \in Updates : refs[u] = 0 => refs'[u] = 0
    BY <1>11, <2>1 DEF GuardUnref, TypeOK
  <2>5. \A x \in Workers : holding'[x] # Main => holding'[x] = holding[x]
    BY <1>11 DEF GuardUnref, TypeOK
  <2>6. UNCHANGED <<applied, guarded, main, update, walk, reg>>
    BY <1>11 DEF GuardUnref
  <2> QED
    BY <2>3, <2>4, <2>5, <2>6 DEF GuardInv, InGuard
<1>12. ASSUME NEW u \in Updates, RunOnAllThreadsCompleted(u) PROVE GuardInv'
  <2>1. \A x \in Workers : queue'[x] = queue[x]
    BY <1>12, PostEffect DEF RunOnAllThreadsCompleted, CbGuardNew
  <2>2. \A x \in Workers : QueueInv(queue'[x], x, guarded)
    BY <1>3, <2>1
  <2>3. /\ applied'[Main] = Append(applied[Main], u) /\ u \notin Range(applied[Main])
        /\ \A x \in Workers : applied'[x] = applied[x]
    BY <1>12 DEF RunOnAllThreadsCompleted, TypeOK
  <2>4. update' = u /\ walk' = 0 /\ UNCHANGED <<guarded, holding, reg>>
    BY <1>12 DEF RunOnAllThreadsCompleted
  <2>5. Range(applied'[Main]) = Range(applied[Main]) \cup {u}
    BY <1>0, <2>3, RangeAppend
  <2>6. \A i, j \in DOMAIN applied'[Main] : applied'[Main][i] = applied'[Main][j] => i = j
    <3> DEFINE a == applied[Main]
               b == applied'[Main]
    <3>1. /\ \A i \in DOMAIN a : b[i] = a[i] /\ a[i] # u
          /\ \A i \in DOMAIN b : i \in DOMAIN a \/ (i = Len(a) + 1 /\ b[i] = u)
      BY <1>0, <2>3, AppendElements DEF Range
    <3>2. \A i, j \in DOMAIN a : a[i] = a[j] => i = j
      BY DEF GuardInv
    <3> HIDE DEF a, b
    <3>3. \A i, j \in DOMAIN b : b[i] = b[j] => i = j
      BY <3>1, <3>2
    <3> QED
      BY <3>3 DEF b
  <2>7. applied'[Main] # <<>> /\ u = applied'[Main][Len(applied'[Main])]
    BY <1>0, <2>3
  <2>8. \A v \in Updates : v \notin Range(applied'[Main]) => guarded'[v] = {} /\ refs'[v] = 0
    <3>1. \A v \in Updates \ {u} : refs'[v] = refs[v]
      BY <1>12 DEF RunOnAllThreadsCompleted, CbGuardNew, TypeOK
    <3> QED
      BY <2>4, <2>5, <3>1 DEF GuardInv
  <2>9. \A x \in Workers : x \in guarded'[u] <=> \E i \in 1 .. walk' : reg'[i] = x
    <3>1. guarded[u] = {}
      BY <2>3 DEF GuardInv
    <3>2. ~(\E i \in 1 .. walk' : TRUE)
      BY <2>4
    <3> QED
      BY <2>4, <3>1, <3>2
  <2>10. \A x \in Workers : holding'[x] # Main => holding'[x] \in Range(applied'[x])
    BY <2>3, <2>4 DEF GuardInv
  <2> QED
    BY <2>2, <2>4, <2>6, <2>7, <2>8, <2>9, <2>10 DEF GuardInv
<1>13. CASE GuardPost
  <2> DEFINE w == reg[walk + 1]
  <2>1. w \in Workers /\ walk + 1 \in DOMAIN reg /\ InGuard /\ InGuard'
    BY <1>13 DEF GuardPost, InWalk, TypeOK, InGuard
  <2>2. update \in Updates /\ update \in Range(applied[Main])
    BY <2>1, GuardUpdate
  <2>3. queue'[w] = Append(queue[w], update) /\ \A x \in Workers \ {w} : queue'[x] = queue[x]
    BY <1>13, <2>1, <2>2, PostEffect DEF GuardPost
  <2>4. guarded' = [guarded EXCEPT ![update] = @ \cup {w}] /\ walk' = walk + 1
        /\ UNCHANGED <<update, reg, applied, refs, holding>>
    BY <1>13 DEF GuardPost
  <2>5. \A x \in Workers : x \in guarded[update] <=> \E i \in 1 .. walk : reg[i] = x
    BY <2>1 DEF GuardInv
  <2>6. w \notin guarded[update]
    BY <1>13, <2>1, NotSentYet DEF GuardPost
  <2> HIDE DEF w
  <2>7. /\ guarded'[update] = guarded[update] \cup {w}
        /\ \A u \in Updates \ {update} : guarded'[u] = guarded[u]
        /\ \A u \in Updates : guarded[u] \subseteq guarded'[u]
    BY <2>2, <2>4 DEF TypeOK
  <2>8. \A x \in Workers : QueueInv(queue'[x], x, guarded')
    <3> SUFFICES ASSUME NEW x \in Workers PROVE QueueInv(queue'[x], x, guarded')
      OBVIOUS
    <3>1. QueueInv(queue[x], x, guarded)
      BY DEF GuardInv
    <3>2. CASE x = w
      <4>1. update \in Messages /\ w \in guarded'[update] /\ QueueInv(queue[w], w, guarded')
        BY <2>2, <2>7, <3>1, <3>2, QueueInvGrows
      <4>2. \A i \in DOMAIN queue[w] : queue[w][i] # update
        BY <2>2, <2>6, <3>1, <3>2 DEF QueueInv
      <4>3. QueueInv(Append(queue[w], update), w, guarded')
        BY <1>0, <2>1, <4>1, <4>2, QueueInvAppend
      <4> QED
        BY <2>3, <3>2, <4>3
    <3>3. CASE x # w
      BY <2>3, <2>7, <3>1, <3>3, QueueInvGrows
    <3> QED
      BY <3>2, <3>3
  <2>9. \A x \in Workers : x \in guarded'[update'] <=> \E i \in 1 .. walk' : reg'[i] = x
    <3> SUFFICES ASSUME NEW x \in Workers
                 PROVE  x \in guarded[update] \cup {w} <=> \E i \in 1 .. walk + 1 : reg[i] = x
      BY <2>4, <2>7
    <3>1. 1 .. walk + 1 = (1 .. walk) \cup {walk + 1}
      BY DEF TypeOK
    <3> QED
      BY <2>5, <3>1 DEF w
  <2>10. \A u \in Updates : u \notin Range(applied'[Main]) => guarded'[u] = {} /\ refs'[u] = 0
    BY <2>2, <2>4, <2>7 DEF GuardInv
  <2> QED
    BY <2>1, <2>4, <2>8, <2>9, <2>10 DEF GuardInv
<1>14. CASE UNCHANGED vars
  BY <1>1, <1>3, <1>14 DEF vars, InGuard
<1> QED
  BY <1>2, <1>4, <1>5, <1>6, <1>7, <1>8, <1>9, <1>10, <1>11, <1>12, <1>13, <1>14
     DEF Next, MainStep, StartStep, LoopStep

(* A completion is posted once, when the last reference is gone.           *)
LEMMA OnceInvStep == TypeOK /\ StartInv /\ GuardInv /\ OnceInv /\ [Next]_vars => OnceInv'
<1> SUFFICES ASSUME TypeOK, StartInv, GuardInv, OnceInv, [Next]_vars PROVE OnceInv'
  OBVIOUS
<1> USE Distinct DEF startVars, mainVars, dataVars, guardVars
<1>0. /\ queue[Main] \in Seq(Messages) /\ completed \in Seq(Messages)
      /\ Completions \in Seq(Messages) /\ applied[Main] \in Seq(Updates)
  BY SeqMonotonic DEF TypeOK, Completions
\* A step that posts nothing to the main thread.
<1>1. ASSUME Completions' = Completions, UNCHANGED refs, applied'[Main] = applied[Main]
      PROVE  OnceInv'
  BY <1>1 DEF OnceInv
\* A step that posts the completion of u.
<1>2. ASSUME NEW u \in Updates, completed' = completed, queue'[Main] = Append(queue[Main], u),
             \A i \in DOMAIN Completions : Completions[i] # u,
             \A v \in Updates \ {u} : refs'[v] = refs[v],
             refs'[u] = 0, u \in Range(applied'[Main]),
             Range(applied[Main]) \subseteq Range(applied'[Main])
      PROVE  OnceInv'
  <2> DEFINE c == Completions
             d == Completions'
  <2>1. d = Append(c, u)
    BY <1>0, <1>2, ConcatMove DEF Completions
  <2>2. /\ \A i \in DOMAIN c : d[i] = c[i] /\ c[i] # u
        /\ \A i \in DOMAIN d : i \in DOMAIN c \/ (i = Len(c) + 1 /\ d[i] = u)
    BY <1>0, <1>2, <2>1, AppendElements
  <2>3. \A i, j \in DOMAIN c : c[i] = c[j] => i = j
    BY DEF OnceInv
  <2>4. \A i \in DOMAIN c : c[i] \in Updates /\ refs[c[i]] = 0 /\ c[i] \in Range(applied[Main])
    BY DEF OnceInv
  <2> HIDE DEF c, d
  <2>5. \A i, j \in DOMAIN d : d[i] = d[j] => i = j
    BY <2>2, <2>3
  <2>6. \A i \in DOMAIN d : d[i] \in Updates /\ refs'[d[i]] = 0 /\ d[i] \in Range(applied'[Main])
    BY <1>2, <2>2, <2>4
  <2> QED
    BY <2>5, <2>6 DEF OnceInv, d
<1>3. ASSUME NEW u \in Updates, RunOnAllThreadsCompleted(u) PROVE OnceInv'
  <2>1. /\ applied'[Main] = Append(applied[Main], u) /\ u \notin Range(applied[Main])
        /\ completed' = completed
    BY <1>3 DEF RunOnAllThreadsCompleted, TypeOK
  <2>2. Range(applied'[Main]) = Range(applied[Main]) \cup {u}
    BY <1>0, <2>1, RangeAppend
  <2>3. \A i \in DOMAIN Completions : Completions[i] # u
    BY <2>1 DEF OnceInv
  <2>4. \A v \in Updates \ {u} : refs'[v] = refs[v]
    BY <1>3 DEF RunOnAllThreadsCompleted, CbGuardNew, TypeOK
  <2>5. CASE Post(Main, u) /\ m_registered_threads = <<>>
    <3>1. queue'[Main] = Append(queue[Main], u)
      BY <2>5, PostEffect
    <3>2. refs'[u] = 0
      BY <1>3, <2>5 DEF RunOnAllThreadsCompleted, CbGuardNew, TypeOK
    <3> QED
      BY <1>2, <2>1, <2>2, <2>3, <2>4, <3>1, <3>2
  <2>6. CASE UNCHANGED queue
    <3>1. Completions' = Completions
      BY <2>1, <2>6 DEF Completions
    <3>2. \A i \in DOMAIN Completions : Completions[i] \in Updates \ {u} /\ refs[Completions[i]] = 0
                                        /\ Completions[i] \in Range(applied[Main])
      BY <2>3 DEF OnceInv
    <3> QED
      BY <2>2, <2>4, <3>1, <3>2 DEF OnceInv
  <2> QED
    BY <1>3, <2>5, <2>6 DEF RunOnAllThreadsCompleted, CbGuardNew
<1>4. ASSUME NEW w \in Workers, GuardUnref(w) PROVE OnceInv'
  <2> DEFINE u == holding[w]
  <2>1. u \in Updates
    BY <1>4 DEF GuardUnref, TypeOK
  <2>2. UNCHANGED <<completed, applied>>
        /\ refs' = [refs EXCEPT ![u] = IF @ > 0 THEN @ - 1 ELSE 0]
        /\ IF refs[u] = 1 THEN Post(Main, u) ELSE UNCHANGED queue
    BY <1>4 DEF GuardUnref
  <2> HIDE DEF u
  <2>3. /\ \A v \in Updates \ {u} : refs'[v] = refs[v]
        /\ refs[u] \in Nat /\ refs'[u] = IF refs[u] > 0 THEN refs[u] - 1 ELSE 0
    BY <2>1, <2>2 DEF TypeOK
  <2>4. CASE refs[u] = 1
    <3>1. queue'[Main] = Append(queue[Main], u)
      BY <2>1, <2>2, <2>4, PostEffect
    <3>2. refs'[u] = 0
      BY <2>3, <2>4
    <3>3. u \in Range(applied[Main])
      BY <2>1, <2>4 DEF GuardInv
    <3>4. \A i \in DOMAIN Completions : Completions[i] # u
      BY <2>4 DEF OnceInv
    <3> QED
      BY <1>2, <2>1, <2>2, <2>3, <3>1, <3>2, <3>3, <3>4
  <2>5. CASE refs[u] # 1
    <3>1. Completions' = Completions
      BY <2>2, <2>5 DEF Completions
    <3>2. \A v \in Updates : refs[v] = 0 => refs'[v] = 0
      BY <2>3
    <3> QED
      BY <2>2, <3>1, <3>2 DEF OnceInv
  <2> QED
    BY <2>4, <2>5
<1>5. CASE Complete
  <2>1. /\ completed' = Append(completed, Head(queue[Main])) /\ queue[Main] # <<>>
        /\ UNCHANGED <<refs, applied>>
    BY <1>5 DEF Complete
  <2>2. queue'[Main] = Tail(queue[Main])
    BY <1>5 DEF Complete, TypeOK
  <2>3. Completions' = Completions
    BY <1>0, <2>1, <2>2, ConcatMove DEF Completions
  <2> QED
    BY <1>1, <2>1, <2>3
\* The others: the main thread's queue, its updates and the references stay.
<1>6. ASSUME queue'[Main] = queue[Main], UNCHANGED <<completed, refs>>, applied'[Main] = applied[Main]
      PROVE  OnceInv'
  BY <1>1, <1>6 DEF Completions
<1>7. ASSUME NEW w \in Workers, NEW m \in Messages, Post(w, m) PROVE queue'[Main] = queue[Main]
  BY <1>7, PostEffect
<1>8. ASSUME NEW w \in Workers, NEW m, Receive(w, m) PROVE queue'[Main] = queue[Main]
  BY <1>8, ReceiveEffect
<1>9. ASSUME NEW w \in Workers,
             RegisterThread(w) \/ PassBarrier(w) \/ SetCb(w) \/ ContinueThreadInitCb(w)
      PROVE  OnceInv'
  <2>1. queue'[Main] = queue[Main]
    BY <1>7, <1>8, <1>9 DEF RegisterThread, PassBarrier, SetCb, ContinueThreadInitCb
  <2> QED
    BY <1>6, <1>9, <2>1 DEF RegisterThread, PassBarrier, SetCb, ContinueThreadInitCb
<1>10. ASSUME NEW w \in Workers, ThreadExit(w) PROVE OnceInv'
  <2>1. queue'[Main] = queue[Main]
    BY <1>10 DEF ThreadExit, TypeOK
  <2> QED
    BY <1>6, <1>10, <2>1 DEF ThreadExit
<1>11. ASSUME NEW w \in Workers, NEW u \in Updates, GuardCb(w, u) \/ GuardCbUndefined(w, u)
       PROVE  OnceInv'
  <2>1. queue'[Main] = queue[Main]
    BY <1>8, <1>11 DEF GuardCb, GuardCbUndefined
  <2>2. applied'[Main] = applied[Main]
    BY <1>11 DEF GuardCb, GuardCbUndefined, TypeOK
  <2> QED
    BY <1>6, <1>11, <2>1, <2>2 DEF GuardCb, GuardCbUndefined
<1>12. CASE SetPost \/ GuardPost
  <2>1. m_registered_threads[walk + 1] \in Workers
    BY <1>12 DEF SetPost, GuardPost, InWalk, TypeOK
  <2>2. update \in Updates \/ SetPost
    BY <1>12, GuardUpdate DEF GuardPost, InGuard
  <2>3. queue'[Main] = queue[Main]
    BY <1>7, <1>12, <2>1, <2>2 DEF SetPost, GuardPost
  <2> QED
    BY <1>6, <1>12, <2>3 DEF SetPost, GuardPost
<1>13. CASE SetMain \/ GuardPosted \/ Initialized \/ OpenBarrier \/ Terminate \/ Exit
  BY <1>6, <1>13 DEF SetMain, GuardPosted, Initialized, OpenBarrier, Terminate, Exit
<1>14. CASE UNCHANGED vars
  BY <1>6, <1>14 DEF vars
<1> QED
  BY <1>3, <1>4, <1>5, <1>9, <1>10, <1>11, <1>12, <1>13, <1>14 DEF Next, MainStep, StartStep, LoopStep

-----------------------------------------------------------------------------
(* A guard that was posted to more threads than it has references for      *)
(* remains so: the steps that touch the guards only add to their threads,  *)
(* and references are counted before any is sent.                          *)
LEMMA GuardsGrow ==
    ASSUME TypeOK, StartInv, GuardInv, [Next]_vars
    PROVE  \A u \in Updates : guarded[u] \subseteq guarded'[u]
                             /\ (guarded[u] # {} => counted'[u] = counted[u])
<1> USE Distinct DEF startVars, mainVars, dataVars, guardVars
<1>1. CASE UNCHANGED <<guarded, counted>>
  BY <1>1
<1>2. ASSUME NEW u \in Updates, RunOnAllThreadsCompleted(u)
      PROVE  \A v \in Updates : guarded[v] \subseteq guarded'[v]
                               /\ (guarded[v] # {} => counted'[v] = counted[v])
  <2>1. UNCHANGED guarded /\ guarded[u] = {}
    BY <1>2 DEF RunOnAllThreadsCompleted, GuardInv
  <2>2. \A v \in Updates \ {u} : counted'[v] = counted[v]
    BY <1>2 DEF RunOnAllThreadsCompleted, TypeOK
  <2> QED
    BY <2>1, <2>2
<1>3. CASE GuardPost
  <2>1. guarded' = [guarded EXCEPT ![update] = @ \cup {m_registered_threads[walk + 1]}]
        /\ UNCHANGED counted
    BY <1>3 DEF GuardPost
  <2> QED
    BY <2>1 DEF TypeOK
<1>4. ASSUME NEW w \in Workers, StartStep(w) \/ LoopStep(w) \/ ThreadExit(w)
      PROVE  UNCHANGED <<guarded, counted>>
  BY <1>4 DEF StartStep, LoopStep, RegisterThread, PassBarrier, SetCb, ContinueThreadInitCb,
              GuardCb, GuardCbUndefined, GuardUnref, ThreadExit
<1>5. CASE SetPost \/ SetMain \/ GuardPosted \/ Initialized \/ OpenBarrier \/ Complete
           \/ Terminate \/ Exit \/ UNCHANGED vars
  <2>1. UNCHANGED <<guarded, counted>>
    BY <1>5 DEF SetPost, SetMain, GuardPosted, Initialized, OpenBarrier, Complete,
                Terminate, Exit, vars
  <2> QED
    BY <1>1, <2>1
<1> QED
  BY <1>1, <1>2, <1>3, <1>4, <1>5 DEF Next, MainStep

(* Once a worker has been missed by the count of a guard, it stays so: the *)
(* counts of that guard are never corrected.                               *)
LEMMA RacedStays == TypeOK /\ TypeOK' /\ StartInv /\ GuardInv /\ [Next]_vars /\ Raced => Raced'
<1> SUFFICES ASSUME TypeOK, TypeOK', StartInv, GuardInv, [Next]_vars,
                    NEW u \in Updates, Cardinality(guarded[u]) > counted[u]
             PROVE  Cardinality(guarded'[u]) > counted'[u]
  BY DEF Raced
<1>1. guarded[u] \in SUBSET Workers /\ guarded'[u] \in SUBSET Workers
      /\ counted[u] \in Nat /\ counted'[u] \in Nat
  BY DEF TypeOK
<1>2. guarded[u] # {}
  <2>1. Cardinality({}) = 0
    BY FS_EmptySet
  <2> QED
    BY <1>1, <2>1
<1>3. IsFiniteSet(guarded'[u]) /\ guarded[u] \subseteq guarded'[u] /\ counted'[u] = counted[u]
  BY <1>1, <1>2, WorkerSets, GuardsGrow
<1>4. Cardinality(guarded[u]) <= Cardinality(guarded'[u])
  BY <1>3, FS_Subset
<1>5. Cardinality(guarded[u]) \in Nat /\ Cardinality(guarded'[u]) \in Nat
  BY <1>1, WorkerSets
<1> QED
  BY <1>1, <1>3, <1>4, <1>5

(* A thread that was sent the guard and on which the callback has not      *)
(* returned holds a reference.                                             *)
LEMMA SentHasRef ==
    ASSUME TypeOK, RefsInv, ~Raced, NEW u \in Updates, NEW w \in guarded[u], w \notin Done(u)
    PROVE  refs[u] > 0
<1>1. guarded[u] \in SUBSET Workers /\ refs[u] \in Nat /\ counted[u] \in Nat /\ w \in Workers
  BY DEF TypeOK
<1>2. Done(u) \cup {w} \in SUBSET guarded[u] /\ IsFiniteSet(guarded[u])
  BY <1>1, WorkerSets DEF Done
<1>3. Cardinality(Done(u) \cup {w}) <= Cardinality(guarded[u])
  BY <1>2, FS_Subset
<1>4. Done(u) \in SUBSET Workers
  BY <1>1 DEF Done
<1>5. Cardinality(Done(u) \cup {w}) = Cardinality(Done(u)) + 1
  BY <1>1, <1>4, CountChange
<1>6. Cardinality(Done(u)) \in Nat /\ Cardinality(guarded[u]) \in Nat
  BY <1>1, <1>4, WorkerSets
<1>7. Cardinality(guarded[u]) <= counted[u]
  BY <1>1, <1>6 DEF Raced
<1>8. refs[u] + Cardinality(Done(u)) = counted[u]
  BY DEF RefsInv
<1> QED
  BY <1>1, <1>3, <1>5, <1>6, <1>7, <1>8

(* The first message of a worker's queue, if it is an update, was sent to  *)
(* the worker with a reference and is not applied yet.                     *)
LEMMA FirstUpdate ==
    ASSUME TypeOK, GuardInv, RefsInv, ~Raced, NEW w \in Workers,
           queue[w] # <<>>, queue[w][1] \in Updates
    PROVE  /\ w \in guarded[queue[w][1]]
           /\ queue[w][1] \notin Range(applied[w])
           /\ refs[queue[w][1]] > 0
           /\ \A i \in DOMAIN Tail(queue[w]) : Tail(queue[w])[i] # queue[w][1]
<1> DEFINE q == queue[w]
           u == queue[w][1]
<1>1. q \in Seq(Messages) /\ QueueInv(q, w, guarded)
  BY Distinct DEF TypeOK, GuardInv
<1>2. 1 \in DOMAIN q /\ \A i \in DOMAIN Tail(q) : i + 1 \in DOMAIN q /\ Tail(q)[i] = q[i + 1] /\ i + 1 # 1
  BY <1>1, TailElements
<1>3. w \in guarded[u] /\ \A j \in DOMAIN q : u = q[j] => 1 = j
  BY <1>1, <1>2 DEF QueueInv
<1>4. u \notin Range(applied[w])
  BY <1>2 DEF RefsInv
<1>5. refs[u] > 0
  BY <1>3, <1>4, SentHasRef DEF Done
<1>6. \A i \in DOMAIN Tail(q) : Tail(q)[i] # u
  BY <1>2, <1>3
<1> QED
  BY <1>3, <1>4, <1>5, <1>6

(* Without a race the callback that a worker runs is that of the update it *)
(* was sent, even if the slot's object is not there; or the process ends.  *)
LEMMA CbEffect ==
    ASSUME TypeOK, GuardInv, RefsInv, ~Raced, NEW w \in Workers, NEW u \in Updates,
           GuardCb(w, u) \/ GuardCbUndefined(w, u)
    PROVE  /\ queue[w] # <<>> /\ queue[w][1] = u /\ queue'[w] = Tail(queue[w])
           /\ \A x \in Workers \ {w} : queue'[x] = queue[x]
           /\ holding[w] = Main
           /\ \/ UNCHANGED <<applied, holding>> /\ main' = "crashed"
              \/ /\ applied' = [applied EXCEPT ![w] = Append(@, u)]
                 /\ holding' = [holding EXCEPT ![w] = u]
                 /\ main' = main
<1>1. Receive(w, u)
  BY DEF GuardCb, GuardCbUndefined
<1>2. queue[w] # <<>> /\ queue[w][1] = u /\ queue'[w] = Tail(queue[w]) /\ holding[w] = Main
      /\ \A x \in Workers \ {w} : queue'[x] = queue[x]
  BY <1>1, ReceiveEffect, Distinct
<1>3. refs[u] > 0 /\ refs[u] \in Nat
  BY <1>2, FirstUpdate DEF TypeOK
<1>4. refs[u] # 0
  BY <1>3
<1>5. \/ UNCHANGED <<applied, holding>> /\ main' = "crashed"
      \/ /\ applied' = [applied EXCEPT ![w] = Append(@, u)]
         /\ holding' = [holding EXCEPT ![w] = u]
         /\ main' = main
  BY <1>3, <1>4 DEF GuardCb, GuardCbUndefined, mainVars
<1> QED
  BY <1>2, <1>5

(* The references that are left are those of the threads that were sent    *)
(* the guard, or will be, and have not returned from the callback.         *)
LEMMA RefsInvStep ==
    TypeOK /\ TypeOK' /\ StartInv /\ GuardInv /\ RefsInv /\ [Next]_vars => RefsInv'
<1> SUFFICES ASSUME TypeOK, TypeOK', StartInv, GuardInv, RefsInv, [Next]_vars, ~Raced'
             PROVE  RefsInv'
  BY DEF RefsInv
<1> USE Distinct DEF startVars, mainVars, dataVars, guardVars
<1>0. /\ ~Raced
      /\ \A w \in Workers : queue[w] \in Seq(Messages) /\ applied[w] \in Seq(Updates)
                             /\ Range(applied[w]) \subseteq Updates
  BY RacedStays, RangeOfSeq DEF TypeOK
<1>r. /\ \A u \in Updates : refs[u] + Cardinality(Done(u)) = counted[u]
      /\ \A w \in Workers : \A u \in Range(applied[w]) : w \in guarded[u]
      /\ \A w \in Workers : \A i \in DOMAIN queue[w] : queue[w][i] \notin Range(applied[w])
  BY <1>0 DEF RefsInv
\* A queue that is as before, shorter, or longer by a message without a guard.
<1>1. ASSUME NEW x \in Workers, applied'[x] = applied[x],
             \/ queue'[x] = queue[x] \/ queue'[x] = <<>>
             \/ queue[x] # <<>> /\ queue'[x] = Tail(queue[x])
             \/ queue'[x] = Append(queue[x], "set")
             \/ queue'[x] = Append(queue[x], "continue")
      PROVE  \A i \in DOMAIN queue'[x] : queue'[x][i] \notin Range(applied'[x])
  <2>1. \A i \in DOMAIN queue[x] : queue[x][i] \notin Range(applied[x])
    BY <1>r
  <2>2. "set" \notin Range(applied[x]) /\ "continue" \notin Range(applied[x])
    BY <1>0
  <2>3. CASE queue'[x] = queue[x] \/ queue'[x] = <<>>
    BY <1>1, <2>1, <2>3
  <2>4. CASE queue[x] # <<>> /\ queue'[x] = Tail(queue[x])
    BY <1>0, <1>1, <2>1, <2>4, TailElements
  <2>5. CASE queue'[x] = Append(queue[x], "set")
    BY <1>0, <1>1, <2>1, <2>2, <2>5, AppendElements
  <2>6. CASE queue'[x] = Append(queue[x], "continue")
    BY <1>0, <1>1, <2>1, <2>2, <2>6, AppendElements
  <2> QED
    BY <1>1, <2>3, <2>4, <2>5, <2>6
\* A step that leaves the guards alone.
<1>2. ASSUME UNCHANGED guardVars, \A x \in Workers : applied'[x] = applied[x],
             \A x \in Workers : \A i \in DOMAIN queue'[x] : queue'[x][i] \notin Range(applied'[x])
      PROVE  RefsInv'
  <2>1. \A u \in Updates : Done(u)' = Done(u)
    <3>1. \A u \in Updates : guarded[u] \subseteq Workers
      BY DEF TypeOK
    <3> QED
      BY <1>2, <3>1 DEF Done
  <2> QED
    BY <1>2, <1>r, <2>1 DEF RefsInv
<1>3. ASSUME NEW u \in Updates, RunOnAllThreadsCompleted(u) PROVE RefsInv'
  <2>1. /\ \A x \in Workers : applied'[x] = applied[x]
        /\ u \notin Range(applied[Main])
        /\ refs'[u] = Len(m_registered_threads) /\ counted'[u] = Len(m_registered_threads)
        /\ \A v \in Updates \ {u} : refs'[v] = refs[v] /\ counted'[v] = counted[v]
    BY <1>3 DEF RunOnAllThreadsCompleted, CbGuardNew, TypeOK
  <2>2. \A x \in Workers : queue'[x] = queue[x]
    BY <1>3, PostEffect DEF RunOnAllThreadsCompleted, CbGuardNew
  <2>3. UNCHANGED <<guarded, holding>> /\ guarded[u] = {}
    BY <1>3 DEF RunOnAllThreadsCompleted, GuardInv
  <2>4. \A v \in Updates : Done(v)' = Done(v)
    <3>1. \A v \in Updates : guarded[v] \subseteq Workers
      BY DEF TypeOK
    <3> QED
      BY <2>1, <2>3, <3>1 DEF Done
  <2>5. Cardinality(Done(u)') = 0 /\ refs'[u] \in Nat
    <3>1. Done(u) = {}
      BY <2>3 DEF Done
    <3> QED
      BY <2>4, <3>1, FS_EmptySet DEF TypeOK
  <2>6. \A v \in Updates : refs'[v] + Cardinality(Done(v)') = counted'[v]
    BY <1>r, <2>1, <2>4, <2>5
  <2> QED
    BY <1>r, <2>1, <2>2, <2>3, <2>6 DEF RefsInv
<1>4. CASE GuardPost
  <2> DEFINE w == m_registered_threads[walk + 1]
  <2>1. w \in Workers /\ walk + 1 \in DOMAIN m_registered_threads /\ InGuard
    BY <1>4 DEF GuardPost, InWalk, TypeOK, InGuard
  <2>2. update \in Updates
    BY <2>1, GuardUpdate
  <2>3. queue'[w] = Append(queue[w], update) /\ \A x \in Workers \ {w} : queue'[x] = queue[x]
    BY <1>4, <2>1, <2>2, PostEffect DEF GuardPost
  <2>4. guarded' = [guarded EXCEPT ![update] = @ \cup {w}] /\ UNCHANGED <<applied, refs, holding, counted>>
    BY <1>4 DEF GuardPost
  <2>5. w \notin guarded[update]
    BY <1>4, <2>1, NotSentYet DEF GuardPost
  <2> HIDE DEF w
  <2>6. /\ guarded'[update] = guarded[update] \cup {w}
        /\ \A u \in Updates \ {update} : guarded'[u] = guarded[u]
    BY <2>2, <2>4 DEF TypeOK
  <2>7. update \notin Range(applied[w])
    BY <1>r, <2>1, <2>5
  <2>8. \A u \in Updates : Done(u)' = Done(u)
    BY <2>4, <2>6, <2>7 DEF Done
  <2>9. \A x \in Workers : \A i \in DOMAIN queue'[x] : queue'[x][i] \notin Range(applied'[x])
    <3>1. \A i \in DOMAIN queue'[w] : queue'[w][i] \notin Range(applied[w])
      BY <1>0, <1>r, <2>1, <2>2, <2>3, <2>7, AppendElements
    <3> QED
      BY <1>r, <2>3, <2>4, <3>1
  <2>10. \A x \in Workers : \A u \in Range(applied'[x]) : x \in guarded'[u]
    BY <1>0, <1>r, <2>4, <2>6
  <2> QED
    BY <1>r, <2>4, <2>8, <2>9, <2>10 DEF RefsInv
<1>5. ASSUME NEW w \in Workers, NEW u \in Updates, GuardCb(w, u) \/ GuardCbUndefined(w, u)
      PROVE  RefsInv'
  <2>1. UNCHANGED <<guarded, refs, counted>>
    BY <1>5 DEF GuardCb, GuardCbUndefined
  <2>2. /\ queue[w] # <<>> /\ queue[w][1] = u /\ queue'[w] = Tail(queue[w])
        /\ \A x \in Workers \ {w} : queue'[x] = queue[x]
        /\ holding[w] = Main
    BY <1>0, <1>5, CbEffect
  <2>3. /\ w \in guarded[u] /\ u \notin Range(applied[w])
        /\ \A i \in DOMAIN Tail(queue[w]) : Tail(queue[w])[i] # u
    BY <1>0, <2>2, FirstUpdate
  <2>4. CASE UNCHANGED <<applied, holding>>
    BY <1>1, <1>2, <2>1, <2>2, <2>4
  <2>5. CASE /\ applied' = [applied EXCEPT ![w] = Append(@, u)]
             /\ holding' = [holding EXCEPT ![w] = u]
    <3>1. /\ applied'[w] = Append(applied[w], u) /\ holding'[w] = u
          /\ \A x \in Workers \ {w} : applied'[x] = applied[x] /\ holding'[x] = holding[x]
      BY <2>5 DEF TypeOK
    <3>2. Range(applied'[w]) = Range(applied[w]) \cup {u}
      BY <1>0, <3>1, RangeAppend
    <3>3. \A v \in Updates : Done(v)' = Done(v)
      <4>1. \A v \in Updates : guarded[v] \subseteq Workers
        BY DEF TypeOK
      <4> SUFFICES ASSUME NEW v \in Updates, NEW x \in guarded[v]
                   PROVE  (v \in Range(applied'[x]) /\ holding'[x] # v) <=>
                          (v \in Range(applied[x]) /\ holding[x] # v)
        BY <2>1 DEF Done
      <4>2. CASE x = w
        BY <2>2, <2>3, <3>1, <3>2, <4>2
      <4>3. CASE x # w
        BY <3>1, <4>1, <4>3
      <4> QED
        BY <4>2, <4>3
    <3>4. \A i \in DOMAIN queue'[w] : queue'[w][i] \notin Range(applied'[w])
      <4>1. \A i \in DOMAIN Tail(queue[w]) : Tail(queue[w])[i] \notin Range(applied[w])
        BY <1>0, <1>r, <2>2, TailElements
      <4> QED
        BY <2>2, <2>3, <3>2, <4>1
    <3>5. \A x \in Workers : \A i \in DOMAIN queue'[x] : queue'[x][i] \notin Range(applied'[x])
      BY <1>r, <2>2, <3>1, <3>4
    <3>6. \A x \in Workers : \A v \in Range(applied'[x]) : x \in guarded'[v]
      BY <1>r, <2>1, <2>3, <3>1, <3>2
    <3> QED
      BY <1>r, <2>1, <3>3, <3>5, <3>6 DEF RefsInv
  <2> QED
    BY <1>0, <1>5, <2>4, <2>5, CbEffect
<1>6. ASSUME NEW w \in Workers, GuardUnref(w) PROVE RefsInv'
  <2>0. PICK u \in Updates : u = holding[w] /\ u \in Range(applied[w])
    BY <1>6 DEF GuardUnref, TypeOK, GuardInv
  <2>1. u \in Updates /\ u \in Range(applied[w])
    BY <2>0
  <2>2. UNCHANGED <<applied, guarded, counted>>
        /\ refs' = [refs EXCEPT ![u] = IF @ > 0 THEN @ - 1 ELSE 0]
        /\ holding' = [holding EXCEPT ![w] = Main]
        /\ IF refs[u] = 1 THEN Post(Main, u) ELSE UNCHANGED queue
    BY <1>6, <2>0 DEF GuardUnref
  <2>3. \A x \in Workers : queue'[x] = queue[x]
    BY <2>1, <2>2, PostEffect
  <2>4. w \in guarded[u] /\ w \notin Done(u)
    BY <1>r, <2>0 DEF Done
  <2>5. refs[u] > 0
    BY <1>0, <2>1, <2>4, SentHasRef
  <2>6. /\ refs[u] \in Nat /\ refs'[u] = refs[u] - 1
        /\ \A v \in Updates \ {u} : refs'[v] = refs[v]
    BY <2>1, <2>2, <2>5 DEF TypeOK
  <2>7. holding'[w] = Main /\ \A x \in Workers \ {w} : holding'[x] = holding[x]
    BY <2>2 DEF TypeOK
  <2>8. \A v \in Updates : guarded[v] \subseteq Workers
    BY DEF TypeOK
  <2>9. Done(u)' = Done(u) \cup {w}
    BY <2>1, <2>2, <2>4, <2>7, <2>8 DEF Done
  <2>10. \A v \in Updates \ {u} : Done(v)' = Done(v)
    BY <2>0, <2>2, <2>7, <2>8 DEF Done
  <2>11. Done(u) \in SUBSET Workers
    BY <2>1, <2>8 DEF Done
  <2>12. Cardinality(Done(u)') = Cardinality(Done(u)) + 1 /\ Cardinality(Done(u)) \in Nat
    BY <2>4, <2>9, <2>11, CountChange, WorkerSets
  <2>13. \A v \in Updates : refs'[v] + Cardinality(Done(v)') = counted'[v]
    <3> SUFFICES ASSUME NEW v \in Updates PROVE refs'[v] + Cardinality(Done(v)') = counted[v]
      BY <2>2
    <3>1. CASE v = u
      BY <1>r, <2>1, <2>6, <2>12, <3>1
    <3>2. CASE v # u
      BY <1>r, <2>6, <2>10, <3>2
    <3> QED
      BY <3>1, <3>2
  <2> QED
    BY <1>r, <2>2, <2>3, <2>13 DEF RefsInv
<1>7. ASSUME NEW w \in Workers, PassBarrier(w) PROVE RefsInv'
  <2>1. queue'[w] = Append(queue[w], "continue") /\ \A x \in Workers \ {w} : queue'[x] = queue[x]
    BY <1>7, PostEffect DEF PassBarrier
  <2>2. UNCHANGED guardVars /\ UNCHANGED applied
    BY <1>7 DEF PassBarrier
  <2> QED
    BY <1>1, <1>2, <2>1, <2>2
<1>8. CASE SetPost
  <2>1. m_registered_threads[walk + 1] \in Workers
    BY <1>8 DEF SetPost, InWalk, TypeOK
  <2>2. \A x \in Workers : queue'[x] = queue[x] \/ queue'[x] = Append(queue[x], "set")
    BY <1>8, <2>1, PostEffect DEF SetPost
  <2>3. UNCHANGED guardVars /\ UNCHANGED applied
    BY <1>8 DEF SetPost
  <2> QED
    BY <1>1, <1>2, <2>2, <2>3
<1>9. ASSUME NEW w \in Workers, SetCb(w) \/ ContinueThreadInitCb(w) PROVE RefsInv'
  <2>1. \E m \in Messages : Receive(w, m)
    BY <1>9 DEF SetCb, ContinueThreadInitCb
  <2>2. queue[w] # <<>> /\ queue'[w] = Tail(queue[w]) /\ \A x \in Workers \ {w} : queue'[x] = queue[x]
    BY <2>1, ReceiveEffect
  <2>3. UNCHANGED guardVars /\ UNCHANGED applied
    BY <1>9 DEF SetCb, ContinueThreadInitCb
  <2> QED
    BY <1>1, <1>2, <2>2, <2>3
<1>10. ASSUME NEW w \in Workers, ThreadExit(w) PROVE RefsInv'
  <2>1. queue'[w] = <<>> /\ \A x \in Workers \ {w} : queue'[x] = queue[x]
    BY <1>10 DEF ThreadExit, TypeOK
  <2>2. UNCHANGED guardVars /\ UNCHANGED applied
    BY <1>10 DEF ThreadExit
  <2> QED
    BY <1>1, <1>2, <2>1, <2>2
<1>11. CASE Complete
  <2>1. \A x \in Workers : queue'[x] = queue[x]
    BY <1>11 DEF Complete, TypeOK
  <2>2. UNCHANGED guardVars /\ UNCHANGED applied
    BY <1>11 DEF Complete
  <2> QED
    BY <1>1, <1>2, <2>1, <2>2
<1>12. ASSUME UNCHANGED <<guardVars, applied, queue>> PROVE RefsInv'
  BY <1>1, <1>2, <1>12
<1>13. ASSUME NEW w \in Workers, RegisterThread(w) PROVE RefsInv'
  BY <1>12, <1>13 DEF RegisterThread
<1>14. CASE SetMain \/ GuardPosted \/ Initialized \/ OpenBarrier \/ Terminate \/ Exit \/ UNCHANGED vars
  BY <1>12, <1>14 DEF SetMain, GuardPosted, Initialized, OpenBarrier, Terminate, Exit, vars
<1> QED
  BY <1>3, <1>4, <1>5, <1>6, <1>7, <1>8, <1>9, <1>10, <1>11, <1>13, <1>14
     DEF Next, MainStep, StartStep, LoopStep

(* A worker that is not late is sent every update.                         *)
LEMMA SentInvStep ==
    TypeOK /\ StartInv /\ SetInv /\ GuardInv /\ SentInv /\ [Next]_vars => SentInv'
<1> SUFFICES ASSUME TypeOK, StartInv, SetInv, GuardInv, SentInv, [Next]_vars PROVE SentInv'
  OBVIOUS
<1> USE Distinct DEF startVars, mainVars, dataVars, guardVars
<1>0. \A u \in Updates : guarded[u] \subseteq guarded'[u]
  BY GuardsGrow
<1>t. applied[Main] \in Seq(Updates) /\ Range(applied[Main]) \subseteq Updates
  BY RangeOfSeq DEF TypeOK
\* A step that keeps what the main thread has applied and is posting.
<1>1. ASSUME applied'[Main] = applied[Main], late \subseteq late',
             \A w \in Workers : thread'[w] # "starting" => thread[w] # "starting" \/ w \in late',
             InGuard => (InGuard' /\ update' = update) \/ main' = "crashed",
             main = "crashed" => main' = "crashed"
      PROVE  SentInv'
  BY <1>0, <1>1, <1>t DEF SentInv
<1>2. ASSUME NEW w \in Workers, RegisterThread(w) PROVE SentInv'
  <2>1. CASE main = "set"
    <3>1. applied'[Main] = <<>>
      BY <1>2, <2>1 DEF RegisterThread, SetInv
    <3> QED
      BY <3>1, RangeEmpty DEF SentInv
  <2>2. CASE main # "set"
    <3>1. /\ late' = late \cup {w} /\ thread' = [thread EXCEPT ![w] = "waiting"]
          /\ UNCHANGED <<applied, main, update>>
      BY <1>2, <2>2 DEF RegisterThread
    <3>2. \A x \in Workers : thread'[x] # "starting" => thread[x] # "starting" \/ x \in late'
      BY <3>1 DEF TypeOK
    <3> QED
      BY <1>1, <3>1, <3>2 DEF InGuard
  <2> QED
    BY <2>1, <2>2
<1>3. ASSUME NEW u \in Updates, RunOnAllThreadsCompleted(u) PROVE SentInv'
  <2>1. applied'[Main] = Append(applied[Main], u)
    BY <1>3 DEF RunOnAllThreadsCompleted, TypeOK
  <2>2. Range(applied'[Main]) = Range(applied[Main]) \cup {u}
    BY <1>t, <2>1, RangeAppend
  <2>3. /\ update' = u /\ InGuard' /\ ~InGuard /\ main # "crashed"
        /\ UNCHANGED <<thread, late, guarded>>
    BY <1>3 DEF RunOnAllThreadsCompleted, InGuard
  <2> QED
    BY <2>2, <2>3 DEF SentInv
<1>4. CASE GuardPosted
  <2>1. InGuard /\ ~InWalk /\ UNCHANGED <<thread, late, guarded, applied>>
    BY <1>4 DEF GuardPosted, InGuard
  <2>2. \A w \in Workers : thread[w] # "starting" => w \in guarded[update]
    <3> SUFFICES ASSUME NEW w \in Workers, NEW i \in DOMAIN m_registered_threads,
                        m_registered_threads[i] = w
                 PROVE  w \in guarded[update]
      BY DEF StartInv
    <3>1. i \in 1 .. walk
      BY <2>1 DEF InWalk, TypeOK
    <3> QED
      BY <2>1, <3>1 DEF GuardInv
  <2>3. main # "crashed"
    BY <1>4 DEF GuardPosted
  <2> QED
    BY <2>1, <2>2, <2>3 DEF SentInv
<1>5. ASSUME NEW w \in Workers, PassBarrier(w) \/ ContinueThreadInitCb(w) \/ ThreadExit(w)
      PROVE  SentInv'
  <2>1. \A x \in Workers : thread'[x] # "starting" => thread[x] # "starting"
    BY <1>5 DEF PassBarrier, ContinueThreadInitCb, ThreadExit, Receive, Looping, TypeOK
  <2>2. UNCHANGED <<applied, late, main, update>>
    BY <1>5 DEF PassBarrier, ContinueThreadInitCb, ThreadExit
  <2> QED
    BY <1>1, <2>1, <2>2 DEF InGuard
<1>6. ASSUME NEW w \in Workers, NEW u \in Updates, GuardCb(w, u) \/ GuardCbUndefined(w, u)
      PROVE  SentInv'
  <2>1. applied'[Main] = applied[Main]
    BY <1>6 DEF GuardCb, GuardCbUndefined, TypeOK
  <2>2. UNCHANGED <<thread, late, update>> /\ (main' = main \/ main' = "crashed")
    BY <1>6 DEF GuardCb, GuardCbUndefined
  <2> QED
    BY <1>1, <2>1, <2>2 DEF InGuard
<1>7. ASSUME UNCHANGED <<applied, thread, late, update, main>> PROVE SentInv'
  BY <1>1, <1>7 DEF InGuard
<1>8. ASSUME NEW w \in Workers, SetCb(w) \/ GuardUnref(w) PROVE SentInv'
  BY <1>7, <1>8 DEF SetCb, GuardUnref
<1>9. CASE SetPost \/ GuardPost \/ Complete \/ UNCHANGED vars
  BY <1>7, <1>9 DEF SetPost, GuardPost, Complete, vars
<1>10. CASE SetMain \/ Initialized \/ OpenBarrier \/ Terminate \/ Exit
  <2>1. UNCHANGED <<applied, thread, late>> /\ ~InGuard /\ main # "crashed"
    BY <1>10 DEF SetMain, Initialized, OpenBarrier, Terminate, Exit, InGuard
  <2> QED
    BY <1>1, <2>1
<1> QED
  BY <1>2, <1>3, <1>4, <1>5, <1>6, <1>8, <1>9, <1>10 DEF Next, MainStep, StartStep, LoopStep

(* The cases in which a worker goes on following the main thread.          *)
LEMMA FollowsUnchanged ==
    ASSUME NEW w \in Workers, FollowsMain(w),
           applied'[w] = applied[w], applied'[Main] = applied[Main], queue'[w] = queue[w],
           \A k \in DOMAIN applied[Main] :
              w \in guarded'[applied[Main][k]] => w \in guarded[applied[Main][k]],
           thread[w] = "stopped" => thread'[w] = "stopped"
    PROVE  FollowsMain(w)'
BY DEF FollowsMain

(* A worker that stops follows the main thread trivially: its queue is     *)
(* gone.                                                                   *)
LEMMA FollowsStopped ==
    ASSUME NEW w \in Workers, FollowsMain(w),
           applied'[w] = applied[w], applied'[Main] = applied[Main],
           queue'[w] = <<>>, thread'[w] = "stopped"
    PROVE  FollowsMain(w)'
BY DEF FollowsMain

(* Messages that are not updates, posted or received, do not change the    *)
(* order in which a worker gets updates.                                   *)
LEMMA FollowsOtherMessage ==
    ASSUME TypeOK, NEW w \in Workers, NEW m \in Messages \ Updates, FollowsMain(w),
           applied'[w] = applied[w], applied'[Main] = applied[Main], UNCHANGED guarded,
           thread[w] = "stopped" => thread'[w] = "stopped",
           \/ queue'[w] = Append(queue[w], m)
           \/ queue[w] # <<>> /\ queue[w][1] = m /\ queue'[w] = Tail(queue[w])
    PROVE  FollowsMain(w)'
<1> DEFINE q == queue[w]
           p == queue'[w]
           a == applied[Main]
<1>0. q \in Seq(Messages) /\ \A k \in DOMAIN a : a[k] \in Updates
  BY Distinct DEF TypeOK
<1>1. /\ \A k \in DOMAIN a :
             k > Len(applied[w]) /\ w \in guarded[a[k]] /\ thread[w] # "stopped" =>
                \E i \in DOMAIN q : q[i] = a[k]
      /\ \A i, j \in DOMAIN q, k, l \in DOMAIN a : q[i] = a[k] /\ q[j] = a[l] /\ i < j => k < l
  BY DEF FollowsMain
<1>2. CASE p = Append(q, m)
  <2>1. /\ \A i \in DOMAIN q : i \in DOMAIN p /\ p[i] = q[i]
        /\ \A i \in DOMAIN p : i \in DOMAIN q \/ p[i] = m
    BY <1>0, <1>2, AppendElements
  <2>2. \A k \in DOMAIN a : a[k] # m
    BY <1>0
  <2>3. \A i, j \in DOMAIN p, k, l \in DOMAIN a : p[i] = a[k] /\ p[j] = a[l] /\ i < j => k < l
    BY <1>1, <2>1, <2>2
  <2>4. \A k \in DOMAIN a :
           k > Len(applied[w]) /\ w \in guarded[a[k]] /\ thread'[w] # "stopped" =>
              \E i \in DOMAIN p : p[i] = a[k]
    BY <1>1, <2>1
  <2> QED
    BY <2>3, <2>4 DEF FollowsMain
<1>3. CASE q # <<>> /\ q[1] = m /\ p = Tail(q)
  <2>1. /\ \A i \in DOMAIN p : i + 1 \in DOMAIN q /\ p[i] = q[i + 1] /\ i \in Nat
        /\ \A i \in DOMAIN q : i # 1 => i - 1 \in DOMAIN p /\ q[i] = p[i - 1]
    BY <1>0, <1>3, TailElements
  <2>2. \A k \in DOMAIN a : a[k] # m
    BY <1>0
  <2>3. \A i, j \in DOMAIN p, k, l \in DOMAIN a : p[i] = a[k] /\ p[j] = a[l] /\ i < j => k < l
    <3> SUFFICES ASSUME NEW i \in DOMAIN p, NEW j \in DOMAIN p, NEW k \in DOMAIN a, NEW l \in DOMAIN a,
                        p[i] = a[k], p[j] = a[l], i < j
                 PROVE  k < l
      OBVIOUS
    <3>1. i + 1 \in DOMAIN q /\ j + 1 \in DOMAIN q /\ q[i + 1] = a[k] /\ q[j + 1] = a[l] /\ i + 1 < j + 1
      BY <2>1
    <3> QED
      BY <1>1, <3>1
  <2>4. \A k \in DOMAIN a :
           k > Len(applied[w]) /\ w \in guarded[a[k]] /\ thread'[w] # "stopped" =>
              \E i \in DOMAIN p : p[i] = a[k]
    <3> SUFFICES ASSUME NEW k \in DOMAIN a, k > Len(applied[w]), w \in guarded[a[k]],
                        thread'[w] # "stopped"
                 PROVE  \E i \in DOMAIN p : p[i] = a[k]
      OBVIOUS
    <3>1. PICK i \in DOMAIN q : q[i] = a[k]
      BY <1>1
    <3>2. i # 1
      BY <1>3, <2>2, <3>1
    <3> QED
      BY <2>1, <3>1, <3>2
  <2> QED
    BY <2>3, <2>4 DEF FollowsMain
<1> QED
  BY <1>2, <1>3

(* An update that the main thread has just applied is posted to nobody     *)
(* yet, and comes after all that a worker has or will get.                 *)
LEMMA FollowsNewUpdate ==
    ASSUME TypeOK, GuardInv, NEW w \in Workers, FollowsMain(w), NEW u \in Updates,
           u \notin Range(applied[Main]), applied'[Main] = Append(applied[Main], u),
           applied'[w] = applied[w], queue'[w] = queue[w], UNCHANGED <<guarded, thread>>
    PROVE  FollowsMain(w)'
<1> DEFINE q == queue[w]
           a == applied[Main]
           b == applied'[Main]
<1>0. a \in Seq(Updates) /\ applied[w] \in Seq(Updates) /\ guarded[u] = {}
  BY Distinct DEF TypeOK, GuardInv
<1>1. /\ DOMAIN a = 1 .. Len(a) /\ Len(a) \in Nat /\ Len(b) = Len(a) + 1
      /\ \A k \in DOMAIN a : k \in DOMAIN b /\ b[k] = a[k]
      /\ \A k \in DOMAIN b : k \in DOMAIN a \/ b[k] = u
  BY <1>0, AppendElements
<1>2. \A i \in DOMAIN q : q[i] # u
  BY <1>0 DEF GuardInv, QueueInv
<1>3. Len(applied[w]) <= Len(b) /\ DOMAIN applied[w] \subseteq DOMAIN a
  BY <1>0, <1>1 DEF FollowsMain
<1>4. \A k \in DOMAIN applied[w] : applied[w][k] = b[k]
  BY <1>1, <1>3 DEF FollowsMain
<1>5. \A k \in DOMAIN b : k > Len(applied[w]) /\ w \in guarded[b[k]] /\ thread[w] # "stopped" =>
         \E i \in DOMAIN q : q[i] = b[k]
  BY <1>0, <1>1 DEF FollowsMain
<1>6. \A i, j \in DOMAIN q, k, l \in DOMAIN b : q[i] = b[k] /\ q[j] = b[l] /\ i < j => k < l
  BY <1>1, <1>2 DEF FollowsMain
<1> QED
  BY <1>3, <1>4, <1>5, <1>6 DEF FollowsMain

(* The post of an update puts it behind all the earlier ones, in the order *)
(* of the main thread.                                                     *)
LEMMA FollowsPost ==
    ASSUME TypeOK, GuardInv, NEW w \in Workers, FollowsMain(w), InGuard,
           w \notin guarded[update], queue'[w] = Append(queue[w], update),
           \A u \in Updates \ {update} : guarded'[u] = guarded[u],
           UNCHANGED <<applied, thread>>
    PROVE  FollowsMain(w)'
<1> DEFINE q == queue[w]
           p == queue'[w]
           a == applied[Main]
           u == update
<1>0. /\ q \in Seq(Messages) /\ u \in Updates /\ u \in Messages
      /\ \A k \in DOMAIN a : a[k] \in Updates /\ k \in Nat /\ k <= Len(a)
      /\ Len(a) \in DOMAIN a /\ u = a[Len(a)]
  <2>1. q \in Seq(Messages) /\ a \in Seq(Updates)
    BY Distinct DEF TypeOK
  <2>2. \A k \in DOMAIN a : a[k] \in Updates /\ k \in Nat /\ k <= Len(a)
    BY <2>1
  <2> QED
    BY <2>1, <2>2, Distinct, GuardUpdate
<1>1. /\ DOMAIN q = 1 .. Len(q) /\ Len(q) \in Nat /\ Len(q) + 1 \in DOMAIN p
      /\ \A i \in DOMAIN q : i \in DOMAIN p /\ p[i] = q[i]
      /\ p[Len(q) + 1] = u
      /\ \A i \in DOMAIN p : i \in DOMAIN q \/ i = Len(q) + 1
  BY <1>0, AppendElements
<1>2. \A i \in DOMAIN q : q[i] # u
  BY <1>0 DEF GuardInv, QueueInv
<1>3. \A k \in DOMAIN a : a[k] = u => k = Len(a)
  BY <1>0 DEF GuardInv
<1>4. \A k \in DOMAIN a : k > Len(applied[w]) /\ w \in guarded'[a[k]] /\ thread[w] # "stopped" =>
         \E i \in DOMAIN p : p[i] = a[k]
  <2> SUFFICES ASSUME NEW k \in DOMAIN a, k > Len(applied[w]), w \in guarded'[a[k]],
                      thread[w] # "stopped"
               PROVE  \E i \in DOMAIN p : p[i] = a[k]
    OBVIOUS
  <2>1. CASE a[k] = u
    BY <1>1, <2>1
  <2>2. CASE a[k] # u
    <3>1. w \in guarded[a[k]]
      BY <1>0, <2>2
    <3>2. PICK i \in DOMAIN q : q[i] = a[k]
      BY <3>1 DEF FollowsMain
    <3> QED
      BY <1>1, <3>2
  <2> QED
    BY <2>1, <2>2
<1>5. \A i, j \in DOMAIN p, k, l \in DOMAIN a : p[i] = a[k] /\ p[j] = a[l] /\ i < j => k < l
  <2> SUFFICES ASSUME NEW i \in DOMAIN p, NEW j \in DOMAIN p, NEW k \in DOMAIN a, NEW l \in DOMAIN a,
                      p[i] = a[k], p[j] = a[l], i < j
               PROVE  k < l
    OBVIOUS
  <2>1. i \in DOMAIN q /\ p[i] = q[i]
    BY <1>1
  <2>2. CASE j \in DOMAIN q
    BY <1>1, <2>1, <2>2 DEF FollowsMain
  <2>3. CASE j = Len(q) + 1
    <3>1. l = Len(a)
      BY <1>1, <1>3, <2>3
    <3>2. k # l
      BY <1>0, <1>2, <2>1, <3>1
    <3> QED
      BY <1>0, <3>1, <3>2
  <2> QED
    BY <1>1, <2>2, <2>3
<1> QED
  BY <1>4, <1>5 DEF FollowsMain

(* The update that a worker takes off its queue is the next one of the     *)
(* main thread.                                                            *)
LEMMA NextUpdate ==
    ASSUME TypeOK, GuardInv, RefsInv, SentInv, ~Raced, NEW w \in Workers \ late, FollowsMain(w),
           thread[w] \in {"running", "ready"}, main # "crashed",
           queue[w] # <<>>, queue[w][1] \in Updates
    PROVE  /\ Len(applied[w]) + 1 \in DOMAIN applied[Main]
           /\ queue[w][1] = applied[Main][Len(applied[w]) + 1]
<1> DEFINE q == queue[w]
           a == applied[Main]
           n == Len(applied[w]) + 1
<1>0. /\ q \in Seq(Messages) /\ a \in Seq(Updates) /\ applied[w] \in Seq(Updates)
  BY Distinct DEF TypeOK
<1>1. 1 \in DOMAIN q /\ DOMAIN q = 1 .. Len(q) /\ w \in guarded[q[1]] /\ q[1] \notin Range(applied[w])
  BY <1>0, FirstUpdate
<1>2. q[1] \in Range(a)
  BY <1>1 DEF GuardInv
<1>3. PICK k \in DOMAIN a : q[1] = a[k]
  BY <1>2 DEF Range
<1>4. k \notin DOMAIN applied[w]
  BY <1>1, <1>3 DEF FollowsMain, Range
<1>5. k >= n /\ n \in DOMAIN a /\ k \in Nat /\ n \in Nat
  BY <1>0, <1>4
<1>6. CASE k = n
  BY <1>3, <1>5, <1>6
<1>7. CASE k # n
  <2>1. a[n] \in Range(a) /\ n < k
    BY <1>5, <1>7 DEF Range
  <2>2. w \in guarded[a[n]]
    <3>1. ~(InGuard /\ a[n] = update)
      <4> SUFFICES ASSUME InGuard, a[n] = update PROVE FALSE
        OBVIOUS
      <4>1. Len(a) \in DOMAIN a /\ update = a[Len(a)]
        BY GuardUpdate
      <4>2. n = Len(a)
        BY <1>5, <4>1 DEF GuardInv
      <4> QED
        BY <1>0, <1>5, <2>1, <4>2
    <3> QED
      BY <2>1, <3>1 DEF SentInv
  <2>3. PICK i \in DOMAIN q : q[i] = a[n]
    <3>1. n > Len(applied[w]) /\ thread[w] # "stopped"
      BY <1>0
    <3> QED
      BY <1>5, <2>2, <3>1 DEF FollowsMain
  <2>4. i # 1
    <3>1. a[n] # a[k]
      BY <1>5, <1>7 DEF GuardInv
    <3> QED
      BY <1>3, <2>3, <3>1
  <2>5. 1 < i
    BY <1>1, <2>4
  <2>6. k < n
    BY <1>1, <1>3, <1>5, <2>3, <2>5 DEF FollowsMain
  <2> QED
    BY <1>5, <2>1, <2>6
<1> QED
  BY <1>6, <1>7

(* A worker that runs an update's callback applies the one that comes next *)
(* in the order of the main thread.                                        *)
LEMMA FollowsCb ==
    ASSUME TypeOK, GuardInv, RefsInv, SentInv, ~Raced, NEW w \in Workers \ late, FollowsMain(w),
           thread[w] \in {"running", "ready"}, main # "crashed",
           queue[w] # <<>>, queue[w][1] \in Updates,
           queue'[w] = Tail(queue[w]), applied'[w] = Append(applied[w], queue[w][1]),
           applied'[Main] = applied[Main], UNCHANGED <<guarded, thread>>
    PROVE  FollowsMain(w)'
<1> DEFINE q == queue[w]
           p == queue'[w]
           a == applied[Main]
           b == applied[w]
           n == Len(applied[w]) + 1
<1>0. q \in Seq(Messages) /\ a \in Seq(Updates) /\ b \in Seq(Updates)
  BY Distinct DEF TypeOK
<1>1. n \in DOMAIN a /\ q[1] = a[n]
  BY NextUpdate
<1>2. /\ \A i \in DOMAIN p : i + 1 \in DOMAIN q /\ p[i] = q[i + 1] /\ i \in Nat
      /\ \A i \in DOMAIN q : i # 1 => i - 1 \in DOMAIN p /\ q[i] = p[i - 1]
  BY <1>0, TailElements
<1>3. Len(applied'[w]) = n /\ n <= Len(a) /\ n \in Nat
  BY <1>0, <1>1
<1>4. \A k \in DOMAIN applied'[w] : applied'[w][k] = a[k]
  <2>1. \A k \in DOMAIN applied'[w] : (k \in DOMAIN b /\ applied'[w][k] = b[k]) \/ (k = n /\ applied'[w][k] = a[n])
    BY <1>0, <1>1, AppendElements
  <2> QED
    BY <2>1 DEF FollowsMain
<1>5. \A k \in DOMAIN a : k > n /\ w \in guarded[a[k]] /\ thread[w] # "stopped" =>
         \E i \in DOMAIN p : p[i] = a[k]
  <2> SUFFICES ASSUME NEW k \in DOMAIN a, k > n, w \in guarded[a[k]], thread[w] # "stopped"
               PROVE  \E i \in DOMAIN p : p[i] = a[k]
    OBVIOUS
  <2>1. k > Len(b)
    BY <1>0
  <2>2. PICK i \in DOMAIN q : q[i] = a[k]
    BY <2>1 DEF FollowsMain
  <2>3. i # 1
    BY <1>0, <1>1, <2>2 DEF GuardInv
  <2> QED
    BY <1>2, <2>2, <2>3
<1>6. \A i, j \in DOMAIN p, k, l \in DOMAIN a : p[i] = a[k] /\ p[j] = a[l] /\ i < j => k < l
  <2> SUFFICES ASSUME NEW i \in DOMAIN p, NEW j \in DOMAIN p, NEW k \in DOMAIN a, NEW l \in DOMAIN a,
                      p[i] = a[k], p[j] = a[l], i < j
               PROVE  k < l
    OBVIOUS
  <2>1. i + 1 \in DOMAIN q /\ j + 1 \in DOMAIN q /\ q[i + 1] = a[k] /\ q[j + 1] = a[l] /\ i + 1 < j + 1
    BY <1>2
  <2> QED
    BY <2>1 DEF FollowsMain
<1> QED
  BY <1>3, <1>4, <1>5, <1>6 DEF FollowsMain

(* A worker that is not late finds the guard and the object of the update  *)
(* it has received.                                                        *)
LEMMA ReceivesDefined ==
    ASSUME TypeOK, SetInv, StartInv, GuardInv, RefsInv, ~Raced, NEW w \in Workers \ late,
           Looping(w), queue[w] # <<>>, queue[w][1] \in Updates
    PROVE  Defined(w, queue[w][1])
<1>1. w \in Active /\ main # "set"
  BY LoopingAfterBarrier DEF Looping, Active
<1>2. queue[w][1] # "set"
  BY Distinct
<1>3. m_data[w]
  BY <1>1, <1>2 DEF SetInv
<1>4. refs[queue[w][1]] > 0
  BY FirstUpdate
<1> QED
  BY <1>3, <1>4 DEF Defined

(* The workers that are not late follow the main thread.                   *)
LEMMA OrderInvStep ==
    TypeOK /\ TypeOK' /\ StartInv /\ SetInv /\ GuardInv /\ RefsInv /\ SentInv /\ OrderInv
        /\ [Next]_vars => OrderInv'
<1> SUFFICES ASSUME TypeOK, TypeOK', StartInv, SetInv, GuardInv, RefsInv, SentInv, OrderInv,
                    [Next]_vars, ~Raced', NEW w \in Workers, w \notin late'
             PROVE  FollowsMain(w)'
  BY DEF OrderInv
<1> USE Distinct DEF startVars, mainVars, dataVars, guardVars
<1>0. ~Raced /\ w \notin late /\ FollowsMain(w)
  <2>1. ~Raced
    BY RacedStays
  <2>2. late \subseteq late'
    BY DEF Next, MainStep, StartStep, LoopStep, RegisterThread, PassBarrier, SetPost, SetMain,
           RunOnAllThreadsCompleted, GuardPost, GuardPosted, Initialized, OpenBarrier, Complete,
           Terminate, Exit, SetCb, ContinueThreadInitCb, GuardCb, GuardCbUndefined, GuardUnref,
           ThreadExit, vars
  <2> QED
    BY <2>1, <2>2 DEF OrderInv
<1>1. ASSUME applied'[w] = applied[w], applied'[Main] = applied[Main], queue'[w] = queue[w],
             UNCHANGED guarded, thread[w] = "stopped" => thread'[w] = "stopped"
      PROVE  FollowsMain(w)'
  BY <1>0, <1>1, FollowsUnchanged
<1>2. ASSUME NEW x \in Workers, RegisterThread(x) PROVE FollowsMain(w)'
  <2>1. thread[w] = "stopped" => thread'[w] = "stopped"
    BY <1>2 DEF RegisterThread, TypeOK
  <2> QED
    BY <1>1, <1>2, <2>1 DEF RegisterThread
<1>3. ASSUME NEW x \in Workers, PassBarrier(x) PROVE FollowsMain(w)'
  <2>1. queue'[x] = Append(queue[x], "continue") /\ \A y \in Workers \ {x} : queue'[y] = queue[y]
    BY <1>3, PostEffect DEF PassBarrier
  <2>2. thread[w] = "stopped" => thread'[w] = "stopped"
    BY <1>3 DEF PassBarrier, TypeOK
  <2>3. UNCHANGED <<applied, guarded>>
    BY <1>3 DEF PassBarrier
  <2>4. CASE x = w
    BY <1>0, <2>1, <2>2, <2>3, <2>4, FollowsOtherMessage
  <2>5. CASE x # w
    BY <1>1, <2>1, <2>2, <2>3, <2>5
  <2> QED
    BY <2>4, <2>5
<1>4. CASE SetPost
  <2>1. m_registered_threads[walk + 1] \in Workers
    BY <1>4 DEF SetPost, InWalk, TypeOK
  <2>2. queue'[w] = queue[w] \/ queue'[w] = Append(queue[w], "set")
    BY <1>4, <2>1, PostEffect DEF SetPost
  <2>3. UNCHANGED <<applied, guarded, thread>>
    BY <1>4 DEF SetPost
  <2> QED
    BY <1>0, <1>1, <2>2, <2>3, FollowsOtherMessage
<1>5. ASSUME NEW x \in Workers, NEW m \in Messages \ Updates, Receive(x, m),
             UNCHANGED <<applied, guarded>>, thread[w] = "stopped" => thread'[w] = "stopped"
      PROVE  FollowsMain(w)'
  <2>1. queue[x] # <<>> /\ queue[x][1] = m /\ queue'[x] = Tail(queue[x])
        /\ \A y \in Workers \ {x} : queue'[y] = queue[y]
    BY <1>5, ReceiveEffect
  <2>2. CASE x = w
    BY <1>0, <1>5, <2>1, <2>2, FollowsOtherMessage
  <2>3. CASE x # w
    BY <1>1, <1>5, <2>1, <2>3
  <2> QED
    BY <2>2, <2>3
<1>6. ASSUME NEW x \in Workers, SetCb(x) PROVE FollowsMain(w)'
  BY <1>5, <1>6 DEF SetCb
<1>7. ASSUME NEW x \in Workers, ContinueThreadInitCb(x) PROVE FollowsMain(w)'
  <2>1. thread[w] = "stopped" => thread'[w] = "stopped"
    BY <1>7 DEF ContinueThreadInitCb, Receive, Looping, TypeOK
  <2> QED
    BY <1>5, <1>7, <2>1 DEF ContinueThreadInitCb
<1>8. ASSUME NEW x \in Workers, ThreadExit(x) PROVE FollowsMain(w)'
  <2>1. /\ queue'[x] = <<>> /\ thread'[x] = "stopped"
        /\ \A y \in Workers \ {x} : queue'[y] = queue[y] /\ thread'[y] = thread[y]
    BY <1>8 DEF ThreadExit, TypeOK
  <2>2. UNCHANGED <<applied, guarded>>
    BY <1>8 DEF ThreadExit
  <2>3. CASE x = w
    BY <1>0, <2>1, <2>2, <2>3, FollowsStopped
  <2>4. CASE x # w
    BY <1>1, <2>1, <2>2, <2>4
  <2> QED
    BY <2>3, <2>4
<1>9. ASSUME NEW u \in Updates, RunOnAllThreadsCompleted(u) PROVE FollowsMain(w)'
  <2>1. /\ applied'[Main] = Append(applied[Main], u) /\ u \notin Range(applied[Main])
        /\ applied'[w] = applied[w]
    BY <1>9 DEF RunOnAllThreadsCompleted, TypeOK
  <2>2. queue'[w] = queue[w]
    BY <1>9, PostEffect DEF RunOnAllThreadsCompleted, CbGuardNew
  <2>3. UNCHANGED <<guarded, thread>>
    BY <1>9 DEF RunOnAllThreadsCompleted
  <2> QED
    BY <1>0, <2>1, <2>2, <2>3, FollowsNewUpdate
<1>10. CASE GuardPost
  <2> DEFINE x == m_registered_threads[walk + 1]
  <2>1. x \in Workers /\ walk + 1 \in DOMAIN m_registered_threads /\ InGuard
    BY <1>10 DEF GuardPost, InWalk, TypeOK, InGuard
  <2>2. update \in Updates
    BY <2>1, GuardUpdate
  <2>3. queue'[x] = Append(queue[x], update) /\ \A y \in Workers \ {x} : queue'[y] = queue[y]
    BY <1>10, <2>1, <2>2, PostEffect DEF GuardPost
  <2>4. guarded' = [guarded EXCEPT ![update] = @ \cup {x}] /\ UNCHANGED <<applied, thread>>
    BY <1>10 DEF GuardPost
  <2>5. x \notin guarded[update]
    BY <1>10, <2>1, NotSentYet DEF GuardPost
  <2> HIDE DEF x
  <2>6. /\ \A u \in Updates \ {update} : guarded'[u] = guarded[u]
        /\ guarded'[update] = guarded[update] \cup {x}
    BY <2>2, <2>4 DEF TypeOK
  <2>7. CASE x = w
    BY <1>0, <2>1, <2>3, <2>4, <2>5, <2>6, <2>7, FollowsPost
  <2>8. CASE x # w
    <3>1. \A k \in DOMAIN applied[Main] :
             w \in guarded'[applied[Main][k]] => w \in guarded[applied[Main][k]]
      <4>1. \A k \in DOMAIN applied[Main] : applied[Main][k] \in Updates
        BY DEF TypeOK
      <4> QED
        BY <2>6, <2>8, <4>1
    <3> QED
      BY <1>0, <2>3, <2>4, <2>8, <3>1, FollowsUnchanged
  <2> QED
    BY <2>7, <2>8
<1>11. ASSUME NEW x \in Workers, NEW u \in Updates, GuardCb(x, u) \/ GuardCbUndefined(x, u)
       PROVE  FollowsMain(w)'
  <2>1. UNCHANGED <<guarded, thread>> /\ Receive(x, u)
    BY <1>11 DEF GuardCb, GuardCbUndefined
  <2>2. /\ queue[x] # <<>> /\ queue[x][1] = u /\ queue'[x] = Tail(queue[x])
        /\ \A y \in Workers \ {x} : queue'[y] = queue[y]
    BY <1>0, <1>11, CbEffect
  <2>3. CASE x = w
    <3>1. Looping(w) /\ Defined(w, queue[w][1])
      BY <1>0, <2>1, <2>2, <2>3, ReceivesDefined DEF Receive
    <3>2. GuardCb(w, u)
      BY <1>11, <2>2, <2>3, <3>1 DEF GuardCbUndefined
    <3>3. applied'[w] = Append(applied[w], u) /\ applied'[Main] = applied[Main]
      BY <3>2 DEF GuardCb, TypeOK
    <3>4. thread[w] \in {"running", "ready"} /\ main # "crashed"
      BY <3>1 DEF Looping, Alive
    <3> QED
      BY <1>0, <2>1, <2>2, <2>3, <3>3, <3>4, FollowsCb
  <2>4. CASE x # w
    <3>1. applied'[w] = applied[w] /\ applied'[Main] = applied[Main]
      <4>1. UNCHANGED applied \/ applied' = [applied EXCEPT ![x] = Append(@, u)]
        BY <1>0, <1>11, CbEffect
      <4> QED
        BY <2>4, <4>1 DEF TypeOK
    <3> QED
      BY <1>1, <2>1, <2>2, <2>4, <3>1
  <2> QED
    BY <2>3, <2>4
<1>12. ASSUME NEW x \in Workers, GuardUnref(x) PROVE FollowsMain(w)'
  <2>1. holding[x] \in Updates
    BY <1>12 DEF GuardUnref, TypeOK
  <2>2. queue'[w] = queue[w]
    BY <1>12, <2>1, PostEffect DEF GuardUnref
  <2> QED
    BY <1>1, <1>12, <2>2 DEF GuardUnref
<1>13. CASE Complete
  <2>1. queue'[w] = queue[w]
    BY <1>13 DEF Complete, TypeOK
  <2> QED
    BY <1>1, <1>13, <2>1 DEF Complete
<1>14. CASE SetMain \/ GuardPosted \/ Initialized \/ OpenBarrier \/ Terminate \/ Exit \/ UNCHANGED vars
  BY <1>1, <1>14 DEF SetMain, GuardPosted, Initialized, OpenBarrier, Terminate, Exit, vars
<1> QED
  BY <1>2, <1>3, <1>4, <1>6, <1>7, <1>8, <1>9, <1>10, <1>11, <1>12, <1>13, <1>14
     DEF Next, MainStep, StartStep, LoopStep

-----------------------------------------------------------------------------
(* The invariant holds initially, and every step keeps it.                 *)
LEMMA IInvInit == Init => IInv
<1> SUFFICES ASSUME Init PROVE IInv
  OBVIOUS
<1> USE Distinct DEF Init
<1>1. TypeOK
  <2>1. Cardinality(Workers) \in Nat
    BY WorkerSets
  <2>2. ready_workers \in 0 .. Cardinality(Workers) /\ walk \in Nat
    BY <2>1
  <2>3. /\ m_registered_threads \in Seq(Workers) /\ completed \in Seq(Updates)
        /\ queue \in [Threads -> Seq(Messages)] /\ applied \in [Threads -> Seq(Updates)]
    OBVIOUS
  <2>4. refs \in [Updates -> Nat] /\ counted \in [Updates -> Nat]
    OBVIOUS
  <2>5. thread \in [Workers -> ThreadPc] /\ main \in MainPc
    BY DEF ThreadPc, MainPc
  <2>6. /\ m_data \in [Threads -> BOOLEAN] /\ go_ahead \in BOOLEAN /\ m_shutdown \in BOOLEAN
        /\ holding \in [Workers -> Updates \cup {Main}] /\ update \in Updates \cup {Main}
        /\ guarded \in [Updates -> SUBSET Workers] /\ late \subseteq Workers
    BY Zenon
  <2> QED
    BY <2>2, <2>3, <2>4, <2>5, <2>6, Zenon DEF TypeOK
<1>2. StartInv
  <2>1. Active = {}
    BY DEF Active
  <2>2. ready_workers = Cardinality(Active)
    BY <2>1, FS_EmptySet
  <2> QED
    BY <2>2 DEF StartInv, InGuard
<1>3. SetInv
  BY DEF SetInv, Active, ReadyHasData
<1>4. GuardInv
  BY RangeEmpty DEF GuardInv, InGuard, QueueInv
<1>5. OnceInv
  <2>1. Completions = <<>>
    BY DEF Completions
  <2> QED
    BY <2>1 DEF OnceInv
<1>6. RefsInv
  <2>1. \A u \in Updates : Done(u) = {}
    BY DEF Done
  <2>2. \A u \in Updates : refs[u] + Cardinality(Done(u)) = counted[u]
    <3>1. \A u \in Updates : Cardinality(Done(u)) = 0 /\ refs[u] = 0 /\ counted[u] = 0
      BY <2>1, FS_EmptySet
    <3> QED
      BY <3>1
  <2> QED
    BY <2>2, RangeEmpty DEF RefsInv
<1>7. SentInv
  BY DEF SentInv
<1>8. OrderInv
  BY DEF OrderInv, FollowsMain
<1> QED
  BY <1>1, <1>2, <1>3, <1>4, <1>5, <1>6, <1>7, <1>8 DEF IInv

(* Every step keeps the inductive invariant: the parts put together.       *)
LEMMA IInvStep == IInv /\ [Next]_vars => IInv'
BY TypeStep, StartInvStep, SetInvStep, GuardInvStep, OnceInvStep, RefsInvStep, SentInvStep,
   OrderInvStep DEF IInv

(* The inductive invariant holds in every reachable state, for any number  *)
(* of workers and updates.                                                 *)
THEOREM Inductive == Spec => []IInv
BY IInvInit, IInvStep, PTL DEF Spec

(* Whatever the interleaving of the registrations with the walks of the    *)
(* main thread, a worker that registered before the set's walk ended has   *)
(* the slot's object when it is ready, finds every update's guard and the  *)
(* object when it runs it, and applies the updates in the main thread's    *)
(* order without a gap (rp_slot_set, run_on_all_threads_completed).        *)
THEOREM SlotsAlwaysAgree == Spec => []SlotsAgree
<1>1. ASSUME IInv PROVE SlotsAgree
  <2> USE <1>1 DEF IInv
  <2>1. UpdatesAreDefined
    <3> SUFFICES ASSUME NEW w \in Workers \ late, Looping(w), queue[w] # <<>>,
                        Head(queue[w]) \in Updates, ~Raced
                 PROVE  Defined(w, Head(queue[w]))
      BY DEF UpdatesAreDefined
    <3>1. queue[w] \in Seq(Messages)
      BY Distinct DEF TypeOK
    <3>2. Head(queue[w]) = queue[w][1]
      BY <3>1
    <3> QED
      BY <3>2, ReceivesDefined
  <2>2. SameOrder
    <3> SUFFICES ASSUME NEW w \in Workers \ late, ~Raced
                 PROVE  IsPrefix(applied[w], applied[Main])
      BY DEF SameOrder
    <3> DEFINE a == applied[w]
               b == applied[Main]
    <3>1. a \in Seq(Updates) /\ b \in Seq(Updates)
      BY Distinct DEF TypeOK
    <3>2. Len(a) <= Len(b) /\ \A k \in DOMAIN a : a[k] = b[k]
      BY DEF OrderInv, FollowsMain
    <3> HIDE DEF a, b
    <3>3. SubSeq(a, 1, Len(a)) = SubSeq(b, 1, Len(a))
      BY <3>1, <3>2
    <3> QED
      BY <3>2, <3>3 DEF IsPrefix, a, b
  <2> QED
    BY <2>1, <2>2 DEF SlotsAgree, SetInv
<1> QED
  BY <1>1, Inductive, PTL

(* A completion is run at most once, and, unless a worker registered while *)
(* the guard was being posted, after the callback has returned on every    *)
(* thread that the guard was sent to (rp_cb_guard_new, rp_cb_guard_cb).    *)
THEOREM CompletesAfterAll == Spec => []CompletionAfterAll
<1>1. ASSUME IInv PROVE CompletionAfterAll
  <2> USE <1>1 DEF IInv
  <2>1. completed \in Seq(Messages) /\ queue[Main] \in Seq(Messages)
    BY Distinct, SeqMonotonic DEF TypeOK
  <2>2. \A i \in DOMAIN completed : i \in DOMAIN Completions /\ Completions[i] = completed[i]
    BY <2>1 DEF Completions
  <2>3. \A i, j \in DOMAIN completed : completed[i] = completed[j] => i = j
    BY <2>2 DEF OnceInv
  <2>4. ASSUME ~Raced, NEW u \in Range(completed)
        PROVE  /\ \A w \in guarded[u] : u \in Range(applied[w]) /\ holding[w] # u
               /\ Cardinality(guarded[u]) = counted[u]
    <3>1. u \in Updates /\ refs[u] = 0
      BY <2>2 DEF Range, OnceInv
    <3>2. \A w \in guarded[u] : w \in Done(u)
      <4>1. ASSUME NEW w \in guarded[u], w \notin Done(u) PROVE refs[u] > 0
        BY <2>4, <3>1, <4>1, SentHasRef
      <4> QED
        BY <3>1, <4>1
    <3>3. Done(u) = guarded[u]
      BY <3>2 DEF Done
    <3>4. refs[u] + Cardinality(Done(u)) = counted[u]
      BY <2>4, <3>1 DEF RefsInv
    <3>5. Cardinality(guarded[u]) \in Nat
      BY <3>1, WorkerSets DEF TypeOK
    <3>6. Cardinality(guarded[u]) = counted[u]
      BY <3>1, <3>3, <3>4, <3>5
    <3> QED
      BY <3>2, <3>6 DEF Done
  <2> QED
    BY <2>3, <2>4 DEF CompletionAfterAll
<1> QED
  BY <1>1, Inductive, PTL
=============================================================================
